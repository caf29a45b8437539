------------------------ MODULE XaTransaction_proofs ------------------------
(***************************************************************************)
(* Theorems about XaTransaction, for any number of connections and         *)
(* servers, and any number of faults: no member is committed while another *)
(* is aborted, and what stays prepared is known.                           *)
(***************************************************************************)
EXTENDS XaTransaction, SequenceTheorems, TLAPS

-----------------------------------------------------------------------------
(* The inductive invariant: what each loop has established behind it, and  *)
(* what it finds ahead.                                                    *)

Behind(k) == {cnc_list[j] : j \in {i \in DOMAIN cnc_list : i < k}}
Ahead(k)  == {cnc_list[j] : j \in {i \in DOMAIN cnc_list : i >= k}}
Listed    == {cnc_list[j] : j \in DOMAIN cnc_list}

PreparedOf == {p.of : p \in prepared}
AllActive(C)   == \A c \in C : session[c] = "active"
NoneActive(C)  == \A c \in C : session[c] = "none"
Untouched      == prepared = {} /\ \A c \in Cncs : fate[c] = "none"
NoneCommitted(C) == \A c \in C : fate[c] # "committed"
NoneAborted(C)   == \A c \in C : fate[c] # "aborted"

\* A connection is registered once.
ListedOnce == \A j, k \in DOMAIN cnc_list : cnc_list[j] = cnc_list[k] => j = k

\* The servers know the identifier of what they prepared.
PreparedKnown == \A p \in prepared : p.server = ServerOf[p.of] /\ p.gid = 1

\* Which calls belong to which phase.
PhaseOfCall ==
    /\ call.at \in {"begin", "undo begin"} => phase = "new"
    /\ call.at \in {"prepare", "undo prepare", "undo commit", "commit", "rollback"}
         => phase = "begun"
    /\ call.at = "recover" => phase \in {"committed", "restarted"}
    /\ call.at \in {"begin", "prepare", "undo commit", "commit", "rollback", "recover"}
         => call.k \in 1 .. Len(cnc_list) + 1
    /\ call.at \in {"undo begin", "undo prepare"} => call.k \in 0 .. Len(cnc_list)
    /\ call.at = "none" => call = Idle

\* The members, from begin() to the end of commit() or rollback().
MembersListed == phase \in {"new", "begun"} => members = IF phase = "new" /\ call.at = "none"
                                                         THEN {} ELSE Listed

NonXaOnly == non_xa_cnc # NoCnc => non_xa_cnc \in NonXa

InBegin ==
    /\ phase = "new" /\ call.at \in {"none", "begin"} => Untouched
    /\ call.at = "begin" => AllActive(Behind(call.k))
    /\ call.at = "undo begin" => prepared = {} /\ NoneCommitted(Cncs)
    /\ phase = "begun" /\ call.at = "none" => Untouched /\ AllActive(Listed)

InPrepare ==
    /\ call.at = "prepare" /\ Skipped => Untouched
    /\ call.at = "prepare" /\ ~Skipped =>
         /\ \A c \in Cncs : fate[c] = "none"
         /\ NoneActive(Behind(call.k)) /\ Behind(call.k) \cap NonXa = {}
         /\ AllActive(Ahead(call.k))
         /\ PreparedOf \subseteq Behind(call.k)
    /\ call.at = "undo prepare" =>
         /\ NoneCommitted(Cncs) /\ NoneActive(Behind(call.k + 1))
         /\ PreparedOf \subseteq Behind(call.k + 1)

InCommit ==
    /\ call.at = "undo commit" =>
         /\ NoneCommitted(Listed) /\ NoneActive(Listed)
         /\ PreparedOf \subseteq Ahead(call.k)
    /\ call.at = "commit" /\ Skipped => Untouched
    /\ call.at = "commit" /\ ~Skipped =>
         /\ NoneAborted(Listed) /\ NoneActive(Listed)
         /\ PreparedOf \subseteq Ahead(call.k) \cup to_recover
    /\ call.at = "rollback" => prepared = {} /\ NoneCommitted(Cncs)

XaParts == /\ ListedOnce /\ PreparedKnown /\ PhaseOfCall /\ MembersListed /\ NonXaOnly
           /\ InBegin /\ InPrepare /\ InCommit

XaInv == TypeOK /\ XaParts /\ AtomicOutcome /\ NothingPreparedIsForgotten

-----------------------------------------------------------------------------
(* The list of connections.                                                *)

\* The types, and what a loop leaves behind and has ahead.
LEMMA Facts ==
    ASSUME XaInv
    PROVE  /\ TypeOK /\ XaParts /\ AtomicOutcome /\ NothingPreparedIsForgotten
           /\ cnc_list \in Seq(Cncs) /\ Len(cnc_list) \in Nat /\ DOMAIN cnc_list = 1 .. Len(cnc_list)
           /\ session \in [Cncs -> {"none", "active"}]
           /\ fate \in [Cncs -> {"none", "committed", "aborted"}]
           /\ prepared \subseteq [server : Servers, gid : {1}, of : Cncs]
           /\ call.k \in Nat /\ NoCnc \notin Cncs
<1>1. TypeOK /\ XaParts /\ AtomicOutcome /\ NothingPreparedIsForgotten
  BY DEF XaInv
<1>2. cnc_list \in Seq(Cncs)
  BY <1>1 DEF TypeOK
<1>3. Len(cnc_list) \in Nat /\ DOMAIN cnc_list = 1 .. Len(cnc_list)
  BY <1>2, LenProperties
<1> QED BY <1>1, <1>2, <1>3, XaAssumption DEF TypeOK

\* The connections behind and ahead of a position of the list.
LEMMA Lists ==
    ASSUME XaInv
    PROVE  /\ Listed \subseteq Cncs
           /\ \A k : Behind(k) \subseteq Listed /\ Ahead(k) \subseteq Listed
           /\ Behind(1) = {} /\ Ahead(1) = Listed
           /\ Behind(Len(cnc_list) + 1) = Listed /\ Ahead(Len(cnc_list) + 1) = {}
           /\ \A k \in DOMAIN cnc_list :
                /\ cnc_list[k] \in Cncs /\ cnc_list[k] \in Listed
                /\ Behind(k + 1) = Behind(k) \cup {cnc_list[k]}
                /\ Ahead(k) = Ahead(k + 1) \cup {cnc_list[k]}
                /\ cnc_list[k] \notin Ahead(k + 1)
<1>0. /\ cnc_list \in Seq(Cncs) /\ Len(cnc_list) \in Nat /\ DOMAIN cnc_list = 1 .. Len(cnc_list)
      /\ ListedOnce
  BY Facts DEF XaParts
<1>1. \A k \in DOMAIN cnc_list : cnc_list[k] \in Cncs
  BY <1>0, ElementOfSeq
<1>2. Listed \subseteq Cncs /\ \A k : Behind(k) \subseteq Listed /\ Ahead(k) \subseteq Listed
  BY <1>1 DEF Listed, Behind, Ahead
<1>3. Behind(1) = {} /\ Ahead(1) = Listed
  BY <1>0 DEF Listed, Behind, Ahead
<1>4. Behind(Len(cnc_list) + 1) = Listed /\ Ahead(Len(cnc_list) + 1) = {}
  BY <1>0 DEF Listed, Behind, Ahead
<1>5. ASSUME NEW k \in DOMAIN cnc_list
      PROVE  /\ cnc_list[k] \in Listed
             /\ Behind(k + 1) = Behind(k) \cup {cnc_list[k]}
             /\ Ahead(k) = Ahead(k + 1) \cup {cnc_list[k]}
             /\ cnc_list[k] \notin Ahead(k + 1)
  <2>1. \A i \in DOMAIN cnc_list : (i < k + 1 <=> i < k \/ i = k) /\ (i >= k <=> i >= k + 1 \/ i = k)
    BY <1>0
  <2>2. cnc_list[k] \in Listed
    BY DEF Listed
  <2>3. Behind(k + 1) = Behind(k) \cup {cnc_list[k]}
    BY <2>1 DEF Behind
  <2>4. Ahead(k) = Ahead(k + 1) \cup {cnc_list[k]}
    BY <2>1 DEF Ahead
  <2>5. cnc_list[k] \notin Ahead(k + 1)
    <3>1. SUFFICES ASSUME NEW i \in DOMAIN cnc_list, i >= k + 1, cnc_list[i] = cnc_list[k]
                   PROVE  FALSE
      BY DEF Ahead
    <3>2. i = k
      BY <1>0, <3>1 DEF ListedOnce
    <3> QED BY <1>0, <3>1, <3>2
  <2> QED BY <2>2, <2>3, <2>4, <2>5
<1> QED BY <1>1, <1>2, <1>3, <1>4, <1>5

\* A loop forward, where it is and where it ends; and a loop back.
LEMMA Position ==
    ASSUME XaInv
    PROVE  /\ call.at \in {"begin", "prepare", "undo commit", "commit", "rollback", "recover"} =>
                /\ AtEnd => Behind(call.k) = Listed /\ Ahead(call.k) = {}
                /\ ~AtEnd => call.k \in DOMAIN cnc_list
           /\ call.at \in {"undo begin", "undo prepare"} /\ call.k > 0 =>
                call.k \in DOMAIN cnc_list
           /\ call.k \in DOMAIN cnc_list =>
                /\ Current \in Cncs /\ Current \in Listed
                /\ call.k <= Len(cnc_list) + 1 /\ call.k + 1 <= Len(cnc_list) + 1
                /\ call.k \in 0 .. Len(cnc_list) /\ call.k - 1 \in 0 .. Len(cnc_list)
                /\ call.k - 1 <= Len(cnc_list) + 1 /\ (call.k - 1) + 1 = call.k
                /\ call.k \in 1 .. Len(cnc_list) + 1 /\ call.k + 1 \in 1 .. Len(cnc_list) + 1
                /\ Behind(call.k + 1) = Behind(call.k) \cup {Current}
                /\ Ahead(call.k) = Ahead(call.k + 1) \cup {Current}
                /\ Current \notin Ahead(call.k + 1)
<1>0. /\ Len(cnc_list) \in Nat /\ DOMAIN cnc_list = 1 .. Len(cnc_list) /\ PhaseOfCall
  BY Facts DEF XaParts
<1>1. ASSUME call.at \in {"begin", "prepare", "undo commit", "commit", "rollback", "recover"}
      PROVE  /\ AtEnd => Behind(call.k) = Listed /\ Ahead(call.k) = {}
             /\ ~AtEnd => call.k \in DOMAIN cnc_list
  <2>1. call.k \in 1 .. Len(cnc_list) + 1
    BY <1>0, <1>1 DEF PhaseOfCall
  <2>2. ~AtEnd => call.k \in 1 .. Len(cnc_list)
    BY <1>0, <2>1 DEF AtEnd
  <2> QED BY <1>0, <2>2, Lists DEF AtEnd
<1>2. ASSUME call.at \in {"undo begin", "undo prepare"}, call.k > 0
      PROVE  call.k \in DOMAIN cnc_list
  <2>1. call.k \in 0 .. Len(cnc_list)
    BY <1>0, <1>2 DEF PhaseOfCall
  <2>2. \A k \in 0 .. Len(cnc_list) : k > 0 => k \in 1 .. Len(cnc_list)
    BY <1>0
  <2> QED BY <1>0, <1>2, <2>1, <2>2
<1>3. ASSUME call.k \in DOMAIN cnc_list
      PROVE  /\ Current \in Cncs /\ Current \in Listed
             /\ call.k <= Len(cnc_list) + 1 /\ call.k + 1 <= Len(cnc_list) + 1
             /\ call.k \in 0 .. Len(cnc_list) /\ call.k - 1 \in 0 .. Len(cnc_list)
             /\ call.k - 1 <= Len(cnc_list) + 1 /\ (call.k - 1) + 1 = call.k
             /\ call.k \in 1 .. Len(cnc_list) + 1 /\ call.k + 1 \in 1 .. Len(cnc_list) + 1
             /\ Behind(call.k + 1) = Behind(call.k) \cup {Current}
             /\ Ahead(call.k) = Ahead(call.k + 1) \cup {Current}
             /\ Current \notin Ahead(call.k + 1)
  <2>1. /\ call.k <= Len(cnc_list) + 1 /\ call.k + 1 <= Len(cnc_list) + 1
        /\ call.k \in 0 .. Len(cnc_list) /\ call.k - 1 \in 0 .. Len(cnc_list)
        /\ call.k - 1 <= Len(cnc_list) + 1 /\ (call.k - 1) + 1 = call.k
        /\ call.k \in 1 .. Len(cnc_list) + 1 /\ call.k + 1 \in 1 .. Len(cnc_list) + 1
    BY <1>0, <1>3
  <2>2. PICK k \in DOMAIN cnc_list : k = call.k
    BY <1>3
  <2> QED BY <2>1, <2>2, Lists DEF Current
<1> QED BY <1>1, <1>2, <1>3

\* The same list after a step.
LEMMA SameLists ==
    ASSUME UNCHANGED object
    PROVE  /\ Listed' = Listed /\ (Skipped' <=> Skipped)
           /\ Behind(call.k)' = Behind(call'.k) /\ Ahead(call.k)' = Ahead(call'.k)
           /\ Behind(call.k + 1)' = Behind(call'.k + 1)
           /\ cnc_list' = cnc_list /\ non_xa_cnc' = non_xa_cnc
           /\ (ListedOnce' <=> ListedOnce) /\ (NonXaOnly' <=> NonXaOnly)
BY DEF object, Listed, Skipped, Behind, Ahead, ListedOnce, NonXaOnly

Places == {"none", "begin", "undo begin", "prepare", "undo prepare", "undo commit",
           "commit", "rollback", "recover"}
Calls  == [at : Places, k : Nat, retval : BOOLEAN]

\* Where a call goes.
LEMMA Moves ==
    ASSUME TypeOK
    PROVE  /\ Forward => /\ call'.at = call.at /\ call'.k = call.k + 1 /\ call' \in Calls
                         /\ call'.retval = call.retval
           /\ Back /\ call.k > 0 => /\ call'.at = call.at /\ call'.k = call.k - 1 /\ call' \in Calls
           /\ \A w \in Places : Turn(w) => call'.at = w /\ call'.k = call.k /\ call' \in Calls
           /\ \A w \in Places : Enter(w) => call'.at = w /\ call'.k = 1 /\ call' \in Calls
           /\ \A w : Return(w) => call' = Idle /\ call'.at = "none" /\ phase' = w /\ call' \in Calls
<1>1. call \in Calls /\ call.k \in Nat
  BY DEF TypeOK, Calls, Places
<1>2. Forward => /\ call'.at = call.at /\ call'.k = call.k + 1 /\ call' \in Calls
                 /\ call'.retval = call.retval
  BY <1>1 DEF Forward, Calls
<1>3. Back /\ call.k > 0 => call'.at = call.at /\ call'.k = call.k - 1 /\ call' \in Calls
  <2>1. call.k > 0 => call.k - 1 \in Nat
    BY <1>1
  <2> QED BY <1>1, <2>1 DEF Back, Calls
<1>4. \A w \in Places : Turn(w) => call'.at = w /\ call'.k = call.k /\ call' \in Calls
  BY <1>1 DEF Turn, Calls
<1>5. \A w \in Places : Enter(w) => call'.at = w /\ call'.k = 1 /\ call' \in Calls
  BY DEF Enter, Calls
<1>6. \A w : Return(w) => call' = Idle /\ call'.at = "none" /\ phase' = w /\ call' \in Calls
  BY DEF Return, Idle, Calls, Places
<1> QED BY <1>2, <1>3, <1>4, <1>5, <1>6

\* What of the state a step may change must keep its type.
LEMMA TypeKeeps ==
    ASSUME TypeOK, UNCHANGED object, members' \subseteq Cncs,
           session' \in [Cncs -> {"none", "active"}],
           prepared' \subseteq [server : Servers, gid : {1}, of : Cncs],
           fate' \in [Cncs -> {"none", "committed", "aborted"}],
           faults' \in 0 .. MaxFaults, to_recover' \subseteq Cncs,
           phase' \in {"new", "begun", "begin failed", "committed", "commit failed", "rolled back",
                       "recovered", "recovery failed", "restarted", "crashed"},
           call' \in Calls, call'.at # "none" => call'.k <= Len(cnc_list) + 1
    PROVE  TypeOK'
BY DEF TypeOK, object, Calls, Places

\* A provider call fails within the bound on faults.
LEMMA FaultsBounded ==
    ASSUME TypeOK, NEW able, NEW ok, Outcome(able, ok)
    PROVE  faults' \in 0 .. MaxFaults
<1>1. faults \in 0 .. MaxFaults /\ MaxFaults \in Nat
  BY XaAssumption DEF TypeOK
<1>2. faults' = faults \/ (faults < MaxFaults /\ faults' = faults + 1)
  BY DEF Outcome
<1> QED BY <1>1, <1>2

-----------------------------------------------------------------------------
(* The servers.                                                            *)

\* COMMIT PREPARED and ROLLBACK PREPARED.
LEMMA Finished ==
    ASSUME XaInv, NEW c \in Cncs, NEW ok \in BOOLEAN, NEW outcome \in {"committed", "aborted"},
           Finish(c, ok, outcome)
    PROVE  /\ prepared' \subseteq prepared /\ PreparedKnown'
           /\ prepared' \subseteq [server : Servers, gid : {1}, of : Cncs]
           /\ PreparedOf' \subseteq PreparedOf
           /\ fate' \in [Cncs -> {"none", "committed", "aborted"}] /\ session' = session
           /\ \A d \in Cncs : fate'[d] = fate[d] \/ (fate'[d] = outcome /\ d \in PreparedOf)
           /\ ok => c \notin PreparedOf'
<1>0. /\ PreparedKnown /\ prepared \subseteq [server : Servers, gid : {1}, of : Cncs]
      /\ fate \in [Cncs -> {"none", "committed", "aborted"}]
  BY Facts DEF XaParts
<1>1. /\ prepared' = IF ok THEN prepared \ Prepared(c) ELSE prepared
      /\ fate' = IF ok THEN [d \in Cncs |-> IF \E p \in Prepared(c) : p.of = d
                                            THEN outcome ELSE fate[d]]
                 ELSE fate
      /\ session' = session
  BY DEF Finish
<1>2. prepared' \subseteq prepared
  BY <1>1
<1>3. PreparedKnown'
  BY <1>0, <1>2 DEF PreparedKnown
<1>4. Prepared(c) \subseteq prepared
  BY DEF Prepared
<1>5. fate' \in [Cncs -> {"none", "committed", "aborted"}]
  BY <1>0, <1>1
<1>6. \A d \in Cncs : fate'[d] = fate[d] \/ (fate'[d] = outcome /\ d \in PreparedOf)
  BY <1>0, <1>1, <1>4 DEF PreparedOf
<1>7. ok => c \notin PreparedOf'
  <2> SUFFICES ASSUME ok, NEW p \in prepared', p.of = c PROVE FALSE
    BY DEF PreparedOf
  <2>1. p \in prepared /\ p \notin Prepared(c)
    BY <1>1
  <2>2. p.server = ServerOf[c] /\ p.gid = 1
    BY <1>0, <2>1 DEF PreparedKnown
  <2> QED BY <2>1, <2>2 DEF Prepared, IdToString, Xid
<1> QED BY <1>0, <1>1, <1>2, <1>3, <1>5, <1>6, <1>7 DEF PreparedOf

\* A rollback on a connection that is in no transaction leaves nothing prepared for it.
LEMMA RolledBack ==
    ASSUME XaInv, NEW c \in Cncs, XaRollback(c)
    PROVE  /\ prepared' \subseteq prepared /\ PreparedKnown'
           /\ prepared' \subseteq [server : Servers, gid : {1}, of : Cncs]
           /\ PreparedOf' \subseteq PreparedOf
           /\ fate' \in [Cncs -> {"none", "committed", "aborted"}]
           /\ \A d \in Cncs : fate'[d] = fate[d] \/ fate'[d] = "aborted"
           /\ session[c] = "none" => c \notin PreparedOf'
           /\ UNCHANGED <<session, faults>>
<1>1. Finish(c, CanFinish(c), "aborted") /\ UNCHANGED faults /\ CanFinish(c) \in BOOLEAN
  BY DEF XaRollback, CanFinish
<1>2. /\ prepared' \subseteq prepared /\ PreparedKnown'
      /\ prepared' \subseteq [server : Servers, gid : {1}, of : Cncs]
      /\ PreparedOf' \subseteq PreparedOf
      /\ fate' \in [Cncs -> {"none", "committed", "aborted"}] /\ session' = session
      /\ \A d \in Cncs : fate'[d] = fate[d] \/ (fate'[d] = "aborted" /\ d \in PreparedOf)
      /\ CanFinish(c) => c \notin PreparedOf'
  BY <1>1, Finished
<1>3. session[c] = "none" => c \notin PreparedOf'
  <2>1. ASSUME Prepared(c) = {} PROVE c \notin PreparedOf
    <3> SUFFICES ASSUME NEW p \in prepared, p.of = c PROVE FALSE
      BY DEF PreparedOf
    <3>1. p.server = ServerOf[c] /\ p.gid = 1
      BY Facts DEF XaParts, PreparedKnown
    <3> QED BY <2>1, <3>1 DEF Prepared, IdToString, Xid
  <2> QED BY <1>2, <2>1 DEF CanFinish
<1> QED BY <1>1, <1>2, <1>3

\* Either half of an undo: nothing is prepared, and it stays so.
LEMMA Undone ==
    ASSUME XaInv, NEW c \in Cncs, Undo(c), prepared = {}
    PROVE  /\ prepared' = {} /\ faults' = faults
           /\ session' \in [Cncs -> {"none", "active"}]
           /\ fate' \in [Cncs -> {"none", "committed", "aborted"}]
           /\ \A d \in Cncs : fate'[d] = fate[d] \/ fate'[d] = "aborted"
<1>0. /\ session \in [Cncs -> {"none", "active"}]
      /\ fate \in [Cncs -> {"none", "committed", "aborted"}]
  BY Facts
<1>1. CASE RollbackTransaction(c)
  BY <1>0, <1>1 DEF RollbackTransaction
<1>2. CASE XaRollback(c)
  BY <1>0, <1>2, RolledBack
<1> QED BY <1>1, <1>2 DEF Undo

-----------------------------------------------------------------------------
(* Registration, and transactions of the user's own.                       *)

\* A connection is added that was not there.
LEMMA RegisterKeeps ==
    ASSUME XaInv, NEW c \in Cncs, Register(c)
    PROVE  XaInv'
<1>0. /\ TypeOK /\ XaParts /\ AtomicOutcome /\ NothingPreparedIsForgotten
      /\ cnc_list \in Seq(Cncs) /\ Len(cnc_list) \in Nat /\ DOMAIN cnc_list = 1 .. Len(cnc_list)
  BY Facts
<1>1. /\ call = Idle /\ call.at = "none" /\ phase \in {"new", "restarted"} /\ ~IsMember(c)
      /\ non_xa_cnc' = IF c \in NonXa THEN c ELSE non_xa_cnc
      /\ cnc_list' = <<c>> \o cnc_list
      /\ UNCHANGED <<session, prepared, fate, faults, call, to_recover, phase, members>>
  BY DEF Register, server, Idle
<1>2. /\ cnc_list' \in Seq(Cncs) /\ Len(cnc_list') = Len(cnc_list) + 1 /\ cnc_list'[1] = c
      /\ \A k \in 2 .. Len(cnc_list) + 1 : k - 1 \in DOMAIN cnc_list /\ cnc_list'[k] = cnc_list[k - 1]
      /\ DOMAIN cnc_list' = 1 .. Len(cnc_list) + 1
  <2>1. <<c>> \in Seq(Cncs) /\ Len(<<c>>) = 1 /\ <<c>>[1] = c
    OBVIOUS
  <2> QED BY <1>0, <1>1, <2>1, ConcatProperties, LenProperties
<1>3. ListedOnce'
  <2> SUFFICES ASSUME NEW j \in DOMAIN cnc_list', NEW k \in DOMAIN cnc_list', cnc_list'[j] = cnc_list'[k],
                      j # 1 \/ k # 1
               PROVE  j = k
    BY DEF ListedOnce
  <2>1. \A i \in DOMAIN cnc_list : cnc_list[i] # c
    BY <1>1 DEF IsMember
  <2>2. j \in 2 .. Len(cnc_list) + 1 /\ k \in 2 .. Len(cnc_list) + 1
    BY <1>2, <2>1
  <2>3. cnc_list[j - 1] = cnc_list[k - 1] /\ j - 1 \in DOMAIN cnc_list /\ k - 1 \in DOMAIN cnc_list
    BY <1>2, <2>2
  <2>4. j - 1 = k - 1
    BY <1>0, <2>3 DEF XaParts, ListedOnce
  <2> QED BY <2>2, <2>4
<1>4. TypeOK'
  BY <1>0, <1>1, <1>2 DEF TypeOK
<1>5. XaParts'
  BY <1>0, <1>1, <1>3 DEF XaParts, PreparedKnown, PhaseOfCall, MembersListed, NonXaOnly, InBegin,
                          InPrepare, InCommit, Untouched
<1> QED BY <1>0, <1>1, <1>4, <1>5 DEF XaInv, AtomicOutcome, NothingPreparedIsForgotten

\* A connection is removed from its place.
LEMMA UnregisterKeeps ==
    ASSUME XaInv, NEW c \in Cncs, Unregister(c)
    PROVE  XaInv'
<1>0. /\ TypeOK /\ XaParts /\ AtomicOutcome /\ NothingPreparedIsForgotten
      /\ cnc_list \in Seq(Cncs) /\ Len(cnc_list) \in Nat /\ DOMAIN cnc_list = 1 .. Len(cnc_list)
  BY Facts
<1>1. /\ call = Idle /\ call.at = "none" /\ phase = "new"
      /\ UNCHANGED <<non_xa_cnc, session, prepared, fate, faults, call, to_recover, phase, members>>
  BY DEF Unregister, server, Idle
<1>2. PICK n \in DOMAIN cnc_list :
         cnc_list' = SubSeq(cnc_list, 1, n - 1) \o SubSeq(cnc_list, n + 1, Len(cnc_list))
  BY DEF Unregister, RemoveAt
<1> DEFINE p == SubSeq(cnc_list, 1, n - 1)
           q == SubSeq(cnc_list, n + 1, Len(cnc_list))
           old(k) == IF k < n THEN k ELSE k + 1
<1>3. /\ p \in Seq(Cncs) /\ Len(p) = n - 1 /\ \A k \in 1 .. n - 1 : p[k] = cnc_list[k]
      /\ q \in Seq(Cncs) /\ Len(q) = Len(cnc_list) - n
      /\ \A k \in 1 .. Len(cnc_list) - n : q[k] = cnc_list[n + k]
  <2>1. n \in 1 .. Len(cnc_list) /\ \A k \in 1 .. Len(cnc_list) : cnc_list[k] \in Cncs
    BY <1>0, ElementOfSeq
  <2> QED BY <1>0, <2>1, SubSeqProperties, SMTT(30)
<1> HIDE DEF p, q
<1>4. /\ cnc_list' \in Seq(Cncs) /\ Len(cnc_list') = Len(cnc_list) - 1
      /\ DOMAIN cnc_list' = 1 .. Len(cnc_list) - 1
      /\ \A k \in DOMAIN cnc_list' : old(k) \in DOMAIN cnc_list /\ cnc_list'[k] = cnc_list[old(k)]
  <2>1. /\ cnc_list' = p \o q /\ n \in 1 .. Len(cnc_list)
    BY <1>0, <1>2 DEF p, q
  <2>2. /\ cnc_list' \in Seq(Cncs) /\ Len(cnc_list') = Len(cnc_list) - 1
        /\ \A k \in 1 .. Len(cnc_list) - 1 : cnc_list'[k] = IF k <= n - 1 THEN p[k] ELSE q[k - (n - 1)]
    <3>1. /\ p \o q \in Seq(Cncs) /\ Len(p \o q) = Len(p) + Len(q)
          /\ \A k \in 1 .. Len(p) + Len(q) : (p \o q)[k] = IF k <= Len(p) THEN p[k] ELSE q[k - Len(p)]
      BY <1>3, ConcatProperties
    <3>2. Len(p) + Len(q) = Len(cnc_list) - 1
      <4>1. n \in Int /\ Len(cnc_list) \in Int
        BY <1>0, <2>1
      <4> QED BY <1>3, <4>1
    <3> QED BY <1>3, <2>1, <3>1, <3>2
  <2>3. DOMAIN cnc_list' = 1 .. Len(cnc_list) - 1
    BY <2>2, LenProperties
  <2>4. ASSUME NEW k \in 1 .. Len(cnc_list) - 1
        PROVE  old(k) \in 1 .. Len(cnc_list) /\ cnc_list'[k] = cnc_list[old(k)]
    <3>0. /\ k \in Int /\ n \in Int /\ Len(cnc_list) \in Int /\ 1 <= n /\ n <= Len(cnc_list)
          /\ 1 <= k /\ k <= Len(cnc_list) - 1
      BY <1>0, <2>1
    <3>1. CASE k < n
      <4>1. k \in 1 .. n - 1 /\ k <= n - 1 /\ k \in 1 .. Len(cnc_list)
        BY <3>0, <3>1
      <4> QED BY <1>3, <2>2, <3>1, <4>1
    <3>2. CASE ~(k < n)
      <4>1. /\ k - (n - 1) \in 1 .. Len(cnc_list) - n /\ n + (k - (n - 1)) = k + 1 /\ ~(k <= n - 1)
            /\ k + 1 \in 1 .. Len(cnc_list)
        BY <3>0, <3>2
      <4>2. q[k - (n - 1)] = cnc_list[k + 1]
        BY <1>3, <4>1
      <4> QED BY <2>2, <3>2, <4>1, <4>2
    <3> QED BY <3>1, <3>2
  <2> HIDE DEF old
  <2> QED BY <1>0, <2>2, <2>3, <2>4
<1>5. ListedOnce'
  <2> SUFFICES ASSUME NEW j \in DOMAIN cnc_list', NEW k \in DOMAIN cnc_list', cnc_list'[j] = cnc_list'[k]
               PROVE  j = k
    BY DEF ListedOnce
  <2>1. old(j) = old(k)
    <3>1. /\ old(j) \in DOMAIN cnc_list /\ old(k) \in DOMAIN cnc_list
          /\ cnc_list[old(j)] = cnc_list[old(k)]
      BY <1>4
    <3> HIDE DEF old
    <3> QED BY <1>0, <3>1 DEF XaParts, ListedOnce
  <2> QED BY <1>0, <1>4, <2>1
<1>6. TypeOK'
  BY <1>0, <1>1, <1>4 DEF TypeOK
<1>7. XaParts'
  BY <1>0, <1>1, <1>5 DEF XaParts, PreparedKnown, PhaseOfCall, MembersListed, NonXaOnly, InBegin,
                          InPrepare, InCommit, Untouched
<1> QED BY <1>0, <1>1, <1>6, <1>7 DEF XaInv, AtomicOutcome, NothingPreparedIsForgotten

\* The connection is not in the list.
LEMMA OwnTransactionKeeps ==
    ASSUME XaInv, NEW c \in Cncs, OwnTransaction(c)
    PROVE  XaInv'
<1>0. /\ TypeOK /\ XaParts /\ AtomicOutcome /\ NothingPreparedIsForgotten
      /\ session \in [Cncs -> {"none", "active"}]
  BY Facts
<1>1. /\ call = Idle /\ call.at = "none" /\ c \notin Listed
      /\ session' = [session EXCEPT ![c] = "active"]
      /\ UNCHANGED <<cnc_list, non_xa_cnc, prepared, fate, faults, call, to_recover, phase, members>>
  BY DEF OwnTransaction, object, Idle, IsMember, Listed
<1>2. Listed' = Listed /\ (ListedOnce' <=> ListedOnce) /\ (NonXaOnly' <=> NonXaOnly)
  BY <1>1, SameLists DEF object
<1>3. AllActive(Listed) => AllActive(Listed)'
  <2>1. \A d \in Listed : session'[d] = session[d]
    BY <1>0, <1>1, Lists
  <2> QED BY <1>2, <2>1 DEF AllActive
<1>4. TypeOK'
  BY <1>0, <1>1 DEF TypeOK
<1>5. XaParts'
  BY <1>0, <1>1, <1>2, <1>3 DEF XaParts, PreparedKnown, PhaseOfCall, MembersListed, InBegin,
                          InPrepare, InCommit, Untouched
<1> QED BY <1>0, <1>1, <1>4, <1>5 DEF XaInv, AtomicOutcome, NothingPreparedIsForgotten

-----------------------------------------------------------------------------
(* begin()                                                                 *)

\* What a step within a method must do: the list of members does not change.
LEMMA CallKeeps ==
    ASSUME XaInv, UNCHANGED object, members' = members, call.at # "none", TypeOK',
           phase' = "new" => phase = "new" /\ call'.at # "none",
           phase' = "begun" => phase \in {"new", "begun"},
           PreparedKnown', PhaseOfCall', InBegin', InPrepare', InCommit',
           \/ fate' = fate
           \/ phase \in {"new", "begun"} /\ (NoneCommitted(Listed)' \/ NoneAborted(Listed)'),
           NothingPreparedIsForgotten'
    PROVE  XaInv'
<1>0. /\ XaParts /\ AtomicOutcome /\ Listed' = Listed /\ ListedOnce' /\ NonXaOnly'
  BY Facts, SameLists DEF XaParts
<1>1. phase \in {"new", "begun"} => members = Listed
  BY <1>0 DEF XaParts, MembersListed
<1>2. MembersListed'
  BY <1>0, <1>1 DEF MembersListed
<1>3. AtomicOutcome'
  BY <1>0, <1>1 DEF AtomicOutcome, NoneCommitted, NoneAborted
<1> QED BY <1>0, <1>2, <1>3 DEF XaInv, XaParts

\* begin() notes its members, none of which has done anything yet.
LEMMA BeginKeeps ==
    ASSUME XaInv, Begin
    PROVE  XaInv'
<1>0. /\ TypeOK /\ XaParts /\ cnc_list \in Seq(Cncs) /\ Len(cnc_list) \in Nat
      /\ DOMAIN cnc_list = 1 .. Len(cnc_list)
  BY Facts
<1>1. /\ call = Idle /\ call.at = "none" /\ phase = "new" /\ Enter("begin")
      /\ members' = {c \in Cncs : IsMember(c)}
      /\ UNCHANGED object
      /\ UNCHANGED <<session, prepared, fate, faults, to_recover, phase>>
  BY DEF Begin, server, Idle
<1>2. call'.at = "begin" /\ call'.k = 1 /\ call' \in Calls
  BY <1>0, <1>1, Moves DEF Places
<1>3. /\ Listed' = Listed /\ ListedOnce' /\ NonXaOnly' /\ cnc_list' = cnc_list
      /\ non_xa_cnc' = non_xa_cnc /\ Behind(call.k)' = Behind(call'.k)
  BY <1>0, <1>1, SameLists DEF XaParts
<1>4. members' = Listed /\ Behind(1) = {}
  BY <1>1, Lists DEF Listed, IsMember
<1>5. Untouched
  BY <1>0, <1>1 DEF XaParts, InBegin
<1>6. TypeOK'
  <2>1. members' \subseteq Cncs /\ 1 <= Len(cnc_list) + 1
    BY <1>0, <1>1
  <2> QED BY <1>0, <1>1, <1>2, <2>1, TypeKeeps DEF TypeOK
<1>7. InBegin'
  BY <1>1, <1>2, <1>3, <1>4, <1>5 DEF InBegin, Untouched, AllActive
<1>8. PhaseOfCall'
  <2>1. 1 \in 1 .. Len(cnc_list) + 1
    BY <1>0
  <2> QED BY <1>1, <1>2, <1>3, <2>1 DEF PhaseOfCall
<1>9. XaParts'
  BY <1>0, <1>1, <1>2, <1>3, <1>4, <1>7, <1>8 DEF XaParts, PreparedKnown, MembersListed, InPrepare, InCommit
<1>10. AtomicOutcome' /\ NothingPreparedIsForgotten'
  <2>1. \A c \in members' : fate'[c] = "none"
    BY <1>1, <1>4, <1>5, Lists DEF Untouched
  <2> QED BY <1>1, <2>1 DEF AtomicOutcome, NothingPreparedIsForgotten
<1> QED BY <1>6, <1>9, <1>10 DEF XaInv

\* The connections behind are in the transaction.
LEMMA BeginStartKeeps ==
    ASSUME XaInv, BeginStart
    PROVE  XaInv'
<1>0. TypeOK /\ XaParts /\ session \in [Cncs -> {"none", "active"}]
  BY Facts
<1>1. /\ call.at = "begin" /\ ~AtEnd /\ phase = "new" /\ phase' = phase
      /\ UNCHANGED object /\ UNCHANGED <<prepared, fate, to_recover, members>>
  BY <1>0 DEF BeginStart, XaStart, At, XaParts, PhaseOfCall
<1>2. call.k \in DOMAIN cnc_list
  BY <1>1, Position
<1>3. PICK c \in Cncs : c = Current
  BY <1>2, Position
<1>4. /\ \/ /\ session' = [session EXCEPT ![c] = "active"]
            /\ call'.at = "begin" /\ call'.k = call.k + 1
         \/ /\ session' = session /\ call'.at = "undo begin" /\ call'.k = call.k
      /\ faults' \in 0 .. MaxFaults /\ call' \in Calls
  <2>1. PICK ok \in BOOLEAN : XaStart(c, ok) /\ (IF ok THEN Forward ELSE Turn("undo begin"))
    BY <1>3 DEF BeginStart
  <2>2. faults' \in 0 .. MaxFaults
    BY <1>0, <2>1, FaultsBounded DEF XaStart
  <2> QED BY <1>0, <1>1, <2>1, <2>2, Moves DEF XaStart, Places
<1>5. Untouched /\ AllActive(Behind(call.k))
  BY <1>0, <1>1 DEF XaParts, InBegin
<1>6. Behind(call.k)' = Behind(call'.k) /\ cnc_list' = cnc_list
  BY <1>1, SameLists
<1>7. TypeOK'
  <2>1. session' \in [Cncs -> {"none", "active"}]
    BY <1>0, <1>4
  <2>2. call'.k <= Len(cnc_list) + 1
    BY <1>2, <1>4, Position
  <2> QED BY <1>0, <1>1, <1>4, <2>1, <2>2, TypeKeeps DEF TypeOK
<1>8. InBegin'
  <2>1. ASSUME call'.at = "begin"
        PROVE  AllActive(Behind(call.k))'
    <3>1. Behind(call'.k) = Behind(call.k) \cup {c} /\ session' = [session EXCEPT ![c] = "active"]
      BY <1>2, <1>3, <1>4, <2>1, Position
    <3>2. \A d \in Behind(call.k) : d \in Cncs
      BY Lists
    <3>3. \A d \in Behind(call.k) \cup {c} : session'[d] = "active"
      BY <1>0, <1>5, <3>1, <3>2 DEF AllActive
    <3> QED BY <1>6, <3>1, <3>3 DEF AllActive
  <2> QED BY <1>1, <1>4, <1>5, <2>1 DEF InBegin, Untouched, NoneCommitted
<1>9. PhaseOfCall' /\ PreparedKnown'
  <2>1. PhaseOfCall'
    BY <1>1, <1>2, <1>4, <1>6, Position DEF PhaseOfCall
  <2> QED BY <1>0, <1>1, <2>1 DEF XaParts, PreparedKnown
<1>10. InPrepare' /\ InCommit' /\ NothingPreparedIsForgotten'
  BY <1>1, <1>4 DEF InPrepare, InCommit, NothingPreparedIsForgotten
<1> QED BY <1>1, <1>4, <1>7, <1>8, <1>9, <1>10, CallKeeps

\* Nothing was prepared yet.
LEMMA BeginUndoKeeps ==
    ASSUME XaInv, BeginUndo
    PROVE  XaInv'
<1>0. TypeOK /\ XaParts
  BY Facts
<1>1. /\ call.at = "undo begin" /\ call.k > 0 /\ phase = "new" /\ phase' = phase
      /\ UNCHANGED object /\ UNCHANGED <<to_recover, members>> /\ Undo(Current) /\ Back
  BY <1>0 DEF BeginUndo, At, XaParts, PhaseOfCall
<1>2. call.k \in DOMAIN cnc_list
  BY <1>1, Position
<1>3. call'.at = "undo begin" /\ call'.k = call.k - 1 /\ call' \in Calls
  BY <1>0, <1>1, Moves
<1>4. prepared = {} /\ NoneCommitted(Cncs)
  BY <1>0, <1>1 DEF XaParts, InBegin
<1>5. PICK c \in Cncs : c = Current
  BY <1>2, Position
<1>6. /\ prepared' = {} /\ faults' = faults
      /\ session' \in [Cncs -> {"none", "active"}]
      /\ fate' \in [Cncs -> {"none", "committed", "aborted"}]
      /\ \A d \in Cncs : fate'[d] = fate[d] \/ fate'[d] = "aborted"
  BY <1>1, <1>4, <1>5, Undone
<1>7. NoneCommitted(Cncs)'
  BY <1>4, <1>6 DEF NoneCommitted
<1>8. TypeOK'
  <2>1. call'.k <= Len(cnc_list) + 1
    BY <1>2, <1>3, Position
  <2> QED BY <1>0, <1>1, <1>3, <1>6, <2>1, TypeKeeps DEF TypeOK
<1>9. InBegin' /\ InPrepare' /\ InCommit' /\ PreparedKnown' /\ NothingPreparedIsForgotten'
  BY <1>1, <1>3, <1>6, <1>7 DEF InBegin, InPrepare, InCommit, PreparedKnown, NothingPreparedIsForgotten
<1>10. PhaseOfCall'
  <2>1. cnc_list' = cnc_list /\ call.k - 1 \in 0 .. Len(cnc_list)
    BY <1>1, <1>2, SameLists, Position
  <2> QED BY <1>1, <1>3, <2>1 DEF PhaseOfCall
<1>11. NoneCommitted(Listed)'
  <2>1. Listed' = Listed
    BY <1>1, SameLists
  <2> QED BY <1>7, <2>1, Lists DEF NoneCommitted
<1> QED BY <1>1, <1>3, <1>8, <1>9, <1>10, <1>11, CallKeeps

\* All the members are in the transaction, or it has failed.
LEMMA BeginReturnsKeeps ==
    ASSUME XaInv, BeginReturns
    PROVE  XaInv'
<1>0. TypeOK /\ XaParts
  BY Facts
<1>1. /\ call' = Idle /\ call'.at = "none" /\ phase = "new" /\ call' \in Calls
      /\ UNCHANGED object /\ UNCHANGED <<session, prepared, fate, faults, to_recover, members>>
      /\ \/ call.at = "begin" /\ AtEnd /\ phase' = "begun"
         \/ call.at = "undo begin" /\ phase' = "begin failed"
  BY <1>0, Moves DEF BeginReturns, At, server, XaParts, PhaseOfCall
<1>2. phase' = "begun" => Untouched /\ AllActive(Listed)
  BY <1>0, <1>1, Position DEF XaParts, InBegin
<1>3. TypeOK'
  BY <1>0, <1>1, TypeKeeps DEF TypeOK
<1>4. InBegin'
  BY <1>1, <1>2, SameLists DEF InBegin, Untouched, AllActive
<1>5. InPrepare' /\ InCommit' /\ PreparedKnown' /\ PhaseOfCall' /\ NothingPreparedIsForgotten'
  BY <1>0, <1>1 DEF InPrepare, InCommit, PreparedKnown, PhaseOfCall, NothingPreparedIsForgotten, XaParts
<1> QED BY <1>1, <1>3, <1>4, <1>5, CallKeeps

-----------------------------------------------------------------------------
(* commit(): the first phase                                               *)

\* What is ahead of the loop is in the transaction, or the loop does nothing.
LEMMA CommitKeeps ==
    ASSUME XaInv, Commit
    PROVE  XaInv'
<1>0. TypeOK /\ XaParts /\ Len(cnc_list) \in Nat
  BY Facts
<1>1. /\ call = Idle /\ call.at = "none" /\ phase = "begun" /\ phase' = phase /\ Enter("prepare")
      /\ UNCHANGED object /\ to_recover' = {}
      /\ UNCHANGED <<session, prepared, fate, faults, members>>
  BY DEF Commit, server, Idle
<1>2. call'.at = "prepare" /\ call'.k = 1 /\ call' \in Calls
  BY <1>0, <1>1, Moves DEF Places
<1>3. /\ Listed' = Listed /\ (Skipped' <=> Skipped)
      /\ Behind(call.k)' = Behind(1) /\ Ahead(call.k)' = Ahead(1)
      /\ cnc_list' = cnc_list /\ ListedOnce' /\ NonXaOnly'
  BY <1>0, <1>1, <1>2, SameLists DEF XaParts
<1>4. Untouched /\ AllActive(Listed) /\ Behind(1) = {} /\ Ahead(1) = Listed
  BY <1>0, <1>1, Lists DEF XaParts, InBegin
<1>5. TypeOK'
  <2>1. 1 <= Len(cnc_list) + 1
    BY <1>0
  <2> QED BY <1>0, <1>1, <1>2, <2>1, TypeKeeps DEF TypeOK
<1>6. InPrepare'
  BY <1>1, <1>2, <1>3, <1>4 DEF InPrepare, Untouched, AllActive, NoneActive, PreparedOf
<1>7. InBegin' /\ InCommit' /\ PreparedKnown' /\ MembersListed'
  BY <1>0, <1>1, <1>2, <1>3 DEF XaParts, InBegin, InCommit, PreparedKnown, MembersListed
<1>8. PhaseOfCall'
  <2>1. 1 \in 1 .. Len(cnc_list) + 1
    BY <1>0
  <2> QED BY <1>1, <1>2, <1>3, <2>1 DEF PhaseOfCall
<1>9. AtomicOutcome' /\ NothingPreparedIsForgotten'
  BY <1>1, Facts DEF AtomicOutcome, NothingPreparedIsForgotten
<1> QED BY <1>3, <1>5, <1>6, <1>7, <1>8, <1>9 DEF XaInv, XaParts

\* The program is killed: only what is prepared on the servers remains.
LEMMA Stopped ==
    ASSUME XaInv, NEW how \in {"crashed", "restarted"}, Stop(how), faults' \in 0 .. MaxFaults,
           \/ \A c \in Cncs : fate[c] = "none"
           \/ NoneAborted(members) /\ NoneActive(members)
    PROVE  XaInv'
<1>0. /\ TypeOK /\ XaParts /\ members \subseteq Cncs /\ NoCnc \notin Cncs
      /\ fate \in [Cncs -> {"none", "committed", "aborted"}]
  BY Facts DEF TypeOK
<1>1. /\ call' = Idle /\ phase' = how /\ cnc_list' = << >> /\ non_xa_cnc' = NoCnc /\ to_recover' = {}
      /\ session' = [c \in Cncs |-> "none"]
      /\ fate' = [c \in Cncs |-> IF session[c] = "active" THEN "aborted" ELSE fate[c]]
      /\ UNCHANGED <<prepared, members>>
      /\ call'.at = "none" /\ phase' \notin {"new", "begun", "committed", "commit failed"}
  BY DEF Stop, Idle
<1>2. TypeOK'
  <2>1. << >> \in Seq(Cncs)
    BY EmptySeq
  <2>2. fate' \in [Cncs -> {"none", "committed", "aborted"}]
    BY <1>0, <1>1
  <2>3. session' \in [Cncs -> {"none", "active"}]
    BY <1>1
  <2> QED BY <1>0, <1>1, <2>1, <2>2, <2>3 DEF TypeOK, Idle
<1>3. ListedOnce'
  <2>1. DOMAIN << >> = {}
    OBVIOUS
  <2>2. ASSUME NEW j \in DOMAIN cnc_list' PROVE FALSE
    BY <1>1, <2>1
  <2> QED BY <2>2 DEF ListedOnce
<1>4. XaParts'
  BY <1>0, <1>1, <1>3 DEF XaParts, PreparedKnown, PhaseOfCall, MembersListed, NonXaOnly, InBegin,
                          InPrepare, InCommit
<1>5. AtomicOutcome'
  BY <1>0, <1>1 DEF AtomicOutcome, NoneAborted, NoneActive
<1>6. NothingPreparedIsForgotten'
  BY <1>1 DEF NothingPreparedIsForgotten
<1> QED BY <1>2, <1>4, <1>5, <1>6 DEF XaInv

\* A connection is prepared, or is rolled back and the others behind it with it.
LEMMA CommitPrepareKeeps ==
    ASSUME XaInv, CommitPrepare
    PROVE  XaInv'
<1>0. /\ TypeOK /\ XaParts /\ session \in [Cncs -> {"none", "active"}]
      /\ fate \in [Cncs -> {"none", "committed", "aborted"}]
      /\ prepared \subseteq [server : Servers, gid : {1}, of : Cncs]
  BY Facts
<1>1. call.at = "prepare" /\ ~AtEnd /\ phase = "begun"
  BY <1>0 DEF CommitPrepare, At, XaParts, PhaseOfCall
<1>2. call.k \in DOMAIN cnc_list
  BY <1>1, Position
<1>3. PICK c \in Cncs : c = Current
  BY <1>2, Position
<1>4. CASE /\ Skipped /\ Forward
           /\ UNCHANGED <<object, server, to_recover, phase, members>>
  <2>1. /\ call'.at = "prepare" /\ call'.k = call.k + 1 /\ call' \in Calls
        /\ UNCHANGED object
        /\ UNCHANGED <<session, prepared, fate, faults, to_recover, phase, members>>
        /\ (Skipped' <=> Skipped) /\ cnc_list' = cnc_list
    BY <1>0, <1>1, <1>4, Moves, SameLists DEF server
  <2>2. Untouched
    BY <1>0, <1>1, <1>4 DEF XaParts, InPrepare
  <2>3. TypeOK'
    BY <1>0, <1>2, <2>1, TypeKeeps, Position DEF TypeOK
  <2>4. PhaseOfCall'
    BY <1>1, <1>2, <2>1, Position DEF PhaseOfCall
  <2>5. InBegin' /\ InPrepare' /\ InCommit' /\ PreparedKnown' /\ NothingPreparedIsForgotten'
    BY <1>0, <1>1, <1>4, <2>1, <2>2 DEF InBegin, InPrepare, InCommit, PreparedKnown, XaParts, Untouched,
                               NothingPreparedIsForgotten
  <2> QED BY <1>1, <2>1, <2>3, <2>4, <2>5, CallKeeps
<1>5. CASE /\ ~Skipped /\ Current \notin NonXa
           /\ \E ok \in BOOLEAN : XaPrepare(Current, ok) /\ AfterPrepare(ok)
           /\ UNCHANGED <<object, to_recover, phase, members>>
  <2>1. PICK ok \in BOOLEAN : XaPrepare(c, ok) /\ AfterPrepare(ok)
    BY <1>3, <1>5
  <2>2. /\ session' = [session EXCEPT ![c] = "none"] /\ faults' \in 0 .. MaxFaults
        /\ call' \in Calls /\ call'.at = (IF ok THEN "prepare" ELSE "undo prepare")
        /\ call'.k = (IF ok THEN call.k + 1 ELSE call.k)
        /\ prepared' = IF ok THEN prepared \cup
                           {[server |-> ServerOf[c], gid |-> IdToString(Xid(c)), of |-> c]}
                        ELSE prepared
        /\ fate' = IF ok THEN fate ELSE [fate EXCEPT ![c] = "aborted"]
    BY <1>0, <1>1, <2>1, Moves, FaultsBounded DEF XaPrepare, AfterPrepare, Places
  <2>0. PICK r \in [server : Servers, gid : {1}, of : Cncs] :
          /\ r.server = ServerOf[c] /\ r.gid = 1 /\ r.of = c
          /\ prepared' = IF ok THEN prepared \cup {r} ELSE prepared
    <3>1. ServerOf[c] \in Servers /\ IdToString(Xid(c)) = 1
      BY XaAssumption DEF IdToString, Xid
    <3> DEFINE r == [server |-> ServerOf[c], gid |-> IdToString(Xid(c)), of |-> c]
    <3>2. r.server = ServerOf[c] /\ r.gid = 1 /\ r.of = c /\ r \in [server : Servers, gid : {1}, of : Cncs]
      BY <3>1
    <3>3. prepared' = IF ok THEN prepared \cup {r} ELSE prepared
      BY <2>2
    <3> HIDE DEF r
    <3> QED BY <3>2, <3>3
  <2>3. /\ \A d \in Cncs : fate[d] = "none"
        /\ NoneActive(Behind(call.k)) /\ Behind(call.k) \cap NonXa = {}
        /\ AllActive(Ahead(call.k)) /\ PreparedOf \subseteq Behind(call.k)
    BY <1>0, <1>1, <1>5 DEF XaParts, InPrepare
  <2>4. /\ Behind(call.k)' = Behind(call'.k) /\ Ahead(call.k)' = Ahead(call'.k)
        /\ Behind(call.k + 1)' = Behind(call'.k + 1)
        /\ cnc_list' = cnc_list /\ (Skipped' <=> Skipped)
    BY <1>5, SameLists
  <2>5. /\ Behind(call.k + 1) = Behind(call.k) \cup {c} /\ Ahead(call.k) = Ahead(call.k + 1) \cup {c}
        /\ c \notin Ahead(call.k + 1) /\ Behind(call.k + 1) \subseteq Cncs /\ Ahead(call.k) \subseteq Cncs
        /\ call.k + 1 \in 1 .. Len(cnc_list) + 1 /\ call.k \in 0 .. Len(cnc_list)
        /\ call.k <= Len(cnc_list) + 1 /\ call.k + 1 <= Len(cnc_list) + 1
    BY <1>2, <1>3, Position, Lists
  <2>6. session' \in [Cncs -> {"none", "active"}] /\ fate' \in [Cncs -> {"none", "committed", "aborted"}]
    BY <1>0, <2>2
  <2>7. prepared' \subseteq [server : Servers, gid : {1}, of : Cncs]
    BY <1>0, <2>0
  <2>8. TypeOK'
    BY <1>0, <1>5, <2>2, <2>5, <2>6, <2>7, TypeKeeps DEF TypeOK
  <2>9. PhaseOfCall'
    BY <1>1, <1>5, <2>2, <2>4, <2>5 DEF PhaseOfCall
  <2>10. PreparedKnown'
    BY <1>0, <2>0 DEF XaParts, PreparedKnown
  <2>12. \A d \in Behind(call.k + 1) : session'[d] = "none"
    BY <1>0, <2>2, <2>3, <2>5 DEF NoneActive
  <2>13. \A d \in Ahead(call.k + 1) : session'[d] = "active"
    BY <1>0, <2>2, <2>3, <2>5 DEF AllActive
  <2>14. PreparedOf' \subseteq Behind(call.k + 1)
    BY <2>0, <2>3, <2>5 DEF PreparedOf
  <2>15. CASE ok
    <3>1. InPrepare'
      BY <1>3, <1>5, <2>2, <2>3, <2>4, <2>5, <2>12, <2>13, <2>14, <2>15
         DEF InPrepare, NoneActive, AllActive
    <3>2. InBegin' /\ InCommit' /\ NothingPreparedIsForgotten'
      BY <1>1, <1>5, <2>2, <2>15 DEF InBegin, InCommit, NothingPreparedIsForgotten
    <3> QED BY <1>1, <1>5, <2>2, <2>8, <2>9, <2>10, <2>15, <3>1, <3>2, CallKeeps
  <2>16. CASE ~ok
    <3>1. NoneCommitted(Cncs)'
      BY <1>0, <2>2, <2>3, <2>16 DEF NoneCommitted
    <3>2. NoneCommitted(Listed)'
      BY <1>5, <3>1, SameLists, Lists DEF NoneCommitted
    <3>3. InPrepare'
      BY <2>2, <2>4, <2>12, <2>14, <2>16, <3>1 DEF InPrepare, NoneActive
    <3>4. InBegin' /\ InCommit' /\ NothingPreparedIsForgotten'
      BY <1>1, <1>5, <2>2, <2>16 DEF InBegin, InCommit, NothingPreparedIsForgotten
    <3> QED BY <1>1, <1>5, <2>2, <2>8, <2>9, <2>10, <2>16, <3>2, <3>3, <3>4, CallKeeps
  <2> QED BY <2>15, <2>16
<1>6. CASE ~Skipped /\ Stop("crashed") /\ UNCHANGED faults
  <2>1. \A d \in Cncs : fate[d] = "none"
    BY <1>0, <1>1, <1>6 DEF XaParts, InPrepare
  <2> QED BY <1>0, <1>6, <2>1, Stopped DEF TypeOK
<1> QED BY <1>4, <1>5, <1>6 DEF CommitPrepare
\* The loop goes back over those it has prepared.
LEMMA CommitUndoPrepareKeeps ==
    ASSUME XaInv, CommitUndoPrepare
    PROVE  XaInv'
<1>0. TypeOK /\ XaParts /\ session \in [Cncs -> {"none", "active"}]
  BY Facts
<1>1. /\ call.at = "undo prepare" /\ call.k > 0 /\ phase = "begun" /\ phase' = phase
      /\ UNCHANGED object /\ UNCHANGED <<to_recover, members>> /\ XaRollback(Current) /\ Back
  BY <1>0 DEF CommitUndoPrepare, At, XaParts, PhaseOfCall
<1>2. call.k \in DOMAIN cnc_list
  BY <1>1, Position
<1>3. PICK c \in Cncs : c = Current
  BY <1>2, Position
<1>4. call'.at = "undo prepare" /\ call'.k = call.k - 1 /\ call' \in Calls
  BY <1>0, <1>1, Moves
<1>5. /\ NoneCommitted(Cncs) /\ NoneActive(Behind(call.k + 1)) /\ PreparedOf \subseteq Behind(call.k + 1)
  BY <1>0, <1>1 DEF XaParts, InPrepare
<1>6. /\ Behind(call.k + 1) = Behind(call.k) \cup {c} /\ (call.k - 1) + 1 = call.k
      /\ call.k - 1 \in 0 .. Len(cnc_list) /\ call.k - 1 <= Len(cnc_list) + 1
      /\ Behind(call.k + 1)' = Behind(call'.k + 1) /\ cnc_list' = cnc_list
  BY <1>1, <1>2, <1>3, Position, SameLists
<1>7. session[c] = "none"
  BY <1>5, <1>6 DEF NoneActive
<1>8. /\ PreparedKnown' /\ prepared' \subseteq [server : Servers, gid : {1}, of : Cncs]
      /\ PreparedOf' \subseteq PreparedOf /\ c \notin PreparedOf'
      /\ fate' \in [Cncs -> {"none", "committed", "aborted"}]
      /\ \A d \in Cncs : fate'[d] = fate[d] \/ fate'[d] = "aborted"
      /\ session' = session /\ faults' = faults
  BY <1>1, <1>3, <1>7, RolledBack
<1>9. NoneCommitted(Cncs)'
  BY <1>5, <1>8 DEF NoneCommitted
<1>10. NoneCommitted(Listed)'
  BY <1>1, <1>9, SameLists, Lists DEF NoneCommitted
<1>11. TypeOK'
  BY <1>0, <1>1, <1>4, <1>6, <1>8, TypeKeeps DEF TypeOK
<1>12. InPrepare'
  <2>1. Behind(call.k + 1)' = Behind(call.k) /\ PreparedOf' \subseteq Behind(call.k)
    BY <1>4, <1>5, <1>6, <1>8
  <2>2. NoneActive(Behind(call.k + 1))'
    BY <1>5, <1>6, <1>8, <2>1 DEF NoneActive
  <2> QED BY <1>4, <1>9, <2>1, <2>2 DEF InPrepare
<1>13. InBegin' /\ InCommit' /\ NothingPreparedIsForgotten'
  BY <1>1, <1>4 DEF InBegin, InCommit, NothingPreparedIsForgotten
<1>14. PhaseOfCall'
  BY <1>1, <1>4, <1>6 DEF PhaseOfCall
<1> QED BY <1>1, <1>8, <1>10, <1>11, <1>12, <1>13, <1>14, CallKeeps

-----------------------------------------------------------------------------
(* commit(): the second phase                                              *)

\* The connection without XA decides: its provider has no member behind it.
LEMMA CommitNonXaKeeps ==
    ASSUME XaInv, CommitNonXa
    PROVE  XaInv'
<1>0. /\ TypeOK /\ XaParts /\ session \in [Cncs -> {"none", "active"}] /\ Len(cnc_list) \in Nat
      /\ fate \in [Cncs -> {"none", "committed", "aborted"}]
      /\ prepared \subseteq [server : Servers, gid : {1}, of : Cncs]
  BY Facts
<1>1. /\ call.at = "prepare" /\ AtEnd /\ phase = "begun" /\ phase' = phase
      /\ UNCHANGED object /\ UNCHANGED <<to_recover, members>>
  BY <1>0 DEF CommitNonXa, At, XaParts, PhaseOfCall
<1>2. /\ (Skipped' <=> Skipped) /\ Listed' = Listed /\ Ahead(call.k)' = Ahead(call'.k)
      /\ Behind(call.k) = Listed /\ Ahead(1) = Listed /\ cnc_list' = cnc_list
  BY <1>1, SameLists, Position, Lists
<1>3. 1 <= Len(cnc_list) + 1 /\ 1 \in 1 .. Len(cnc_list) + 1
  BY <1>0
<1>4. CASE Skipped /\ Enter("commit") /\ UNCHANGED server
  <2>1. /\ call'.at = "commit" /\ call'.k = 1 /\ call' \in Calls
        /\ UNCHANGED <<session, prepared, fate, faults>>
    BY <1>0, <1>4, Moves DEF server, Places
  <2>2. Untouched
    BY <1>0, <1>1, <1>4 DEF XaParts, InPrepare
  <2>3. TypeOK'
    BY <1>0, <1>1, <1>3, <2>1, TypeKeeps DEF TypeOK
  <2>4. PhaseOfCall'
    BY <1>1, <1>2, <1>3, <2>1 DEF PhaseOfCall
  <2>5. InBegin' /\ InPrepare' /\ InCommit' /\ PreparedKnown' /\ NothingPreparedIsForgotten'
    BY <1>0, <1>1, <1>2, <1>4, <2>1, <2>2 DEF InBegin, InPrepare, InCommit, PreparedKnown, XaParts,
       Untouched, NothingPreparedIsForgotten
  <2> QED BY <1>1, <2>1, <2>3, <2>4, <2>5, CallKeeps
<1>5. ASSUME ~Skipped, NEW ok \in BOOLEAN, CommitTransaction(non_xa_cnc, ok),
             Enter(IF ok THEN "commit" ELSE "undo commit")
      PROVE  XaInv'
  <2>1. /\ \A d \in Cncs : fate[d] = "none"
        /\ NoneActive(Listed) /\ Listed \cap NonXa = {} /\ PreparedOf \subseteq Listed
    BY <1>0, <1>1, <1>2, <1>5 DEF XaParts, InPrepare
  <2>2. PICK n \in Cncs : n = non_xa_cnc /\ n \notin Listed
    BY <1>0, <1>5, <2>1 DEF Skipped, XaParts, NonXaOnly, TypeOK
  <2>3. /\ call'.at = (IF ok THEN "commit" ELSE "undo commit") /\ call'.k = 1 /\ call' \in Calls
        /\ faults' \in 0 .. MaxFaults
        /\ session' = IF ok THEN [session EXCEPT ![n] = "none"] ELSE session
        /\ fate' = IF ok THEN [fate EXCEPT ![n] = "committed"] ELSE fate
        /\ prepared' = prepared
    <3>1. (IF ok THEN "commit" ELSE "undo commit") \in Places
      BY DEF Places
    <3>2. /\ call'.at = (IF ok THEN "commit" ELSE "undo commit") /\ call'.k = 1 /\ call' \in Calls
      BY <1>0, <1>5, <3>1, Moves
    <3> QED BY <1>0, <1>5, <2>2, <3>2, FaultsBounded DEF CommitTransaction
  <2>4. session' \in [Cncs -> {"none", "active"}] /\ fate' \in [Cncs -> {"none", "committed", "aborted"}]
    BY <1>0, <2>3
  <2>5. \A d \in Listed : session'[d] = "none" /\ fate'[d] = "none"
    BY <1>0, <2>1, <2>2, <2>3, Lists DEF NoneActive
  <2>6. TypeOK'
    BY <1>0, <1>1, <1>3, <2>3, <2>4, TypeKeeps DEF TypeOK
  <2>7. PhaseOfCall' /\ PreparedKnown'
    BY <1>0, <1>1, <1>2, <1>3, <2>3 DEF PhaseOfCall, PreparedKnown, XaParts
  <2>8. NoneAborted(Listed)' /\ NoneCommitted(Listed)' /\ NoneActive(Listed)'
    BY <1>2, <2>5 DEF NoneAborted, NoneCommitted, NoneActive
  <2>9. PreparedOf' \subseteq Ahead(call.k)'
    BY <1>2, <2>1, <2>3 DEF PreparedOf
  <2>10. InCommit'
    BY <1>2, <1>5, <2>3, <2>8, <2>9 DEF InCommit
  <2>11. InBegin' /\ InPrepare' /\ NothingPreparedIsForgotten'
    BY <1>1, <2>3 DEF InBegin, InPrepare, NothingPreparedIsForgotten
  <2> QED BY <1>1, <2>3, <2>6, <2>7, <2>8, <2>10, <2>11, CallKeeps
<1> QED BY <1>4, <1>5 DEF CommitNonXa

\* What is prepared is ahead of the loop.
LEMMA CommitUndoKeeps ==
    ASSUME XaInv, CommitUndo
    PROVE  XaInv'
<1>0. TypeOK /\ XaParts
  BY Facts
<1>1. /\ call.at = "undo commit" /\ ~AtEnd /\ phase = "begun" /\ phase' = phase
      /\ UNCHANGED object /\ UNCHANGED <<to_recover, members>> /\ XaRollback(Current) /\ Forward
  BY <1>0 DEF CommitUndo, At, XaParts, PhaseOfCall
<1>2. call.k \in DOMAIN cnc_list
  BY <1>1, Position
<1>3. PICK c \in Cncs : c = Current
  BY <1>2, Position
<1>4. call'.at = "undo commit" /\ call'.k = call.k + 1 /\ call' \in Calls
  BY <1>0, <1>1, Moves
<1>5. /\ NoneCommitted(Listed) /\ NoneActive(Listed) /\ PreparedOf \subseteq Ahead(call.k)
  BY <1>0, <1>1 DEF XaParts, InCommit
<1>6. /\ Ahead(call.k) = Ahead(call.k + 1) \cup {c} /\ c \in Listed
      /\ call.k + 1 \in 1 .. Len(cnc_list) + 1 /\ call.k + 1 <= Len(cnc_list) + 1
      /\ Ahead(call.k)' = Ahead(call'.k) /\ cnc_list' = cnc_list /\ Listed' = Listed
  BY <1>1, <1>2, <1>3, Position, SameLists
<1>7. /\ PreparedKnown' /\ prepared' \subseteq [server : Servers, gid : {1}, of : Cncs]
      /\ PreparedOf' \subseteq PreparedOf /\ c \notin PreparedOf'
      /\ fate' \in [Cncs -> {"none", "committed", "aborted"}]
      /\ \A d \in Cncs : fate'[d] = fate[d] \/ fate'[d] = "aborted"
      /\ session' = session /\ faults' = faults
  BY <1>1, <1>3, <1>5, <1>6, RolledBack DEF NoneActive
<1>8. NoneCommitted(Listed)' /\ NoneActive(Listed)'
  BY <1>5, <1>6, <1>7, Lists DEF NoneCommitted, NoneActive
<1>9. TypeOK'
  BY <1>0, <1>1, <1>4, <1>6, <1>7, TypeKeeps DEF TypeOK
<1>10. InCommit'
  <2>1. PreparedOf' \subseteq Ahead(call.k)'
    BY <1>4, <1>5, <1>6, <1>7
  <2> QED BY <1>4, <1>8, <2>1 DEF InCommit
<1>11. InBegin' /\ InPrepare' /\ NothingPreparedIsForgotten' /\ PhaseOfCall'
  BY <1>1, <1>4, <1>6 DEF InBegin, InPrepare, NothingPreparedIsForgotten, PhaseOfCall
<1> QED BY <1>1, <1>7, <1>8, <1>9, <1>10, <1>11, CallKeeps

\* A connection that is not committed is listed.
LEMMA CommitCommitKeeps ==
    ASSUME XaInv, CommitCommit
    PROVE  XaInv'
<1>0. TypeOK /\ XaParts
  BY Facts
<1>1. /\ call.at = "commit" /\ ~AtEnd /\ phase = "begun" /\ phase' = phase
      /\ UNCHANGED object /\ members' = members /\ Forward
  BY <1>0 DEF CommitCommit, At, XaParts, PhaseOfCall
<1>2. call.k \in DOMAIN cnc_list
  BY <1>1, Position
<1>3. PICK c \in Cncs : c = Current
  BY <1>2, Position
<1>4. call'.at = "commit" /\ call'.k = call.k + 1 /\ call' \in Calls
  BY <1>0, <1>1, Moves
<1>5. /\ Ahead(call.k) = Ahead(call.k + 1) \cup {c} /\ c \in Listed
      /\ call.k + 1 \in 1 .. Len(cnc_list) + 1 /\ call.k + 1 <= Len(cnc_list) + 1
      /\ Ahead(call.k)' = Ahead(call'.k) /\ cnc_list' = cnc_list /\ Listed' = Listed
      /\ (Skipped' <=> Skipped)
  BY <1>1, <1>2, <1>3, Position, SameLists
<1>6. InBegin' /\ InPrepare' /\ NothingPreparedIsForgotten' /\ PhaseOfCall'
  BY <1>1, <1>4, <1>5 DEF InBegin, InPrepare, NothingPreparedIsForgotten, PhaseOfCall
<1>7. CASE Skipped /\ UNCHANGED <<server, to_recover>>
  <2>1. UNCHANGED <<session, prepared, fate, faults, to_recover>>
    BY <1>7 DEF server
  <2>2. Untouched
    BY <1>0, <1>1, <1>7 DEF XaParts, InCommit
  <2>3. InCommit' /\ PreparedKnown'
    BY <1>0, <1>4, <1>5, <1>7, <2>1, <2>2 DEF InCommit, Untouched, PreparedKnown, XaParts
  <2>4. TypeOK'
    BY <1>0, <1>1, <1>4, <1>5, <2>1, TypeKeeps DEF TypeOK
  <2> QED BY <1>1, <1>6, <2>1, <2>3, <2>4, CallKeeps
<1>8. ASSUME ~Skipped, NEW ok \in BOOLEAN, XaCommit(Current, ok), Record(ok)
      PROVE  XaInv'
  <2>1. /\ NoneAborted(Listed) /\ NoneActive(Listed)
        /\ PreparedOf \subseteq Ahead(call.k) \cup to_recover
    BY <1>0, <1>1, <1>8 DEF XaParts, InCommit
  <2>2. /\ PreparedKnown' /\ prepared' \subseteq [server : Servers, gid : {1}, of : Cncs]
        /\ PreparedOf' \subseteq PreparedOf
        /\ fate' \in [Cncs -> {"none", "committed", "aborted"}] /\ session' = session
        /\ \A d \in Cncs : fate'[d] = fate[d] \/ (fate'[d] = "committed" /\ d \in PreparedOf)
        /\ ok => c \notin PreparedOf'
    BY <1>3, <1>8, Finished DEF XaCommit
  <2>3. faults' \in 0 .. MaxFaults
    BY <1>0, <1>3, <1>8, FaultsBounded DEF XaCommit
  <2>4. to_recover' = (IF ok THEN to_recover ELSE to_recover \cup {c}) /\ to_recover' \subseteq Cncs
    BY <1>0, <1>3, <1>8 DEF Record, TypeOK
  <2>5. NoneAborted(Listed)' /\ NoneActive(Listed)'
    BY <1>5, <2>1, <2>2, Lists DEF NoneAborted, NoneActive
  <2>6. PreparedOf' \subseteq Ahead(call.k)' \cup to_recover'
    BY <1>4, <1>5, <2>1, <2>2, <2>4
  <2>7. InCommit'
    BY <1>4, <1>5, <1>8, <2>5, <2>6 DEF InCommit
  <2>8. TypeOK'
    BY <1>0, <1>1, <1>4, <1>5, <2>2, <2>3, <2>4, TypeKeeps DEF TypeOK
  <2> QED BY <1>1, <1>6, <2>2, <2>5, <2>7, <2>8, CallKeeps
<1> QED BY <1>7, <1>8 DEF CommitCommit

\* Nothing is prepared where commit() failed; what is, when it did not, is listed.
LEMMA CommitReturnsKeeps ==
    ASSUME XaInv, CommitReturns
    PROVE  XaInv'
<1>0. TypeOK /\ XaParts
  BY Facts
<1>1. /\ call' = Idle /\ call'.at = "none" /\ phase = "begun" /\ call' \in Calls
      /\ UNCHANGED object /\ UNCHANGED <<session, prepared, fate, faults, to_recover, members>>
      /\ \/ call.at = "undo prepare" /\ call.k = 0 /\ phase' = "commit failed"
         \/ call.at = "undo commit" /\ AtEnd /\ phase' = "commit failed"
         \/ call.at = "commit" /\ AtEnd /\ phase' = "committed"
  BY <1>0, Moves DEF CommitReturns, At, server, XaParts, PhaseOfCall
<1>2. call.at = "undo prepare" /\ call.k = 0 => PreparedOf = {}
  <2>1. 0 + 1 = 1
    OBVIOUS
  <2> QED BY <1>0, <2>1, Lists DEF XaParts, InPrepare
<1>3. call.at = "undo commit" /\ AtEnd => PreparedOf = {}
  BY <1>0, Position DEF XaParts, InCommit
<1>4. call.at = "commit" /\ AtEnd => PreparedOf \subseteq to_recover
  BY <1>0, Position DEF XaParts, InCommit, Untouched, PreparedOf
<1>5. NothingPreparedIsForgotten'
  BY <1>1, <1>2, <1>3, <1>4 DEF NothingPreparedIsForgotten, PreparedOf
<1>6. TypeOK'
  BY <1>0, <1>1, TypeKeeps DEF TypeOK
<1>7. InBegin' /\ InPrepare' /\ InCommit' /\ PreparedKnown' /\ PhaseOfCall'
  BY <1>0, <1>1 DEF InBegin, InPrepare, InCommit, PreparedKnown, PhaseOfCall, XaParts
<1> QED BY <1>1, <1>5, <1>6, <1>7, CallKeeps

-----------------------------------------------------------------------------
(* rollback(), commit_recovered() and a stop of the program                *)

\* Nothing is prepared, and nothing is committed.
LEMMA RollbackKeeps ==
    ASSUME XaInv, Rollback \/ RollbackOne \/ RollbackReturns
    PROVE  XaInv'
<1>0. TypeOK /\ XaParts /\ Len(cnc_list) \in Nat
  BY Facts
<1>1. CASE Rollback
  <2>1. /\ call = Idle /\ call.at = "none" /\ phase = "begun" /\ phase' = phase /\ Enter("rollback")
        /\ UNCHANGED object /\ UNCHANGED <<session, prepared, fate, faults, to_recover, members>>
    BY <1>1 DEF Rollback, server, Idle
  <2>2. call'.at = "rollback" /\ call'.k = 1 /\ call' \in Calls
    BY <1>0, <2>1, Moves DEF Places
  <2>3. 1 <= Len(cnc_list) + 1 /\ 1 \in 1 .. Len(cnc_list) + 1
    BY <1>0
  <2>4. Listed' = Listed /\ ListedOnce' /\ NonXaOnly' /\ cnc_list' = cnc_list /\ Untouched
    BY <1>0, <2>1, SameLists DEF XaParts, InBegin
  <2>5. TypeOK'
    BY <1>0, <2>1, <2>2, <2>3, TypeKeeps DEF TypeOK
  <2>6. InCommit'
    BY <2>1, <2>2, <2>4 DEF InCommit, Untouched, NoneCommitted
  <2>7. XaParts'
    BY <1>0, <2>1, <2>2, <2>3, <2>4, <2>6
       DEF XaParts, PreparedKnown, PhaseOfCall, MembersListed, InBegin, InPrepare
  <2>8. AtomicOutcome' /\ NothingPreparedIsForgotten'
    BY <2>1, Facts DEF AtomicOutcome, NothingPreparedIsForgotten
  <2> QED BY <2>5, <2>7, <2>8 DEF XaInv
<1>2. CASE RollbackOne
  <2>1. /\ call.at = "rollback" /\ ~AtEnd /\ phase = "begun" /\ phase' = phase
        /\ UNCHANGED object /\ UNCHANGED <<to_recover, members>> /\ Undo(Current) /\ Forward
    BY <1>0, <1>2 DEF RollbackOne, At, XaParts, PhaseOfCall
  <2>2. call.k \in DOMAIN cnc_list
    BY <2>1, Position
  <2>3. PICK c \in Cncs : c = Current
    BY <2>2, Position
  <2>4. call'.at = "rollback" /\ call'.k = call.k + 1 /\ call' \in Calls
    BY <1>0, <2>1, Moves
  <2>5. prepared = {} /\ NoneCommitted(Cncs)
    BY <1>0, <2>1 DEF XaParts, InCommit
  <2>6. /\ prepared' = {} /\ faults' = faults /\ session' \in [Cncs -> {"none", "active"}]
        /\ fate' \in [Cncs -> {"none", "committed", "aborted"}]
        /\ \A d \in Cncs : fate'[d] = fate[d] \/ fate'[d] = "aborted"
    BY <2>1, <2>3, <2>5, Undone
  <2>7. NoneCommitted(Cncs)'
    BY <2>5, <2>6 DEF NoneCommitted
  <2>8. NoneCommitted(Listed)'
    BY <2>1, <2>7, SameLists, Lists DEF NoneCommitted
  <2>9. /\ call.k + 1 \in 1 .. Len(cnc_list) + 1 /\ call.k + 1 <= Len(cnc_list) + 1
        /\ cnc_list' = cnc_list
    BY <2>1, <2>2, Position, SameLists
  <2>10. TypeOK'
    BY <1>0, <2>1, <2>4, <2>6, <2>9, TypeKeeps DEF TypeOK
  <2>11. InBegin' /\ InPrepare' /\ InCommit' /\ PreparedKnown' /\ PhaseOfCall' /\ NothingPreparedIsForgotten'
    BY <2>1, <2>4, <2>6, <2>7, <2>9
       DEF InBegin, InPrepare, InCommit, PreparedKnown, PhaseOfCall, NothingPreparedIsForgotten
  <2> QED BY <2>1, <2>4, <2>8, <2>10, <2>11, CallKeeps
<1>3. CASE RollbackReturns
  <2>1. /\ call.at = "rollback" /\ call' = Idle /\ call'.at = "none" /\ call' \in Calls
        /\ phase' = "rolled back" /\ UNCHANGED object
        /\ UNCHANGED <<session, prepared, fate, faults, to_recover, members>>
    BY <1>0, <1>3, Moves DEF RollbackReturns, At, server
  <2>2. TypeOK'
    BY <1>0, <2>1, TypeKeeps DEF TypeOK
  <2>3. /\ InBegin' /\ InPrepare' /\ InCommit' /\ PreparedKnown' /\ PhaseOfCall'
        /\ NothingPreparedIsForgotten'
    BY <1>0, <2>1
       DEF InBegin, InPrepare, InCommit, PreparedKnown, PhaseOfCall, NothingPreparedIsForgotten, XaParts
  <2> QED BY <2>1, <2>2, <2>3, CallKeeps
<1> QED BY <1>1, <1>2, <1>3

\* No identifier a server gives back is understood, so nothing is committed.
LEMMA RecoverKeeps ==
    ASSUME XaInv, CommitRecovered \/ RecoverOne \/ RecoverReturns
    PROVE  XaInv'
<1>0. TypeOK /\ XaParts /\ Len(cnc_list) \in Nat
  BY Facts
<1>1. CASE CommitRecovered
  <2>1. /\ call = Idle /\ call.at = "none" /\ phase \in {"committed", "restarted"} /\ phase' = phase
        /\ Enter("recover") /\ to_recover' = {}
        /\ UNCHANGED object /\ UNCHANGED <<session, prepared, fate, faults, members>>
    BY <1>1 DEF CommitRecovered, server, Idle
  <2>2. call'.at = "recover" /\ call'.k = 1 /\ call' \in Calls /\ call' # Idle
    BY <1>0, <2>1, Moves DEF Places, Idle
  <2>3. 1 <= Len(cnc_list) + 1 /\ 1 \in 1 .. Len(cnc_list) + 1
    BY <1>0
  <2>4. ListedOnce' /\ NonXaOnly' /\ cnc_list' = cnc_list
    BY <1>0, <2>1, SameLists DEF XaParts
  <2>5. TypeOK'
    BY <1>0, <2>1, <2>2, <2>3, TypeKeeps DEF TypeOK
  <2>6. XaParts'
    BY <1>0, <2>1, <2>2, <2>3, <2>4
       DEF XaParts, PreparedKnown, PhaseOfCall, MembersListed, InBegin, InPrepare, InCommit
  <2>7. AtomicOutcome' /\ NothingPreparedIsForgotten'
    BY <2>1, <2>2, Facts DEF AtomicOutcome, NothingPreparedIsForgotten
  <2> QED BY <2>5, <2>6, <2>7 DEF XaInv
<1>2. CASE RecoverOne
  <2>1. \A c : ~CommitNeeded(c)
    BY DEF CommitNeeded, StringToId
  <2>2. /\ call.at = "recover" /\ ~AtEnd /\ phase \in {"committed", "restarted"} /\ phase' = phase
        /\ UNCHANGED object /\ UNCHANGED <<session, prepared, fate, faults, to_recover, members>>
        /\ Forward
    BY <1>0, <1>2, <2>1 DEF RecoverOne, At, server, XaParts, PhaseOfCall
  <2>3. call'.at = "recover" /\ call'.k = call.k + 1 /\ call' \in Calls /\ call' # Idle
    BY <1>0, <2>2, Moves DEF Idle
  <2>4. /\ call.k + 1 \in 1 .. Len(cnc_list) + 1 /\ call.k + 1 <= Len(cnc_list) + 1
        /\ cnc_list' = cnc_list
    BY <2>2, Position, SameLists
  <2>5. TypeOK'
    BY <1>0, <2>2, <2>3, <2>4, TypeKeeps DEF TypeOK
  <2>6. InBegin' /\ InPrepare' /\ InCommit' /\ PreparedKnown' /\ PhaseOfCall' /\ NothingPreparedIsForgotten'
    BY <1>0, <2>2, <2>3, <2>4
       DEF InBegin, InPrepare, InCommit, PreparedKnown, PhaseOfCall, NothingPreparedIsForgotten, XaParts
  <2> QED BY <2>2, <2>3, <2>5, <2>6, CallKeeps
<1>3. CASE RecoverReturns
  <2>1. PICK w \in {"recovered", "recovery failed"} : Return(w)
    BY <1>3 DEF RecoverReturns
  <2>2. /\ call.at = "recover" /\ call' = Idle /\ call'.at = "none" /\ call' \in Calls
        /\ phase' = w /\ UNCHANGED object
        /\ UNCHANGED <<session, prepared, fate, faults, to_recover, members>>
    BY <1>0, <1>3, <2>1, Moves DEF RecoverReturns, At, server
  <2>3. TypeOK'
    BY <1>0, <2>2, TypeKeeps DEF TypeOK
  <2>4. /\ InBegin' /\ InPrepare' /\ InCommit' /\ PreparedKnown' /\ PhaseOfCall'
        /\ NothingPreparedIsForgotten'
    BY <1>0, <2>2
       DEF InBegin, InPrepare, InCommit, PreparedKnown, PhaseOfCall, NothingPreparedIsForgotten, XaParts
  <2> QED BY <2>2, <2>3, <2>4, CallKeeps
<1> QED BY <1>1, <1>2, <1>3

\* The transaction was decided, or nothing was done at all.
LEMMA ProgramStopsKeeps ==
    ASSUME XaInv, ProgramStops
    PROVE  XaInv'
<1>0. TypeOK /\ XaParts
  BY Facts
<1>1. call.at = "commit" /\ phase = "begun" /\ Stop("restarted")
  BY <1>0 DEF ProgramStops, At, XaParts, PhaseOfCall
<1>2. faults' \in 0 .. MaxFaults
  <2>1. faults \in 0 .. MaxFaults /\ MaxFaults \in Nat
    BY <1>0, XaAssumption DEF TypeOK
  <2> QED BY <2>1 DEF ProgramStops
<1>3. members = Listed
  BY <1>0, <1>1 DEF XaParts, MembersListed
<1>4. (\A c \in Cncs : fate[c] = "none") \/ (NoneAborted(members) /\ NoneActive(members))
  BY <1>0, <1>1, <1>3 DEF XaParts, InCommit, Untouched
<1> QED BY <1>1, <1>2, <1>4, Stopped

-----------------------------------------------------------------------------
(* The theorems                                                            *)

\* Nothing has been registered or begun.
LEMMA XaInit ==
    ASSUME Init
    PROVE  XaInv
<1>1. << >> \in Seq(Cncs) /\ DOMAIN << >> = {} /\ 0 \in 0 .. MaxFaults /\ 0 \in Nat
  BY EmptySeq, XaAssumption
<1>2. /\ cnc_list = << >> /\ non_xa_cnc = NoCnc /\ prepared = {} /\ call = Idle /\ call.at = "none"
      /\ session = [c \in Cncs |-> "none"] /\ fate = [c \in Cncs |-> "none"]
      /\ to_recover = {} /\ phase = "new" /\ members = {} /\ faults = 0
  BY DEF Init, Idle
<1>3. TypeOK
  BY <1>1, <1>2 DEF TypeOK, Idle
<1>4. ListedOnce
  <2>1. ASSUME NEW j \in DOMAIN cnc_list PROVE FALSE
    BY <1>1, <1>2
  <2> QED BY <2>1 DEF ListedOnce
<1>5. XaParts
  BY <1>2, <1>4 DEF XaParts, PreparedKnown, PhaseOfCall, MembersListed, NonXaOnly, InBegin, InPrepare,
     InCommit, Untouched
<1> QED BY <1>2, <1>3, <1>5 DEF XaInv, AtomicOutcome, NothingPreparedIsForgotten

\* One step per action.
LEMMA XaNext ==
    ASSUME XaInv, [Next]_vars
    PROVE  XaInv'
<1>1. ASSUME NEW c \in Cncs, Register(c) \/ Unregister(c) \/ OwnTransaction(c)
      PROVE  XaInv'
  BY <1>1, RegisterKeeps, UnregisterKeeps, OwnTransactionKeeps
<1>2. CASE Begin \/ BeginStart \/ BeginUndo \/ BeginReturns
  BY <1>2, BeginKeeps, BeginStartKeeps, BeginUndoKeeps, BeginReturnsKeeps
<1>3. CASE Commit \/ CommitPrepare \/ CommitUndoPrepare \/ CommitNonXa
  BY <1>3, CommitKeeps, CommitPrepareKeeps, CommitUndoPrepareKeeps, CommitNonXaKeeps
<1>4. CASE CommitUndo \/ CommitCommit \/ CommitReturns \/ ProgramStops
  BY <1>4, CommitUndoKeeps, CommitCommitKeeps, CommitReturnsKeeps, ProgramStopsKeeps
<1>5. CASE Rollback \/ RollbackOne \/ RollbackReturns
  BY <1>5, RollbackKeeps
<1>6. CASE CommitRecovered \/ RecoverOne \/ RecoverReturns
  BY <1>6, RecoverKeeps
<1>7. CASE UNCHANGED vars
  <2>1. UNCHANGED object /\ call' = call /\ prepared' = prepared /\ session' = session /\ fate' = fate
        /\ phase' = phase /\ members' = members /\ to_recover' = to_recover /\ faults' = faults
        /\ cnc_list' = cnc_list /\ non_xa_cnc' = non_xa_cnc
    BY <1>7 DEF vars, object
  <2>2. TypeOK' /\ AtomicOutcome' /\ NothingPreparedIsForgotten'
    BY <2>1, Facts, ZenonT(40) DEF TypeOK, AtomicOutcome, NothingPreparedIsForgotten
  <2>3. /\ Listed' = Listed /\ (Skipped' <=> Skipped) /\ PreparedOf' = PreparedOf
        /\ Behind(call.k)' = Behind(call.k) /\ Ahead(call.k)' = Ahead(call.k)
        /\ Behind(call.k + 1)' = Behind(call.k + 1) /\ ListedOnce' /\ NonXaOnly'
    BY <2>1, SameLists, Facts DEF PreparedOf, XaParts
  <2>4. PreparedKnown' /\ PhaseOfCall' /\ MembersListed'
    BY <2>1, <2>3, Facts DEF XaParts, PreparedKnown, PhaseOfCall, MembersListed
  <2>5. InBegin'
    BY <2>1, <2>3, Facts DEF XaParts, InBegin, Untouched, AllActive, NoneCommitted
  <2>6. InPrepare'
    BY <2>1, <2>3, Facts DEF XaParts, InPrepare, Untouched, AllActive, NoneActive, NoneCommitted
  <2>7. InCommit'
    BY <2>1, <2>3, Facts DEF XaParts, InCommit, Untouched, NoneActive, NoneCommitted, NoneAborted
  <2>8. XaParts'
    BY <2>3, <2>4, <2>5, <2>6, <2>7 DEF XaParts
  <2> QED BY <2>2, <2>8 DEF XaInv
<1> QED BY <1>1, <1>2, <1>3, <1>4, <1>5, <1>6, <1>7 DEF Next, Step

\* Where each loop of begin(), commit() and rollback() is, every connection behind
\* it and ahead of it is in the state the loop relies on.
THEOREM XaInvariant == Spec => []XaInv
<1>1. Init => XaInv
  BY XaInit
<1>2. XaInv /\ [Next]_vars => XaInv'
  BY XaNext
<1> QED BY <1>1, <1>2, PTL DEF Spec

\* Atomic commitment: whichever provider call fails, and wherever the program
\* stops in the second phase of commit(), no member of the transaction is
\* committed while another is aborted.
THEOREM AtomicCommitment == Spec => []AtomicOutcome
<1>1. XaInv => AtomicOutcome
  BY DEF XaInv
<1> QED BY <1>1, XaInvariant, PTL

\* A commit() that failed rolled back everything it had prepared; what one that
\* succeeded left prepared is in the list it gave back.
THEOREM PreparedIsListed == Spec => []NothingPreparedIsForgotten
<1>1. XaInv => NothingPreparedIsForgotten
  BY DEF XaInv
<1> QED BY <1>1, XaInvariant, PTL
=============================================================================
