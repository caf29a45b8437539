---------------------------- MODULE XaTransaction ----------------------------
(***************************************************************************)
(* GdaXaTransaction: two-phase commit over several connections             *)
(* (libgda/gda-xa-transaction.c), with the XA methods of the PostgreSQL    *)
(* provider (providers/postgres/gda-postgres-provider.c) and the part of   *)
(* the servers these methods show.                                         *)
(*                                                                         *)
(* A step is one call of a provider, that is one exchange with a server;   *)
(* the program or a server may fail between two of them.                   *)
(*                                                                         *)
(* A name that ends in _mutant is a wrong version of the definition after  *)
(* it, used to confirm that the properties notice such a mistake.          *)
(***************************************************************************)
EXTENDS Naturals, Sequences, SequencesExt

CONSTANTS
    Cncs,        \* connections
    NonXa,       \* those whose provider has no XA methods (xa_funcs is NULL)
    Servers,
    ServerOf,    \* the server each connection leads to
    NoCnc,
    MaxFaults    \* bound: server errors and program stops in a behaviour

ASSUME XaAssumption == /\ NonXa \subseteq Cncs /\ NoCnc \notin Cncs
                       /\ ServerOf \in [Cncs -> Servers] /\ MaxFaults \in Nat

VARIABLES
    cnc_list,    \* priv->cnc_list (and the keys of priv->cnc_hash)
    non_xa_cnc,  \* priv->non_xa_cnc
    session,     \* is a transaction open in the session of each connection
    prepared,    \* the prepared transactions kept by the servers
    fate,        \* history: what became of the work done in each connection
    call,        \* the method being executed and its position in cnc_list
    to_recover,  \* the list commit and commit_recovered give back
    phase,       \* history: what the methods returned so far
    members,     \* history: the connections of the transaction that was begun
    faults

vars == <<cnc_list, non_xa_cnc, session, prepared, fate, call, to_recover,
          phase, members, faults>>
object == <<cnc_list, non_xa_cnc>>
server == <<session, prepared, fate, faults>>

Idle == [at |-> "none", k |-> 0, retval |-> TRUE]
IsMember(c) == \E k \in DOMAIN cnc_list : cnc_list[k] = c
Current == cnc_list[call.k]
AtEnd == call.k = Len(cnc_list) + 1

At(where)    == call.at = where
Enter(where) == call' = [at |-> where, k |-> 1, retval |-> TRUE]
Forward      == call' = [call EXCEPT !.k = @ + 1]
Back         == call' = [call EXCEPT !.k = @ - 1]
Turn(where)  == call' = [call EXCEPT !.at = where]
Return(what) == call' = Idle /\ phase' = what

Init ==
    /\ cnc_list = << >> /\ non_xa_cnc = NoCnc
    /\ session = [c \in Cncs |-> "none"]
    /\ prepared = {}
    /\ fate = [c \in Cncs |-> "none"]
    /\ call = Idle /\ to_recover = {}
    /\ phase = "new" /\ members = {} /\ faults = 0

-----------------------------------------------------------------------------
(* Identifiers                                                             *)

\* The identifier used for connection c.  bqual_length is never set.
Xid(c) == [format |-> 1, gtrid_length |-> 1, bqual_length |-> 0, branch |-> c]

\* gda_xa_transaction_id_to_string(): its last sprintf() writes the format at
\* the beginning of the string, over the rest.
IdToString(xid) == xid.format

\* gda_xa_transaction_string_to_id(): a string without comma is no identifier.
NoId == [format |-> 0, gtrid_length |-> 0, bqual_length |-> 0]
StringToId(str) == NoId

\* The comparison in gda_xa_transaction_commit_recovered(): its memcmp()
\* compares 2 * bqual_length bytes, that is none.
SameId(a, b) == /\ a.format = b.format
                /\ a.gtrid_length = b.gtrid_length
                /\ a.bqual_length = b.bqual_length

-----------------------------------------------------------------------------
(* The provider's methods and the servers.  `ok' is what the method        *)
(* returns; an operation that could succeed fails at the price of a fault. *)

Outcome(able, ok) ==
    /\ ok => able
    /\ IF able /\ ~ok THEN faults < MaxFaults /\ faults' = faults + 1 ELSE UNCHANGED faults

\* gda_postgres_provider_xa_start(), gda_connection_begin_transaction(): BEGIN
XaStart(c, ok) ==
    /\ Outcome(TRUE, ok)
    /\ session' = IF ok THEN [session EXCEPT ![c] = "active"] ELSE session
    /\ UNCHANGED <<prepared, fate>>

\* The prepared transactions that have the identifier of c, where c can see them.
Prepared(c) == {p \in prepared : p.server = ServerOf[c] /\ p.gid = IdToString(Xid(c))}

\* gda_postgres_provider_xa_prepare(): PREPARE TRANSACTION, refused when the
\* identifier is in use.  When it fails the transaction is rolled back.
XaPrepare(c, ok) ==
    /\ Outcome(session[c] = "active" /\ Prepared(c) = {}, ok)
    /\ session' = [session EXCEPT ![c] = "none"]
    /\ prepared' = IF ok THEN prepared \cup
                      {[server |-> ServerOf[c], gid |-> IdToString(Xid(c)), of |-> c]}
                   ELSE prepared
    /\ fate' = IF ok THEN fate ELSE [fate EXCEPT ![c] = "aborted"]

\* COMMIT PREPARED and ROLLBACK PREPARED: not in a transaction, and only for
\* an identifier that was prepared.
Finish(c, ok, outcome) ==
    /\ prepared' = IF ok THEN prepared \ Prepared(c) ELSE prepared
    /\ fate' = IF ok THEN [d \in Cncs |-> IF \E p \in Prepared(c) : p.of = d
                                          THEN outcome ELSE fate[d]]
               ELSE fate
    /\ UNCHANGED session

CanFinish(c) == session[c] = "none" /\ Prepared(c) # {}

\* gda_postgres_provider_xa_commit()
XaCommit(c, ok) == Outcome(CanFinish(c), ok) /\ Finish(c, ok, "committed")

\* gda_postgres_provider_xa_rollback(), never hit by a fault.
XaRollback(c) == Finish(c, CanFinish(c), "aborted") /\ UNCHANGED faults

\* gda_connection_commit_transaction(), gda_connection_rollback_transaction()
CommitTransaction(c, ok) ==
    /\ Outcome(session[c] = "active", ok)
    /\ session' = IF ok THEN [session EXCEPT ![c] = "none"] ELSE session
    /\ fate' = IF ok THEN [fate EXCEPT ![c] = "committed"] ELSE fate
    /\ UNCHANGED prepared

RollbackTransaction(c) ==
    /\ session' = [session EXCEPT ![c] = "none"]
    /\ fate' = IF session[c] = "active" THEN [fate EXCEPT ![c] = "aborted"] ELSE fate
    /\ UNCHANGED <<prepared, faults>>

-----------------------------------------------------------------------------
(* Registration, before the transaction is begun.                          *)

\* gda_xa_transaction_register_connection()
Register(c) ==
    /\ call = Idle /\ phase \in {"new", "restarted"} /\ ~IsMember(c)
    /\ c \in NonXa => non_xa_cnc = NoCnc
    /\ non_xa_cnc' = IF c \in NonXa THEN c ELSE non_xa_cnc
    /\ cnc_list' = <<c>> \o cnc_list
    /\ UNCHANGED <<server, call, to_recover, phase, members>>

\* gda_xa_transaction_unregister_connection()
Unregister(c) ==
    /\ call = Idle /\ phase = "new"
    /\ \E k \in DOMAIN cnc_list : cnc_list[k] = c /\ cnc_list' = RemoveAt(cnc_list, k)
    /\ UNCHANGED <<non_xa_cnc, server, call, to_recover, phase, members>>

\* The user begins a transaction of his own on a connection he left out.
OwnTransaction(c) ==
    /\ call = Idle /\ ~IsMember(c) /\ session[c] = "none" /\ fate[c] = "none"
    /\ session' = [session EXCEPT ![c] = "active"]
    /\ UNCHANGED <<object, prepared, fate, faults, call, to_recover, phase, members>>

-----------------------------------------------------------------------------
(* gda_xa_transaction_begin()                                              *)
Begin ==
    /\ call = Idle /\ phase = "new" /\ cnc_list # << >>
    /\ Enter("begin")
    /\ members' = {c \in Cncs : IsMember(c)}
    /\ UNCHANGED <<object, server, to_recover, phase>>

BeginStart ==
    /\ At("begin") /\ ~AtEnd
    /\ \E ok \in BOOLEAN : /\ XaStart(Current, ok)
                           /\ IF ok THEN Forward ELSE Turn("undo begin")
    /\ UNCHANGED <<object, to_recover, phase, members>>

\* The loop goes back from the connection that failed to the first one.
Undo(c) == IF c = non_xa_cnc THEN RollbackTransaction(c) ELSE XaRollback(c)

BeginUndo ==
    /\ At("undo begin") /\ call.k > 0
    /\ Undo(Current)
    /\ Back
    /\ UNCHANGED <<object, to_recover, phase, members>>

BeginReturns ==
    /\ \/ At("begin") /\ AtEnd /\ Return("begun")
       \/ At("undo begin") /\ call.k = 0 /\ Return("begin failed")
    /\ UNCHANGED <<object, server, to_recover, members>>

-----------------------------------------------------------------------------
(* gda_xa_transaction_commit().  In its loops `cnc' is NULL when it is     *)
(* compared with non_xa_cnc: without such a connection every iteration is  *)
(* skipped, with one none is.                                              *)
Skipped == non_xa_cnc = NoCnc

Commit ==
    /\ call = Idle /\ phase = "begun"
    /\ Enter("prepare")
    /\ to_recover' = {}
    /\ UNCHANGED <<object, server, phase, members>>

\* xa_funcs is dereferenced: the program is killed, its sessions end.
Stop(how) ==
    /\ call' = Idle /\ phase' = how
    /\ cnc_list' = << >> /\ non_xa_cnc' = NoCnc /\ to_recover' = {}
    /\ session' = [c \in Cncs |-> "none"]
    /\ fate' = [c \in Cncs |-> IF session[c] = "active" THEN "aborted" ELSE fate[c]]
    /\ UNCHANGED <<prepared, members>>

AfterPrepare_mutant(ok) == Forward
AfterPrepare(ok) == IF ok THEN Forward ELSE Turn("undo prepare")

CommitPrepare ==
    /\ At("prepare") /\ ~AtEnd
    /\ \/ /\ Skipped
          /\ Forward
          /\ UNCHANGED <<object, server, to_recover, phase, members>>
       \/ /\ ~Skipped /\ Current \notin NonXa
          /\ \E ok \in BOOLEAN : XaPrepare(Current, ok) /\ AfterPrepare(ok)
          /\ UNCHANGED <<object, to_recover, phase, members>>
       \/ /\ ~Skipped /\ Current \in NonXa
          /\ Stop("crashed")
          /\ UNCHANGED faults

CommitUndoPrepare ==
    /\ At("undo prepare") /\ call.k > 0
    /\ XaRollback(Current)
    /\ Back
    /\ UNCHANGED <<object, to_recover, phase, members>>

\* The commit of the connection without XA, between the two phases.
CommitNonXa ==
    /\ At("prepare") /\ AtEnd
    /\ IF Skipped THEN Enter("commit") /\ UNCHANGED server
       ELSE \E ok \in BOOLEAN : /\ CommitTransaction(non_xa_cnc, ok)
                                /\ Enter(IF ok THEN "commit" ELSE "undo commit")
    /\ UNCHANGED <<object, to_recover, phase, members>>

CommitUndo ==
    /\ At("undo commit") /\ ~AtEnd
    /\ XaRollback(Current)
    /\ Forward
    /\ UNCHANGED <<object, to_recover, phase, members>>

Record_mutant(ok) == UNCHANGED to_recover
Record(ok) == to_recover' = IF ok THEN to_recover ELSE to_recover \cup {Current}

CommitCommit ==
    /\ At("commit") /\ ~AtEnd
    /\ \/ Skipped /\ UNCHANGED <<server, to_recover>>
       \/ /\ ~Skipped
          /\ \E ok \in BOOLEAN : XaCommit(Current, ok) /\ Record(ok)
    /\ Forward
    /\ UNCHANGED <<object, phase, members>>

CommitReturns ==
    /\ \/ At("undo prepare") /\ call.k = 0 /\ Return("commit failed")
       \/ At("undo commit") /\ AtEnd /\ Return("commit failed")
       \/ At("commit") /\ AtEnd /\ Return("committed")
    /\ UNCHANGED <<object, server, to_recover, members>>

-----------------------------------------------------------------------------
(* gda_xa_transaction_rollback(), instead of the commit.                   *)
Rollback ==
    /\ call = Idle /\ phase = "begun"
    /\ Enter("rollback")
    /\ UNCHANGED <<object, server, to_recover, phase, members>>

RollbackOne ==
    /\ At("rollback") /\ ~AtEnd
    /\ Undo(Current)
    /\ Forward
    /\ UNCHANGED <<object, to_recover, phase, members>>

RollbackReturns ==
    /\ At("rollback") /\ AtEnd
    /\ Return("rolled back")
    /\ UNCHANGED <<object, server, to_recover, members>>

-----------------------------------------------------------------------------
(* gda_xa_transaction_commit_recovered(), after a commit that left         *)
(* something to recover or was cut short by a stop of the program.         *)
CommitRecovered ==
    /\ call = Idle
    /\ phase \in {"committed", "restarted"} /\ cnc_list # << >>
    /\ Enter("recover")
    /\ to_recover' = {}
    /\ UNCHANGED <<object, server, phase, members>>

\* gda_postgres_provider_xa_recover(): the prepared transactions of the server.
CommitNeeded(c) ==
    \E p \in prepared : /\ p.server = ServerOf[c]
                        /\ StringToId(p.gid) # NoId
                        /\ SameId(StringToId(p.gid), Xid(c))

RecoverOne ==
    /\ At("recover") /\ ~AtEnd
    /\ IF Current # non_xa_cnc /\ CommitNeeded(Current)
       THEN \E ok \in BOOLEAN :
              /\ XaCommit(Current, ok)
              /\ Record(ok)
              /\ call' = [call EXCEPT !.k = @ + 1, !.retval = ok]
       ELSE Forward /\ UNCHANGED <<server, to_recover>>
    /\ UNCHANGED <<object, phase, members>>

RecoverReturns ==
    /\ At("recover") /\ AtEnd
    /\ Return(IF call.retval THEN "recovered" ELSE "recovery failed")
    /\ UNCHANGED <<object, server, to_recover, members>>

\* The program stops once the transaction is decided (the COMMIT phase), and
\* registers the same connections when it runs again.
ProgramStops ==
    /\ At("commit") /\ faults < MaxFaults
    /\ faults' = faults + 1
    /\ Stop("restarted")

-----------------------------------------------------------------------------
Step == BeginStart \/ BeginUndo \/ BeginReturns \/ CommitPrepare \/ CommitUndoPrepare
          \/ CommitNonXa \/ CommitUndo \/ CommitCommit \/ CommitReturns
          \/ RollbackOne \/ RollbackReturns \/ RecoverOne \/ RecoverReturns

Next == \/ \E c \in Cncs : Register(c) \/ Unregister(c) \/ OwnTransaction(c)
        \/ Begin \/ Commit \/ Rollback \/ CommitRecovered
        \/ Step
        \/ ProgramStops

Spec == Init /\ [][Next]_vars

-----------------------------------------------------------------------------
(* Properties                                                              *)

TypeOK ==
    /\ cnc_list \in Seq(Cncs) /\ non_xa_cnc \in Cncs \cup {NoCnc}
    /\ session \in [Cncs -> {"none", "active"}]
    /\ prepared \subseteq [server : Servers, gid : {1}, of : Cncs]
    /\ fate \in [Cncs -> {"none", "committed", "aborted"}]
    /\ call \in [at : {"none", "begin", "undo begin", "prepare", "undo prepare", "undo commit",
                       "commit", "rollback", "recover"},
                 k : Nat, retval : BOOLEAN]
    /\ call.at # "none" => call.k <= Len(cnc_list) + 1
    /\ to_recover \subseteq Cncs /\ members \subseteq Cncs
    /\ phase \in {"new", "begun", "begin failed", "committed", "commit failed", "rolled back",
                  "recovered", "recovery failed", "restarted", "crashed"}
    /\ faults \in 0 .. MaxFaults

\* Atomic commitment: the work of one member is never committed when that of
\* another is aborted, whatever fails between two calls of the providers.
AtomicOutcome ==
    ~\E c, d \in members : fate[c] = "committed" /\ fate[d] = "aborted"

\* "something went wrong during the PREPARE phase => rollback everything": a commit
\* that returned FALSE leaves no prepared transaction, with its locks, behind; what
\* one that returned TRUE left prepared is in the list it gave back.
NothingPreparedIsForgotten ==
    LET left == {p.of : p \in prepared} \cap members
    IN  /\ phase = "commit failed" => left = {}
        /\ phase = "committed" /\ call = Idle => left \subseteq to_recover

\* Commit phase, "the transaction data is actually written to the database": when
\* commit returned TRUE the work of every member is committed or listed.
CommitWritesData ==
    phase = "committed" /\ call = Idle =>
       \A c \in members : fate[c] = "committed" \/ c \in to_recover
=============================================================================
