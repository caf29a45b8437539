------------------------ MODULE ThreadSignals_proofs ------------------------
(***************************************************************************)
(* Theorems about ThreadSignals, for any number of threads, of handlers    *)
(* and of signals underway: a SignalSpec is not freed while it is referred *)
(* to, and what disconnect(), steal_signal() and private signals promise   *)
(* holds for the usages that each theorem names.                           *)
(***************************************************************************)
EXTENDS ThreadSignals, FiniteSetTheorems, SequenceTheorems, TLAPS

-----------------------------------------------------------------------------
(* The inductive invariants.                                               *)

Disconnecting == {"disconnect", "disconnect in callback"}
EmittingAt    == {"marshal", "push", "notify"}
Referring     == {"push", "test", "call", "callback", "release", "disconnect in callback"}

\* What a thread has at hand is a spec that was connected, still in a list when it
\* is being disconnected; only clients iterate; disconnect() holds rmutex.
PcInv ==
    \A t \in Threads :
      /\ pc[t].at \notin {"idle", "pop"} =>
           pc[t].spec \in Specs /\ spec[pc[t].spec].state # "unborn"
      /\ pc[t].at \notin {"idle"} \cup EmittingAt => t \in Clients
      /\ pc[t].at \in Disconnecting =>
           /\ spec[pc[t].spec].holder # NoThread
           /\ Len(rmutex) > 0 /\ CanLock(t)

\* What waits in a queue was connected too.
QueueInv ==
    \A t \in Clients : \A k \in DOMAIN queue[t] : spec[queue[t][k]].state # "unborn"

\* The list a spec is in is that of the thread it sends its signals to.
SpecInv ==
    \A s \in Specs :
      /\ spec[s].target = spec[s].holder
      /\ spec[s].state = "unborn" => spec[s].holder = NoThread /\ s \notin ended
      /\ spec[s].state = "used" <=> spec[s].ref > 0
      /\ s \in ended => ~spec[s].callback

ThreadInv == TypeOK /\ PcInv /\ QueueInv /\ SpecInv /\ SignalsHaveThreadData

\* Nothing is disconnected while it is emitted.
QuietInv ==
    "while emitting" \notin Usage =>
       \A e \in Threads : pc[e].at \in EmittingAt =>
         /\ spec[pc[e].spec].holder # NoThread
         /\ \A t \in Threads : pc[t].at \in Disconnecting => pc[t].spec # pc[e].spec

\* A bound that queues of SIGNAL jobs respect, so that Occurrences sees them all.
BoundInv == /\ \A t \in Clients : Len(queue[t]) <= SignalsBound
            /\ Underway <= SignalsBound

\* A reference can be too many, when a job is refused by the queue, never too few.
CountInv ==
    \A s \in Specs : /\ spec[s].ref >= Occurrences(s)
                     /\ "while emitting" \notin Usage => spec[s].ref = Occurrences(s)

SignalsInv == ThreadInv /\ QuietInv /\ BoundInv /\ CountInv

\* Who may have a spec at hand, when it is neither stolen nor disconnected by others.
Own(t, s) == spec[s].holder \in {t, NoThread}

OwnInv ==
    \A t \in Clients :
      /\ \A k \in DOMAIN queue[t] : Own(t, queue[t][k])
      /\ pc[t].at \in {"test", "call", "callback", "release", "disconnect in callback"}
           => Own(t, pc[t].spec)
      /\ pc[t].at \in Disconnecting => spec[pc[t].spec].holder = t
      /\ pc[t].at = "call" => pc[t].spec \notin ended

OwnUsage == "steal" \notin Usage /\ "foreign" \notin Usage

\* The emission of a private signal, while the worker works for its thread.
PrivateInv ==
    \A e \in Threads :
      pc[e].at \in {"marshal", "push"} /\ spec[pc[e].spec].private /\ ~spec[pc[e].spec].anythread
        => e = Worker /\ spec[pc[e].spec].target \in {current, NoThread}

NotStolen == "steal" \notin Usage

-----------------------------------------------------------------------------
(* Counting.                                                               *)

Places == {"idle", "disconnect", "disconnect in callback", "marshal", "push",
           "notify", "pop", "test", "call", "callback", "release"}
PcRec  == [at : Places, spec : Specs \cup {NoThread}]

One(b) == IF b THEN 1 ELSE 0

\* The threads whose place, in p, is one of R.
In(p, R) == {t \in Threads : p[t] \in R}

RefersTo(s) == {r \in PcRec : r.spec = s /\ r.at \in Referring}
Pushing     == {r \in PcRec : r.at \in {"marshal", "push"}}

\* There is a finite number of threads.
LEMMA FiniteThreads == IsFiniteSet(Threads) /\ NoThread \notin Threads
  BY SignalsAssumption, FS_AddElement DEF Threads

\* The threads at some places, and how a thread that moves changes their number.
LEMMA InStep ==
    ASSUME NEW p \in [Threads -> PcRec], NEW t \in Threads, NEW x \in PcRec, NEW R
    PROVE  /\ Cardinality(In(p, R)) \in Nat
           /\ p[t] \in R => Cardinality(In(p, R)) > 0
           /\ Cardinality(In([p EXCEPT ![t] = x], R)) =
                Cardinality(In(p, R)) + One(x \in R) - One(p[t] \in R)
<1> DEFINE S == In(p, R)
           T == In([p EXCEPT ![t] = x], R)
<1>1. IsFiniteSet(S)
  BY FiniteThreads, FS_Subset DEF In
<1>2. Cardinality(S) \in Nat
  BY <1>1, FS_CardinalityType
<1>3. p[t] \in R => Cardinality(S) > 0
  <2> SUFFICES ASSUME p[t] \in R PROVE Cardinality(S) > 0
    OBVIOUS
  <2>1. S # {}
    BY DEF In
  <2> QED BY <1>1, <1>2, <2>1, FS_EmptySet
<1>4. CASE x \in R /\ p[t] \in R
  <2>1. T = S
    BY <1>4 DEF In
  <2> QED BY <1>2, <1>3, <2>1, <1>4 DEF One
<1>5. CASE x \notin R /\ p[t] \notin R
  <2>1. T = S
    BY <1>5 DEF In
  <2> QED BY <1>2, <1>3, <2>1, <1>5 DEF One
<1>6. CASE x \in R /\ p[t] \notin R
  <2>1. T = S \cup {t} /\ t \notin S
    BY <1>6 DEF In
  <2>2. Cardinality(T) = Cardinality(S) + 1
    BY <2>1, <1>1, FS_AddElement
  <2> QED BY <1>2, <1>3, <2>2, <1>6 DEF One
<1>7. CASE x \notin R /\ p[t] \in R
  <2>1. T = S \ {t} /\ t \in S
    BY <1>7 DEF In
  <2>2. Cardinality(T) = Cardinality(S) - 1
    BY <2>1, <1>1, FS_RemoveElement
  <2> QED BY <1>2, <1>3, <2>2, <1>7 DEF One
<1> QED BY <1>4, <1>5, <1>6, <1>7

\* The jobs in the queues are finitely many.
LEMMA SlotsFinite ==
    ASSUME NEW q, NEW A
    PROVE  IsFiniteSet(Slots(q, A)) /\ Cardinality(Slots(q, A)) \in Nat
<1>1. IsFiniteSet(Clients) /\ IsFiniteSet(1 .. SignalsBound)
  BY SignalsAssumption, FS_Interval
<1>2. IsFiniteSet(Clients \X (1 .. SignalsBound))
  BY <1>1, FS_Product
<1>3. Slots(q, A) \in SUBSET (Clients \X (1 .. SignalsBound))
  BY DEF Slots
<1> QED BY <1>2, <1>3, FS_Subset, FS_CardinalityType

\* g_async_queue_push() adds one job.
LEMMA SlotsPush ==
    ASSUME NEW q \in [Clients -> Seq(Specs)], NEW t \in Clients, NEW s \in Specs, NEW A,
           Len(q[t]) < SignalsBound
    PROVE  Cardinality(Slots([q EXCEPT ![t] = Append(@, s)], A)) =
             Cardinality(Slots(q, A)) + One(s \in A)
<1> DEFINE r == [q EXCEPT ![t] = Append(@, s)]
           n == Len(q[t]) + 1
<1>1. n \in 1 .. SignalsBound /\ Len(q[t]) \in Nat
  BY SignalsAssumption
<1>2. /\ r[t] = Append(q[t], s) /\ Len(r[t]) = n /\ DOMAIN r[t] = 1 .. n
      /\ r[t][n] = s /\ DOMAIN q[t] = 1 .. Len(q[t])
      /\ \A k \in DOMAIN q[t] : r[t][k] = q[t][k]
      /\ \A u \in Clients : u # t => r[u] = q[u]
  BY <1>1
<1> HIDE DEF r
<1>3. <<t, n>> \notin Slots(q, A)
  BY <1>1, <1>2 DEF Slots
<1>4. \A p \in Clients \X (1 .. SignalsBound) : p # <<t, n>> =>
        (p \in Slots(r, A) <=> p \in Slots(q, A))
  <2> SUFFICES ASSUME NEW u \in Clients, NEW k \in 1 .. SignalsBound, <<u, k>> # <<t, n>>
               PROVE  <<u, k>> \in Slots(r, A) <=> <<u, k>> \in Slots(q, A)
    OBVIOUS
  <2>1. CASE u # t
    BY <2>1, <1>2 DEF Slots
  <2>2. CASE u = t
    <3>1. k # n
      BY <2>2
    <3>2. k \in DOMAIN r[t] <=> k \in DOMAIN q[t]
      BY <3>1, <1>1, <1>2
    <3> QED BY <2>2, <3>2, <1>2 DEF Slots
  <2> QED BY <2>1, <2>2
<1>5. <<t, n>> \in Slots(r, A) <=> s \in A
  BY <1>1, <1>2 DEF Slots
<1>6. /\ Slots(r, A) \subseteq Clients \X (1 .. SignalsBound)
      /\ Slots(q, A) \subseteq Clients \X (1 .. SignalsBound)
  BY DEF Slots
<1>7. CASE s \in A
  <2>1. Slots(r, A) = Slots(q, A) \cup {<<t, n>>}
    BY <1>1, <1>4, <1>5, <1>6, <1>7
  <2>2. Cardinality(Slots(r, A)) = Cardinality(Slots(q, A)) + 1
    BY <2>1, <1>3, SlotsFinite, FS_AddElement
  <2> QED BY <2>2, <1>7 DEF r, One
<1>8. CASE s \notin A
  <2>1. \A p \in Clients \X (1 .. SignalsBound) : p \in Slots(r, A) <=> p \in Slots(q, A)
    BY <1>3, <1>4, <1>5, <1>8
  <2>2. Slots(r, A) = Slots(q, A)
    BY <2>1, <1>6
  <2> QED BY <2>2, <1>8, SlotsFinite DEF r, One
<1> QED BY <1>7, <1>8

\* g_async_queue_try_pop() removes one job, the others keep their order.
LEMMA SlotsPop ==
    ASSUME NEW q \in [Clients -> Seq(Specs)], NEW t \in Clients, NEW A,
           q[t] # << >>, Len(q[t]) <= SignalsBound
    PROVE  Cardinality(Slots([q EXCEPT ![t] = Tail(@)], A)) =
             Cardinality(Slots(q, A)) - One(Head(q[t]) \in A)
<1> DEFINE r == [q EXCEPT ![t] = Tail(@)]
           S == Slots(q, A) \ {<<t, 1>>}
           f == [p \in Slots(r, A) |-> IF p[1] = t THEN <<t, p[2] + 1>> ELSE p]
<1>1. /\ Len(q[t]) \in Nat \ {0} /\ DOMAIN q[t] = 1 .. Len(q[t]) /\ 1 \in 1 .. SignalsBound
      /\ Head(q[t]) = q[t][1] /\ Tail(q[t]) \in Seq(Specs) /\ Len(Tail(q[t])) = Len(q[t]) - 1
      /\ \A k \in 1 .. Len(q[t]) - 1 : Tail(q[t])[k] = q[t][k + 1]
  BY SignalsAssumption
<1>2. /\ r[t] = Tail(q[t]) /\ DOMAIN r[t] = 1 .. Len(q[t]) - 1
      /\ \A k \in 1 .. Len(q[t]) - 1 : r[t][k] = q[t][k + 1]
      /\ \A u \in Clients : u # t => r[u] = q[u]
  BY <1>1
<1> HIDE DEF r
<1>3. \A k \in 1 .. SignalsBound : <<t, k>> \in Slots(r, A) <=>
        k + 1 \in 1 .. SignalsBound /\ <<t, k + 1>> \in Slots(q, A)
  <2> TAKE k \in 1 .. SignalsBound
  <2>1. k \in DOMAIN r[t] <=> k + 1 \in 1 .. SignalsBound /\ k + 1 \in DOMAIN q[t]
    BY <1>1, <1>2, SignalsAssumption
  <2>2. k \in DOMAIN r[t] => r[t][k] = q[t][k + 1]
    BY <1>2
  <2>3. <<t, k>> \in Slots(r, A) <=> k \in DOMAIN r[t] /\ r[t][k] \in A
    BY DEF Slots
  <2>4. k + 1 \in 1 .. SignalsBound =>
          (<<t, k + 1>> \in Slots(q, A) <=> k + 1 \in DOMAIN q[t] /\ q[t][k + 1] \in A)
    BY DEF Slots
  <2> QED BY <2>1, <2>2, <2>3, <2>4
<1>4. \A u \in Clients, k \in 1 .. SignalsBound : u # t =>
        (<<u, k>> \in Slots(r, A) <=> <<u, k>> \in Slots(q, A))
  BY <1>2 DEF Slots
<1>5. \A p \in Slots(r, A) \cup Slots(q, A) :
        /\ p = <<p[1], p[2]>> /\ p[1] \in Clients /\ p[2] \in 1 .. SignalsBound
  BY DEF Slots
<1>6. f \in [Slots(r, A) -> S]
  <2> SUFFICES ASSUME NEW p \in Slots(r, A) PROVE (IF p[1] = t THEN <<t, p[2] + 1>> ELSE p) \in S
    OBVIOUS
  <2>1. CASE p[1] = t
    <3>1. <<t, p[2] + 1>> \in Slots(q, A) /\ p[2] + 1 # 1
      BY <1>3, <1>5, <2>1
    <3> QED BY <3>1, <2>1
  <2>2. CASE p[1] # t
    BY <1>4, <1>5, <2>2
  <2> QED BY <2>1, <2>2
<1>7. ASSUME NEW p \in Slots(r, A), NEW o \in Slots(r, A), f[p] = f[o] PROVE p = o
  <2>1. f[p] = (IF p[1] = t THEN <<t, p[2] + 1>> ELSE p) /\ f[o] = (IF o[1] = t THEN <<t, o[2] + 1>> ELSE o)
    OBVIOUS
  <2>2. p[1] = t <=> o[1] = t
    BY <1>5, <1>7, <2>1
  <2>3. CASE p[1] = t
    <3>1. p[2] + 1 = o[2] + 1
      BY <1>7, <2>1, <2>2, <2>3
    <3>2. p[2] = o[2]
      BY <3>1, <1>5
    <3> QED BY <3>2, <2>2, <2>3, <1>5
  <2> QED BY <1>7, <2>1, <2>2, <2>3
<1>8. ASSUME NEW p \in S PROVE \E o \in Slots(r, A) : f[o] = p
  <2>1. CASE p[1] = t
    <3>1. p[2] # 1
      BY <1>5, <2>1
    <3>2. p[2] - 1 \in 1 .. SignalsBound /\ p[2] - 1 + 1 = p[2]
      BY <1>5, <3>1, SignalsAssumption
    <3>3. <<t, p[2] - 1>> \in Slots(r, A)
      BY <1>3, <1>5, <3>2, <2>1
    <3>4. f[<<t, p[2] - 1>>] = <<t, p[2]>>
      BY <3>2, <3>3
    <3> QED BY <3>3, <3>4, <2>1, <1>5
  <2>2. CASE p[1] # t
    <3>1. p \in Slots(r, A)
      BY <1>4, <1>5, <2>2
    <3> QED BY <3>1, <2>2
  <2> QED BY <2>1, <2>2
<1>9. f \in Bijection(Slots(r, A), S)
  BY <1>6, <1>7, <1>8, Zenon DEF Bijection, Injection, Surjection, IsInjective
<1>10. Cardinality(S) = Cardinality(Slots(r, A))
  BY <1>9, SlotsFinite, FS_Bijection DEF ExistsBijection
<1>11. <<t, 1>> \in Slots(q, A) <=> Head(q[t]) \in A
  BY <1>1 DEF Slots
<1>12. Cardinality(S) = IF <<t, 1>> \in Slots(q, A) THEN Cardinality(Slots(q, A)) - 1
                                                     ELSE Cardinality(Slots(q, A))
  BY SlotsFinite, FS_RemoveElement
<1> QED BY <1>10, <1>11, <1>12, SlotsFinite DEF r, One

\* A queue is not longer than the number of jobs in all of them.
LEMMA SlotsLen ==
    ASSUME NEW q \in [Clients -> Seq(Specs)], NEW t \in Clients, Len(q[t]) <= SignalsBound
    PROVE  Len(q[t]) <= Cardinality(Slots(q, Specs))
<1> DEFINE n == Len(q[t])
           f == [k \in 1 .. n |-> <<t, k>>]
<1>1. n \in Nat /\ DOMAIN q[t] = 1 .. n /\ \A k \in 1 .. n : q[t][k] \in Specs
  OBVIOUS
<1>2. \A k \in 1 .. n : k \in 1 .. SignalsBound
  BY <1>1, SignalsAssumption
<1>3. f \in [1 .. n -> Slots(q, Specs)]
  BY <1>1, <1>2 DEF Slots
<1>4. f \in Injection(1 .. n, Slots(q, Specs))
  BY <1>3 DEF Injection, IsInjective
<1>5. Cardinality(1 .. n) = n
  BY <1>1, FS_Interval
<1> QED BY <1>4, <1>5, SlotsFinite, FS_Injection

\* The references to a spec, and the signals underway, by where they are.
LEMMA Pieces ==
    ASSUME TypeOK
    PROVE  /\ pc \in [Threads -> PcRec]
           /\ \A s \in Specs :
                Occurrences(s) = Cardinality(Slots(queue, {s})) + Cardinality(In(pc, RefersTo(s)))
                                   + One(spec[s].holder # NoThread)
           /\ Underway = Cardinality(In(pc, Pushing)) + Cardinality(Slots(queue, Specs))
<1>1. pc \in [Threads -> PcRec] /\ queue \in [Clients -> Seq(Specs)]
  BY DEF TypeOK, PcRec, Places
<1>2. \A s \in Specs : {t \in Threads : pc[t].spec = s /\
                      pc[t].at \in {"push", "test", "call", "callback", "release",
                                   "disconnect in callback"}} = In(pc, RefersTo(s))
  BY <1>1 DEF In, RefersTo, Referring, PcRec
<1>3. {e \in Threads : pc[e].at \in {"marshal", "push"}} = In(pc, Pushing)
  BY <1>1 DEF In, Pushing, PcRec
<1> QED BY <1>1, <1>2, <1>3 DEF Occurrences, Underway, One

\* The same after a step.
LEMMA PiecesNext ==
    ASSUME TypeOK', NEW p, NEW q, pc' = p, queue' = q
    PROVE  /\ \A s \in Specs :
                Occurrences(s)' = Cardinality(Slots(q, {s})) + Cardinality(In(p, RefersTo(s)))
                                    + One(spec'[s].holder # NoThread)
           /\ Underway' = Cardinality(In(p, Pushing)) + Cardinality(Slots(q, Specs))
<1>1. /\ \A s \in Specs : Slots(queue, {s})' = Slots(q, {s})
      /\ \A s \in Specs : In(pc, RefersTo(s))' = In(p, RefersTo(s))
      /\ Slots(queue, Specs)' = Slots(q, Specs)
      /\ In(pc, Pushing)' = In(p, Pushing)
  BY DEF Slots, In, RefersTo, Pushing
<1>2. (\A s \in Specs :
         Occurrences(s) = Cardinality(Slots(queue, {s})) + Cardinality(In(pc, RefersTo(s)))
                            + One(spec[s].holder # NoThread))'
  BY Pieces, PTL
<1>3. (Underway = Cardinality(In(pc, Pushing)) + Cardinality(Slots(queue, Specs)))'
  BY Pieces, PTL
<1> QED BY <1>1, <1>2, <1>3

\* How they change in a step that leaves the queues alone.
LEMMA Count ==
    ASSUME TypeOK, TypeOK', NEW t \in Threads, NEW x \in PcRec,
           pc' = [pc EXCEPT ![t] = x], queue' = queue
    PROVE  /\ \A s \in Specs :
                /\ Occurrences(s) \in Nat /\ Occurrences(s)' \in Nat
                /\ Occurrences(s)' = Occurrences(s)
                     + One(x \in RefersTo(s)) - One(pc[t] \in RefersTo(s))
                     + One(spec'[s].holder # NoThread) - One(spec[s].holder # NoThread)
           /\ Underway \in Nat
           /\ Underway' = Underway + One(x \in Pushing) - One(pc[t] \in Pushing)
<1>1. pc \in [Threads -> PcRec]
  BY Pieces
<1>2. ASSUME NEW s \in Specs
      PROVE  /\ Occurrences(s) \in Nat /\ Occurrences(s)' \in Nat
             /\ Occurrences(s)' = Occurrences(s)
                  + One(x \in RefersTo(s)) - One(pc[t] \in RefersTo(s))
                  + One(spec'[s].holder # NoThread) - One(spec[s].holder # NoThread)
  <2> DEFINE a == Cardinality(Slots(queue, {s}))
             b == Cardinality(In(pc, RefersTo(s)))
             c == Cardinality(In([pc EXCEPT ![t] = x], RefersTo(s)))
  <2>1. a \in Nat
    BY SlotsFinite
  <2>2. b \in Nat /\ (pc[t] \in RefersTo(s) => b > 0)
        /\ c = b + One(x \in RefersTo(s)) - One(pc[t] \in RefersTo(s))
    BY <1>1, InStep
  <2>3. Occurrences(s) = a + b + One(spec[s].holder # NoThread)
    BY Pieces
  <2>4. Occurrences(s)' = a + c + One(spec'[s].holder # NoThread)
    BY PiecesNext
  <2> HIDE DEF a, b, c
  <2> QED BY <2>1, <2>2, <2>3, <2>4 DEF One
<1>3. /\ Underway \in Nat
      /\ Underway' = Underway + One(x \in Pushing) - One(pc[t] \in Pushing)
  <2> DEFINE a == Cardinality(Slots(queue, Specs))
             b == Cardinality(In(pc, Pushing))
             c == Cardinality(In([pc EXCEPT ![t] = x], Pushing))
  <2>1. a \in Nat
    BY SlotsFinite
  <2>2. b \in Nat /\ (pc[t] \in Pushing => b > 0)
        /\ c = b + One(x \in Pushing) - One(pc[t] \in Pushing)
    BY <1>1, InStep
  <2>3. Underway = b + a
    BY Pieces
  <2>4. Underway' = c + a
    BY PiecesNext
  <2> HIDE DEF a, b, c
  <2> QED BY <2>1, <2>2, <2>3, <2>4 DEF One
<1> QED BY <1>2, <1>3

\* The same when no thread moves.
LEMMA CountLists ==
    ASSUME TypeOK, TypeOK', pc' = pc, queue' = queue
    PROVE  /\ Underway' = Underway
           /\ \A s \in Specs : /\ Occurrences(s) \in Nat
                               /\ Occurrences(s)' = Occurrences(s)
                                    + One(spec'[s].holder # NoThread) - One(spec[s].holder # NoThread)
<1>1. Worker \in Threads /\ pc \in [Threads -> PcRec]
  BY Pieces DEF Threads
<1>2. pc' = [pc EXCEPT ![Worker] = pc[Worker]] /\ pc[Worker] \in PcRec
  BY <1>1
<1>3. /\ \A s \in Specs :
           /\ Occurrences(s) \in Nat /\ Occurrences(s)' \in Nat
           /\ Occurrences(s)' = Occurrences(s)
                + One(pc[Worker] \in RefersTo(s)) - One(pc[Worker] \in RefersTo(s))
                + One(spec'[s].holder # NoThread) - One(spec[s].holder # NoThread)
      /\ Underway \in Nat
      /\ Underway' = Underway + One(pc[Worker] \in Pushing) - One(pc[Worker] \in Pushing)
  BY <1>1, <1>2, Count
<1> QED BY <1>3 DEF One

-----------------------------------------------------------------------------
(* What the actions have in common.                                        *)

States  == {"unborn", "used", "freed"}
Nobody  == Clients \cup {NoThread}
SpecRec == [state : States, holder : Nobody, target : Nobody, notif : Nobody,
            callback : BOOLEAN, ref : Nat, anythread : BOOLEAN, private : BOOLEAN]

\* The types, with names for the records.
LEMMA Types ==
    TypeOK <=> /\ spec \in [Specs -> SpecRec]
               /\ slock \in [Specs -> Threads \cup {NoThread}]
               /\ rmutex \in Seq(Clients)
               /\ td \subseteq Clients
               /\ busy \in [Clients -> {"no", "waiting", "running", "done"}]
               /\ current \in Clients \cup {NoThread}
               /\ queue \in [Clients -> Seq(Specs)]
               /\ unread \in [Clients -> 0 .. PipeCapacity]
               /\ pc \in [Threads -> PcRec]
               /\ ended \subseteq Specs
               /\ fault \in {"none", "spec", "td", "callback"}
  BY Zenon DEF TypeOK, SpecRec, States, Nobody, PcRec, Places

\* A thread changes place and keeps the spec it has at hand.
LEMMA Going ==
    ASSUME TypeOK, NEW t \in Threads, NEW where \in Places, Go(t, where)
    PROVE  \E x \in PcRec : x.at = where /\ x.spec = pc[t].spec /\ pc' = [pc EXCEPT ![t] = x]
<1> DEFINE x == [at |-> where, spec |-> pc[t].spec]
<1>1. pc \in [Threads -> PcRec]
  BY Types
<1>2. x \in PcRec
  BY <1>1 DEF PcRec
<1>3. [pc[t] EXCEPT !.at = where] = x
  BY <1>1 DEF PcRec
<1>4. pc' = [pc EXCEPT ![t] = [pc[t] EXCEPT !.at = where]]
  BY DEF Go
<1> QED BY <1>2, <1>3, <1>4

\* What counts of a place.
LEMMA Place ==
    ASSUME NEW x \in PcRec
    PROVE  /\ \A s : x \in RefersTo(s) <=> x.spec = s /\ x.at \in Referring
           /\ x \in Pushing <=> x.at \in {"marshal", "push"}
           /\ Idle.at = "idle" /\ Idle.spec = NoThread
  BY DEF RefersTo, Pushing, Idle

\* A thread is outside of any method.
LEMMA Resting ==
    ASSUME TypeOK, NEW t \in Threads, Done(t)
    PROVE  \E x \in PcRec : x = Idle /\ x.at = "idle" /\ pc' = [pc EXCEPT ![t] = x]
  BY DEF Done, Idle, PcRec, Places

\* What a queue holds.
LEMMA InQueue ==
    ASSUME TypeOK, NEW t \in Clients
    PROVE  /\ queue[t] \in Seq(Specs) /\ Len(queue[t]) \in Nat
           /\ DOMAIN queue[t] = 1 .. Len(queue[t]) /\ \A k \in DOMAIN queue[t] : queue[t][k] \in Specs
<1>1. queue[t] \in Seq(Specs)
  BY DEF TypeOK
<1> QED BY <1>1

\* A recursive mutex locked once more, and unlocked.
LEMMA Locking ==
    ASSUME NEW m \in Seq(Clients), NEW t \in Clients, \A k \in DOMAIN m : m[k] = t
    PROVE  /\ Append(m, t) \in Seq(Clients) /\ Len(Append(m, t)) > 0
           /\ \A k \in DOMAIN Append(m, t) : Append(m, t)[k] = t
           /\ Len(m) > 0 => Tail(m) \in Seq(Clients) /\ \A k \in DOMAIN Tail(m) : Tail(m)[k] = t
<1>1. Len(m) \in Nat /\ DOMAIN m = 1 .. Len(m)
  OBVIOUS
<1>2. Append(m, t) \in Seq(Clients) /\ Len(Append(m, t)) > 0
  BY <1>1
<1>3. \A k \in DOMAIN Append(m, t) : Append(m, t)[k] = t
  BY <1>1
<1>4. ASSUME Len(m) > 0 PROVE Tail(m) \in Seq(Clients) /\ \A k \in DOMAIN Tail(m) : Tail(m)[k] = t
  BY <1>1, <1>4
<1> QED BY <1>2, <1>3, <1>4

\* rmutex excludes two threads.
LEMMA Exclusive ==
    ASSUME TypeOK, NEW t, NEW u, Len(rmutex) > 0, CanLock(t), CanLock(u)
    PROVE  t = u
<1>1. rmutex \in Seq(Clients)
  BY DEF TypeOK
<1>2. 1 \in DOMAIN rmutex
  BY <1>1
<1> QED BY <1>2 DEF CanLock

\* Steps that neither touch a spec, nor a queue, nor move a thread.
LEMMA Aside ==
    ASSUME SignalsInv, TypeOK', SignalsHaveThreadData', UNCHANGED <<spec, pc, queue, ended>>,
           UNCHANGED rmutex \/ rmutex = << >>
    PROVE  SignalsInv'
<1>1. PcInv'
  BY DEF SignalsInv, ThreadInv, PcInv, CanLock
<1>2. QueueInv' /\ SpecInv' /\ QuietInv'
  BY Zenon DEF SignalsInv, ThreadInv, QueueInv, SpecInv, QuietInv
<1>3. BoundInv' /\ CountInv'
  <2>1. Slots(queue, Specs)' = Slots(queue, Specs) /\ \A s \in Specs : Slots(queue, {s})' = Slots(queue, {s})
    BY DEF Slots
  <2>2. Underway' = Underway
    BY <2>1 DEF Underway
  <2>3. \A s \in Specs : Occurrences(s)' = Occurrences(s)
    BY <2>1 DEF Occurrences
  <2> QED BY <2>2, <2>3 DEF SignalsInv, BoundInv, CountInv
<1> QED BY <1>1, <1>2, <1>3 DEF SignalsInv, ThreadInv

\* The signals in the lists of threads stay the same.
LEMMA SameLists ==
    ASSUME SignalsHaveThreadData, td \subseteq td', UNCHANGED <<spec, queue>>
    PROVE  SignalsHaveThreadData'
  BY DEF SignalsHaveThreadData, SignalsOf


\* connect_raw() refuses a signal.
LEMMA ConnectRefusedStep ==
    ASSUME SignalsInv, NEW t \in Clients, ConnectRefused(t) PROVE SignalsInv'
<1>0. <<t>> \in Seq(Clients)
  OBVIOUS
<1> USE DEF ConnectRefused, CanCall
<1>1. TypeOK'
  BY <1>0 DEF SignalsInv, ThreadInv, TypeOK
<1>2. SignalsHaveThreadData'
  BY SameLists DEF SignalsInv, ThreadInv
<1> QED BY <1>1, <1>2, Aside

\* A main loop reads a notification.
LEMMA ReadNotificationStep ==
    ASSUME SignalsInv, NEW t \in Clients, ReadNotification(t) PROVE SignalsInv'
<1> USE DEF ReadNotification
<1>1. TypeOK'
  <2>1. unread[t] \in 0 .. PipeCapacity
    BY DEF SignalsInv, ThreadInv, TypeOK
  <2>2. unread[t] - 1 \in 0 .. PipeCapacity
    BY <2>1, SignalsAssumption
  <2> QED BY <2>2 DEF SignalsInv, ThreadInv, TypeOK
<1>2. SignalsHaveThreadData'
  BY SameLists DEF SignalsInv, ThreadInv
<1> QED BY <1>1, <1>2, Aside

\* Jobs come, run and end.
LEMMA JobSteps ==
    ASSUME SignalsInv, JobEnds \/ \E t \in Clients : Execute(t) \/ JobStarts(t) PROVE SignalsInv'
<1> USE DEF Execute, JobStarts, JobEnds, CanCall
<1>1. TypeOK'
  BY DEF SignalsInv, ThreadInv, TypeOK
<1>2. SignalsHaveThreadData'
  BY SameLists DEF SignalsInv, ThreadInv
<1> QED BY <1>1, <1>2, Aside

\* fetch_result() drops a ThreadData without signals.
LEMMA FetchResultStep ==
    ASSUME SignalsInv, NEW t \in Clients, FetchResult(t) PROVE SignalsInv'
<1> USE DEF FetchResult, CanCall
<1>1. TypeOK'
  BY DEF SignalsInv, ThreadInv, TypeOK
<1>2. SignalsHaveThreadData'
  BY DEF SignalsInv, ThreadInv, SignalsHaveThreadData, SignalsOf
<1> QED BY <1>1, <1>2, Aside

-----------------------------------------------------------------------------
(* Specs are connected and stolen.                                         *)

\* No thread and no queue refers to a spec that was not connected.
LEMMA Untouched ==
    ASSUME SignalsInv, NEW s \in Specs, spec[s].state = "unborn"
    PROVE  Occurrences(s) = 0 /\ spec[s].ref = 0 /\ spec[s].holder = NoThread
<1> DEFINE x == pc[Worker]
<1>1. Worker \in Threads /\ pc \in [Threads -> PcRec]
  BY Types DEF Threads, SignalsInv, ThreadInv
<1>2. Occurrences(s) \in Nat
  <2>1. Occurrences(s) = Cardinality(Slots(queue, {s})) + Cardinality(In(pc, RefersTo(s)))
                                   + One(spec[s].holder # NoThread)
    BY Pieces DEF SignalsInv, ThreadInv
  <2>2. Cardinality(Slots(queue, {s})) \in Nat
    BY SlotsFinite
  <2>3. Cardinality(In(pc, RefersTo(s))) \in Nat
    BY InStep, <1>1
  <2> QED BY <2>1, <2>2, <2>3 DEF One
<1>3. spec[s].ref \in Nat
  BY DEF SignalsInv, ThreadInv, TypeOK
<1>4. spec[s].ref >= Occurrences(s)
  BY DEF SignalsInv, CountInv
<1>5. ~(spec[s].ref > 0) /\ spec[s].holder = NoThread
  BY DEF SignalsInv, ThreadInv, SpecInv
<1> QED BY <1>2, <1>3, <1>4, <1>5

\* connect_raw()
LEMMA ConnectStep ==
    ASSUME SignalsInv, NEW t \in Clients, NEW s \in Specs,
           NEW anythread \in BOOLEAN, NEW private \in BOOLEAN, Connect(t, s, anythread, private)
    PROVE  SignalsInv'
<1> DEFINE n == IF t \in PipeUsers THEN t ELSE NoThread
           b == private /\ ~anythread
<1>1. PICK r : /\ r = [state |-> "used", holder |-> t, target |-> t, notif |-> n, callback |-> TRUE,
                       ref |-> 1, anythread |-> anythread, private |-> b]
               /\ spec' = [spec EXCEPT ![s] = r]
  BY Zenon DEF Connect
<1>2. /\ pc[t] = Idle /\ spec[s].state = "unborn" /\ td' = td \cup {t}
      /\ UNCHANGED <<slock, rmutex, busy, current, queue, unread, pc, ended, fault>>
  BY DEF Connect, CanCall
<1>3. r \in SpecRec
  BY <1>1 DEF SpecRec, States, Nobody
<1>4. r.state = "used" /\ r.holder = t /\ r.target = t /\ r.callback /\ r.ref = 1
  BY <1>1
<1>5. TypeOK'
  <2>1. spec' \in [Specs -> SpecRec]
    BY <1>1, <1>3, Types DEF SignalsInv, ThreadInv
  <2> HIDE DEF n, b
  <2> QED BY <2>1, <1>2 DEF SignalsInv, ThreadInv, TypeOK, SpecRec, States, Nobody
<1>6. spec'[s] = r /\ \A o \in Specs : o # s => spec'[o] = spec[o]
  BY <1>1 DEF SignalsInv, ThreadInv, TypeOK
<1>7. t # NoThread
  BY SignalsAssumption
<1> HIDE DEF n, b
<1>8. PcInv'
  <2>1. \A u \in Threads : pc[u].at \notin {"idle", "pop"} => pc[u].spec # s
    BY <1>2 DEF SignalsInv, ThreadInv, PcInv
  <2> QED BY <2>1, <1>2, <1>6 DEF SignalsInv, ThreadInv, PcInv, CanLock, Disconnecting
<1>9. QueueInv'
  <2> SUFFICES ASSUME NEW u \in Clients, NEW k \in DOMAIN queue[u]
               PROVE  spec'[queue[u][k]].state # "unborn"
    BY <1>2 DEF QueueInv
  <2>1. queue[u][k] \in Specs
    BY InQueue DEF SignalsInv, ThreadInv
  <2> QED BY <2>1, <1>4, <1>6 DEF SignalsInv, ThreadInv, QueueInv
<1>10. SpecInv'
  <2>1. \A o \in Specs : o # s => spec'[o] = spec[o]
    BY <1>6
  <2>2. s \notin ended
    BY <1>2 DEF SignalsInv, ThreadInv, SpecInv
  <2> QED BY <2>1, <2>2, <1>2, <1>4, <1>6 DEF SignalsInv, ThreadInv, SpecInv
<1>11. SignalsHaveThreadData'
  BY <1>2, <1>4, <1>6 DEF SignalsInv, ThreadInv, SignalsHaveThreadData, SignalsOf
<1>12. QuietInv'
  <2>1. \A u \in Threads : pc[u].at \notin {"idle", "pop"} => pc[u].spec # s
    BY <1>2 DEF SignalsInv, ThreadInv, PcInv
  <2> QED BY <2>1, <1>2, <1>6 DEF SignalsInv, ThreadInv, PcInv, QuietInv, EmittingAt
<1>13. BoundInv' /\ CountInv'
  <2>1. /\ Underway' = Underway
        /\ \A o \in Specs : /\ Occurrences(o) \in Nat
                            /\ Occurrences(o)' = Occurrences(o)
                                 + One(spec'[o].holder # NoThread) - One(spec[o].holder # NoThread)
    BY <1>2, <1>5, CountLists DEF SignalsInv, ThreadInv
  <2>2. \A o \in Specs : o = s => Occurrences(o)' = 1
    <3> SUFFICES ASSUME NEW o \in Specs, o = s PROVE Occurrences(o)' = 1
      OBVIOUS
    <3>1. Occurrences(o) = 0 /\ spec[o].holder = NoThread
      BY <1>2, Untouched
    <3>2. spec'[o].holder # NoThread
      BY <1>4, <1>6, <1>7
    <3> QED BY <2>1, <3>1, <3>2 DEF One
  <2>3. \A o \in Specs : o # s => Occurrences(o)' = Occurrences(o)
    BY <2>1, <1>6 DEF One
  <2>4. BoundInv'
    BY <2>1, <1>2 DEF SignalsInv, BoundInv
  <2>5. CountInv'
    <3> SUFFICES ASSUME NEW o \in Specs
                 PROVE  /\ spec'[o].ref >= Occurrences(o)'
                        /\ "while emitting" \notin Usage => spec'[o].ref = Occurrences(o)'
      BY DEF CountInv
    <3>1. CASE o = s
      <4>1. spec'[o].ref = 1
        BY <3>1, <1>4, <1>6
      <4>2. Occurrences(o)' = 1
        BY <3>1, <2>2
      <4> QED BY <4>1, <4>2
    <3>2. CASE o # s
      BY <3>2, <2>3, <1>6 DEF SignalsInv, CountInv
    <3> QED BY <3>1, <3>2
  <2> QED BY <2>4, <2>5
<1> QED BY <1>5, <1>8, <1>9, <1>10, <1>11, <1>12, <1>13 DEF SignalsInv, ThreadInv

\* steal_signal()
LEMMA StealSignalStep ==
    ASSUME SignalsInv, NEW t \in Clients, NEW s \in Specs, StealSignal(t, s)
    PROVE  SignalsInv'
<1>1. PICK r : r = [spec[s] EXCEPT !.holder = t, !.target = t] /\ spec' = [spec EXCEPT ![s] = r]
  BY DEF StealSignal, Stolen
<1>2. /\ pc[t] = Idle /\ spec[s].holder # NoThread /\ td' = td \cup {t}
      /\ UNCHANGED <<slock, rmutex, busy, current, queue, unread, pc, ended, fault>>
  BY DEF StealSignal, CanCall
<1>3. spec[s] \in SpecRec
  BY Types DEF SignalsInv, ThreadInv
<1>4. /\ r.state = spec[s].state /\ r.holder = t /\ r.target = t /\ r.notif = spec[s].notif
      /\ r.ref = spec[s].ref
  BY <1>1, <1>3 DEF SpecRec
<1>5. r.callback = spec[s].callback /\ r.anythread = spec[s].anythread /\ r.private = spec[s].private
  BY <1>1, <1>3, Zenon DEF SpecRec
<1>6. r \in SpecRec
  BY <1>1, <1>3 DEF SpecRec, Nobody
<1>7. TypeOK'
  <2>1. spec' \in [Specs -> SpecRec]
    BY <1>1, <1>6, Types DEF SignalsInv, ThreadInv
  <2> QED BY <2>1, <1>2 DEF SignalsInv, ThreadInv, TypeOK, SpecRec, States, Nobody
<1>8. spec'[s] = r /\ \A o \in Specs : o # s => spec'[o] = spec[o]
  BY <1>1 DEF SignalsInv, ThreadInv, TypeOK
<1>9. t # NoThread
  BY SignalsAssumption
<1>10. \A o \in Specs : /\ spec[o].state # "unborn" => spec'[o].state # "unborn"
                        /\ spec[o].holder # NoThread => spec'[o].holder # NoThread
  BY <1>4, <1>8, <1>9
<1>16. PcInv'
  <2> SUFFICES ASSUME NEW u \in Threads
        PROVE  /\ pc[u].at \notin {"idle", "pop"} =>
                    pc[u].spec \in Specs /\ spec'[pc[u].spec].state # "unborn"
               /\ pc[u].at \notin {"idle"} \cup EmittingAt => u \in Clients
               /\ pc[u].at \in Disconnecting =>
                    spec'[pc[u].spec].holder # NoThread /\ Len(rmutex) > 0 /\ CanLock(u)
    BY <1>2 DEF PcInv, CanLock
  <2>1. /\ pc[u].at \notin {"idle", "pop"} =>
             pc[u].spec \in Specs /\ spec[pc[u].spec].state # "unborn"
        /\ pc[u].at \notin {"idle"} \cup EmittingAt => u \in Clients
        /\ pc[u].at \in Disconnecting =>
             spec[pc[u].spec].holder # NoThread /\ Len(rmutex) > 0 /\ CanLock(u)
    BY DEF SignalsInv, ThreadInv, PcInv
  <2>2. pc[u].at \in Disconnecting => pc[u].at \notin {"idle", "pop"}
    BY DEF Disconnecting
  <2>3. CASE pc[u].at \in {"idle", "pop"}
    BY <2>1, <2>2, <2>3
  <2>4. CASE pc[u].at \notin {"idle", "pop"}
    <3>1. PICK o \in Specs : o = pc[u].spec
      BY <2>1, <2>4
    <3>2. spec'[o].state # "unborn" /\ (spec[o].holder # NoThread => spec'[o].holder # NoThread)
      BY <3>1, <2>1, <2>4, <1>10
    <3> QED BY <3>1, <3>2, <2>1, <2>4
  <2> QED BY <2>3, <2>4
<1>11. QueueInv'
  <2> SUFFICES ASSUME NEW u \in Clients, NEW k \in DOMAIN queue[u]
               PROVE  spec'[queue[u][k]].state # "unborn"
    BY <1>2 DEF QueueInv
  <2>1. queue[u][k] \in Specs
    BY InQueue DEF SignalsInv, ThreadInv
  <2> QED BY <2>1, <1>4, <1>8 DEF SignalsInv, ThreadInv, QueueInv
<1>12. SpecInv'
  <2>1. spec[s].state # "unborn" /\ (s \in ended => ~r.callback)
    BY <1>2, <1>5 DEF SignalsInv, ThreadInv, SpecInv
  <2> QED BY <2>1, <1>2, <1>4, <1>8 DEF SignalsInv, ThreadInv, SpecInv
<1>13. SignalsHaveThreadData'
  BY <1>2, <1>4, <1>8 DEF SignalsInv, ThreadInv, SignalsHaveThreadData, SignalsOf
<1>14. QuietInv'
  <2> SUFFICES ASSUME "while emitting" \notin Usage, NEW e \in Threads, pc[e].at \in EmittingAt
        PROVE  /\ spec'[pc[e].spec].holder # NoThread
               /\ \A u \in Threads : pc[u].at \in Disconnecting => pc[u].spec # pc[e].spec
    BY <1>2 DEF QuietInv
  <2>1. pc[e].spec \in Specs
    BY DEF SignalsInv, ThreadInv, PcInv, EmittingAt
  <2>2. /\ spec[pc[e].spec].holder # NoThread
        /\ \A u \in Threads : pc[u].at \in Disconnecting => pc[u].spec # pc[e].spec
    BY DEF SignalsInv, QuietInv
  <2>3. PICK o \in Specs : o = pc[e].spec
    BY <2>1
  <2>4. spec'[o].holder # NoThread
    BY <2>2, <2>3, <1>10
  <2> QED BY <2>2, <2>3, <2>4
<1>15. BoundInv' /\ CountInv'
  <2>1. /\ Underway' = Underway
        /\ \A o \in Specs : /\ Occurrences(o) \in Nat
                            /\ Occurrences(o)' = Occurrences(o)
                                 + One(spec'[o].holder # NoThread) - One(spec[o].holder # NoThread)
    BY <1>2, <1>7, CountLists DEF SignalsInv, ThreadInv
  <2>2. \A o \in Specs : Occurrences(o)' = Occurrences(o)
    BY <2>1, <1>2, <1>4, <1>8, <1>9 DEF One
  <2>3. BoundInv'
    BY <2>1, <1>2 DEF SignalsInv, BoundInv
  <2>4. \A o \in Specs : spec'[o].ref = spec[o].ref
    BY <1>4, <1>8
  <2> QED BY <2>2, <2>3, <2>4 DEF SignalsInv, CountInv
<1> QED BY <1>7, <1>11, <1>12, <1>13, <1>14, <1>15, <1>16 DEF SignalsInv, ThreadInv

-----------------------------------------------------------------------------
(* A thread moves.                                                         *)

\* What the place x of a thread t has to respect.
Allowed(t, x) ==
    /\ x.at \notin {"idle", "pop"} => x.spec \in Specs /\ spec[x.spec].state # "unborn"
    /\ x.at \notin {"idle"} \cup EmittingAt => t \in Clients
    /\ x.at \in Disconnecting => spec[x.spec].holder # NoThread
    /\ "while emitting" \notin Usage =>
         /\ x.at \in EmittingAt =>
              /\ spec[x.spec].holder # NoThread
              /\ \A u \in Threads : pc[u].at \in Disconnecting => pc[u].spec # x.spec
         /\ x.at \in Disconnecting =>
              \A u \in Threads : pc[u].at \in EmittingAt => pc[u].spec # x.spec

\* A thread moves there.
LEMMA MovePc ==
    ASSUME SignalsInv, NEW t \in Threads, NEW x \in PcRec, Allowed(t, x),
           pc' = [pc EXCEPT ![t] = x], spec' = spec,
           x.at \in Disconnecting => (Len(rmutex) > 0 /\ CanLock(t))',
           UNCHANGED rmutex \/ CanLock(t)
    PROVE  PcInv' /\ QuietInv'
<1>0. TypeOK /\ pc \in [Threads -> PcRec]
  BY Types DEF SignalsInv, ThreadInv
<1>1. pc'[t] = x /\ \A u \in Threads : u # t => pc'[u] = pc[u]
  BY <1>0
<1>2. PcInv'
  <2> SUFFICES ASSUME NEW u \in Threads
        PROVE  /\ pc'[u].at \notin {"idle", "pop"} =>
                    pc'[u].spec \in Specs /\ spec[pc'[u].spec].state # "unborn"
               /\ pc'[u].at \notin {"idle"} \cup EmittingAt => u \in Clients
               /\ pc'[u].at \in Disconnecting =>
                    /\ spec[pc'[u].spec].holder # NoThread
                    /\ (Len(rmutex) > 0 /\ CanLock(u))'
    BY DEF PcInv
  <2>1. CASE u = t
    BY <1>1, <2>1 DEF Allowed
  <2>2. CASE u # t
    <3>1. pc'[u] = pc[u]
      BY <1>1, <2>2
    <3>2. pc[u].at \in Disconnecting => Len(rmutex) > 0 /\ CanLock(u)
      BY DEF SignalsInv, ThreadInv, PcInv
    <3>3. pc[u].at \in Disconnecting => UNCHANGED rmutex
      BY <3>2, <1>0, <2>2, Exclusive
    <3>4. pc[u].at \in Disconnecting => (Len(rmutex) > 0 /\ CanLock(u))'
      BY <3>2, <3>3 DEF CanLock
    <3> QED BY <3>1, <3>4 DEF SignalsInv, ThreadInv, PcInv
  <2> QED BY <2>1, <2>2
<1>3. QuietInv'
  <2> SUFFICES ASSUME "while emitting" \notin Usage, NEW e \in Threads, pc'[e].at \in EmittingAt
        PROVE  /\ spec[pc'[e].spec].holder # NoThread
               /\ \A u \in Threads : pc'[u].at \in Disconnecting => pc'[u].spec # pc'[e].spec
    BY DEF QuietInv
  <2>1. CASE e = t
    <3>1. pc'[e] = x /\ x.at \in EmittingAt /\ x.at \notin Disconnecting
      BY <2>1, <1>1 DEF EmittingAt, Disconnecting
    <3> QED BY <3>1, <1>1, <2>1 DEF Allowed
  <2>2. CASE e # t
    <3>1. pc'[e] = pc[e] /\ pc[e].at \in EmittingAt
      BY <2>2, <1>1
    <3> QED BY <3>1, <1>1, ZenonT(40) DEF Allowed, SignalsInv, QuietInv
  <2> QED BY <2>1, <2>2
<1> QED BY <1>2, <1>3

\* A thread that moves there, and neither takes nor leaves a reference.
LEMMA Move ==
    ASSUME SignalsInv, TypeOK', NEW t \in Threads, NEW x \in PcRec,
           pc' = [pc EXCEPT ![t] = x], UNCHANGED <<spec, queue, td, ended>>,
           Allowed(t, x),
           x.at \in Disconnecting => (Len(rmutex) > 0 /\ CanLock(t))',
           UNCHANGED rmutex \/ CanLock(t),
           \A s \in Specs : x \in RefersTo(s) <=> pc[t] \in RefersTo(s),
           x \in Pushing => pc[t] \in Pushing \/ Underway < SignalsBound,
           pc[t].at \notin Disconnecting
    PROVE  SignalsInv'
<1>0. TypeOK /\ pc \in [Threads -> PcRec]
  BY Types DEF SignalsInv, ThreadInv
<1>2. PcInv' /\ QuietInv'
  BY MovePc
<1>3. QueueInv' /\ SpecInv' /\ SignalsHaveThreadData'
  BY Zenon DEF SignalsInv, ThreadInv, QueueInv, SpecInv, SignalsHaveThreadData, SignalsOf
<1>5. /\ Underway \in Nat /\ Underway' = Underway + One(x \in Pushing) - One(pc[t] \in Pushing)
      /\ \A s \in Specs :
           /\ Occurrences(s) \in Nat
           /\ Occurrences(s)' = Occurrences(s) + One(x \in RefersTo(s)) - One(pc[t] \in RefersTo(s))
                + One(spec'[s].holder # NoThread) - One(spec[s].holder # NoThread)
  BY <1>0, Count
<1>6. BoundInv'
  <2>1. Underway <= SignalsBound /\ SignalsBound \in Nat
    BY SignalsAssumption DEF SignalsInv, BoundInv
  <2>2. Underway' <= SignalsBound
    BY <1>5, <2>1 DEF One
  <2> QED BY <2>2 DEF SignalsInv, BoundInv
<1>7. CountInv'
  <2>1. \A s \in Specs : Occurrences(s)' = Occurrences(s)
    BY <1>5 DEF One
  <2> QED BY <2>1 DEF SignalsInv, CountInv
<1> QED BY <1>2, <1>3, <1>6, <1>7 DEF SignalsInv, ThreadInv

\* disconnect() waits for the mutex of the spec.
LEMMA DisconnectBeginStep ==
    ASSUME SignalsInv, NEW t \in Clients, NEW s \in Specs, DisconnectBegin(t, s)
    PROVE  SignalsInv'
<1>0. /\ TypeOK /\ t \in Threads /\ pc \in [Threads -> PcRec] /\ rmutex \in Seq(Clients)
      /\ "disconnect" \in Places /\ "disconnect in callback" \in Places
  BY Types DEF SignalsInv, ThreadInv, Threads, Places
<1>1. /\ CanLock(t) /\ rmutex' = Append(rmutex, t) /\ ("while emitting" \in Usage \/ ~Emitting(s))
      /\ UNCHANGED <<spec, slock, td, busy, current, queue, unread, ended, fault>>
      /\ t # NoThread
  BY SignalsAssumption DEF DisconnectBegin, CanCall
<1>2. spec[s].holder # NoThread
  BY SignalsAssumption DEF DisconnectBegin
<1>3. spec[s].state # "unborn"
  BY <1>2 DEF SignalsInv, ThreadInv, SpecInv
<1>4. \E x \in PcRec : /\ pc' = [pc EXCEPT ![t] = x] /\ x.spec = s
                       /\ \/ pc[t] = Idle /\ x.at = "disconnect"
                          \/ /\ pc[t].at = "callback" /\ pc[t].spec = s
                             /\ x.at = "disconnect in callback"
  <2>1. CASE CanCall(t) /\ pc' = [pc EXCEPT ![t] = [at |-> "disconnect", spec |-> s]]
    <3>1. [at |-> "disconnect", spec |-> s] \in PcRec
      BY <1>0 DEF PcRec
    <3> QED BY <2>1, <3>1 DEF CanCall
  <2>2. CASE pc[t].at = "callback" /\ pc[t].spec = s /\ Go(t, "disconnect in callback")
    <3>1. PICK x \in PcRec : /\ x.at = "disconnect in callback" /\ x.spec = pc[t].spec
                             /\ pc' = [pc EXCEPT ![t] = x]
      BY <2>2, <1>0, Going
    <3> QED BY <2>2, <3>1
  <2> QED BY <2>1, <2>2 DEF DisconnectBegin
<1>5. PICK x \in PcRec : /\ pc' = [pc EXCEPT ![t] = x] /\ x.spec = s
                         /\ \/ pc[t] = Idle /\ x.at = "disconnect"
                            \/ /\ pc[t].at = "callback" /\ pc[t].spec = s
                               /\ x.at = "disconnect in callback"
  BY <1>4
<1>6. (Len(rmutex) > 0 /\ CanLock(t))' /\ rmutex' \in Seq(Clients)
  BY <1>0, <1>1, Locking DEF CanLock
<1>7. TypeOK'
  <2>1. pc' \in [Threads -> PcRec]
    BY <1>0, <1>5
  <2> QED BY <2>1, <1>0, <1>1, <1>6 DEF TypeOK, PcRec, Places
<1>8. Allowed(t, x)
  <2>1. "while emitting" \notin Usage => \A u \in Threads : pc[u].at \in EmittingAt => pc[u].spec # s
    BY <1>1 DEF Emitting, EmittingAt
  <2>2. x.at \notin EmittingAt
    BY <1>5 DEF EmittingAt
  <2> QED BY <2>1, <2>2, <1>2, <1>3, <1>5 DEF Allowed
<1>9. \A o \in Specs : x \in RefersTo(o) <=> pc[t] \in RefersTo(o)
  BY <1>0, <1>5, Place DEF Referring
<1>10. x \notin Pushing /\ pc[t].at \notin Disconnecting
  BY <1>5, Place DEF Disconnecting
<1> QED BY <1>0, <1>1, <1>5, <1>6, <1>7, <1>8, <1>9, <1>10, Move

\* A signal is emitted.
LEMMA EmitStep ==
    ASSUME SignalsInv, NEW e \in Threads, NEW s \in Specs, Emit(e, s)
    PROVE  SignalsInv'
<1> DEFINE x == [at |-> "marshal", spec |-> s]
<1>0. TypeOK /\ pc \in [Threads -> PcRec]
  BY Types DEF SignalsInv, ThreadInv
<1>1. /\ pc[e] = Idle /\ spec[s].holder # NoThread /\ Underway < SignalsBound
      /\ pc' = [pc EXCEPT ![e] = x]
      /\ UNCHANGED <<spec, slock, rmutex, td, busy, current, queue, unread, ended, fault>>
  BY DEF Emit
<1>2. x \in PcRec /\ x.at = "marshal" /\ x.spec = s
  BY DEF PcRec, Places
<1> HIDE DEF x
<1>3. TypeOK'
  <2>1. pc' \in [Threads -> PcRec]
    BY <1>0, <1>1, <1>2
  <2> QED BY <2>1, <1>0, <1>1 DEF TypeOK, PcRec, Places
<1>4. Allowed(e, x)
  <2>1. spec[s].state # "unborn"
    BY <1>1 DEF SignalsInv, ThreadInv, SpecInv
  <2>2. "while emitting" \notin Usage => \A u \in Threads : pc[u].at \in Disconnecting => pc[u].spec # s
    BY DEF Emit, Disconnecting
  <2> QED BY <2>1, <2>2, <1>1, <1>2 DEF Allowed, EmittingAt, Disconnecting
<1>5. \A o \in Specs : x \in RefersTo(o) <=> pc[e] \in RefersTo(o)
  BY <1>0, <1>1, <1>2, Place DEF Referring
<1>6. x.at \notin Disconnecting /\ pc[e].at \notin Disconnecting
  BY <1>1, <1>2 DEF Disconnecting, Idle
<1> QED BY <1>0, <1>1, <1>2, <1>3, <1>4, <1>5, <1>6, Move

\* The marshaller notifies the thread and unlocks the spec.
LEMMA MarshalNotifyStep ==
    ASSUME SignalsInv, NEW e \in Threads, MarshalNotify(e)
    PROVE  SignalsInv'
<1>0. TypeOK /\ pc \in [Threads -> PcRec]
  BY Types DEF SignalsInv, ThreadInv
<1>1. PICK s : s = pc[e].spec
  OBVIOUS
<1>2. /\ pc[e].at = "notify" /\ Done(e)
      /\ UNCHANGED <<spec, rmutex, td, busy, current, queue, ended, fault>>
      /\ slock' = [slock EXCEPT ![s] = NoThread]
  BY <1>1 DEF MarshalNotify, Unlock
<1>3. s \in Specs
  BY <1>1, <1>2 DEF SignalsInv, ThreadInv, PcInv
<1>4. unread' \in [Clients -> 0 .. PipeCapacity]
  <2>1. CASE spec[s].notif = NoThread
    BY <2>1, <1>0, <1>1 DEF TypeOK, MarshalNotify
  <2>2. CASE spec[s].notif # NoThread
    <3>1. PICK u \in Clients : u = spec[s].notif
      BY <2>2, <1>3, <1>0 DEF TypeOK
    <3>2. unread[u] < PipeCapacity /\ unread' = [unread EXCEPT ![u] = @ + 1]
      BY <2>2, <3>1, <1>1 DEF MarshalNotify
    <3>3. unread \in [Clients -> 0 .. PipeCapacity] /\ unread[u] \in 0 .. PipeCapacity
      BY <1>0 DEF TypeOK
    <3>4. unread[u] + 1 \in 0 .. PipeCapacity
      BY <3>2, <3>3, SignalsAssumption
    <3> QED BY <3>2, <3>3, <3>4
  <2> QED BY <2>1, <2>2
<1>5. PICK x \in PcRec : x = Idle /\ x.at = "idle" /\ pc' = [pc EXCEPT ![e] = x]
  BY <1>0, <1>2, Resting
<1>6. TypeOK'
  <2>1. pc' \in [Threads -> PcRec]
    BY <1>0, <1>5
  <2>2. slock' \in [Specs -> Threads \cup {NoThread}]
    BY <1>0, <1>2, <1>3 DEF TypeOK
  <2> QED BY <2>1, <2>2, <1>0, <1>2, <1>4 DEF TypeOK, PcRec, Places
<1>7. Allowed(e, x)
  BY <1>5 DEF Allowed, EmittingAt, Disconnecting
<1>8. \A o \in Specs : x \in RefersTo(o) <=> pc[e] \in RefersTo(o)
  BY <1>2, <1>5 DEF RefersTo, Referring
<1>9. x.at \notin Disconnecting /\ pc[e].at \notin Disconnecting /\ x \notin Pushing
  BY <1>2, <1>5 DEF Disconnecting, Pushing
<1> QED BY <1>0, <1>2, <1>5, <1>6, <1>7, <1>8, <1>9, Move

\* iterate() begins, tests the callback, calls it and comes back from it.
LEMMA IterateMoves ==
    ASSUME SignalsInv, NEW t \in Threads,
           (t \in Clients /\ IterateBegin(t)) \/ IterateTest(t) \/ IterateCall(t) \/ CallbackReturns(t)
    PROVE  SignalsInv'
<1>0. TypeOK /\ pc \in [Threads -> PcRec]
  BY Types DEF SignalsInv, ThreadInv
<1>1. UNCHANGED <<spec, slock, rmutex, td, busy, current, queue, unread, ended>>
  BY DEF IterateBegin, IterateTest, IterateCall, CallbackReturns
<1>2. ASSUME NEW where \in {"pop", "call", "callback", "release"}, Go(t, where), UNCHANGED fault,
             \/ t \in Clients /\ pc[t] = Idle /\ where = "pop"
             \/ pc[t].at \in {"test", "call", "callback"} /\ where # "pop"
      PROVE  SignalsInv'
  <2>1. where \in Places
    BY DEF Places
  <2>2. PICK x \in PcRec : x.at = where /\ x.spec = pc[t].spec /\ pc' = [pc EXCEPT ![t] = x]
    BY <2>1, <1>0, <1>2, Going
  <2>3. TypeOK'
    <3>1. pc' \in [Threads -> PcRec]
      BY <1>0, <2>2
    <3> QED BY <3>1, <1>0, <1>1, <1>2 DEF TypeOK, PcRec, Places
  <2>4. Allowed(t, x)
    <3>1. x.at \notin EmittingAt /\ x.at \notin Disconnecting
      BY <2>2 DEF EmittingAt, Disconnecting
    <3>2. CASE where = "pop"
      BY <3>1, <3>2, <1>2, <2>2 DEF Allowed
    <3>3. CASE where # "pop"
      <4>1. t \in Clients /\ pc[t].spec \in Specs /\ spec[pc[t].spec].state # "unborn"
        BY <1>2, <3>3 DEF SignalsInv, ThreadInv, PcInv, EmittingAt
      <4> QED BY <4>1, <3>1, <2>2 DEF Allowed
    <3> QED BY <3>2, <3>3
  <2>5. \A o \in Specs : x \in RefersTo(o) <=> pc[t] \in RefersTo(o)
    BY <1>0, <1>2, <2>2, Place DEF Referring
  <2>6. x.at \notin Disconnecting /\ pc[t].at \notin Disconnecting /\ x \notin Pushing
    BY <1>2, <2>2, Place DEF Disconnecting
  <2> QED BY <1>0, <1>1, <2>2, <2>3, <2>4, <2>5, <2>6, Move
<1>3. CASE t \in Clients /\ IterateBegin(t)
  BY <1>2, <1>3 DEF IterateBegin, CanCall
<1>4. CASE IterateTest(t)
  <2>1. CASE spec[pc[t].spec].callback
    BY <1>2, <1>4, <2>1 DEF IterateTest
  <2>2. CASE ~spec[pc[t].spec].callback
    BY <1>2, <1>4, <2>2 DEF IterateTest
  <2> QED BY <2>1, <2>2
<1>5. CASE CallbackReturns(t)
  BY <1>2, <1>5 DEF CallbackReturns
<1>6. CASE IterateCall(t)
  <2>1. CASE Go(t, "callback") /\ UNCHANGED fault
    BY <1>2, <1>6, <2>1 DEF IterateCall
  <2>2. CASE fault' = "callback" /\ UNCHANGED pc
    <3>1. TypeOK'
      BY <1>0, <1>1, <2>2 DEF TypeOK
    <3>2. SignalsHaveThreadData'
      BY <1>1, SameLists DEF SignalsInv, ThreadInv
    <3> QED BY <1>1, <2>2, <3>1, <3>2, Aside
  <2> QED BY <1>6, <2>1, <2>2 DEF IterateCall
<1> QED BY <1>3, <1>4, <1>5, <1>6

-----------------------------------------------------------------------------
(* References are taken and left.                                          *)

\* signal_spec_unref(), signal_spec_ref() and what disconnect() clears.
LEMMA Fields ==
    ASSUME NEW r \in SpecRec
    PROVE  /\ Ref(r) \in SpecRec /\ Cleared(r) \in SpecRec /\ r.ref \in Nat
           /\ Ref(r).state = r.state /\ Ref(r).holder = r.holder /\ Ref(r).target = r.target
           /\ Ref(r).ref = r.ref + 1
           /\ Cleared(r).state = r.state /\ Cleared(r).ref = r.ref
           /\ Cleared(r).holder = NoThread /\ Cleared(r).target = NoThread
           /\ r.ref > 0 =>
                /\ Unref(r) \in SpecRec
                /\ Unref(r).holder = r.holder /\ Unref(r).target = r.target
                /\ Unref(r).ref = r.ref - 1
                /\ Unref(r).state = IF r.ref = 1 THEN "freed" ELSE r.state
<1>1. r.ref \in Nat /\ r.ref + 1 \in Nat /\ (r.ref > 0 => r.ref - 1 \in Nat)
  BY DEF SpecRec
<1>2. /\ Ref(r) \in SpecRec
      /\ Ref(r).state = r.state /\ Ref(r).holder = r.holder /\ Ref(r).target = r.target
      /\ Ref(r).ref = r.ref + 1
  BY <1>1 DEF Ref, SpecRec
<1>3. /\ Cleared(r) \in SpecRec
      /\ Cleared(r).state = r.state /\ Cleared(r).ref = r.ref
      /\ Cleared(r).holder = NoThread /\ Cleared(r).target = NoThread
  BY DEF Cleared, SpecRec, Nobody
<1>4. ASSUME r.ref > 0
      PROVE  /\ Unref(r) \in SpecRec
             /\ Unref(r).holder = r.holder /\ Unref(r).target = r.target
             /\ Unref(r).ref = r.ref - 1
             /\ Unref(r).state = IF r.ref = 1 THEN "freed" ELSE r.state
  BY <1>1, <1>4 DEF Unref, SpecRec, States
<1> QED BY <1>1, <1>2, <1>3, <1>4

\* They keep who may call what.
LEMMA Callbacks ==
    ASSUME NEW r \in SpecRec
    PROVE  /\ Ref(r).callback = r.callback /\ Unref(r).callback = r.callback
           /\ ~Cleared(r).callback /\ Cleared(r) \in SpecRec
           /\ Ref(r).private = r.private /\ Unref(r).private = r.private
           /\ Cleared(r).private = r.private
           /\ Ref(r).anythread = r.anythread /\ Unref(r).anythread = r.anythread
           /\ Cleared(r).anythread = r.anythread
<1>1. Cleared(r) \in SpecRec
  BY Fields
<1>2. /\ Ref(r).callback = r.callback /\ Unref(r).callback = r.callback
      /\ Cleared(r).callback = FALSE
  BY Zenon DEF Ref, Unref, Cleared, SpecRec
<1>3. /\ Ref(r).private = r.private /\ Unref(r).private = r.private
      /\ Cleared(r).private = r.private
  BY Zenon DEF Ref, Unref, Cleared, SpecRec
<1>4. /\ Ref(r).anythread = r.anythread /\ Unref(r).anythread = r.anythread
      /\ Cleared(r).anythread = r.anythread
  BY Zenon DEF Ref, Unref, Cleared, SpecRec
<1> QED BY <1>1, <1>2, <1>3, <1>4

\* What is referred to has a reference.
LEMMA Referred ==
    ASSUME SignalsInv, NEW t \in Threads, NEW s \in Specs
    PROVE  /\ spec[s].ref \in Nat /\ Occurrences(s) \in Nat /\ spec[s].ref >= Occurrences(s)
           /\ pc[t].spec = s /\ pc[t].at \in Referring => Occurrences(s) >= 1
           /\ spec[s].holder # NoThread => Occurrences(s) >= 1
<1> DEFINE a == Cardinality(Slots(queue, {s}))
           b == Cardinality(In(pc, RefersTo(s)))
<1>1. TypeOK /\ pc \in [Threads -> PcRec] /\ spec[s].ref \in Nat /\ pc[t] \in PcRec
  BY Types DEF SignalsInv, ThreadInv, SpecRec
<1>2. a \in Nat
  BY SlotsFinite
<1>3. b \in Nat /\ (pc[t] \in RefersTo(s) => b > 0)
  BY <1>1, InStep
<1>4. Occurrences(s) = a + b + One(spec[s].holder # NoThread)
  BY <1>1, Pieces
<1>5. pc[t].spec = s /\ pc[t].at \in Referring => b > 0
  BY <1>1, <1>3, Place
<1>6. spec[s].ref >= Occurrences(s)
  BY DEF SignalsInv, CountInv
<1> HIDE DEF a, b
<1> QED BY <1>1, <1>2, <1>3, <1>4, <1>5, <1>6 DEF One

\* What a thread t has to respect when it changes the spec s it has at hand into r,
\* and moves to x.
Changed(t, x, s, r) ==
    /\ r.state # "unborn" /\ r.target = r.holder /\ (r.state = "used" <=> r.ref > 0)
    /\ x.at \notin {"idle", "pop"} => x.spec = s
    /\ x.at \notin {"idle"} \cup EmittingAt => t \in Clients
    /\ x.at \notin Disconnecting
    /\ x.at \in EmittingAt =>
         pc[t].at \in EmittingAt /\ pc[t].spec = s /\ r.holder = spec[s].holder
    /\ \/ r.holder = spec[s].holder
       \/ pc[t].at \in Disconnecting /\ pc[t].spec = s
    /\ x \in Pushing => pc[t] \in Pushing
    /\ \A o \in Specs : o # s => (x \in RefersTo(o) <=> pc[t] \in RefersTo(o))

\* Such a change, with a reference for each place taken and without it for each one left.
LEMMA Change ==
    ASSUME SignalsInv, TypeOK', SignalsHaveThreadData',
           NEW t \in Threads, NEW x \in PcRec, NEW s \in Specs, NEW r \in SpecRec,
           pc' = [pc EXCEPT ![t] = x], spec' = [spec EXCEPT ![s] = r], queue' = queue,
           ended' \subseteq ended \cup {s}, s \in ended' => ~r.callback,
           UNCHANGED rmutex \/ CanLock(t),
           Changed(t, x, s, r),
           r.ref + One(pc[t] \in RefersTo(s)) + One(spec[s].holder # NoThread)
             = spec[s].ref + One(x \in RefersTo(s)) + One(r.holder # NoThread)
    PROVE  SignalsInv'
<1>0. TypeOK /\ pc \in [Threads -> PcRec] /\ spec \in [Specs -> SpecRec]
  BY Types DEF SignalsInv, ThreadInv
<1>1. /\ pc'[t] = x /\ \A u \in Threads : u # t => pc'[u] = pc[u]
      /\ spec'[s] = r /\ \A o \in Specs : o # s => spec'[o] = spec[o]
  BY <1>0
<1>2. \A u \in Threads : u # t /\ pc[u].at \in Disconnecting =>
         /\ Len(rmutex) > 0 /\ CanLock(u) /\ UNCHANGED rmutex
         /\ pc[t].at \notin Disconnecting
  BY <1>0, Exclusive DEF SignalsInv, ThreadInv, PcInv
<1>3. PcInv'
  <2> SUFFICES ASSUME NEW u \in Threads
        PROVE  /\ pc'[u].at \notin {"idle", "pop"} =>
                    pc'[u].spec \in Specs /\ spec'[pc'[u].spec].state # "unborn"
               /\ pc'[u].at \notin {"idle"} \cup EmittingAt => u \in Clients
               /\ pc'[u].at \in Disconnecting =>
                    /\ spec'[pc'[u].spec].holder # NoThread
                    /\ (Len(rmutex) > 0 /\ CanLock(u))'
    BY DEF PcInv
  <2>1. CASE u = t
    BY <1>1, <2>1 DEF Changed
  <2>2. CASE u # t
    <3>1. pc'[u] = pc[u]
      BY <1>1, <2>2
    <3>2. pc[u].at \in Disconnecting => (Len(rmutex) > 0 /\ CanLock(u))'
      BY <1>2, <2>2 DEF CanLock
    <3>3. pc[u].at \in Disconnecting => pc[u].spec \in Specs /\ spec'[pc[u].spec].holder # NoThread
      <4> SUFFICES ASSUME pc[u].at \in Disconnecting
                   PROVE  pc[u].spec \in Specs /\ spec'[pc[u].spec].holder # NoThread
        OBVIOUS
      <4>1. pc[u].spec \in Specs /\ spec[pc[u].spec].holder # NoThread
        BY DEF SignalsInv, ThreadInv, PcInv, Disconnecting
      <4>2. r.holder = spec[s].holder
        BY <1>2, <2>2 DEF Changed
      <4> QED BY <4>1, <4>2, <1>1
    <3>4. pc[u].at \notin {"idle", "pop"} => pc[u].spec \in Specs /\ spec'[pc[u].spec].state # "unborn"
      BY <1>1 DEF Changed, SignalsInv, ThreadInv, PcInv
    <3> QED BY <3>1, <3>2, <3>3, <3>4 DEF SignalsInv, ThreadInv, PcInv
  <2> QED BY <2>1, <2>2
<1>4. QueueInv'
  <2> SUFFICES ASSUME NEW u \in Clients, NEW k \in DOMAIN queue[u]
               PROVE  spec'[queue[u][k]].state # "unborn"
    BY DEF QueueInv
  <2>1. queue[u][k] \in Specs
    BY <1>0, InQueue
  <2> QED BY <2>1, <1>1 DEF Changed, SignalsInv, ThreadInv, QueueInv
<1>5. SpecInv'
  BY <1>1 DEF Changed, SignalsInv, ThreadInv, SpecInv
<1>6. QuietInv'
  <2> SUFFICES ASSUME "while emitting" \notin Usage, NEW e \in Threads, pc'[e].at \in EmittingAt
        PROVE  /\ spec'[pc'[e].spec].holder # NoThread
               /\ \A u \in Threads : pc'[u].at \in Disconnecting => pc'[u].spec # pc'[e].spec
    BY DEF QuietInv
  <2>1. pc[e].at \in EmittingAt /\ pc'[e].spec = pc[e].spec /\ pc[e].spec \in Specs
    <3>1. CASE e = t
      BY <3>1, <1>1 DEF Changed, EmittingAt
    <3>2. CASE e # t
      BY <3>2, <1>1 DEF SignalsInv, ThreadInv, PcInv, EmittingAt
    <3> QED BY <3>1, <3>2
  <2>2. /\ spec[pc[e].spec].holder # NoThread
        /\ \A u \in Threads : pc[u].at \in Disconnecting => pc[u].spec # pc[e].spec
    BY <2>1 DEF SignalsInv, QuietInv
  <2>3. \A u \in Threads : pc'[u].at \in Disconnecting => pc'[u] = pc[u]
    BY <1>1 DEF Changed
  <2>4. spec'[pc[e].spec].holder # NoThread
    <3>1. CASE pc[e].spec = s
      BY <3>1, <2>2, <1>1 DEF Changed
    <3>2. CASE pc[e].spec # s
      BY <3>2, <2>1, <2>2, <1>1
    <3> QED BY <3>1, <3>2
  <2> QED BY <2>1, <2>2, <2>3, <2>4
<1>7. /\ Underway \in Nat /\ Underway' = Underway + One(x \in Pushing) - One(pc[t] \in Pushing)
      /\ \A o \in Specs :
           /\ Occurrences(o) \in Nat
           /\ Occurrences(o)' = Occurrences(o) + One(x \in RefersTo(o)) - One(pc[t] \in RefersTo(o))
                + One(spec'[o].holder # NoThread) - One(spec[o].holder # NoThread)
  BY <1>0, Count
<1>8. BoundInv'
  <2>1. Underway <= SignalsBound /\ SignalsBound \in Nat
    BY SignalsAssumption DEF SignalsInv, BoundInv
  <2>2. Underway' <= SignalsBound
    BY <1>7, <2>1 DEF Changed, One
  <2> QED BY <2>2 DEF SignalsInv, BoundInv
<1>9. CountInv'
  <2> SUFFICES ASSUME NEW o \in Specs
               PROVE  /\ spec'[o].ref >= Occurrences(o)'
                      /\ "while emitting" \notin Usage => spec'[o].ref = Occurrences(o)'
    BY DEF CountInv
  <2>1. /\ spec[o].ref >= Occurrences(o)
        /\ "while emitting" \notin Usage => spec[o].ref = Occurrences(o)
    BY DEF SignalsInv, CountInv
  <2>2. spec'[o].ref - spec[o].ref = Occurrences(o)' - Occurrences(o)
        /\ spec[o].ref \in Nat /\ spec'[o].ref \in Nat
        /\ Occurrences(o) \in Nat /\ Occurrences(o)' \in Int
    <3>1. spec[o].ref \in Nat /\ r.ref \in Nat /\ spec'[o].ref \in Nat
      BY <1>0, <1>1 DEF SpecRec
    <3>2. CASE o # s
      <4>1. Occurrences(o)' = Occurrences(o) /\ Occurrences(o) \in Nat
        BY <1>7, <1>1, <3>2 DEF Changed, One
      <4>2. spec'[o].ref = spec[o].ref
        BY <1>1, <3>2
      <4> QED BY <4>1, <4>2, <3>1
    <3>3. CASE o = s
      <4>1. spec'[o].ref = r.ref /\ spec'[o].holder = r.holder
        BY <1>1, <3>3
      <4>2. /\ Occurrences(o) \in Nat
            /\ Occurrences(o)' = Occurrences(o) + One(x \in RefersTo(o)) - One(pc[t] \in RefersTo(o))
                 + One(r.holder # NoThread) - One(spec[o].holder # NoThread)
        BY <1>7, <4>1
      <4>3. r.ref + One(pc[t] \in RefersTo(o)) + One(spec[o].holder # NoThread)
             = spec[o].ref + One(x \in RefersTo(o)) + One(r.holder # NoThread)
        BY <3>3
      <4>4. /\ One(x \in RefersTo(o)) \in Nat /\ One(pc[t] \in RefersTo(o)) \in Nat
            /\ One(r.holder # NoThread) \in Nat /\ One(spec[o].holder # NoThread) \in Nat
        BY DEF One
      <4>5. spec[o].ref \in Nat /\ r.ref \in Nat
        BY <3>1
      <4> HIDE DEF One
      <4>6. PICK a \in Nat, b \in Nat, c \in Nat, d \in Nat :
              /\ a = One(x \in RefersTo(o)) /\ b = One(pc[t] \in RefersTo(o))
              /\ c = One(r.holder # NoThread) /\ d = One(spec[o].holder # NoThread)
        BY <4>4
      <4>7. PICK n \in Nat, m \in Nat, k \in Nat :
              n = Occurrences(o) /\ m = spec[o].ref /\ k = r.ref
        BY <4>2, <4>5
      <4>8. Occurrences(o)' = n + a - b + c - d
        BY <4>2, <4>6, <4>7
      <4>9. k + b + d = m + a + c
        BY <4>3, <4>6, <4>7
      <4>10. k - m = (n + a - b + c - d) - n /\ n + a - b + c - d \in Int
        BY <4>9
      <4>11. r.ref - spec[o].ref = Occurrences(o)' - Occurrences(o) /\ Occurrences(o)' \in Int
        BY <4>7, <4>8, <4>10
      <4> QED BY <4>1, <4>2, <4>11, <3>1
    <3> QED BY <3>2, <3>3
  <2>3. spec'[o].ref >= Occurrences(o)'
    <3>1. spec[o].ref >= Occurrences(o)
      BY <2>1
    <3>2. PICK a \in Int, b \in Int : a = Occurrences(o) /\ b = Occurrences(o)'
      BY <2>2
    <3>3. PICK c \in Int, d \in Int : c = spec[o].ref /\ d = spec'[o].ref
      BY <2>2
    <3>4. c >= a /\ d - c = b - a
      BY <3>1, <3>2, <3>3, <2>2
    <3>5. d >= b
      BY <3>4
    <3> QED BY <3>2, <3>3, <3>5
  <2>4. spec[o].ref = Occurrences(o) => spec'[o].ref = Occurrences(o)'
    BY <2>2
  <2> QED BY <2>1, <2>3, <2>4
<1> QED BY <1>3, <1>4, <1>5, <1>6, <1>8, <1>9 DEF SignalsInv, ThreadInv

\* The marshaller takes a reference.
LEMMA MarshalRefStep ==
    ASSUME SignalsInv, NEW e \in Threads, MarshalRef(e)
    PROVE  SignalsInv'
<1>0. TypeOK /\ pc \in [Threads -> PcRec] /\ spec \in [Specs -> SpecRec] /\ "push" \in Places
  BY Types DEF SignalsInv, ThreadInv, Places
<1>1. pc[e].at = "marshal" /\ UNCHANGED <<rmutex, td, busy, current, queue, unread, ended>>
  BY DEF MarshalRef
<1>2. PICK s \in Specs : s = pc[e].spec /\ spec[s].state # "unborn"
  BY <1>1 DEF SignalsInv, ThreadInv, PcInv
<1>3. CASE spec[s].state = "freed"
  <2>1. fault' = "spec" /\ UNCHANGED <<spec, slock, pc>>
    BY <1>2, <1>3 DEF MarshalRef
  <2>2. TypeOK'
    BY <1>0, <1>1, <2>1 DEF TypeOK
  <2>3. SignalsHaveThreadData'
    BY <1>1, <2>1, SameLists DEF SignalsInv, ThreadInv
  <2> QED BY <1>1, <2>1, <2>2, <2>3, Aside
<1>4. CASE spec[s].state # "freed"
  <2>1. /\ slock' = [slock EXCEPT ![s] = e] /\ spec' = [spec EXCEPT ![s] = Ref(spec[s])]
        /\ Go(e, "push") /\ UNCHANGED fault
    BY <1>2, <1>4 DEF MarshalRef
  <2>2. PICK x \in PcRec : x.at = "push" /\ x.spec = pc[e].spec /\ pc' = [pc EXCEPT ![e] = x]
    BY <1>0, <2>1, Going
  <2>3. spec[s] \in SpecRec
    BY <1>0
  <2>4. PICK r \in SpecRec :
          /\ spec' = [spec EXCEPT ![s] = r] /\ r.state = spec[s].state /\ r.holder = spec[s].holder
          /\ r.target = spec[s].target /\ r.ref = spec[s].ref + 1 /\ spec[s].ref \in Nat
          /\ r = Ref(spec[s])
    BY <2>1, <2>3, Fields
  <2>5. r.callback = spec[s].callback
    BY <2>3, <2>4, Callbacks
  <2>6. TypeOK'
    <3>1. spec' \in [Specs -> SpecRec] /\ pc' \in [Threads -> PcRec]
      BY <1>0, <2>2, <2>4
    <3>2. slock' \in [Specs -> Threads \cup {NoThread}]
      BY <1>0, <2>1 DEF TypeOK
    <3> QED BY <3>1, <3>2, <1>0, <1>1, <2>1 DEF TypeOK, PcRec, Places, SpecRec, States, Nobody
  <2>7. SignalsHaveThreadData'
    <3>1. \A o \in Specs : spec'[o].holder = spec[o].holder
      BY <1>0, <2>4
    <3> QED BY <3>1, <1>1 DEF SignalsInv, ThreadInv, SignalsHaveThreadData, SignalsOf
  <2>8. spec[s].state = "used" /\ spec[s].target = spec[s].holder
    BY <1>0, <1>2, <1>4 DEF SignalsInv, ThreadInv, SpecInv, SpecRec, States
  <2>9. s \in ended' => ~r.callback
    BY <1>1, <2>5 DEF SignalsInv, ThreadInv, SpecInv
  <2>10. /\ x \in Pushing /\ pc[e] \in Pushing /\ x \in RefersTo(s)
         /\ \A o \in Specs : pc[e] \notin RefersTo(o) /\ (o # s => x \notin RefersTo(o))
    BY <1>0, <1>1, <1>2, <2>2, Place DEF Referring
  <2>11. r.ref + One(pc[e] \in RefersTo(s)) + One(spec[s].holder # NoThread)
             = spec[s].ref + One(x \in RefersTo(s)) + One(r.holder # NoThread)
    BY <2>4, <2>10 DEF One
  <2>12. r.state = "used" /\ r.ref > 0 /\ r.target = r.holder
    BY <2>4, <2>8
  <2>13. x.at \in EmittingAt /\ x.at \notin Disconnecting /\ pc[e].at \in EmittingAt
    BY <1>1, <2>2 DEF EmittingAt, Disconnecting
  <2>14. Changed(e, x, s, r)
    BY <1>2, <2>2, <2>4, <2>10, <2>12, <2>13 DEF Changed
  <2> QED BY <1>1, <2>2, <2>4, <2>6, <2>7, <2>9, <2>11, <2>14, Change
<1> QED BY <1>3, <1>4

\* iterate() leaves the reference of the job.
LEMMA IterateReleaseStep ==
    ASSUME SignalsInv, NEW t \in Threads, IterateRelease(t)
    PROVE  SignalsInv'
<1>0. TypeOK /\ pc \in [Threads -> PcRec] /\ spec \in [Specs -> SpecRec]
  BY Types DEF SignalsInv, ThreadInv
<1>1. /\ pc[t].at = "release"
      /\ UNCHANGED <<slock, rmutex, td, busy, current, queue, unread, ended, fault>>
      /\ pc' = [pc EXCEPT ![t] = [at |-> "pop", spec |-> NoThread]]
  BY DEF IterateRelease
<1>2. PICK s \in Specs : s = pc[t].spec /\ spec[s].state # "unborn" /\ t \in Clients
  BY <1>1 DEF SignalsInv, ThreadInv, PcInv, EmittingAt
<1>3. spec[s] \in SpecRec
  BY <1>0
<1>4. spec[s].ref > 0 /\ spec[s].ref \in Nat
  <2>1. pc[t].spec = s /\ pc[t].at \in Referring
    BY <1>1, <1>2 DEF Referring
  <2>2. /\ spec[s].ref \in Nat /\ Occurrences(s) \in Nat /\ spec[s].ref >= Occurrences(s)
        /\ Occurrences(s) >= 1
    BY <2>1, Referred
  <2> QED BY <2>2
<1>5. PICK r \in SpecRec :
        /\ spec' = [spec EXCEPT ![s] = r] /\ r.holder = spec[s].holder /\ r.target = spec[s].target
        /\ r.ref = spec[s].ref - 1 /\ r.state = (IF spec[s].ref = 1 THEN "freed" ELSE spec[s].state)
        /\ r = Unref(spec[s])
  BY <1>2, <1>3, <1>4, Fields DEF IterateRelease
<1>6. r.callback = spec[s].callback
  BY <1>3, <1>5, Callbacks
<1>7. PICK x \in PcRec : x.at = "pop" /\ x.spec = NoThread /\ pc' = [pc EXCEPT ![t] = x]
  BY <1>1 DEF PcRec, Places
<1>8. TypeOK'
  <2>1. spec' \in [Specs -> SpecRec] /\ pc' \in [Threads -> PcRec]
    BY <1>0, <1>5, <1>7
  <2> QED BY <2>1, <1>0, <1>1 DEF TypeOK, PcRec, Places, SpecRec, States, Nobody
<1>9. SignalsHaveThreadData'
  <2>1. \A o \in Specs : spec'[o].holder = spec[o].holder
    BY <1>0, <1>5
  <2> QED BY <2>1, <1>1 DEF SignalsInv, ThreadInv, SignalsHaveThreadData, SignalsOf
<1>10. spec[s].state = "used" /\ spec[s].target = spec[s].holder /\ (s \in ended' => ~r.callback)
  BY <1>1, <1>4, <1>6 DEF SignalsInv, ThreadInv, SpecInv
<1>11. r.state # "unborn" /\ (r.state = "used" <=> r.ref > 0) /\ r.target = r.holder
  BY <1>4, <1>5, <1>10
<1>12. /\ x \notin Pushing /\ pc[t] \in RefersTo(s)
       /\ \A o \in Specs : x \notin RefersTo(o) /\ (o # s => pc[t] \notin RefersTo(o))
  BY <1>0, <1>1, <1>2, <1>7, Place DEF Referring
<1>13. r.ref + One(pc[t] \in RefersTo(s)) + One(spec[s].holder # NoThread)
             = spec[s].ref + One(x \in RefersTo(s)) + One(r.holder # NoThread)
  BY <1>4, <1>5, <1>12 DEF One
<1>14. x.at \notin EmittingAt /\ x.at \notin Disconnecting
  BY <1>7 DEF EmittingAt, Disconnecting
<1>15. Changed(t, x, s, r)
  BY <1>2, <1>5, <1>7, <1>11, <1>12, <1>14 DEF Changed
<1> QED BY <1>1, <1>5, <1>7, <1>8, <1>9, <1>10, <1>13, <1>15, Change

\* disconnect() ends.
LEMMA DisconnectEndStep ==
    ASSUME SignalsInv, NEW t \in Threads, DisconnectEnd(t)
    PROVE  SignalsInv'
<1>0. TypeOK /\ pc \in [Threads -> PcRec] /\ spec \in [Specs -> SpecRec] /\ "release" \in Places
  BY Types DEF SignalsInv, ThreadInv, Places
<1>1. /\ pc[t].at \in Disconnecting
      /\ UNCHANGED <<slock, busy, current, queue, unread, fault>>
      /\ IF pc[t].at = "disconnect" THEN Done(t) ELSE Go(t, "release")
  BY DEF DisconnectEnd, Disconnecting
<1>2. PICK s \in Specs : /\ s = pc[t].spec /\ t \in Clients /\ spec[s].holder # NoThread
                         /\ Len(rmutex) > 0 /\ CanLock(t)
  BY <1>1 DEF SignalsInv, ThreadInv, PcInv, EmittingAt, Disconnecting
<1>3. /\ spec' = [spec EXCEPT ![s] = Unref(Cleared(spec[s]))] /\ ended' = ended \cup {s}
      /\ td' = AfterRemoval(t, SignalsOf(t) \ {s}) /\ rmutex' = Tail(rmutex)
  BY <1>2 DEF DisconnectEnd
<1>4. spec[s] \in SpecRec /\ spec[s].ref > 0 /\ spec[s].ref \in Nat /\ spec[s].state = "used"
  <2>1. spec[s].ref > 0 /\ spec[s].ref \in Nat
    BY <1>2, Referred
  <2> QED BY <2>1, <1>0 DEF SignalsInv, ThreadInv, SpecInv
<1>5. PICK r \in SpecRec :
        /\ spec' = [spec EXCEPT ![s] = r] /\ r.holder = NoThread /\ r.target = NoThread
        /\ r.ref = spec[s].ref - 1 /\ r.state = (IF spec[s].ref = 1 THEN "freed" ELSE spec[s].state)
        /\ r = Unref(Cleared(spec[s]))
  <2> DEFINE c == Cleared(spec[s])
  <2>1. /\ c \in SpecRec /\ c.ref = spec[s].ref /\ c.state = spec[s].state
        /\ c.holder = NoThread /\ c.target = NoThread
    BY <1>4, Fields
  <2>2. /\ Unref(c) \in SpecRec /\ Unref(c).holder = c.holder /\ Unref(c).target = c.target
        /\ Unref(c).ref = c.ref - 1
        /\ Unref(c).state = IF c.ref = 1 THEN "freed" ELSE c.state
    <3> HIDE DEF c
    <3> QED BY <2>1, <1>4, Fields
  <2> QED BY <2>1, <2>2, <1>3
<1>6. ~r.callback
  <2>1. Cleared(spec[s]) \in SpecRec /\ ~Cleared(spec[s]).callback
    BY <1>4, Callbacks
  <2> QED BY <2>1, <1>5, Callbacks
<1>7. PICK x \in PcRec : /\ pc' = [pc EXCEPT ![t] = x]
                         /\ \/ pc[t].at = "disconnect" /\ x.at = "idle"
                            \/ /\ pc[t].at = "disconnect in callback" /\ x.at = "release"
                               /\ x.spec = s
  <2>1. CASE pc[t].at = "disconnect"
    BY <2>1, <1>0, <1>1, Resting
  <2>2. CASE pc[t].at # "disconnect"
    <3>1. PICK x \in PcRec : x.at = "release" /\ x.spec = pc[t].spec /\ pc' = [pc EXCEPT ![t] = x]
      BY <2>2, <1>0, <1>1, Going
    <3>2. pc[t].at = "disconnect in callback"
      BY <2>2, <1>1 DEF Disconnecting
    <3> QED BY <3>1, <3>2, <1>2
  <2> QED BY <2>1, <2>2
<1>8. TypeOK'
  <2>1. spec' \in [Specs -> SpecRec] /\ pc' \in [Threads -> PcRec]
    BY <1>0, <1>5, <1>7
  <2>2. rmutex' \in Seq(Clients)
    BY <1>0, <1>2, <1>3, Locking DEF TypeOK, CanLock
  <2>3. td' \subseteq Clients /\ ended' \subseteq Specs
    BY <1>0, <1>3 DEF TypeOK, AfterRemoval
  <2> QED BY <2>1, <2>2, <2>3, <1>0, <1>1 DEF TypeOK, PcRec, Places, SpecRec, States, Nobody
<1>9. SignalsHaveThreadData'
  <2>1. spec'[s].holder = NoThread /\ \A o \in Specs : o # s => spec'[o].holder = spec[o].holder
    BY <1>0, <1>5
  <2>2. \A u \in Clients : SignalsOf(u)' = SignalsOf(u) \ {s}
    BY <2>1, SignalsAssumption DEF SignalsOf
  <2>3. td' = td \/ (td' = td \ {t} /\ SignalsOf(t) \ {s} = {} /\ queue[t] = << >>)
    BY <1>3 DEF AfterRemoval
  <2>4. \A u \in Clients : SignalsOf(u) # {} \/ queue[u] # << >> => u \in td
    BY DEF SignalsInv, ThreadInv, SignalsHaveThreadData
  <2> QED BY <2>2, <2>3, <2>4, <1>1 DEF SignalsHaveThreadData
<1>10. r.state # "unborn" /\ (r.state = "used" <=> r.ref > 0) /\ r.target = r.holder
  BY <1>4, <1>5
<1>11. /\ x \notin Pushing /\ (x \in RefersTo(s) <=> pc[t] \in RefersTo(s))
       /\ \A o \in Specs : o # s => x \notin RefersTo(o) /\ pc[t] \notin RefersTo(o)
  BY <1>0, <1>1, <1>2, <1>7, Place DEF Referring
<1>12. r.ref + One(pc[t] \in RefersTo(s)) + One(spec[s].holder # NoThread)
             = spec[s].ref + One(x \in RefersTo(s)) + One(r.holder # NoThread)
  <2>1. One(pc[t] \in RefersTo(s)) = One(x \in RefersTo(s)) /\ One(x \in RefersTo(s)) \in Nat
    BY <1>11 DEF One
  <2>2. One(spec[s].holder # NoThread) = 1 /\ One(r.holder # NoThread) = 0
    BY <1>2, <1>5 DEF One
  <2> QED BY <2>1, <2>2, <1>4, <1>5
<1>13. x.at \notin EmittingAt /\ x.at \notin Disconnecting
  BY <1>7 DEF EmittingAt, Disconnecting
<1>14. ended' \subseteq ended \cup {s} /\ queue' = queue
  BY <1>1, <1>3
<1>15. x.at \notin {"idle", "pop"} => x.spec = s
  BY <1>7
<1>16. Changed(t, x, s, r)
  BY <1>1, <1>2, <1>5, <1>10, <1>11, <1>13, <1>15 DEF Changed
<1> QED BY <1>2, <1>5, <1>6, <1>7, <1>8, <1>9, <1>12, <1>14, <1>16, Change

-----------------------------------------------------------------------------
(* SIGNAL jobs enter and leave the queues.                                 *)

\* The marshaller gives its reference to the job, if there is a queue.
LEMMA MarshalPushStep ==
    ASSUME SignalsInv, NEW e \in Threads, MarshalPush(e)
    PROVE  SignalsInv'
<1>0. /\ TypeOK /\ pc \in [Threads -> PcRec] /\ "notify" \in Places
      /\ queue \in [Clients -> Seq(Specs)] /\ spec \in [Specs -> SpecRec]
  BY Types DEF SignalsInv, ThreadInv, Places
<1>1. /\ pc[e].at = "push" /\ Go(e, "notify")
      /\ UNCHANGED <<spec, slock, rmutex, td, busy, current, unread, ended, fault>>
  BY DEF MarshalPush
<1>2. PICK s \in Specs : s = pc[e].spec /\ spec[s].state # "unborn" /\ spec[s].target = spec[s].holder
  BY <1>1 DEF SignalsInv, ThreadInv, PcInv, SpecInv
<1>3. PICK x \in PcRec : x.at = "notify" /\ x.spec = s /\ pc' = [pc EXCEPT ![e] = x]
  BY <1>0, <1>1, <1>2, Going
<1>4. /\ x \notin Pushing /\ pc[e] \in Pushing /\ pc[e] \in RefersTo(s)
      /\ \A o \in Specs : x \notin RefersTo(o) /\ (o # s => pc[e] \notin RefersTo(o))
  BY <1>0, <1>1, <1>2, <1>3, Place DEF Referring
<1>5. Allowed(e, x)
  BY <1>1, <1>2, <1>3 DEF Allowed, EmittingAt, Disconnecting, SignalsInv, QuietInv
<1>6. PcInv' /\ QuietInv'
  BY <1>1, <1>3, <1>5, MovePc DEF Disconnecting
<1>7. SpecInv'
  BY <1>1, Zenon DEF SignalsInv, ThreadInv, SpecInv
<1>8. pc' \in [Threads -> PcRec]
  BY <1>0, <1>3
<1>9. ASSUME NEW o \in Specs
      PROVE  /\ Cardinality(In(pc, RefersTo(o))) \in Nat
             /\ Cardinality(In([pc EXCEPT ![e] = x], RefersTo(o))) =
                  Cardinality(In(pc, RefersTo(o))) - One(o = s)
             /\ Occurrences(o) = Cardinality(Slots(queue, {o})) + Cardinality(In(pc, RefersTo(o)))
                                    + One(spec[o].holder # NoThread)
             /\ Cardinality(Slots(queue, {o})) \in Nat
             /\ spec[o].ref \in Nat /\ spec[o].ref >= Occurrences(o)
  <2>1. /\ Cardinality(In(pc, RefersTo(o))) \in Nat
        /\ Cardinality(In([pc EXCEPT ![e] = x], RefersTo(o))) =
             Cardinality(In(pc, RefersTo(o))) + One(x \in RefersTo(o)) - One(pc[e] \in RefersTo(o))
    BY <1>0, InStep
  <2>2. One(x \in RefersTo(o)) = 0 /\ One(pc[e] \in RefersTo(o)) = One(o = s) /\ One(o = s) \in Nat
    BY <1>4 DEF One
  <2> QED BY <2>1, <2>2, <1>0, Pieces, SlotsFinite, Referred
<1>10. /\ Cardinality(In(pc, Pushing)) \in Nat \ {0}
       /\ Cardinality(In([pc EXCEPT ![e] = x], Pushing)) = Cardinality(In(pc, Pushing)) - 1
       /\ Underway = Cardinality(In(pc, Pushing)) + Cardinality(Slots(queue, Specs))
       /\ Cardinality(Slots(queue, Specs)) \in Nat
  <2>1. /\ Cardinality(In(pc, Pushing)) \in Nat
        /\ pc[e] \in Pushing => Cardinality(In(pc, Pushing)) > 0
        /\ Cardinality(In([pc EXCEPT ![e] = x], Pushing)) =
             Cardinality(In(pc, Pushing)) + One(x \in Pushing) - One(pc[e] \in Pushing)
    BY <1>0, InStep
  <2>2. One(x \in Pushing) = 0 /\ One(pc[e] \in Pushing) = 1
    BY <1>4 DEF One
  <2> QED BY <2>1, <2>2, <1>0, <1>4, Pieces, SlotsFinite
<1>11. Underway <= SignalsBound /\ SignalsBound \in Nat
  BY SignalsAssumption DEF SignalsInv, BoundInv
<1>12. CASE spec[s].target = NoThread
  <2>1. queue' = queue
    BY <1>2, <1>12 DEF MarshalPush
  <2>2. TypeOK'
    BY <1>0, <1>1, <1>8, <2>1 DEF TypeOK, PcRec, Places
  <2>3. QueueInv' /\ SignalsHaveThreadData'
    BY <1>1, <2>1, Zenon DEF SignalsInv, ThreadInv, QueueInv, SignalsHaveThreadData, SignalsOf
  <2>4. "while emitting" \in Usage
    BY <1>1, <1>2, <1>12 DEF SignalsInv, QuietInv, EmittingAt
  <2>5. /\ \A o \in Specs :
                Occurrences(o)' = Cardinality(Slots(queue, {o}))
                                  + Cardinality(In([pc EXCEPT ![e] = x], RefersTo(o)))
                                    + One(spec'[o].holder # NoThread)
        /\ Underway' = Cardinality(In([pc EXCEPT ![e] = x], Pushing)) + Cardinality(Slots(queue, Specs))
    BY <1>3, <2>1, <2>2, PiecesNext
  <2>6. BoundInv'
    <3>1. Underway' <= SignalsBound
      BY <1>10, <1>11, <2>5
    <3> QED BY <3>1, <2>1 DEF SignalsInv, BoundInv
  <2>7. CountInv'
    <3> SUFFICES ASSUME NEW o \in Specs PROVE spec'[o].ref >= Occurrences(o)'
      BY <2>4 DEF CountInv
    <3>1. /\ spec'[o].ref = spec[o].ref /\ One(spec'[o].holder # NoThread) = One(spec[o].holder # NoThread)
          /\ One(spec[o].holder # NoThread) \in Nat /\ One(o = s) \in Nat
      BY <1>1 DEF One
    <3>2. Occurrences(o)' = Cardinality(Slots(queue, {o}))
                            + Cardinality(In([pc EXCEPT ![e] = x], RefersTo(o)))
                              + One(spec'[o].holder # NoThread)
      BY <2>5
    <3>3. /\ Cardinality(In(pc, RefersTo(o))) \in Nat
          /\ Cardinality(In([pc EXCEPT ![e] = x], RefersTo(o))) =
                  Cardinality(In(pc, RefersTo(o))) - One(o = s)
          /\ Occurrences(o) = Cardinality(Slots(queue, {o})) + Cardinality(In(pc, RefersTo(o)))
                                    + One(spec[o].holder # NoThread)
          /\ Cardinality(Slots(queue, {o})) \in Nat
          /\ spec[o].ref \in Nat /\ spec[o].ref >= Occurrences(o)
      BY <1>9
    <3>4. Occurrences(o)' = Occurrences(o) - One(o = s) /\ Occurrences(o) \in Nat
      BY <3>1, <3>2, <3>3
    <3>5. spec[o].ref >= Occurrences(o) - One(o = s)
      BY <3>1, <3>3, <3>4
    <3> QED BY <3>1, <3>4, <3>5
  <2> QED BY <1>6, <1>7, <2>2, <2>3, <2>6, <2>7 DEF SignalsInv, ThreadInv
<1>13. CASE spec[s].target # NoThread
  <2>1. PICK u \in Clients : u = spec[s].target
    BY <1>0, <1>13 DEF SpecRec, Nobody
  <2>2. queue' = [queue EXCEPT ![u] = Append(@, s)]
    BY <1>2, <1>13, <2>1 DEF MarshalPush
  <2>3. queue' \in [Clients -> Seq(Specs)]
    BY <1>0, <2>2
  <2>4. TypeOK'
    BY <1>0, <1>1, <1>8, <2>3 DEF TypeOK, PcRec, Places
  <2>5. Len(queue[u]) < SignalsBound /\ Len(queue[u]) \in Nat
    <3>1. Len(queue[u]) <= Cardinality(Slots(queue, Specs)) /\ Len(queue[u]) \in Nat
      BY <1>0, SlotsLen, SMTT(30) DEF SignalsInv, BoundInv
    <3> QED BY <3>1, <1>10, <1>11
  <2>6. /\ queue'[u] = Append(queue[u], s) /\ \A v \in Clients : v # u => queue'[v] = queue[v]
        /\ DOMAIN queue'[u] = 1 .. Len(queue[u]) + 1 /\ Len(queue'[u]) = Len(queue[u]) + 1
        /\ DOMAIN queue[u] = 1 .. Len(queue[u])
        /\ \A k \in DOMAIN queue[u] : queue'[u][k] = queue[u][k]
        /\ queue'[u][Len(queue[u]) + 1] = s
    BY <1>0, <2>2
  <2>7. QueueInv'
    <3> SUFFICES ASSUME NEW v \in Clients, NEW k \in DOMAIN queue'[v]
                 PROVE  spec[queue'[v][k]].state # "unborn"
      BY <1>1 DEF QueueInv
    <3>1. CASE v # u
      BY <3>1, <2>6 DEF SignalsInv, ThreadInv, QueueInv
    <3>2. CASE v = u /\ k \in DOMAIN queue[u]
      BY <3>2, <2>6 DEF SignalsInv, ThreadInv, QueueInv
    <3>3. CASE v = u /\ k \notin DOMAIN queue[u]
      <4>1. k = Len(queue[u]) + 1
        BY <3>3, <2>5, <2>6
      <4> QED BY <4>1, <3>3, <2>6, <1>2
    <3> QED BY <3>1, <3>2, <3>3
  <2>8. SignalsHaveThreadData'
    <3>1. u \in td
      BY <1>2, <2>1 DEF SignalsInv, ThreadInv, SignalsHaveThreadData, SignalsOf
    <3>2. \A v \in Clients : v # u => queue'[v] = queue[v]
      BY <2>6
    <3> QED BY <1>1, <3>1, <3>2 DEF SignalsInv, ThreadInv, SignalsHaveThreadData, SignalsOf
  <2>9. /\ \A o \in Specs :
                Occurrences(o)' = Cardinality(Slots([queue EXCEPT ![u] = Append(@, s)], {o}))
                                    + Cardinality(In([pc EXCEPT ![e] = x], RefersTo(o)))
                                    + One(spec'[o].holder # NoThread)
        /\ Underway' = Cardinality(In([pc EXCEPT ![e] = x], Pushing))
                         + Cardinality(Slots([queue EXCEPT ![u] = Append(@, s)], Specs))
    BY <1>3, <2>2, <2>4, PiecesNext
  <2>10. BoundInv'
    <3>1. Cardinality(Slots([queue EXCEPT ![u] = Append(@, s)], Specs)) = Cardinality(Slots(queue, Specs)) + 1
      <4>1. \A A : Cardinality(Slots([queue EXCEPT ![u] = Append(@, s)], A)) =
                     Cardinality(Slots(queue, A)) + One(s \in A)
        BY <1>0, <2>5, SlotsPush
      <4> QED BY <4>1, <1>10 DEF One
    <3>2. Underway' = Underway
      BY <3>1, <2>9, <1>10
    <3>3. \A v \in Clients : Len(queue'[v]) <= SignalsBound
      <4>1. Len(queue'[u]) <= SignalsBound
        BY <2>5, <2>6, <1>11
      <4> QED BY <4>1, <2>6 DEF SignalsInv, BoundInv
    <3> QED BY <3>2, <3>3, <1>11 DEF BoundInv
  <2>11. \A o \in Specs : Occurrences(o)' = Occurrences(o)
    <3> TAKE o \in Specs
    <3>1. Cardinality(Slots([queue EXCEPT ![u] = Append(@, s)], {o})) =
            Cardinality(Slots(queue, {o})) + One(s \in {o})
      BY <1>0, <2>5, SlotsPush
    <3>2. One(s \in {o}) = One(o = s) /\ One(o = s) \in Nat
      BY DEF One
    <3>3. /\ One(spec'[o].holder # NoThread) = One(spec[o].holder # NoThread)
          /\ One(spec[o].holder # NoThread) \in Nat
      BY <1>1 DEF One
    <3>4. Occurrences(o)' = Cardinality(Slots([queue EXCEPT ![u] = Append(@, s)], {o}))
                              + Cardinality(In([pc EXCEPT ![e] = x], RefersTo(o)))
                              + One(spec'[o].holder # NoThread)
      BY <2>9
    <3>5. /\ Cardinality(In(pc, RefersTo(o))) \in Nat
          /\ Cardinality(In([pc EXCEPT ![e] = x], RefersTo(o))) =
                  Cardinality(In(pc, RefersTo(o))) - One(o = s)
          /\ Occurrences(o) = Cardinality(Slots(queue, {o})) + Cardinality(In(pc, RefersTo(o)))
                                    + One(spec[o].holder # NoThread)
          /\ Cardinality(Slots(queue, {o})) \in Nat
      BY <1>9
    <3> QED BY <3>1, <3>2, <3>3, <3>4, <3>5
  <2>12. CountInv'
    BY <2>11, <1>1 DEF SignalsInv, CountInv
  <2> QED BY <1>6, <1>7, <2>4, <2>7, <2>8, <2>10, <2>12 DEF SignalsInv, ThreadInv
<1> QED BY <1>12, <1>13

\* iterate() takes the first job, or finds none.
LEMMA IteratePopStep ==
    ASSUME SignalsInv, NEW t \in Threads, IteratePop(t)
    PROVE  SignalsInv'
<1>0. /\ TypeOK /\ pc \in [Threads -> PcRec] /\ queue \in [Clients -> Seq(Specs)]
  BY Types DEF SignalsInv, ThreadInv
<1>1. /\ pc[t].at = "pop"
      /\ UNCHANGED <<spec, slock, rmutex, td, busy, current, unread, ended>>
  BY DEF IteratePop
<1>2. t \in Clients
  BY <1>1 DEF SignalsInv, ThreadInv, PcInv, EmittingAt
<1>3. CASE fault' = "td" /\ UNCHANGED <<queue, pc>>
  <2>1. TypeOK'
    BY <1>0, <1>1, <1>3 DEF TypeOK
  <2>2. SignalsHaveThreadData'
    BY <1>1, <1>3, SameLists DEF SignalsInv, ThreadInv
  <2> QED BY <1>1, <1>3, <2>1, <2>2, Aside
<1>4. CASE Done(t) /\ UNCHANGED <<queue, fault>>
  <2>1. PICK x \in PcRec : x = Idle /\ x.at = "idle" /\ pc' = [pc EXCEPT ![t] = x]
    BY <1>0, <1>4, Resting
  <2>2. TypeOK'
    <3>1. pc' \in [Threads -> PcRec]
      BY <1>0, <2>1
    <3> QED BY <3>1, <1>0, <1>1, <1>4 DEF TypeOK, PcRec, Places
  <2>3. Allowed(t, x)
    BY <2>1 DEF Allowed, EmittingAt, Disconnecting
  <2>4. \A o \in Specs : x \in RefersTo(o) <=> pc[t] \in RefersTo(o)
    BY <1>0, <1>1, <2>1, Place DEF Referring
  <2>5. x.at \notin Disconnecting /\ pc[t].at \notin Disconnecting /\ x \notin Pushing
    BY <1>1, <2>1, Place DEF Disconnecting
  <2> QED BY <1>1, <1>4, <2>1, <2>2, <2>3, <2>4, <2>5, Move
<1>5. CASE /\ t \in td /\ queue[t] # << >>
           /\ queue' = [queue EXCEPT ![t] = Tail(@)]
           /\ pc' = [pc EXCEPT ![t] = [at |-> "test", spec |-> Head(queue[t])]]
           /\ UNCHANGED fault
  <2>1. /\ queue[t] \in Seq(Specs) /\ Len(queue[t]) \in Nat \ {0} /\ Head(queue[t]) \in Specs
        /\ Head(queue[t]) = queue[t][1] /\ 1 \in DOMAIN queue[t] /\ DOMAIN queue[t] = 1 .. Len(queue[t])
        /\ Tail(queue[t]) \in Seq(Specs) /\ Len(Tail(queue[t])) = Len(queue[t]) - 1
        /\ DOMAIN Tail(queue[t]) = 1 .. Len(queue[t]) - 1
        /\ \A k \in 1 .. Len(queue[t]) - 1 : Tail(queue[t])[k] = queue[t][k + 1]
    BY <1>0, <1>2, <1>5
  <2>2. PICK s \in Specs : s = Head(queue[t])
    BY <2>1
  <2>3. PICK x \in PcRec : x.at = "test" /\ x.spec = s /\ pc' = [pc EXCEPT ![t] = x]
    <3>1. [at |-> "test", spec |-> s] \in PcRec
      BY DEF PcRec, Places
    <3> QED BY <3>1, <2>2, <1>5
  <2>4. TypeOK'
    <3>1. pc' \in [Threads -> PcRec] /\ queue' \in [Clients -> Seq(Specs)]
      BY <1>0, <1>2, <1>5, <2>1, <2>3
    <3> QED BY <3>1, <1>0, <1>1, <1>5 DEF TypeOK, PcRec, Places
  <2>5. spec[s].state # "unborn"
    BY <1>2, <2>1, <2>2 DEF SignalsInv, ThreadInv, QueueInv
  <2>6. PcInv' /\ QuietInv'
    <3>1. Allowed(t, x)
      BY <1>2, <2>3, <2>5 DEF Allowed, EmittingAt, Disconnecting
    <3> QED BY <3>1, <1>1, <2>3, MovePc DEF Disconnecting
  <2>7. SpecInv'
    BY <1>1, Zenon DEF SignalsInv, ThreadInv, SpecInv
  <2>8. queue'[t] = Tail(queue[t]) /\ \A v \in Clients : v # t => queue'[v] = queue[v]
    BY <1>0, <1>2, <1>5
  <2>9. QueueInv'
    <3> SUFFICES ASSUME NEW v \in Clients, NEW k \in DOMAIN queue'[v]
                 PROVE  spec[queue'[v][k]].state # "unborn"
      BY <1>1 DEF QueueInv
    <3>1. CASE v # t
      BY <3>1, <2>8 DEF SignalsInv, ThreadInv, QueueInv
    <3>2. CASE v = t
      <4>1. k \in 1 .. Len(queue[t]) - 1 /\ queue'[v][k] = queue[t][k + 1]
        BY <3>2, <2>1, <2>8
      <4>2. k + 1 \in DOMAIN queue[t]
        BY <4>1, <2>1
      <4> QED BY <4>1, <4>2, <1>2 DEF SignalsInv, ThreadInv, QueueInv
    <3> QED BY <3>1, <3>2
  <2>10. SignalsHaveThreadData'
    BY <1>1, <1>5, <2>8 DEF SignalsInv, ThreadInv, SignalsHaveThreadData, SignalsOf
  <2>11. /\ \A o \in Specs :
                Occurrences(o)' = Cardinality(Slots([queue EXCEPT ![t] = Tail(@)], {o}))
                                    + Cardinality(In([pc EXCEPT ![t] = x], RefersTo(o)))
                                    + One(spec'[o].holder # NoThread)
         /\ Underway' = Cardinality(In([pc EXCEPT ![t] = x], Pushing))
                         + Cardinality(Slots([queue EXCEPT ![t] = Tail(@)], Specs))
    BY <1>5, <2>3, <2>4, PiecesNext
  <2>12. Len(queue[t]) <= SignalsBound /\ Underway <= SignalsBound /\ SignalsBound \in Nat
    BY <1>2, SignalsAssumption DEF SignalsInv, BoundInv
  <2>13. /\ x \notin Pushing /\ pc[t] \notin Pushing /\ x \in RefersTo(s)
         /\ \A o \in Specs : pc[t] \notin RefersTo(o) /\ (o # s => x \notin RefersTo(o))
    BY <1>0, <1>1, <2>3, Place DEF Referring
  <2>14. BoundInv'
    <3>1. Cardinality(Slots([queue EXCEPT ![t] = Tail(@)], Specs)) = Cardinality(Slots(queue, Specs)) - 1
      <4>1. One(Head(queue[t]) \in Specs) = 1
        BY <2>1 DEF One
      <4>2. Cardinality(Slots([queue EXCEPT ![t] = Tail(@)], Specs)) =
              Cardinality(Slots(queue, Specs)) - One(Head(queue[t]) \in Specs)
        BY <1>0, <1>2, <1>5, <2>12, SlotsPop
      <4> QED BY <4>1, <4>2
    <3>2. /\ Cardinality(In(pc, Pushing)) \in Nat
          /\ Cardinality(In([pc EXCEPT ![t] = x], Pushing)) =
               Cardinality(In(pc, Pushing)) + One(x \in Pushing) - One(pc[t] \in Pushing)
      BY <1>0, InStep
    <3>3. One(x \in Pushing) = 0 /\ One(pc[t] \in Pushing) = 0
      BY <2>13 DEF One
    <3>4. /\ Underway = Cardinality(In(pc, Pushing)) + Cardinality(Slots(queue, Specs))
          /\ Cardinality(Slots(queue, Specs)) \in Nat
      BY <1>0, Pieces, SlotsFinite
    <3>5. Underway' <= SignalsBound
      BY <3>1, <3>2, <3>3, <3>4, <2>11, <2>12
    <3>6. \A v \in Clients : Len(queue'[v]) <= SignalsBound
      <4>1. Len(queue'[t]) <= SignalsBound
        BY <2>1, <2>8, <2>12
      <4> QED BY <4>1, <2>8 DEF SignalsInv, BoundInv
    <3> QED BY <3>5, <3>6 DEF BoundInv
  <2>15. \A o \in Specs : Occurrences(o)' = Occurrences(o)
    <3> TAKE o \in Specs
    <3>1. Cardinality(Slots([queue EXCEPT ![t] = Tail(@)], {o})) =
            Cardinality(Slots(queue, {o})) - One(Head(queue[t]) \in {o})
      BY <1>0, <1>2, <1>5, <2>12, SlotsPop
    <3>2. One(Head(queue[t]) \in {o}) = One(o = s) /\ One(o = s) \in Nat
      BY <2>2 DEF One
    <3>3. /\ Cardinality(In(pc, RefersTo(o))) \in Nat
          /\ Cardinality(In([pc EXCEPT ![t] = x], RefersTo(o))) =
               Cardinality(In(pc, RefersTo(o))) + One(x \in RefersTo(o)) - One(pc[t] \in RefersTo(o))
      BY <1>0, InStep
    <3>4. One(x \in RefersTo(o)) = One(o = s) /\ One(pc[t] \in RefersTo(o)) = 0
      BY <2>13 DEF One
    <3>5. /\ One(spec'[o].holder # NoThread) = One(spec[o].holder # NoThread)
          /\ One(spec[o].holder # NoThread) \in Nat
      BY <1>1 DEF One
    <3>6. /\ Occurrences(o) = Cardinality(Slots(queue, {o})) + Cardinality(In(pc, RefersTo(o)))
                                   + One(spec[o].holder # NoThread)
          /\ Cardinality(Slots(queue, {o})) \in Nat
      BY <1>0, Pieces, SlotsFinite
    <3>7. Occurrences(o)' = Cardinality(Slots([queue EXCEPT ![t] = Tail(@)], {o}))
                              + Cardinality(In([pc EXCEPT ![t] = x], RefersTo(o)))
                              + One(spec'[o].holder # NoThread)
      BY <2>11
    <3> QED BY <3>1, <3>2, <3>3, <3>4, <3>5, <3>6, <3>7
  <2>16. CountInv'
    BY <2>15, <1>1 DEF SignalsInv, CountInv
  <2> QED BY <2>4, <2>6, <2>7, <2>9, <2>10, <2>14, <2>16 DEF SignalsInv, ThreadInv
<1> QED BY <1>3, <1>4, <1>5 DEF IteratePop

-----------------------------------------------------------------------------
(* The theorems.                                                           *)

\* Every step keeps the invariant.
LEMMA Steps == SignalsInv /\ [Next]_vars => SignalsInv'
<1> SUFFICES ASSUME SignalsInv, [Next]_vars PROVE SignalsInv'
  OBVIOUS
<1>1. CASE UNCHANGED vars
  <2>1. TypeOK'
    BY <1>1 DEF vars, SignalsInv, ThreadInv, TypeOK
  <2>2. SignalsHaveThreadData'
    BY <1>1, SameLists DEF vars, SignalsInv, ThreadInv
  <2> QED BY <1>1, <2>1, <2>2, Aside DEF vars
<1>2. CASE JobEnds
  BY <1>2, JobSteps
<1>3. ASSUME NEW t \in Clients, ClientCall(t) PROVE SignalsInv'
  <2>1. ASSUME NEW s \in Specs,
               \/ \E anythread, private \in BOOLEAN : Connect(t, s, anythread, private)
               \/ StealSignal(t, s)
               \/ DisconnectBegin(t, s)
        PROVE  SignalsInv'
    BY <2>1, ConnectStep, StealSignalStep, DisconnectBeginStep
  <2>2. CASE ConnectRefused(t)
    BY <2>2, ConnectRefusedStep
  <2>3. CASE IterateBegin(t)
    BY <2>3, IterateMoves DEF Threads
  <2>4. CASE ReadNotification(t)
    BY <2>4, ReadNotificationStep
  <2>5. CASE Execute(t) \/ JobStarts(t)
    BY <2>5, JobSteps
  <2>6. CASE FetchResult(t)
    BY <2>6, FetchResultStep
  <2> QED BY <1>3, <2>1, <2>2, <2>3, <2>4, <2>5, <2>6 DEF ClientCall
<1>4. ASSUME NEW t \in Threads, Step(t) PROVE SignalsInv'
  <2>1. CASE DisconnectEnd(t)
    BY <2>1, DisconnectEndStep
  <2>2. CASE MarshalRef(t) \/ MarshalPush(t) \/ MarshalNotify(t)
    BY <2>2, MarshalRefStep, MarshalPushStep, MarshalNotifyStep
  <2>3. CASE IteratePop(t) \/ IterateRelease(t)
    BY <2>3, IteratePopStep, IterateReleaseStep
  <2>4. CASE IterateTest(t) \/ IterateCall(t) \/ CallbackReturns(t)
    BY <2>4, IterateMoves
  <2> QED BY <1>4, <2>1, <2>2, <2>3, <2>4 DEF Step
<1>5. ASSUME NEW t \in Threads, NEW s \in Specs, Emit(t, s) PROVE SignalsInv'
  BY <1>5, EmitStep
<1> QED BY <1>1, <1>2, <1>3, <1>4, <1>5 DEF Next

\* Nothing is connected when the wrapper is new.
LEMMA Initially == Init => SignalsInv
<1> SUFFICES ASSUME Init PROVE SignalsInv
  OBVIOUS
<1>0. /\ Unborn \in SpecRec /\ Idle \in PcRec
      /\ << >> \in Seq(Clients) /\ << >> \in Seq(Specs) /\ 0 \in 0 .. PipeCapacity
  BY SignalsAssumption DEF Unborn, SpecRec, States, Nobody, Idle, PcRec, Places
<1>1. TypeOK
  <2>1. spec \in [Specs -> SpecRec] /\ pc \in [Threads -> PcRec]
    BY <1>0 DEF Init
  <2> HIDE DEF Unborn, Idle
  <2> QED BY <1>0, <2>1 DEF Init, TypeOK, PcRec, Places, SpecRec, States, Nobody
<1>2. \A t \in Threads : pc[t].at = "idle"
  BY DEF Init, Idle
<1>3. \A t \in Clients : queue[t] = << >>
  BY DEF Init
<1>4. \A s \in Specs : /\ spec[s].state = "unborn" /\ spec[s].holder = NoThread
                       /\ spec[s].target = NoThread /\ spec[s].ref = 0
  BY DEF Init, Unborn
<1>5. PcInv /\ QuietInv
  BY <1>2 DEF PcInv, QuietInv, EmittingAt, Disconnecting
<1>6. QueueInv
  BY <1>3 DEF QueueInv
<1>7. SpecInv
  BY <1>4 DEF SpecInv, Init
<1>8. SignalsHaveThreadData
  BY <1>3, <1>4, SignalsAssumption DEF SignalsHaveThreadData, SignalsOf
<1>9. \A A : Slots(queue, A) = {}
  BY <1>3 DEF Slots
<1>10. In(pc, Pushing) = {} /\ \A s \in Specs : In(pc, RefersTo(s)) = {}
  BY <1>2 DEF In, Pushing, RefersTo, Referring
<1>11. Underway = 0 /\ \A s \in Specs : Occurrences(s) = 0
  <2>1. Cardinality({}) = 0
    BY FS_EmptySet
  <2>2. \A s \in Specs : One(spec[s].holder # NoThread) = 0
    BY <1>4 DEF One
  <2>3. Underway = 0 + 0
    BY <2>1, <1>1, <1>9, <1>10, Pieces
  <2>4. \A s \in Specs : Occurrences(s) = 0 + 0 + 0
    BY <2>1, <2>2, <1>1, <1>9, <1>10, Pieces
  <2> QED BY <2>3, <2>4
<1>12. BoundInv
  BY <1>3, <1>11, SignalsAssumption DEF BoundInv
<1>13. CountInv
  <2>1. \A s \in Specs : spec[s].ref = Occurrences(s) /\ spec[s].ref \in Int
    BY <1>4, <1>11
  <2>2. \A s \in Specs : spec[s].ref >= Occurrences(s)
    BY <2>1
  <2> QED BY <2>1, <2>2 DEF CountInv
<1> QED BY <1>1, <1>5, <1>6, <1>7, <1>8, <1>12, <1>13 DEF SignalsInv, ThreadInv

\* Types, locks, lists, queues and references stay consistent, whatever the clients do.
THEOREM SignalsInvariant == Spec => []SignalsInv
  BY Initially, Steps, PTL DEF Spec

\* A SignalSpec is not freed while it is in a list, in a queue or in the hands of a
\* thread that popped it, whatever the clients do: signal_spec_unref() frees it with
\* the last of these.
THEOREM FreedWhenUnused == Spec => []NoDanglingSpec
<1>1. ASSUME SignalsInv, NEW s \in Specs, spec[s].state = "freed" PROVE Occurrences(s) = 0
  <2>1. Worker \in Threads
    BY DEF Threads
  <2>2. spec[s].ref \in Nat /\ Occurrences(s) \in Nat /\ spec[s].ref >= Occurrences(s)
    BY <1>1, <2>1, Referred
  <2>3. ~(spec[s].ref > 0)
    BY <1>1 DEF SignalsInv, ThreadInv, SpecInv
  <2> QED BY <2>2, <2>3
<1>2. SignalsInv => NoDanglingSpec
  BY <1>1 DEF NoDanglingSpec
<1> QED BY <1>2, SignalsInvariant, PTL

\* When nothing is disconnected during its own emission, there are exactly as many
\* references as places that refer to the spec: none is leaked, by steal_signal(),
\* disconnect() from a callback or by another thread included.
THEOREM ReferencesExact == "while emitting" \notin Usage => (Spec => []ReferencesCounted)
<1> SUFFICES ASSUME "while emitting" \notin Usage PROVE Spec => []ReferencesCounted
  OBVIOUS
<1>1. SignalsInv => ReferencesCounted
  BY DEF SignalsInv, ThreadInv, SpecInv, CountInv, ReferencesCounted
<1> QED BY <1>1, SignalsInvariant, PTL

\* A thread that has a handler, or a signal to handle, has a ThreadData.
THEOREM ThreadDataKept == Spec => []SignalsHaveThreadData
<1>1. SignalsInv => SignalsHaveThreadData
  BY DEF SignalsInv, ThreadInv
<1> QED BY <1>1, SignalsInvariant, PTL

-----------------------------------------------------------------------------
(* Threads that keep to their own handlers.                                *)

\* When handlers are neither stolen nor disconnected by other threads, a thread
\* only has its own at hand, and no disconnected one when it is about to call it.
LEMMA OwnSteps ==
    ASSUME OwnUsage, SignalsInv, SignalsInv', OwnInv, [Next]_vars PROVE OwnInv'
<1>0. /\ TypeOK /\ pc \in [Threads -> PcRec] /\ spec \in [Specs -> SpecRec]
      /\ Clients \subseteq Threads
  BY Types DEF SignalsInv, ThreadInv, Threads
<1>20. "disconnect in callback" \in Places /\ "push" \in Places /\ "release" \in Places
  BY DEF Places
\* Steps that leave the holders, the queues, the places and the history alone.
<1>1. ASSUME UNCHANGED <<queue, pc, ended>>, \A s \in Specs : spec'[s].holder = spec[s].holder
      PROVE  OwnInv'
  <2>1. \A t \in Clients : \A k \in DOMAIN queue[t] : queue[t][k] \in Specs
    BY <1>0, InQueue
  <2>2. \A t \in Clients : pc[t].at \notin {"idle", "pop"} => pc[t].spec \in Specs
    BY <1>0 DEF SignalsInv, ThreadInv, PcInv
  <2> QED BY <1>1, <2>1, <2>2 DEF OwnInv, Own, Disconnecting
\* Steps that move a thread.
<1>2. ASSUME NEW t \in Threads, NEW x \in PcRec, pc' = [pc EXCEPT ![t] = x],
             UNCHANGED <<queue, ended>>, \A s \in Specs : spec'[s].holder = spec[s].holder,
             \/ x.at \in {"idle", "pop"} \cup EmittingAt
             \/ x.at \in {"call", "callback", "release"} /\ Own(t, x.spec) /\ x.spec \in Specs
             \/ x.at \in Disconnecting /\ spec[x.spec].holder = t /\ x.spec \in Specs,
             x.at = "call" => x.spec \notin ended
      PROVE  OwnInv'
  <2>1. \A u \in Clients : \A k \in DOMAIN queue[u] : queue[u][k] \in Specs
    BY <1>0, InQueue
  <2>2. \A u \in Clients : pc[u].at \notin {"idle", "pop"} => pc[u].spec \in Specs
    BY <1>0 DEF SignalsInv, ThreadInv, PcInv
  <2>3. pc'[t] = x /\ \A u \in Threads : u # t => pc'[u] = pc[u]
    BY <1>0, <1>2
  <2> SUFFICES ASSUME NEW u \in Clients
        PROVE  /\ \A k \in DOMAIN queue[u] : Own(u, queue[u][k])'
               /\ pc'[u].at \in {"test", "call", "callback", "release", "disconnect in callback"}
                    => spec'[pc'[u].spec].holder \in {u, NoThread}
               /\ pc'[u].at \in Disconnecting => spec'[pc'[u].spec].holder = u
               /\ pc'[u].at = "call" => pc'[u].spec \notin ended
    BY <1>2 DEF OwnInv, Own
  <2>4. \A k \in DOMAIN queue[u] : Own(u, queue[u][k])'
    BY <1>2, <2>1 DEF OwnInv, Own
  <2>5. CASE u = t
    BY <2>3, <2>4, <2>5, <1>2 DEF Own, Disconnecting, EmittingAt
  <2>6. CASE u # t
    <3>1. pc'[u] = pc[u]
      BY <1>0, <2>3, <2>6
    <3> QED BY <3>1, <2>2, <2>4, <1>2 DEF OwnInv, Own, Disconnecting
  <2> QED BY <2>5, <2>6
<1>3. ASSUME NEW t \in Clients, NEW s \in Specs, NEW anythread \in BOOLEAN, NEW private \in BOOLEAN,
             Connect(t, s, anythread, private)
      PROVE  OwnInv'
  <2>1. spec[s].state = "unborn" /\ UNCHANGED <<queue, pc, ended>>
    BY <1>3 DEF Connect
  <2>2. \A o \in Specs : o # s => spec'[o] = spec[o]
    BY <1>0, <1>3 DEF Connect
  <2>3. \A u \in Clients : \A k \in DOMAIN queue[u] : queue[u][k] \in Specs /\ queue[u][k] # s
    BY <1>0, <2>1, InQueue DEF SignalsInv, ThreadInv, QueueInv
  <2>4. \A u \in Clients : pc[u].at \notin {"idle", "pop"} => pc[u].spec \in Specs /\ pc[u].spec # s
    BY <1>0, <2>1 DEF SignalsInv, ThreadInv, PcInv
  <2> QED BY <2>1, <2>2, <2>3, <2>4 DEF OwnInv, Own, Disconnecting
<1>4. ASSUME NEW t \in Clients, NEW s \in Specs, DisconnectBegin(t, s) PROVE OwnInv'
  <2>1. spec[s].holder = t /\ UNCHANGED <<queue, ended, spec>>
    BY <1>4 DEF DisconnectBegin, OwnUsage
  <2>2. PICK x \in PcRec : pc' = [pc EXCEPT ![t] = x] /\ x.spec = s /\ x.at \in Disconnecting
    <3>1. CASE pc' = [pc EXCEPT ![t] = [at |-> "disconnect", spec |-> s]]
      <4>1. [at |-> "disconnect", spec |-> s] \in PcRec
        BY DEF PcRec, Places
      <4> QED BY <3>1, <4>1 DEF Disconnecting
    <3>2. CASE pc[t].spec = s /\ Go(t, "disconnect in callback")
      <4>1. PICK x \in PcRec : /\ x.at = "disconnect in callback" /\ x.spec = pc[t].spec
                               /\ pc' = [pc EXCEPT ![t] = x]
        BY <3>2, <1>0, <1>20, Going
      <4> QED BY <3>2, <4>1 DEF Disconnecting
    <3> QED BY <1>4, <3>1, <3>2 DEF DisconnectBegin
  <2>3. x.at # "call"
    BY <2>2 DEF Disconnecting
  <2> QED BY <1>0, <1>2, <2>1, <2>2, <2>3
<1>5. ASSUME NEW e \in Threads, NEW s \in Specs, Emit(e, s) PROVE OwnInv'
  <2>1. [at |-> "marshal", spec |-> s] \in PcRec
    BY DEF PcRec, Places
  <2>2. PICK x \in PcRec : pc' = [pc EXCEPT ![e] = x] /\ x.at = "marshal"
    BY <1>5, <2>1 DEF Emit
  <2>3. UNCHANGED <<queue, ended, spec>>
    BY <1>5 DEF Emit
  <2> QED BY <1>2, <2>2, <2>3 DEF EmittingAt
<1>6. ASSUME NEW e \in Threads, MarshalRef(e) PROVE OwnInv'
  <2>1. pc[e].at = "marshal" /\ UNCHANGED <<queue, ended>>
    BY <1>6 DEF MarshalRef
  <2>2. PICK s \in Specs : s = pc[e].spec
    BY <2>1 DEF SignalsInv, ThreadInv, PcInv
  <2>3. CASE UNCHANGED <<spec, pc>>
    BY <1>1, <2>1, <2>3
  <2>4. CASE spec' = [spec EXCEPT ![s] = Ref(spec[s])] /\ Go(e, "push")
    <3>1. PICK x \in PcRec : x.at = "push" /\ x.spec = pc[e].spec /\ pc' = [pc EXCEPT ![e] = x]
      BY <1>0, <1>20, <2>4, Going
    <3>2. \A o \in Specs : spec'[o].holder = spec[o].holder
      BY <1>0, <2>4, Fields
    <3> QED BY <1>2, <2>1, <3>1, <3>2 DEF EmittingAt
  <2> QED BY <1>6, <2>2, <2>3, <2>4 DEF MarshalRef
<1>7. ASSUME NEW t \in Threads, MarshalNotify(t) \/ (t \in Clients /\ IterateBegin(t)) PROVE OwnInv'
  <2>1. UNCHANGED <<queue, ended, spec>> /\ (Done(t) \/ Go(t, "pop"))
    BY <1>7 DEF MarshalNotify, IterateBegin
  <2>2. PICK x \in PcRec : x.at \in {"idle", "pop"} /\ pc' = [pc EXCEPT ![t] = x]
    <3>1. CASE Done(t)
      BY <3>1, <1>0, Resting
    <3>2. CASE Go(t, "pop")
      <4>1. "pop" \in Places
        BY DEF Places
      <4> QED BY <4>1, <3>2, <1>0, Going
    <3> QED BY <2>1, <3>1, <3>2
  <2> QED BY <1>2, <2>1, <2>2
<1>8. ASSUME NEW t \in Threads, IterateTest(t) \/ IterateCall(t) \/ CallbackReturns(t) PROVE OwnInv'
  <2>1. UNCHANGED <<queue, ended, spec>> /\ pc[t].at \in {"test", "call", "callback"}
    BY <1>8 DEF IterateTest, IterateCall, CallbackReturns
  <2>2. PICK s \in Specs : s = pc[t].spec /\ t \in Clients
    BY <2>1 DEF SignalsInv, ThreadInv, PcInv, EmittingAt
  <2>3. CASE UNCHANGED pc
    BY <1>1, <2>1, <2>3
  <2>4. ASSUME NEW where \in {"call", "callback", "release"}, Go(t, where),
               where = "call" => spec[s].callback
        PROVE  OwnInv'
    <3>1. where \in Places
      BY DEF Places
    <3>2. PICK x \in PcRec : x.at = where /\ x.spec = s /\ pc' = [pc EXCEPT ![t] = x]
      BY <3>1, <1>0, <2>2, <2>4, Going
    <3>3. Own(t, x.spec)
      BY <2>1, <2>2, <3>2 DEF OwnInv
    <3>4. x.at = "call" => x.spec \notin ended
      BY <3>2, <2>4 DEF SignalsInv, ThreadInv, SpecInv
    <3> QED BY <1>2, <2>1, <3>2, <3>3, <3>4
  <2>5. CASE IterateTest(t)
    <3>1. CASE spec[s].callback
      BY <2>2, <2>4, <2>5, <3>1 DEF IterateTest
    <3>2. CASE ~spec[s].callback
      BY <2>2, <2>4, <2>5, <3>2 DEF IterateTest
    <3> QED BY <3>1, <3>2
  <2>6. CASE IterateCall(t)
    BY <2>3, <2>4, <2>6 DEF IterateCall
  <2>7. CASE CallbackReturns(t)
    BY <2>4, <2>7 DEF CallbackReturns
  <2> QED BY <1>8, <2>5, <2>6, <2>7
<1>9. ASSUME NEW t \in Threads, IterateRelease(t) PROVE OwnInv'
  <2>1. pc[t].at = "release" /\ UNCHANGED <<queue, ended>>
    BY <1>9 DEF IterateRelease
  <2>2. PICK s \in Specs : s = pc[t].spec
    BY <2>1 DEF SignalsInv, ThreadInv, PcInv
  <2>3. spec' = [spec EXCEPT ![s] = Unref(spec[s])]
    BY <1>9, <2>2 DEF IterateRelease
  <2>4. Unref(spec[s]).holder = spec[s].holder
    BY <1>0 DEF Unref, SpecRec
  <2>5. \A o \in Specs : spec'[o].holder = spec[o].holder
    BY <1>0, <2>3, <2>4
  <2>6. [at |-> "pop", spec |-> NoThread] \in PcRec
    BY DEF PcRec, Places
  <2>7. PICK x \in PcRec : x.at = "pop" /\ pc' = [pc EXCEPT ![t] = x]
    BY <1>9, <2>6 DEF IterateRelease
  <2> QED BY <1>2, <2>1, <2>5, <2>7
<1>10. ASSUME NEW t \in Threads, DisconnectEnd(t) PROVE OwnInv'
  <2>1. /\ pc[t].at \in Disconnecting /\ UNCHANGED queue
        /\ IF pc[t].at = "disconnect" THEN Done(t) ELSE Go(t, "release")
    BY <1>10 DEF DisconnectEnd, Disconnecting
  <2>2. PICK s \in Specs : s = pc[t].spec /\ t \in Clients
    BY <2>1 DEF SignalsInv, ThreadInv, PcInv, EmittingAt, Disconnecting
  <2>3. spec[s].holder = t
    BY <2>1, <2>2 DEF OwnInv
  <2>4. spec' = [spec EXCEPT ![s] = Unref(Cleared(spec[s]))] /\ ended' = ended \cup {s}
    BY <1>10, <2>2 DEF DisconnectEnd
  <2>5. Unref(Cleared(spec[s])).holder = NoThread
    <3>1. Cleared(spec[s]) \in SpecRec /\ Cleared(spec[s]).holder = NoThread
      BY <1>0, Fields
    <3> QED BY <3>1 DEF Unref, SpecRec
  <2>6. spec'[s].holder = NoThread /\ \A o \in Specs : o # s => spec'[o].holder = spec[o].holder
    BY <1>0, <2>4, <2>5
  <2>7. PICK x \in PcRec : x.at \in {"idle", "release"} /\ pc' = [pc EXCEPT ![t] = x]
                           /\ (x.at = "release" => x.spec = s)
    <3>1. CASE pc[t].at = "disconnect"
      BY <3>1, <1>0, <2>1, Resting
    <3>2. CASE pc[t].at # "disconnect"
      <4>1. PICK x \in PcRec : x.at = "release" /\ x.spec = pc[t].spec /\ pc' = [pc EXCEPT ![t] = x]
        BY <3>2, <1>0, <1>20, <2>1, Going
      <4> QED BY <4>1, <2>2
    <3> QED BY <3>1, <3>2
  <2>8. pc'[t] = x /\ \A u \in Threads : u # t => pc'[u] = pc[u]
    BY <1>0, <2>7
  <2> SUFFICES ASSUME NEW u \in Clients
        PROVE  /\ \A k \in DOMAIN queue[u] : spec'[queue[u][k]].holder \in {u, NoThread}
               /\ pc'[u].at \in {"test", "call", "callback", "release", "disconnect in callback"}
                    => spec'[pc'[u].spec].holder \in {u, NoThread}
               /\ pc'[u].at \in Disconnecting => spec'[pc'[u].spec].holder = u
               /\ pc'[u].at = "call" => pc'[u].spec \notin ended'
    BY <2>1 DEF OwnInv, Own
  <2>9. \A k \in DOMAIN queue[u] : spec'[queue[u][k]].holder \in {u, NoThread}
    <3> TAKE k \in DOMAIN queue[u]
    <3>1. queue[u][k] \in Specs /\ spec[queue[u][k]].holder \in {u, NoThread}
      BY <1>0, InQueue DEF OwnInv, Own
    <3> QED BY <3>1, <2>6
  <2>10. CASE u = t
    BY <2>6, <2>7, <2>8, <2>9, <2>10 DEF Disconnecting
  <2>11. CASE u # t
    <3>1. pc'[u] = pc[u]
      BY <1>0, <2>8, <2>11
    <3>2. pc[u].at \notin {"idle", "pop"} => pc[u].spec \in Specs
      BY <1>0 DEF SignalsInv, ThreadInv, PcInv
    <3>3. pc[u].at \in {"test", "call", "callback", "release", "disconnect in callback"}
                    => spec'[pc[u].spec].holder \in {u, NoThread}
      BY <3>2, <2>6 DEF OwnInv, Own
    <3>4. pc[u].at \in Disconnecting => spec'[pc[u].spec].holder = u
      BY <3>2, <2>3, <2>6, <2>11 DEF OwnInv, Disconnecting
    <3>5. pc[u].at = "call" => pc[u].spec # s
      BY <2>3, <2>11, <2>2, SignalsAssumption DEF OwnInv, Own
    <3>6. pc[u].at = "call" => pc[u].spec \notin ended'
      BY <3>5, <2>4 DEF OwnInv
    <3> QED BY <3>1, <3>3, <3>4, <3>6, <2>9
  <2> QED BY <2>10, <2>11
<1>11. ASSUME NEW e \in Threads, MarshalPush(e) PROVE OwnInv'
  <2>1. pc[e].at = "push" /\ Go(e, "notify") /\ UNCHANGED <<spec, ended>>
    BY <1>11 DEF MarshalPush
  <2>2. PICK x \in PcRec : x.at = "notify" /\ pc' = [pc EXCEPT ![e] = x]
    <3>1. "notify" \in Places
      BY DEF Places
    <3> QED BY <3>1, <1>0, <2>1, Going
  <2>3. PICK s \in Specs : s = pc[e].spec /\ spec[s].target = spec[s].holder
    BY <2>1 DEF SignalsInv, ThreadInv, PcInv, SpecInv
  <2>4. CASE queue' = queue
    BY <1>2, <2>1, <2>2, <2>4 DEF EmittingAt
  <2>5. CASE queue' # queue
    <3>1. /\ spec[s].target # NoThread
          /\ queue' = [queue EXCEPT ![spec[s].target] = Append(@, s)]
      BY <1>11, <2>3, <2>5 DEF MarshalPush
    <3>2. PICK u \in Clients : u = spec[s].holder /\ queue' = [queue EXCEPT ![u] = Append(@, s)]
      BY <1>0, <2>3, <3>1 DEF SpecRec, Nobody
    <3>3. /\ \A v \in Clients : v # u => queue'[v] = queue[v]
          /\ \A k \in DOMAIN queue'[u] : queue'[u][k] = s \/ (k \in DOMAIN queue[u] /\ queue'[u][k] = queue[u][k])
      <4>1. queue \in [Clients -> Seq(Specs)] /\ queue[u] \in Seq(Specs)
        BY <1>0, Types
      <4>2. queue'[u] = Append(queue[u], s) /\ \A v \in Clients : v # u => queue'[v] = queue[v]
        BY <3>2, <4>1
      <4>3. \A k \in DOMAIN Append(queue[u], s) :
              \/ Append(queue[u], s)[k] = s
              \/ k \in DOMAIN queue[u] /\ Append(queue[u], s)[k] = queue[u][k]
        BY <4>1
      <4> QED BY <4>2, <4>3
    <3>4. pc'[e] = x /\ \A v \in Threads : v # e => pc'[v] = pc[v]
      BY <1>0, <2>2
    <3> SUFFICES ASSUME NEW v \in Clients
        PROVE  /\ \A k \in DOMAIN queue'[v] : spec[queue'[v][k]].holder \in {v, NoThread}
               /\ pc'[v].at \in {"test", "call", "callback", "release", "disconnect in callback"}
                    => spec[pc'[v].spec].holder \in {v, NoThread}
               /\ pc'[v].at \in Disconnecting => spec[pc'[v].spec].holder = v
               /\ pc'[v].at = "call" => pc'[v].spec \notin ended
      BY <2>1 DEF OwnInv, Own
    <3>5. \A k \in DOMAIN queue'[v] : spec[queue'[v][k]].holder \in {v, NoThread}
      <4>1. CASE v = u
        <5> SUFFICES ASSUME NEW k \in DOMAIN queue'[u] PROVE spec[queue'[u][k]].holder \in {u, NoThread}
          BY <4>1
        <5>1. CASE queue'[u][k] = s
          BY <5>1, <3>2
        <5>2. CASE k \in DOMAIN queue[u] /\ queue'[u][k] = queue[u][k]
          BY <5>2 DEF OwnInv, Own
        <5> QED BY <5>1, <5>2, <3>3
      <4>2. CASE v # u
        BY <4>2, <3>3 DEF OwnInv, Own
      <4> QED BY <4>1, <4>2
    <3>6. CASE v = e
      BY <3>4, <3>5, <3>6, <2>2 DEF Disconnecting
    <3>7. CASE v # e
      <4>1. pc'[v] = pc[v]
        BY <1>0, <3>4, <3>7
      <4> QED BY <4>1, <3>5 DEF OwnInv, Own
    <3> QED BY <3>6, <3>7
  <2> QED BY <2>4, <2>5
<1>12. ASSUME NEW t \in Threads, IteratePop(t) PROVE OwnInv'
  <2>1. pc[t].at = "pop" /\ UNCHANGED <<spec, ended>>
    BY <1>12 DEF IteratePop
  <2>2. t \in Clients
    BY <2>1 DEF SignalsInv, ThreadInv, PcInv, EmittingAt
  <2>3. CASE UNCHANGED <<queue, pc>>
    BY <1>1, <2>1, <2>3
  <2>4. CASE Done(t) /\ UNCHANGED queue
    <3>1. PICK x \in PcRec : x = Idle /\ x.at = "idle" /\ pc' = [pc EXCEPT ![t] = x]
      BY <1>0, <2>4, Resting
    <3> QED BY <1>2, <2>1, <2>4, <3>1
  <2>5. CASE /\ queue[t] # << >>
             /\ queue' = [queue EXCEPT ![t] = Tail(@)]
             /\ pc' = [pc EXCEPT ![t] = [at |-> "test", spec |-> Head(queue[t])]]
    <3>1. queue \in [Clients -> Seq(Specs)] /\ queue[t] \in Seq(Specs)
      BY <1>0, <2>2, Types
    <3>2. queue'[t] = Tail(queue[t]) /\ \A v \in Clients : v # t => queue'[v] = queue[v]
      BY <2>2, <2>5, <3>1
    <3>3. /\ Head(queue[t]) = queue[t][1] /\ 1 \in DOMAIN queue[t]
          /\ \A k \in DOMAIN Tail(queue[t]) : k + 1 \in DOMAIN queue[t] /\ Tail(queue[t])[k] = queue[t][k + 1]
      BY <2>5, <3>1
    <3>4. pc'[t] = [at |-> "test", spec |-> Head(queue[t])] /\ \A v \in Threads : v # t => pc'[v] = pc[v]
      BY <1>0, <2>5
    <3>5. pc'[t].at = "test" /\ pc'[t].spec = queue[t][1]
      BY <3>3, <3>4
    <3> SUFFICES ASSUME NEW v \in Clients
        PROVE  /\ \A k \in DOMAIN queue'[v] : spec[queue'[v][k]].holder \in {v, NoThread}
               /\ pc'[v].at \in {"test", "call", "callback", "release", "disconnect in callback"}
                    => spec[pc'[v].spec].holder \in {v, NoThread}
               /\ pc'[v].at \in Disconnecting => spec[pc'[v].spec].holder = v
               /\ pc'[v].at = "call" => pc'[v].spec \notin ended
      BY <2>1 DEF OwnInv, Own
    <3>6. CASE v = t
      <4>1. \A k \in DOMAIN queue[t] : spec[queue[t][k]].holder \in {t, NoThread}
        BY <2>2 DEF OwnInv, Own
      <4>2. \A k \in DOMAIN queue'[t] : spec[queue'[t][k]].holder \in {t, NoThread}
        BY <4>1, <3>2, <3>3
      <4>3. spec[pc'[t].spec].holder \in {t, NoThread}
        BY <4>1, <3>3, <3>5
      <4>4. pc'[t].at \notin Disconnecting /\ pc'[t].at # "call"
        BY <3>5 DEF Disconnecting
      <4> QED BY <4>2, <4>3, <4>4, <3>6
    <3>7. CASE v # t
      <4>1. pc'[v] = pc[v] /\ queue'[v] = queue[v]
        BY <1>0, <3>2, <3>4, <3>7
      <4> QED BY <4>1 DEF OwnInv, Own
    <3> QED BY <3>6, <3>7
  <2> QED BY <1>12, <2>3, <2>4, <2>5 DEF IteratePop
<1>13. CASE UNCHANGED vars \/ JobEnds
  BY <1>1, <1>13 DEF vars, JobEnds
<1>14. ASSUME NEW t \in Clients, ClientCall(t) PROVE OwnInv'
  <2>1. ~\E s \in Specs : StealSignal(t, s)
    BY DEF StealSignal, OwnUsage
  <2>2. CASE ConnectRefused(t) \/ ReadNotification(t) \/ Execute(t) \/ JobStarts(t) \/ FetchResult(t)
    BY <1>1, <2>2 DEF ConnectRefused, ReadNotification, Execute, JobStarts, FetchResult
  <2>3. CASE IterateBegin(t)
    BY <1>0, <1>7, <2>3
  <2> QED BY <1>3, <1>4, <1>14, <2>1, <2>2, <2>3 DEF ClientCall
<1>15. ASSUME NEW t \in Threads, Step(t) PROVE OwnInv'
  BY <1>6, <1>7, <1>8, <1>9, <1>10, <1>11, <1>12, <1>15 DEF Step
<1> QED BY <1>5, <1>13, <1>14, <1>15 DEF Next

\* "As soon as this method returns, the callback function [...] will not be called
\* anymore": true for threads that keep to the handlers they connected, disconnect()
\* from a callback or during an emission included.
THEOREM SilentAfterDisconnect == OwnUsage => (Spec => NoCallbackAfterDisconnect)
<1> SUFFICES ASSUME OwnUsage PROVE Spec => NoCallbackAfterDisconnect
  OBVIOUS
<1>1. Init => OwnInv
  <2> SUFFICES ASSUME Init, NEW t \in Clients
        PROVE  DOMAIN queue[t] = {} /\ pc[t].at = "idle"
    BY DEF OwnInv, Disconnecting
  <2>1. queue[t] = << >> /\ pc[t] = Idle
    BY DEF Init, Threads
  <2> QED BY <2>1 DEF Idle
<1>2. SignalsInv /\ SignalsInv' /\ OwnInv /\ [Next]_vars => OwnInv'
  BY OwnSteps
<1>3. Spec => []OwnInv
  BY <1>1, <1>2, SignalsInvariant, PTL DEF Spec
<1>4. OwnInv => (\A t \in Clients : IterateCall(t) /\ fault' = "none" => pc[t].spec \notin ended)
  BY DEF OwnInv, IterateCall
<1>5. OwnInv => [\A t \in Clients : IterateCall(t) /\ fault' = "none" => pc[t].spec \notin ended]_vars
  BY <1>4
<1> QED BY <1>3, <1>5, PTL DEF NoCallbackAfterDisconnect

-----------------------------------------------------------------------------
(* Private signals.                                                        *)

\* While a private signal that cannot be stolen is marshalled, the worker goes on
\* with the job of the thread it is sent to.
LEMMA PrivateSteps ==
    ASSUME NotStolen, SignalsInv, SignalsInv', PrivateInv, [Next]_vars PROVE PrivateInv'
<1>0. /\ TypeOK /\ pc \in [Threads -> PcRec] /\ spec \in [Specs -> SpecRec] /\ Worker \in Threads
      /\ \A e \in Threads : pc[e].at \notin {"idle", "pop"} =>
           pc[e].spec \in Specs /\ spec[pc[e].spec].state # "unborn"
  BY Types DEF SignalsInv, ThreadInv, PcInv, Threads
\* A connected spec keeps its kind, and its target may only vanish.
<1>1. ASSUME NEW s \in Specs, spec[s].state # "unborn"
      PROVE  /\ spec'[s].private = spec[s].private /\ spec'[s].anythread = spec[s].anythread
             /\ spec'[s].target \in {spec[s].target, NoThread}
  <2>1. ASSUME NEW o \in Specs, NEW r \in SpecRec, spec' = [spec EXCEPT ![o] = r],
               o = s => /\ r.private = spec[s].private /\ r.anythread = spec[s].anythread
                        /\ r.target \in {spec[s].target, NoThread}
        PROVE  /\ spec'[s].private = spec[s].private /\ spec'[s].anythread = spec[s].anythread
               /\ spec'[s].target \in {spec[s].target, NoThread}
    <3>1. CASE o = s
      BY <3>1, <2>1, <1>0
    <3>2. CASE o # s
      BY <3>2, <2>1, <1>0
    <3> QED BY <3>1, <3>2
  <2>2. CASE spec' = spec
    BY <2>2
  <2>3. ASSUME NEW t \in Clients, NEW o \in Specs, NEW anythread \in BOOLEAN, NEW private \in BOOLEAN,
               Connect(t, o, anythread, private)
        PROVE  spec'[s] = spec[s]
    BY <1>0, <1>1, <2>3 DEF Connect
  <2>4. ASSUME NEW t \in Threads, DisconnectEnd(t)
        PROVE  /\ spec'[s].private = spec[s].private /\ spec'[s].anythread = spec[s].anythread
               /\ spec'[s].target \in {spec[s].target, NoThread}
    <3>1. PICK o \in Specs : o = pc[t].spec
      BY <1>0, <2>4 DEF DisconnectEnd
    <3>2. PICK r : r = Unref(Cleared(spec[o])) /\ spec' = [spec EXCEPT ![o] = r]
      BY <2>4, <3>1 DEF DisconnectEnd
    <3>3. Cleared(spec[o]) \in SpecRec /\ Cleared(spec[o]).target = NoThread
      BY <1>0, Fields
    <3>4. r.target = NoThread
      BY <3>2, <3>3 DEF Unref, SpecRec
    <3>5. r.private = spec[o].private /\ r.anythread = spec[o].anythread
      <4>1. /\ Cleared(spec[o]).private = spec[o].private
            /\ Cleared(spec[o]).anythread = spec[o].anythread
        BY <1>0, Callbacks
      <4> QED BY <4>1, <3>2, <3>3, Callbacks
    <3>6. r \in SpecRec
      <4>1. spec'[o] \in SpecRec
        <5>1. TypeOK'
          BY DEF SignalsInv, ThreadInv
        <5> QED BY <5>1 DEF TypeOK, SpecRec, States, Nobody
      <4> QED BY <4>1, <3>2, <1>0
    <3> QED BY <2>1, <3>2, <3>4, <3>5, <3>6
  <2>5. ASSUME NEW t \in Threads, IterateRelease(t)
        PROVE  /\ spec'[s].private = spec[s].private /\ spec'[s].anythread = spec[s].anythread
               /\ spec'[s].target \in {spec[s].target, NoThread}
    <3>1. PICK o \in Specs : o = pc[t].spec
      BY <1>0, <2>5 DEF IterateRelease
    <3>2. PICK r : r = Unref(spec[o]) /\ spec' = [spec EXCEPT ![o] = r]
      BY <2>5, <3>1 DEF IterateRelease
    <3>3. r.target = spec[o].target
      BY <1>0, <3>2 DEF Unref, SpecRec
    <3>4. r.private = spec[o].private /\ r.anythread = spec[o].anythread
      BY <1>0, <3>2, Callbacks
    <3>5. r \in SpecRec
      <4>1. spec'[o] \in SpecRec
        <5>1. TypeOK'
          BY DEF SignalsInv, ThreadInv
        <5> QED BY <5>1 DEF TypeOK, SpecRec, States, Nobody
      <4> QED BY <4>1, <3>2, <1>0
    <3> QED BY <2>1, <3>2, <3>3, <3>4, <3>5
  <2>6. ASSUME NEW t \in Threads, MarshalRef(t)
        PROVE  /\ spec'[s].private = spec[s].private /\ spec'[s].anythread = spec[s].anythread
               /\ spec'[s].target \in {spec[s].target, NoThread}
    <3>1. PICK o \in Specs : o = pc[t].spec
      BY <1>0, <2>6 DEF MarshalRef
    <3>2. CASE spec' # spec
      <4>1. PICK r : r = Ref(spec[o]) /\ spec' = [spec EXCEPT ![o] = r]
        BY <2>6, <3>1, <3>2 DEF MarshalRef
      <4>2. r \in SpecRec /\ r.target = spec[o].target
        BY <1>0, <4>1, Fields
      <4>3. r.private = spec[o].private /\ r.anythread = spec[o].anythread
        BY <1>0, <4>1, Callbacks
      <4> QED BY <2>1, <4>1, <4>2, <4>3
    <3> QED BY <2>2, <3>2
  <2>7. CASE UNCHANGED vars \/ JobEnds
    BY <2>2, <2>7 DEF vars, JobEnds
  <2>8. ASSUME NEW t \in Clients, ClientCall(t)
        PROVE  /\ spec'[s].private = spec[s].private /\ spec'[s].anythread = spec[s].anythread
               /\ spec'[s].target \in {spec[s].target, NoThread}
    <3>1. ~\E o \in Specs : StealSignal(t, o)
      BY DEF StealSignal, NotStolen
    <3>2. CASE \E o \in Specs : DisconnectBegin(t, o)
      BY <2>2, <3>2 DEF DisconnectBegin
    <3>3. CASE ConnectRefused(t) \/ ReadNotification(t) \/ Execute(t) \/ JobStarts(t) \/ FetchResult(t)
               \/ IterateBegin(t)
      BY <2>2, <3>3 DEF ConnectRefused, ReadNotification, Execute, JobStarts, FetchResult, IterateBegin
    <3> QED BY <2>3, <2>8, <3>1, <3>2, <3>3 DEF ClientCall
  <2>9. ASSUME NEW t \in Threads, Step(t) \/ \E o \in Specs : Emit(t, o)
        PROVE  /\ spec'[s].private = spec[s].private /\ spec'[s].anythread = spec[s].anythread
               /\ spec'[s].target \in {spec[s].target, NoThread}
    <3>1. CASE \/ MarshalPush(t) \/ MarshalNotify(t) \/ IteratePop(t) \/ IterateTest(t)
               \/ IterateCall(t) \/ CallbackReturns(t) \/ \E o \in Specs : Emit(t, o)
      BY <2>2, <3>1 DEF MarshalPush, MarshalNotify, IteratePop, IterateTest, IterateCall,
                        CallbackReturns, Emit
    <3> QED BY <2>4, <2>5, <2>6, <2>9, <3>1 DEF Step
  <2> QED BY <2>7, <2>8, <2>9 DEF Next
\* Who sends a signal has just begun, or was sending it before.
<1>2. ASSUME NEW e \in Threads, pc'[e].at \in {"marshal", "push"}
      PROVE  \/ pc[e].at \in {"marshal", "push"} /\ pc'[e].spec = pc[e].spec
             \/ \E s \in Specs : Emit(e, s) /\ pc'[e].spec = s
  <2> DEFINE Sent == \/ pc[e].at \in {"marshal", "push"} /\ pc'[e].spec = pc[e].spec
                     \/ \E s \in Specs : Emit(e, s) /\ pc'[e].spec = s
  <2>1. ASSUME NEW t \in Threads, NEW x \in PcRec, pc' = [pc EXCEPT ![t] = x],
               x.at \notin {"marshal", "push"} PROVE Sent
    <3>1. e # t
      BY <1>0, <1>2, <2>1
    <3>2. pc'[e] = pc[e]
      BY <1>0, <2>1, <3>1
    <3> QED BY <3>2, <1>2
  <2>2. ASSUME pc' = pc PROVE Sent
    BY <2>2, <1>2
  <2>3. ASSUME NEW t \in Threads, Done(t) PROVE Sent
    <3>1. PICK x \in PcRec : x = Idle /\ x.at = "idle" /\ pc' = [pc EXCEPT ![t] = x]
      BY <1>0, <2>3, Resting
    <3> HIDE DEF Sent
    <3> QED BY <2>1, <3>1
  <2>4. ASSUME NEW t \in Threads, NEW where \in Places \ {"marshal", "push"}, Go(t, where) PROVE Sent
    <3>1. PICK x \in PcRec : x.at = where /\ x.spec = pc[t].spec /\ pc' = [pc EXCEPT ![t] = x]
      BY <1>0, <2>4, Going
    <3> HIDE DEF Sent
    <3> QED BY <2>1, <3>1
  <2>5. ASSUME NEW t \in Threads, NEW s \in Specs \cup {NoThread}, NEW where \in Places \ {"marshal", "push"},
               pc' = [pc EXCEPT ![t] = [at |-> where, spec |-> s]] PROVE Sent
    <3>1. [at |-> where, spec |-> s] \in PcRec /\ [at |-> where, spec |-> s].at = where
      BY DEF PcRec
    <3> HIDE DEF Sent
    <3> QED BY <2>1, <2>5, <3>1
  <2>6. {"disconnect", "disconnect in callback", "notify", "pop", "test", "call", "callback", "release"}
          \subseteq Places \ {"marshal", "push"}
    BY DEF Places
  <2>7. ASSUME NEW t \in Clients, ClientCall(t) PROVE Sent
    <3>1. t \in Threads
      BY DEF Threads
    <3>2. ASSUME NEW s \in Specs, DisconnectBegin(t, s) PROVE Sent
      <4> HIDE DEF Sent
      <4> QED BY <2>4, <2>5, <2>6, <3>1, <3>2 DEF DisconnectBegin
    <3>3. CASE IterateBegin(t)
      <4> HIDE DEF Sent
      <4> QED BY <2>4, <2>6, <3>1, <3>3 DEF IterateBegin
    <3>4. CASE \/ \E s \in Specs : \/ \E anythread, private \in BOOLEAN : Connect(t, s, anythread, private)
                                   \/ StealSignal(t, s)
               \/ ConnectRefused(t) \/ ReadNotification(t) \/ Execute(t) \/ JobStarts(t) \/ FetchResult(t)
      <4>1. pc' = pc
        BY <3>4 DEF Connect, StealSignal, ConnectRefused, ReadNotification, Execute, JobStarts, FetchResult
      <4> HIDE DEF Sent
      <4> QED BY <2>2, <4>1
    <3> HIDE DEF Sent
    <3> QED BY <2>7, <3>2, <3>3, <3>4 DEF ClientCall
  <2>8. ASSUME NEW t \in Threads, Step(t) PROVE Sent
    <3>1. CASE MarshalRef(t)
      <4>1. CASE pc' = pc
        <5> HIDE DEF Sent
        <5> QED BY <2>2, <4>1
      <4>2. CASE Go(t, "push")
        <5>1. PICK x \in PcRec : x.at = "push" /\ x.spec = pc[t].spec /\ pc' = [pc EXCEPT ![t] = x]
          <6>1. "push" \in Places
            BY DEF Places
          <6> QED BY <6>1, <1>0, <4>2, Going
        <5>2. pc[t].at = "marshal"
          BY <3>1 DEF MarshalRef
        <5>3. CASE e = t
          BY <5>1, <5>2, <5>3, <1>0
        <5>4. CASE e # t
          BY <5>1, <5>4, <1>0, <1>2
        <5> QED BY <5>3, <5>4
      <4> HIDE DEF Sent
      <4> QED BY <3>1, <4>1, <4>2 DEF MarshalRef
    <3>2. CASE IteratePop(t)
      <4>1. t \in Clients
        BY <3>2 DEF IteratePop, SignalsInv, ThreadInv, PcInv, EmittingAt
      <4>2. queue[t] # << >> => Head(queue[t]) \in Specs
        <5>1. queue[t] \in Seq(Specs)
          BY <1>0, <4>1, InQueue
        <5> QED BY <5>1
      <4> HIDE DEF Sent
      <4> QED BY <2>2, <2>3, <2>5, <2>6, <3>2, <4>2 DEF IteratePop
    <3>3. CASE DisconnectEnd(t) \/ MarshalPush(t) \/ MarshalNotify(t)
      <4> HIDE DEF Sent
      <4> QED BY <2>3, <2>4, <2>6, <3>3 DEF DisconnectEnd, MarshalPush, MarshalNotify
    <3>4. CASE IterateTest(t) \/ IterateCall(t) \/ CallbackReturns(t)
      <4> HIDE DEF Sent
      <4> QED BY <2>2, <2>4, <2>6, <3>4 DEF IterateTest, IterateCall, CallbackReturns
    <3>5. CASE IterateRelease(t)
      <4> HIDE DEF Sent
      <4> QED BY <2>5, <2>6, <3>5 DEF IterateRelease
    <3> HIDE DEF Sent
    <3> QED BY <2>8, <3>1, <3>2, <3>3, <3>4, <3>5 DEF Step
  <2>9. ASSUME NEW t \in Threads, NEW s \in Specs, Emit(t, s) PROVE Sent
    <3>1. CASE e = t
      <4>1. pc'[e] = [at |-> "marshal", spec |-> s]
        BY <1>0, <2>9, <3>1 DEF Emit
      <4> QED BY <4>1, <2>9, <3>1
    <3>2. CASE e # t
      BY <1>0, <1>2, <2>9, <3>2 DEF Emit
    <3> QED BY <3>1, <3>2
  <2>10. ASSUME UNCHANGED vars \/ JobEnds PROVE Sent
    <3>1. pc' = pc
      BY <2>10 DEF vars, JobEnds
    <3> HIDE DEF Sent
    <3> QED BY <2>2, <3>1
  <2> HIDE DEF Sent
  <2>11. Sent
    BY <2>7, <2>8, <2>9, <2>10 DEF Next
  <2> QED BY <2>11 DEF Sent
\* The worker does not change jobs meanwhile.
<1>3. ASSUME pc'[Worker].at \in {"marshal", "push"} PROVE current' = current
  <2>1. ~JobEnds /\ \A t \in Clients : ~JobStarts(t)
    BY <1>3 DEF JobEnds, JobStarts, Idle
  <2>2. ASSUME NEW t \in Clients, ClientCall(t) PROVE current' = current
    BY <2>1, <2>2 DEF ClientCall, Connect, StealSignal, DisconnectBegin, ConnectRefused, IterateBegin,
                      ReadNotification, Execute, FetchResult
  <2>3. ASSUME NEW t \in Threads, Step(t) \/ \E s \in Specs : Emit(t, s) PROVE current' = current
    BY <2>3 DEF Step, DisconnectEnd, MarshalRef, MarshalPush, MarshalNotify, IteratePop, IterateTest,
                IterateCall, IterateRelease, CallbackReturns, Emit
  <2> QED BY <2>1, <2>2, <2>3 DEF Next, vars
<1> SUFFICES ASSUME NEW e \in Threads, pc'[e].at \in {"marshal", "push"},
                    spec'[pc'[e].spec].private, ~spec'[pc'[e].spec].anythread
             PROVE  e = Worker /\ spec'[pc'[e].spec].target \in {current', NoThread}
  BY DEF PrivateInv
<1>4. CASE pc[e].at \in {"marshal", "push"} /\ pc'[e].spec = pc[e].spec
  <2>1. PICK s \in Specs : s = pc[e].spec /\ spec[s].state # "unborn"
    BY <1>0, <1>4
  <2>2. /\ spec'[s].private = spec[s].private /\ spec'[s].anythread = spec[s].anythread
        /\ spec'[s].target \in {spec[s].target, NoThread}
    BY <1>1, <2>1
  <2>3. spec[s].private /\ ~spec[s].anythread
    BY <1>4, <2>1, <2>2
  <2>4. e = Worker /\ spec[s].target \in {current, NoThread}
    BY <1>4, <2>1, <2>3 DEF PrivateInv
  <2>5. current' = current
    BY <1>3, <2>4
  <2> QED BY <1>4, <2>1, <2>2, <2>4, <2>5
<1>5. ASSUME NEW s \in Specs, Emit(e, s), pc'[e].spec = s
      PROVE  e = Worker /\ spec'[pc'[e].spec].target \in {current', NoThread}
  <2>1. spec' = spec /\ current' = current /\ Propagated(e, s)
    BY <1>5 DEF Emit
  <2>2. spec[s].private /\ ~spec[s].anythread
    BY <1>5, <2>1
  <2>3. e = Worker /\ current = spec[s].target
    BY <2>1, <2>2 DEF Propagated
  <2> QED BY <1>5, <2>1, <2>3
<1> QED BY <1>2, <1>4, <1>5

\* "@private_job: TRUE if @callback is to be invoked only if the signal has been emitted
\* when a job created for the calling thread is being executed": what is pushed for such
\* a handler comes from a job of the thread it is pushed to, as long as it is not stolen.
THEOREM PrivateStaysPrivate == NotStolen => (Spec => PrivateSignalsOnly)
<1> SUFFICES ASSUME NotStolen PROVE Spec => PrivateSignalsOnly
  OBVIOUS
<1>1. Init => PrivateInv
  <2> SUFFICES ASSUME Init, NEW e \in Threads PROVE pc[e].at = "idle"
    BY DEF PrivateInv
  <2>1. pc[e] = Idle
    BY DEF Init
  <2> QED BY <2>1 DEF Idle
<1>2. SignalsInv /\ SignalsInv' /\ PrivateInv /\ [Next]_vars => PrivateInv'
  BY PrivateSteps
<1>3. Spec => []PrivateInv
  BY <1>1, <1>2, SignalsInvariant, PTL DEF Spec
<1>4. PrivateInv => (\A e \in Threads :
         MarshalPush(e) /\ spec[pc[e].spec].private /\ ~spec[pc[e].spec].anythread
           => spec[pc[e].spec].target \in {current, NoThread})
  BY DEF PrivateInv, MarshalPush
<1>5. PrivateInv => [\A e \in Threads :
         MarshalPush(e) /\ spec[pc[e].spec].private /\ ~spec[pc[e].spec].anythread
           => spec[pc[e].spec].target \in {current, NoThread}]_vars
  BY <1>4
<1> QED BY <1>3, <1>5, PTL DEF PrivateSignalsOnly
=============================================================================
