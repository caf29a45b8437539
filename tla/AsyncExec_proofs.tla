-------------------------- MODULE AsyncExec_proofs --------------------------
(***************************************************************************)
(* Theorems about AsyncExec, for any number of threads and of statements:  *)
(* statements are executed in the order of their submission, what is       *)
(* delivered is their own outcome, the queue does not stop and nothing is  *)
(* freed while the worker uses it.                                         *)
(***************************************************************************)
EXTENDS AsyncExec, SequenceTheorems, TLAPS

-----------------------------------------------------------------------------
(* The inductive invariant.                                                *)

Increasing(seq) == \A k, l \in DOMAIN seq : k < l => seq[k] < seq[l]

Due == {"queued", "running", "done"}
Launched(i) == job[i].state # "none"

\* A job is where its state says, and each list is in the order of launching.
JobInv ==
    /\ Increasing(jobs) /\ Increasing(async_tasks) /\ Increasing(started)
    /\ \A i \in IdsIn(started), k \in IdsIn(jobs) : i < k
    /\ \A i \in Tasks : /\ i \in IdsIn(jobs) <=> job[i].state = "queued"
                        /\ i = running <=> job[i].state = "running"
                        /\ i \in IdsIn(async_tasks) <=> job[i].state \in Due
                        /\ i \in IdsIn(started) => job[i].state \in {"running", "done", "taken"}
                        /\ job[i].state = "done" => job[i].outcome # "none"

\* Among the waiting tasks the first one only may have a job, whose callback is due;
\* the others are younger than every job.
WaitingInv ==
    /\ Increasing(waiting)
    /\ \A i \in IdsIn(waiting) :
         /\ i <= submitted /\ task[i].state = "live" /\ task[i].outcome = "none"
         /\ Launched(i) => /\ i = Head(waiting) /\ job[i].state \in Due
                           /\ task[i].being_processed \/ task[i].refused
         /\ ~Launched(i) => \A j \in Tasks : Launched(j) => j < i
         /\ At("launch") => ~Launched(i)

\* A number that was not given yet, and a task that is completed.
TaskInv ==
    /\ \A i \in Tasks : i > submitted =>
         task[i].state = "live" /\ task[i].outcome = "none" /\ ~Launched(i)
    /\ \A i \in IdsIn(completed) : task[i].outcome # "none" /\ task[i].state # "cancelled"

\* One job at a time, that of the first waiting task.
OneJob ==
    ~Disturbed =>
       async_tasks = IF At("launch") \/ waiting = << >> THEN << >> ELSE <<Head(waiting)>>

AsyncInv == TypeOK /\ JobInv /\ WaitingInv /\ TaskInv /\ OneJob /\ OwnOutcome

-----------------------------------------------------------------------------
(* Lists of tasks.                                                         *)

\* The tasks in a list.
LEMMA Ids ==
    ASSUME NEW seq \in Seq(Tasks)
    PROVE  /\ Len(seq) \in Nat /\ DOMAIN seq = 1 .. Len(seq)
           /\ IdsIn(seq) \subseteq Tasks /\ (seq = << >> <=> IdsIn(seq) = {})
           /\ seq # << >> => Head(seq) \in IdsIn(seq) /\ Head(seq) = seq[1] /\ 1 \in DOMAIN seq
           /\ Tasks \subseteq Nat
<1>1. Len(seq) \in Nat /\ DOMAIN seq = 1 .. Len(seq) /\ \A k \in DOMAIN seq : seq[k] \in Tasks
  BY LenProperties, ElementOfSeq
<1>2. Tasks \subseteq Nat
  BY AsyncAssumption DEF Tasks
<1>3. seq = << >> => IdsIn(seq) = {}
  BY DEF IdsIn
<1>4. seq # << >> => Len(seq) > 0
  BY EmptySeq
<1>5. seq # << >> => 1 \in DOMAIN seq
  BY <1>1, <1>4
<1>6. seq # << >> => Head(seq) = seq[1]
  BY HeadTailProperties
<1> QED BY <1>1, <1>2, <1>3, <1>5, <1>6 DEF IdsIn

\* A task at the end of a list.
LEMMA Appended ==
    ASSUME NEW seq \in Seq(Tasks), NEW i \in Tasks
    PROVE  /\ Append(seq, i) \in Seq(Tasks) /\ IdsIn(Append(seq, i)) = IdsIn(seq) \cup {i}
           /\ Append(seq, i) # << >>
           /\ seq # << >> => Head(Append(seq, i)) = Head(seq)
           /\ Increasing(seq) /\ (\A j \in IdsIn(seq) : j < i) => Increasing(Append(seq, i))
<1>0. Len(seq) \in Nat /\ DOMAIN seq = 1 .. Len(seq)
  BY Ids
<1> DEFINE new == Append(seq, i)
           n   == Len(seq) + 1
<1>1. /\ new \in Seq(Tasks) /\ Len(new) = n /\ new[n] = i
      /\ \A k \in 1 .. Len(seq) : new[k] = seq[k]
  BY AppendProperties
<1>2. DOMAIN new = 1 .. n
  BY <1>1, LenProperties
<1>3. n \in DOMAIN new /\ DOMAIN new = DOMAIN seq \cup {n} /\ \A k \in DOMAIN seq : k < n
  BY <1>0, <1>2
<1> HIDE DEF new, n
<1>4. IdsIn(new) = IdsIn(seq) \cup {i}
  BY <1>0, <1>1, <1>3 DEF IdsIn
<1>5. new # << >>
  BY <1>1, <1>4, Ids
<1>6. seq # << >> => Head(new) = Head(seq)
  <2>1. seq # << >> => 1 \in DOMAIN seq /\ Head(seq) = seq[1]
    BY Ids
  <2>2. Head(new) = new[1]
    BY <1>1, <1>5, Ids
  <2> QED BY <1>0, <1>1, <2>1, <2>2
<1>7. Increasing(seq) /\ (\A j \in IdsIn(seq) : j < i) => Increasing(new)
  <2> SUFFICES ASSUME Increasing(seq), \A j \in IdsIn(seq) : j < i,
                      NEW k \in DOMAIN new, NEW l \in DOMAIN new, k < l
               PROVE  new[k] < new[l]
    BY DEF Increasing
  <2>1. k \in DOMAIN seq /\ new[k] = seq[k] /\ seq[k] \in IdsIn(seq)
    <3>1. k # n
      BY <1>0, <1>3 DEF n
    <3> QED BY <1>0, <1>1, <1>3, <3>1 DEF IdsIn
  <2>2. CASE l = n
    BY <1>1, <2>1, <2>2
  <2>3. CASE l \in DOMAIN seq
    BY <1>0, <1>1, <2>1, <2>3 DEF Increasing
  <2> QED BY <1>3, <2>2, <2>3
<1> QED BY <1>1, <1>4, <1>5, <1>6, <1>7 DEF new

\* A task taken out of a list, from its place.
LEMMA Removed ==
    ASSUME NEW seq \in Seq(Tasks), NEW i \in IdsIn(seq)
    PROVE  /\ Without(seq, i) \in Seq(Tasks) /\ IdsIn(Without(seq, i)) \subseteq IdsIn(seq)
           /\ Increasing(seq) =>
                /\ Increasing(Without(seq, i)) /\ IdsIn(Without(seq, i)) = IdsIn(seq) \ {i}
                /\ i # Head(seq) => Without(seq, i) # << >> /\ Head(Without(seq, i)) = Head(seq)
<1>0. Len(seq) \in Nat /\ DOMAIN seq = 1 .. Len(seq) /\ IdsIn(seq) \subseteq Tasks /\ Tasks \subseteq Nat
  BY Ids
<1>1. PICK n \in DOMAIN seq : seq[n] = i /\ Without(seq, i) = RemoveAt(seq, n)
  BY DEF IdsIn, Without
<1> DEFINE p == SubSeq(seq, 1, n - 1)
           q == SubSeq(seq, n + 1, Len(seq))
           new == Without(seq, i)
           old(k) == IF k < n THEN k ELSE k + 1
<1>2. new = p \o q
  BY <1>1 DEF RemoveAt
<1>8. n \in 1 .. Len(seq)
  BY <1>0
<1>3. /\ p \in Seq(Tasks) /\ Len(p) = n - 1 /\ \A k \in 1 .. n - 1 : p[k] = seq[k]
      /\ q \in Seq(Tasks) /\ Len(q) = Len(seq) - n
      /\ \A k \in 1 .. Len(seq) - n : q[k] = seq[n + k]
  <2>1. \A k \in 1 .. Len(seq) : seq[k] \in Tasks
    BY <1>0, ElementOfSeq
  <2>2. /\ n - 1 \in Int /\ n + 1 \in Int /\ Len(seq) \in Int /\ 1 \in Int
        /\ \A k \in 1 .. n - 1 : k \in 1 .. Len(seq)
        /\ \A k \in n + 1 .. Len(seq) : k \in 1 .. Len(seq)
    BY <1>0, <1>8
  <2>3. /\ p \in Seq(Tasks) /\ Len(p) = (IF 1 <= n - 1 THEN (n - 1) - 1 + 1 ELSE 0)
        /\ \A k \in 1 .. (n - 1) - 1 + 1 : p[k] = seq[1 + k - 1]
    BY <2>1, <2>2, SubSeqProperties
  <2>4. /\ q \in Seq(Tasks) /\ Len(q) = (IF n + 1 <= Len(seq) THEN Len(seq) - (n + 1) + 1 ELSE 0)
        /\ \A k \in 1 .. Len(seq) - (n + 1) + 1 : q[k] = seq[n + 1 + k - 1]
    BY <2>1, <2>2, SubSeqProperties
  <2> HIDE DEF p, q
  <2>5. Len(p) = n - 1 /\ \A k \in 1 .. n - 1 : p[k] = seq[k]
    BY <1>0, <1>8, <2>3
  <2>6. Len(q) = Len(seq) - n /\ \A k \in 1 .. Len(seq) - n : q[k] = seq[n + k]
    <3>1. /\ Len(seq) - (n + 1) + 1 = Len(seq) - n /\ (n + 1 > Len(seq) => Len(seq) - n = 0)
          /\ \A k \in 1 .. Len(seq) - n : n + 1 + k - 1 = n + k
      BY <1>0, <1>8
    <3>2. Len(q) = Len(seq) - n
      BY <1>0, <1>8, <2>4, <3>1
    <3> QED BY <2>4, <3>1, <3>2
  <2> QED BY <2>3, <2>4, <2>5, <2>6
<1> HIDE DEF p, q, new
<1>4. /\ new \in Seq(Tasks) /\ Len(new) = Len(seq) - 1 /\ DOMAIN new = 1 .. Len(seq) - 1
      /\ \A k \in DOMAIN new : old(k) \in DOMAIN seq /\ old(k) # n /\ new[k] = seq[old(k)]
  <2>1. /\ p \o q \in Seq(Tasks) /\ Len(p \o q) = Len(p) + Len(q)
        /\ \A k \in 1 .. Len(p) + Len(q) : (p \o q)[k] = IF k <= Len(p) THEN p[k] ELSE q[k - Len(p)]
    BY <1>3, ConcatProperties
  <2>2. Len(p) + Len(q) = Len(seq) - 1
    <3>1. n \in Int /\ Len(seq) \in Int
      BY <1>0, <1>8
    <3> QED BY <1>3, <3>1
  <2>3. /\ new \in Seq(Tasks) /\ Len(new) = Len(seq) - 1
        /\ \A k \in 1 .. Len(seq) - 1 : new[k] = IF k <= n - 1 THEN p[k] ELSE q[k - (n - 1)]
    BY <1>2, <1>3, <2>1, <2>2
  <2>4. DOMAIN new = 1 .. Len(seq) - 1
    BY <2>3, LenProperties
  <2>5. ASSUME NEW k \in 1 .. Len(seq) - 1
        PROVE  old(k) \in 1 .. Len(seq) /\ old(k) # n /\ new[k] = seq[old(k)]
    <3>0. /\ k \in Int /\ n \in Int /\ Len(seq) \in Int /\ 1 <= n /\ n <= Len(seq)
          /\ 1 <= k /\ k <= Len(seq) - 1
      BY <1>0, <1>8
    <3>1. CASE k < n
      <4>1. k \in 1 .. n - 1 /\ k <= n - 1 /\ k \in 1 .. Len(seq) /\ k # n
        BY <3>0, <3>1
      <4> QED BY <1>3, <2>3, <3>1, <4>1
    <3>2. CASE ~(k < n)
      <4>1. /\ k - (n - 1) \in 1 .. Len(seq) - n /\ n + (k - (n - 1)) = k + 1 /\ ~(k <= n - 1)
            /\ k + 1 \in 1 .. Len(seq) /\ k + 1 # n
        BY <3>0, <3>2
      <4>2. q[k - (n - 1)] = seq[k + 1]
        BY <1>3, <4>1
      <4> QED BY <2>3, <3>2, <4>1, <4>2
    <3> QED BY <3>1, <3>2
  <2> HIDE DEF old
  <2> QED BY <1>0, <2>3, <2>4, <2>5
<1>9. DOMAIN new = 1 .. Len(seq) - 1
  BY <1>4
<1>5. \A k \in DOMAIN seq : k # n => \E l \in DOMAIN new : old(l) = k
  <2> SUFFICES ASSUME NEW k \in DOMAIN seq, k # n PROVE \E l \in DOMAIN new : old(l) = k
    OBVIOUS
  <2>1. CASE k < n
    <3>1. k \in DOMAIN new /\ old(k) = k
      BY <1>0, <1>8, <1>9, <2>1
    <3> QED BY <3>1
  <2>2. CASE ~(k < n)
    <3>1. k - 1 \in DOMAIN new /\ old(k - 1) = k
      BY <1>0, <1>8, <1>9, <2>2
    <3> QED BY <3>1
  <2> QED BY <2>1, <2>2
<1>6. IdsIn(new) \subseteq IdsIn(seq)
  <2> HIDE DEF old
  <2> QED BY <1>4 DEF IdsIn
<1>7. ASSUME Increasing(seq)
      PROVE  /\ Increasing(new) /\ IdsIn(new) = IdsIn(seq) \ {i}
             /\ i # Head(seq) => new # << >> /\ Head(new) = Head(seq)
  <2>1. \A j \in DOMAIN seq : seq[j] = i => j = n
    <3> SUFFICES ASSUME NEW j \in DOMAIN seq, seq[j] = i, j # n PROVE FALSE
      OBVIOUS
    <3>1. j < n \/ n < j
      BY <1>0, <1>8
    <3>2. seq[j] < seq[n] \/ seq[n] < seq[j]
      BY <1>7, <3>1 DEF Increasing
    <3>3. i \in Nat /\ seq[n] = i
      BY <1>0, <1>1
    <3> QED BY <3>2, <3>3
  <2>2. Increasing(new)
    <3> SUFFICES ASSUME NEW k \in DOMAIN new, NEW l \in DOMAIN new, k < l
                 PROVE  new[k] < new[l]
      BY DEF Increasing
    <3>1. old(k) < old(l)
      BY <1>0, <1>8, <1>9
    <3> HIDE DEF old
    <3> QED BY <1>4, <1>7, <3>1 DEF Increasing
  <2>3. IdsIn(new) = IdsIn(seq) \ {i}
    <3> HIDE DEF old
    <3>1. \A k \in DOMAIN new : new[k] # i
      BY <1>4, <2>1
    <3>2. \A j \in IdsIn(seq) : j # i => j \in IdsIn(new)
      <4> SUFFICES ASSUME NEW k \in DOMAIN seq, seq[k] # i PROVE seq[k] \in IdsIn(new)
        BY DEF IdsIn
      <4>1. PICK l \in DOMAIN new : old(l) = k
        BY <1>1, <1>5
      <4> QED BY <1>4, <4>1 DEF IdsIn
    <3> QED BY <1>6, <3>1, <3>2 DEF IdsIn
  <2>4. ASSUME i # Head(seq)
        PROVE  new # << >> /\ Head(new) = Head(seq)
    <3>1. seq # << >> /\ Head(seq) = seq[1] /\ 1 \in DOMAIN seq
      BY Ids
    <3>2. n # 1
      BY <1>1, <2>4, <3>1
    <3>3. 1 \in DOMAIN new /\ old(1) = 1
      BY <1>0, <1>8, <1>9, <3>2
    <3>4. new[1] = seq[1] /\ new # << >>
      <4>1. new[1] = seq[1]
        BY <1>4, <3>3
      <4>2. IdsIn(new) # {}
        BY <3>3 DEF IdsIn
      <4> QED BY <1>4, <4>1, <4>2, Ids
    <3>5. Head(new) = new[1]
      BY <1>4, <3>4, Ids
    <3> QED BY <3>1, <3>4, <3>5
  <2> QED BY <2>2, <2>3, <2>4
<1> QED BY <1>4, <1>6, <1>7 DEF new

\* The first task of a list, and the others.
LEMMA Shortened ==
    ASSUME NEW seq \in Seq(Tasks), seq # << >>, Increasing(seq)
    PROVE  /\ Tail(seq) \in Seq(Tasks) /\ Increasing(Tail(seq))
           /\ IdsIn(Tail(seq)) = IdsIn(seq) \ {Head(seq)}
           /\ \A j \in IdsIn(seq) : j # Head(seq) => Head(seq) < j
<1>0. /\ Len(seq) \in Nat /\ DOMAIN seq = 1 .. Len(seq) /\ IdsIn(seq) \subseteq Tasks /\ Tasks \subseteq Nat
      /\ Head(seq) = seq[1] /\ 1 \in DOMAIN seq
  BY Ids
<1> DEFINE new == Tail(seq)
<1>1. /\ new \in Seq(Tasks) /\ Len(new) = Len(seq) - 1
      /\ \A k \in 1 .. Len(seq) - 1 : new[k] = seq[k + 1]
  BY HeadTailProperties
<1>2. DOMAIN new = 1 .. Len(seq) - 1
  BY <1>1, LenProperties
<1> HIDE DEF new
<1>3. \A k \in DOMAIN new : k + 1 \in DOMAIN seq /\ new[k] = seq[k + 1] /\ 1 < k + 1
  BY <1>0, <1>1, <1>2
<1>4. Increasing(new)
  <2> SUFFICES ASSUME NEW k \in DOMAIN new, NEW l \in DOMAIN new, k < l
               PROVE  new[k] < new[l]
    BY DEF Increasing
  <2>1. k + 1 < l + 1
    BY <1>0, <1>2
  <2> QED BY <1>3, <2>1 DEF Increasing
<1>5. \A j \in DOMAIN seq : j # 1 => seq[1] < seq[j]
  <2>1. \A j \in DOMAIN seq : j # 1 => 1 < j
    BY <1>0
  <2> QED BY <1>0, <2>1 DEF Increasing
<1>6. \A j \in IdsIn(seq) : j # Head(seq) => Head(seq) < j
  BY <1>0, <1>5 DEF IdsIn
<1>7. IdsIn(new) = IdsIn(seq) \ {Head(seq)}
  <2>1. \A k \in DOMAIN new : new[k] # Head(seq) /\ new[k] \in IdsIn(seq)
    <3> SUFFICES ASSUME NEW k \in DOMAIN new PROVE new[k] # Head(seq) /\ new[k] \in IdsIn(seq)
      OBVIOUS
    <3>1. k + 1 # 1
      BY <1>0, <1>2
    <3>2. seq[1] < seq[k + 1] /\ seq[k + 1] \in IdsIn(seq) /\ seq[1] \in IdsIn(seq)
      BY <1>0, <1>3, <1>5, <3>1 DEF IdsIn
    <3>3. seq[1] \in Nat /\ seq[k + 1] \in Nat
      BY <1>0, <3>2
    <3>4. seq[1] # seq[k + 1]
      BY <3>2, <3>3
    <3> QED BY <1>0, <1>3, <3>2, <3>4
  <2>2. \A j \in DOMAIN seq : j # 1 => j - 1 \in DOMAIN new /\ (j - 1) + 1 = j
    BY <1>0, <1>2
  <2>3. \A j \in DOMAIN seq : j # 1 => seq[j] \in IdsIn(new)
    BY <1>3, <2>2 DEF IdsIn
  <2> QED BY <1>0, <2>1, <2>3 DEF IdsIn
<1> QED BY <1>1, <1>4, <1>6, <1>7 DEF new

\* A list of one task, and of none.
LEMMA Single ==
    ASSUME NEW h
    PROVE  /\ IdsIn(<<h>>) = {h} /\ Head(<<h>>) = h /\ Tail(<<h>>) = << >> /\ <<h>> # << >>
           /\ IdsIn(<< >>) = {} /\ Append(<< >>, h) = <<h>>
BY DEF IdsIn

-----------------------------------------------------------------------------
(* Types.                                                                  *)

TaskRecs == [by : Users \cup {NoUser}, being_processed : BOOLEAN, stmt : BOOLEAN,
             state : {"live", "delivered", "cancelled"},
             outcome : {"none", "result", "error"}, refused : BOOLEAN]
JobRecs  == [by : Users \cup {NoUser}, state : {"none", "queued", "running", "done", "taken"},
             outcome : {"none", "result", "error"}]
LockRecs == [by : Users \cup {NoUser}, at : {"none", "handle", "launch", "lookup"},
             id : Tasks \cup {NoTask}]
LinkOK   == {open, sub, closed_signal, has_closed} \subseteq BOOLEAN

\* The invariant, and the types that the proofs use most.
LEMMA Facts ==
    ASSUME AsyncInv
    PROVE  /\ TypeOK /\ JobInv /\ WaitingInv /\ TaskInv /\ OneJob /\ OwnOutcome
           /\ submitted \in 0 .. MaxTasks /\ waiting \in Seq(Tasks) /\ completed \in Seq(Tasks)
           /\ async_tasks \in Seq(Tasks) /\ jobs \in Seq(Tasks) /\ started \in Seq(Tasks)
           /\ task \in [Tasks -> TaskRecs] /\ job \in [Tasks -> JobRecs] /\ lock \in LockRecs
           /\ running \in Tasks \cup {NoTask} /\ LinkOK /\ NoTask \notin Tasks
           /\ Tasks \subseteq Nat /\ MaxTasks \in Nat
           /\ IdsIn(waiting) \subseteq Tasks /\ IdsIn(completed) \subseteq Tasks
           /\ IdsIn(async_tasks) \subseteq Tasks /\ IdsIn(jobs) \subseteq Tasks
           /\ IdsIn(started) \subseteq Tasks
<1>1. /\ TypeOK /\ JobInv /\ WaitingInv /\ TaskInv /\ OneJob /\ OwnOutcome
  BY DEF AsyncInv
<1>2. /\ submitted \in 0 .. MaxTasks /\ waiting \in Seq(Tasks) /\ completed \in Seq(Tasks)
      /\ async_tasks \in Seq(Tasks) /\ jobs \in Seq(Tasks) /\ started \in Seq(Tasks)
      /\ task \in [Tasks -> TaskRecs] /\ job \in [Tasks -> JobRecs] /\ lock \in LockRecs
      /\ running \in Tasks \cup {NoTask} /\ LinkOK
  BY <1>1 DEF TypeOK, TaskRecs, JobRecs, LockRecs, LinkOK
<1>3. MaxTasks \in Nat /\ NoTask \notin Tasks
  BY AsyncAssumption DEF Tasks, NoTask
<1> QED BY <1>1, <1>2, <1>3, Ids

\* The type of each variable after a step.
LEMMA TypeKeeps ==
    ASSUME submitted' \in 0 .. MaxTasks, waiting' \in Seq(Tasks), completed' \in Seq(Tasks),
           async_tasks' \in Seq(Tasks), jobs' \in Seq(Tasks), started' \in Seq(Tasks),
           task' \in [Tasks -> TaskRecs], job' \in [Tasks -> JobRecs], lock' \in LockRecs,
           running' \in Tasks \cup {NoTask}, LinkOK'
    PROVE  TypeOK'
BY DEF TypeOK, TaskRecs, JobRecs, LockRecs, LinkOK

\* What happens to the connection itself does not matter to its tasks.
LEMMA LinkKeeps ==
    ASSUME LinkOK, \/ UNCHANGED link \/ Notice \/ \E t : CloseNow(t) \/ Open(t)
    PROVE  LinkOK'
<1>1. CASE UNCHANGED link
  BY <1>1 DEF LinkOK, link
<1>2. CASE Notice
  BY <1>2 DEF LinkOK, Notice
<1>3. ASSUME NEW t, CloseNow(t) PROVE LinkOK'
  BY <1>3 DEF LinkOK, CloseNow
<1>4. ASSUME NEW t, Open(t) PROVE LinkOK'
  BY <1>4 DEF LinkOK, Open
<1> QED BY <1>1, <1>2, <1>3, <1>4

\* gda_connection_async_fetch_result() goes on to its next stage.
LEMMA LockKeeps ==
    ASSUME lock \in LockRecs
    PROVE  \A w \in {"launch", "lookup"} : Then(w) => lock' \in LockRecs /\ lock'.at = w
BY DEF LockRecs, Then

\* The holder of the lock.
LEMMA Outside ==
    ASSUME lock = Unlocked
    PROVE  ~At("launch") /\ lock.at = "none"
BY DEF At, Unlocked

\* A cancelled task stays cancelled, a modified statement is never launched.
LEMMA DisturbedStays ==
    ASSUME \A j \in Tasks :
             /\ task[j].state = "cancelled" /\ task[j].refused =>
                  task'[j].state = "cancelled" /\ task'[j].refused
             /\ ~task[j].stmt /\ job[j].state = "none" => ~task'[j].stmt /\ job'[j].state = "none"
    PROVE  Disturbed => Disturbed'
BY DEF Disturbed

-----------------------------------------------------------------------------
(* Steps that change no task and no job.                                   *)

\* Only the lock and the state of the connection change.
LEMMA Steady ==
    ASSUME AsyncInv, UNCHANGED <<cnc, prov, running, started>>, LinkOK', lock' \in LockRecs,
           At("launch")' => At("launch"), At("launch") => At("launch")' \/ waiting = << >>
    PROVE  AsyncInv'
<1>0. TypeOK /\ JobInv /\ WaitingInv /\ TaskInv /\ OneJob /\ OwnOutcome
  BY Facts
<1>1. /\ submitted' = submitted /\ waiting' = waiting /\ completed' = completed /\ task' = task
      /\ async_tasks' = async_tasks /\ job' = job /\ jobs' = jobs /\ running' = running
      /\ started' = started
  BY DEF cnc, prov
<1>2. TypeOK'
  BY <1>1, Facts, TypeKeeps
<1>3. JobInv' /\ TaskInv' /\ OwnOutcome'
  BY <1>0, <1>1 DEF JobInv, Increasing, IdsIn, TaskInv, OwnOutcome, Launched
<1>4. WaitingInv'
  BY <1>0, <1>1 DEF WaitingInv, Increasing, IdsIn, Launched
<1>5. Disturbed' <=> Disturbed
  BY <1>1 DEF Disturbed
<1>6. OneJob'
  BY <1>0, <1>1, <1>5 DEF OneJob
<1> QED BY <1>2, <1>3, <1>4, <1>6 DEF AsyncInv

\* handle_async() without a result.
LEMMA HandleKeeps ==
    ASSUME AsyncInv, HandleClosed \/ HandleNothing \/ HandleNotReady
    PROVE  AsyncInv'
<1>1. At("handle") /\ Then("lookup") /\ UNCHANGED <<cnc, prov, running, started>>
  BY DEF HandleClosed, HandleNothing, HandleNotReady
<1>2. LinkOK'
  BY Facts, LinkKeeps DEF HandleClosed, HandleNothing, HandleNotReady
<1>3. lock' \in LockRecs /\ ~At("launch") /\ ~At("launch")'
  BY <1>1, LockKeeps, Facts DEF At
<1> QED BY <1>1, <1>2, <1>3, Steady

\* A call that takes the lock, or needs it for one step.
LEMMA OutsideKeeps ==
    ASSUME AsyncInv, NEW t \in Users,
           Close(t) \/ Open(t) \/ \E i \in Tasks : FetchBegin(t, i)
    PROVE  AsyncInv'
<1>1. lock = Unlocked /\ UNCHANGED <<cnc, prov, running, started>>
  BY DEF Close, Open, FetchBegin, Enter
<1>2. ~At("launch")
  BY <1>1, Outside
<1>3. CASE Close(t) \/ Open(t)
  <2>1. lock' = lock
    BY <1>3 DEF Close, Open
  <2>2. LinkOK'
    BY <1>3, Facts, LinkKeeps DEF Close
  <2> QED BY <1>1, <1>2, <2>1, <2>2, Steady, Facts DEF At
<1>4. ASSUME NEW i \in Tasks, FetchBegin(t, i) PROVE AsyncInv'
  <2>1. lock' = [by |-> t, at |-> "handle", id |-> i] /\ UNCHANGED link
    BY <1>4 DEF FetchBegin
  <2>2. lock' \in LockRecs /\ lock'.at = "handle"
    BY <2>1 DEF LockRecs
  <2>3. LinkOK'
    BY <2>1, Facts, LinkKeeps
  <2> QED BY <1>1, <1>2, <2>2, <2>3, Steady DEF At
<1> QED BY <1>3, <1>4

-----------------------------------------------------------------------------
(* The worker.                                                             *)

\* The same tasks wait, and the same ones have a job.
LEMMA WaitingKeeps ==
    ASSUME AsyncInv, waiting' = waiting, task' = task, submitted' = submitted,
           At("launch")' => At("launch"),
           \A j \in Tasks : Launched(j)' <=> Launched(j),
           \A j \in IdsIn(waiting) : job[j].state \in Due => job'[j].state \in Due
    PROVE  WaitingInv'
<1>1. WaitingInv /\ IdsIn(waiting) \subseteq Tasks /\ IdsIn(waiting)' = IdsIn(waiting)
  BY Facts DEF IdsIn
<1>2. Increasing(waiting)'
  BY <1>1 DEF WaitingInv, Increasing
<1>3. ASSUME NEW i \in IdsIn(waiting)
      PROVE  /\ i <= submitted /\ task[i].state = "live" /\ task[i].outcome = "none"
             /\ Launched(i)' => /\ i = Head(waiting) /\ job'[i].state \in Due
                                /\ task[i].being_processed \/ task[i].refused
             /\ ~Launched(i)' => \A j \in Tasks : Launched(j)' => j < i
             /\ At("launch")' => ~Launched(i)'
  BY <1>1, <1>3 DEF WaitingInv
<1> QED BY <1>1, <1>2, <1>3 DEF WaitingInv

\* The oldest job is started.
LEMMA JobStartKeeps ==
    ASSUME AsyncInv, JobStart
    PROVE  AsyncInv'
<1>0. TypeOK /\ JobInv /\ WaitingInv /\ TaskInv /\ OneJob /\ OwnOutcome
  BY Facts
<1>1. PICK i \in Tasks : i = Head(jobs) /\ i \in IdsIn(jobs)
  BY Facts, Ids DEF JobStart
<1>2. /\ jobs # << >> /\ running = NoTask /\ running' = i /\ jobs' = Tail(jobs)
      /\ job' = [job EXCEPT ![i].state = "running"] /\ started' = Append(started, i)
      /\ submitted' = submitted /\ waiting' = waiting /\ completed' = completed /\ task' = task
      /\ async_tasks' = async_tasks /\ UNCHANGED link /\ lock' = lock
  BY <1>1 DEF JobStart, cnc
<1>3. /\ job' \in [Tasks -> JobRecs] /\ job'[i].state = "running" /\ job'[i].outcome = job[i].outcome
      /\ \A j \in Tasks : j # i => job'[j] = job[j]
  BY <1>2, Facts DEF JobRecs
<1>4. job[i].state = "queued"
  BY <1>0, <1>1 DEF JobInv
<1>5. /\ jobs' \in Seq(Tasks) /\ Increasing(jobs)' /\ IdsIn(jobs)' = IdsIn(jobs) \ {i}
      /\ \A j \in IdsIn(jobs) : j # i => i < j
  <2>1. Increasing(jobs)
    BY <1>0 DEF JobInv
  <2>2. /\ Tail(jobs) \in Seq(Tasks) /\ Increasing(Tail(jobs)) /\ IdsIn(Tail(jobs)) = IdsIn(jobs) \ {i}
        /\ \A j \in IdsIn(jobs) : j # i => i < j
    BY <1>1, <1>2, <2>1, Facts, Shortened
  <2> QED BY <1>2, <2>2
<1>6. started' \in Seq(Tasks) /\ Increasing(started)' /\ IdsIn(started)' = IdsIn(started) \cup {i}
  <2>1. Increasing(started) /\ \A j \in IdsIn(started) : j < i
    BY <1>0, <1>1 DEF JobInv
  <2>2. /\ Append(started, i) \in Seq(Tasks) /\ IdsIn(Append(started, i)) = IdsIn(started) \cup {i}
        /\ Increasing(Append(started, i))
    BY <2>1, Facts, Appended
  <2> QED BY <1>2, <2>2
<1>7. TypeOK'
  BY <1>2, <1>3, <1>5, <1>6, Facts, TypeKeeps, LinkKeeps
<1>8. JobInv'
  <2>1. Increasing(async_tasks)' /\ IdsIn(async_tasks)' = IdsIn(async_tasks)
    BY <1>0, <1>2 DEF JobInv, Increasing, IdsIn
  <2>2. \A j \in IdsIn(started)', k \in IdsIn(jobs)' : j < k
    BY <1>0, <1>5, <1>6 DEF JobInv
  <2>3. ASSUME NEW j \in Tasks
        PROVE  /\ j \in IdsIn(jobs)' <=> job'[j].state = "queued"
               /\ j = running' <=> job'[j].state = "running"
               /\ j \in IdsIn(async_tasks)' <=> job'[j].state \in Due
               /\ j \in IdsIn(started)' => job'[j].state \in {"running", "done", "taken"}
               /\ job'[j].state = "done" => job'[j].outcome # "none"
    <3>1. CASE j = i
      BY <1>0, <1>2, <1>3, <1>4, <1>5, <2>1, <3>1 DEF JobInv, Due
    <3>2. CASE j # i
      <4>1. job[j].state # "running"
        BY <1>0, <1>2, Facts DEF JobInv
      <4> QED BY <1>0, <1>2, <1>3, <1>5, <1>6, <2>1, <3>2, <4>1 DEF JobInv
    <3> QED BY <3>1, <3>2
  <2> QED BY <1>5, <1>6, <2>1, <2>2, <2>3 DEF JobInv
<1>9. \A j \in Tasks : Launched(j)' <=> Launched(j)
  BY <1>3, <1>4 DEF Launched
<1>10. WaitingInv'
  <2>1. \A j \in Tasks : job[j].state \in Due => job'[j].state \in Due
    BY <1>3 DEF Due
  <2> QED BY <1>2, <1>9, <2>1, Facts, WaitingKeeps DEF At
<1>11. TaskInv'
  BY <1>0, <1>2, <1>9 DEF TaskInv, IdsIn
<1>12. OwnOutcome'
  BY <1>0, <1>2, <1>3, <1>4 DEF OwnOutcome
<1>13. Disturbed' <=> Disturbed
  BY <1>2, <1>9 DEF Disturbed, Launched
<1>14. OneJob'
  BY <1>0, <1>2, <1>13 DEF OneJob, At
<1> QED BY <1>7, <1>8, <1>10, <1>11, <1>12, <1>14 DEF AsyncInv

\* The job that runs ends, with an outcome.
LEMMA JobEndKeeps ==
    ASSUME AsyncInv, JobEnd
    PROVE  AsyncInv'
<1>0. TypeOK /\ JobInv /\ WaitingInv /\ TaskInv /\ OneJob /\ OwnOutcome
  BY Facts
<1>1. PICK i \in Tasks : i = running
  BY Facts DEF JobEnd
<1>2. PICK result \in {"result", "error"} :
         job' = [job EXCEPT ![i].state = "done", ![i].outcome = result]
  BY <1>1 DEF JobEnd
<1>3. /\ running' = NoTask /\ jobs' = jobs /\ started' = started
      /\ submitted' = submitted /\ waiting' = waiting /\ completed' = completed /\ task' = task
      /\ async_tasks' = async_tasks /\ lock' = lock
  BY DEF JobEnd, cnc
<1>4. LinkOK'
  <2>1. UNCHANGED link \/ (sub' = FALSE /\ closed_signal' = TRUE /\ UNCHANGED <<open, has_closed>>)
    BY DEF JobEnd
  <2> QED BY <2>1, Facts, LinkKeeps DEF LinkOK
<1>5. /\ job' \in [Tasks -> JobRecs] /\ job'[i].state = "done" /\ job'[i].outcome # "none"
      /\ \A j \in Tasks : j # i => job'[j] = job[j]
  BY <1>2, Facts DEF JobRecs
<1>6. job[i].state = "running"
  BY <1>0, <1>1 DEF JobInv
<1>7. TypeOK'
  BY <1>3, <1>4, <1>5, Facts, TypeKeeps
<1>8. JobInv'
  <2>1. /\ Increasing(async_tasks)' /\ IdsIn(async_tasks)' = IdsIn(async_tasks)
        /\ Increasing(jobs)' /\ IdsIn(jobs)' = IdsIn(jobs)
        /\ Increasing(started)' /\ IdsIn(started)' = IdsIn(started)
    BY <1>0, <1>3 DEF JobInv, Increasing, IdsIn
  <2>2. \A j \in IdsIn(started)', k \in IdsIn(jobs)' : j < k
    BY <1>0, <2>1 DEF JobInv
  <2>3. ASSUME NEW j \in Tasks
        PROVE  /\ j \in IdsIn(jobs)' <=> job'[j].state = "queued"
               /\ j = running' <=> job'[j].state = "running"
               /\ j \in IdsIn(async_tasks)' <=> job'[j].state \in Due
               /\ j \in IdsIn(started)' => job'[j].state \in {"running", "done", "taken"}
               /\ job'[j].state = "done" => job'[j].outcome # "none"
    <3>0. j # running'
      BY <1>3, Facts
    <3>1. CASE j = i
      BY <1>0, <1>5, <1>6, <2>1, <3>0, <3>1 DEF JobInv, Due
    <3>2. CASE j # i
      <4>1. job[j].state # "running"
        BY <1>0, <1>1, <3>2 DEF JobInv
      <4> QED BY <1>0, <1>5, <2>1, <3>0, <3>2, <4>1 DEF JobInv
    <3> QED BY <3>1, <3>2
  <2> QED BY <2>1, <2>2, <2>3 DEF JobInv
<1>9. \A j \in Tasks : Launched(j)' <=> Launched(j)
  BY <1>5, <1>6 DEF Launched
<1>10. WaitingInv'
  <2>1. \A j \in Tasks : job[j].state \in Due => job'[j].state \in Due
    BY <1>5 DEF Due
  <2> QED BY <1>3, <1>9, <2>1, Facts, WaitingKeeps DEF At
<1>11. TaskInv'
  BY <1>0, <1>3, <1>9 DEF TaskInv, IdsIn
<1>12. OwnOutcome'
  BY <1>0, <1>3, <1>5, <1>6 DEF OwnOutcome
<1>13. Disturbed' <=> Disturbed
  BY <1>3, <1>9 DEF Disturbed, Launched
<1>14. OneJob'
  BY <1>0, <1>3, <1>13 DEF OneJob, At
<1> QED BY <1>7, <1>8, <1>10, <1>11, <1>12, <1>14 DEF AsyncInv

-----------------------------------------------------------------------------
(* Steps that change tasks and no job.                                     *)

\* The jobs are as they were.
LEMMA JobsKeep ==
    ASSUME AsyncInv, UNCHANGED <<prov, running, started>>
    PROVE  /\ JobInv' /\ async_tasks' = async_tasks /\ jobs' = jobs /\ job' = job
           /\ running' = running /\ started' = started
           /\ \A j : Launched(j)' <=> Launched(j)
<1>1. /\ async_tasks' = async_tasks /\ jobs' = jobs /\ job' = job
      /\ running' = running /\ started' = started
  BY DEF prov
<1> QED BY <1>1, Facts DEF JobInv, Increasing, IdsIn, Launched

\* A completed task is delivered: it waits no more and was not cancelled.
LEMMA FetchEndKeeps ==
    ASSUME AsyncInv, FetchEnd
    PROVE  AsyncInv'
<1>0. TypeOK /\ JobInv /\ WaitingInv /\ TaskInv /\ OneJob /\ OwnOutcome
  BY Facts
<1>1. /\ lock.at = "lookup" /\ lock' = Unlocked /\ submitted' = submitted /\ waiting' = waiting
      /\ UNCHANGED <<prov, running, started>> /\ UNCHANGED link
  BY DEF FetchEnd, At
<1>2. /\ JobInv' /\ async_tasks' = async_tasks /\ jobs' = jobs /\ job' = job
      /\ running' = running /\ started' = started /\ \A j : Launched(j)' <=> Launched(j)
  BY <1>1, JobsKeep
<1>3. lock' \in LockRecs /\ ~At("launch") /\ ~At("launch")' /\ lock'.at = "none"
  BY <1>1 DEF Unlocked, LockRecs, At
<1>4. CASE completed' = completed /\ task' = task
  <2>1. UNCHANGED <<cnc, prov, running, started>> /\ LinkOK'
    BY <1>1, <1>4, Facts, LinkKeeps DEF cnc
  <2> QED BY <1>3, <2>1, Steady
<1>5. CASE /\ lock.id \in IdsIn(completed) /\ completed' = Without(completed, lock.id)
           /\ task' = [task EXCEPT ![lock.id].state = "delivered"]
  <2>1. PICK i \in Tasks : i = lock.id /\ i \in IdsIn(completed)
    BY <1>5, Facts
  <2>2. /\ task' \in [Tasks -> TaskRecs] /\ \A j \in Tasks : j # i => task'[j] = task[j]
        /\ task'[i].state = "delivered" /\ task'[i].outcome = task[i].outcome
        /\ task'[i].stmt = task[i].stmt
    <3>1. task' = [task EXCEPT ![i].state = "delivered"]
      BY <1>5, <2>1
    <3> QED BY <3>1, Facts, ZenonT(40) DEF TaskRecs
  <2>3. task[i].outcome # "none" /\ task[i].state # "cancelled"
    BY <1>0, <2>1 DEF TaskInv
  <2>4. completed' \in Seq(Tasks) /\ IdsIn(completed)' \subseteq IdsIn(completed)
    BY <1>5, <2>1, Facts, Removed
  <2>5. TypeOK'
    BY <1>1, <1>2, <1>3, <2>2, <2>4, Facts, TypeKeeps, LinkKeeps
  <2>6. i \notin IdsIn(waiting) /\ IdsIn(waiting)' = IdsIn(waiting)
    BY <1>0, <1>1, <2>3 DEF WaitingInv, IdsIn
  <2>7. WaitingInv'
    <3>1. Increasing(waiting)'
      BY <1>0, <1>1 DEF WaitingInv, Increasing
    <3>2. \A j \in IdsIn(waiting) : task'[j] = task[j]
      BY <2>2, <2>6, Facts
    <3> QED BY <1>0, <1>1, <1>2, <1>3, <2>6, <3>1, <3>2 DEF WaitingInv
  <2>8. TaskInv'
    <3>1. ASSUME NEW j \in Tasks, j > submitted
          PROVE  task'[j].state = "live" /\ task'[j].outcome = "none" /\ ~Launched(j)'
      BY <1>0, <1>2, <2>2, <2>3, <3>1 DEF TaskInv
    <3>2. ASSUME NEW j \in IdsIn(completed)'
          PROVE  task'[j].outcome # "none" /\ task'[j].state # "cancelled"
      BY <1>0, <2>2, <2>3, <2>4, Facts DEF TaskInv
    <3> QED BY <1>1, <3>1, <3>2 DEF TaskInv
  <2>9. OwnOutcome'
    BY <1>0, <1>2, <2>2 DEF OwnOutcome
  <2>10. Disturbed => Disturbed'
    <3>1. ASSUME NEW j \in Tasks
          PROVE  /\ task[j].state = "cancelled" /\ task[j].refused =>
                      task'[j].state = "cancelled" /\ task'[j].refused
                 /\ ~task[j].stmt /\ job[j].state = "none" => ~task'[j].stmt /\ job'[j].state = "none"
      BY <1>2, <2>2, <2>3
    <3> QED BY <3>1, DisturbedStays
  <2>11. OneJob'
    BY <1>0, <1>1, <1>2, <1>3, <2>10 DEF OneJob
  <2> QED BY <1>2, <2>5, <2>7, <2>8, <2>9, <2>11 DEF AsyncInv
<1> QED BY <1>4, <1>5 DEF FetchEnd

\* The statement of a waiting task is modified.
LEMMA StatementResetKeeps ==
    ASSUME AsyncInv, NEW i \in Tasks, StatementReset(i)
    PROVE  AsyncInv'
<1>0. TypeOK /\ JobInv /\ WaitingInv /\ TaskInv /\ OneJob /\ OwnOutcome
  BY Facts
<1>1. /\ task' = [task EXCEPT ![i].stmt = FALSE]
      /\ submitted' = submitted /\ waiting' = waiting /\ completed' = completed /\ lock' = lock
      /\ UNCHANGED <<prov, running, started>> /\ UNCHANGED link
  BY DEF StatementReset
<1>2. /\ JobInv' /\ async_tasks' = async_tasks /\ jobs' = jobs /\ job' = job
      /\ running' = running /\ started' = started /\ \A j : Launched(j)' <=> Launched(j)
  BY <1>1, JobsKeep
<1>3. /\ task' \in [Tasks -> TaskRecs]
      /\ \A j \in Tasks : /\ task'[j].state = task[j].state /\ task'[j].outcome = task[j].outcome
                          /\ task'[j].being_processed = task[j].being_processed
                          /\ task'[j].refused = task[j].refused
                          /\ task'[j].stmt => task[j].stmt
  <2>1. /\ task' \in [Tasks -> TaskRecs] /\ \A j \in Tasks : j # i => task'[j] = task[j]
        /\ task'[i].state = task[i].state /\ task'[i].outcome = task[i].outcome
        /\ task'[i].being_processed = task[i].being_processed
        /\ task'[i].refused = task[i].refused /\ task'[i].stmt = FALSE
    BY <1>1, Facts, ZenonT(40) DEF TaskRecs
  <2> QED BY <2>1
<1>4. TypeOK'
  BY <1>1, <1>2, <1>3, Facts, TypeKeeps, LinkKeeps
<1>5. /\ IdsIn(waiting)' = IdsIn(waiting) /\ IdsIn(completed)' = IdsIn(completed)
      /\ Increasing(waiting)' /\ (At("launch")' <=> At("launch"))
  BY <1>0, <1>1 DEF WaitingInv, Increasing, IdsIn, At
<1>6. WaitingInv'
  BY <1>0, <1>1, <1>2, <1>3, <1>5, Facts DEF WaitingInv
<1>7. TaskInv' /\ OwnOutcome'
  BY <1>0, <1>1, <1>2, <1>3, <1>5, Facts DEF TaskInv, OwnOutcome
<1>8. Disturbed => Disturbed'
  BY <1>2, <1>3, DisturbedStays
<1>9. OneJob'
  BY <1>0, <1>1, <1>2, <1>5, <1>8 DEF OneJob
<1> QED BY <1>2, <1>4, <1>6, <1>7, <1>9 DEF AsyncInv

\* A task is taken out of the waiting ones: refused, or cancelled.
LEMMA CancelKeeps ==
    ASSUME AsyncInv, NEW t \in Users, NEW i \in Tasks, Cancel(t, i)
    PROVE  AsyncInv'
<1>0. TypeOK /\ JobInv /\ WaitingInv /\ TaskInv /\ OneJob /\ OwnOutcome
  BY Facts
<1>1. /\ lock = Unlocked /\ lock' = lock /\ i \in IdsIn(waiting)
      /\ submitted' = submitted /\ completed' = completed
      /\ UNCHANGED <<prov, running, started>> /\ UNCHANGED link
  BY DEF Cancel, Enter
<1>2. /\ JobInv' /\ async_tasks' = async_tasks /\ jobs' = jobs /\ job' = job
      /\ running' = running /\ started' = started /\ \A j : Launched(j)' <=> Launched(j)
  BY <1>1, JobsKeep
<1>3. ~At("launch") /\ ~At("launch")' /\ IdsIn(completed)' = IdsIn(completed)
  BY <1>1, Outside DEF At, IdsIn
<1>4. i <= submitted /\ task[i].state = "live" /\ task[i].outcome = "none" /\ i \notin IdsIn(completed)
  BY <1>0, <1>1 DEF WaitingInv, TaskInv
<1>5. CASE /\ task' = [task EXCEPT ![i].being_processed = FALSE, ![i].refused = TRUE]
           /\ waiting' = waiting
  <2>1. /\ task' \in [Tasks -> TaskRecs]
        /\ \A j \in Tasks : /\ task'[j].state = task[j].state /\ task'[j].outcome = task[j].outcome
                            /\ task'[j].stmt = task[j].stmt
                            /\ task[j].refused => task'[j].refused
                            /\ task[j].being_processed \/ task[j].refused =>
                                 task'[j].being_processed \/ task'[j].refused
    <3>1. /\ task' \in [Tasks -> TaskRecs] /\ \A j \in Tasks : j # i => task'[j] = task[j]
          /\ task'[i].state = task[i].state /\ task'[i].outcome = task[i].outcome
          /\ task'[i].stmt = task[i].stmt /\ task'[i].refused = TRUE
      BY <1>5, Facts, ZenonT(40) DEF TaskRecs
    <3> QED BY <3>1
  <2>2. TypeOK'
    BY <1>1, <1>2, <1>5, <2>1, Facts, TypeKeeps, LinkKeeps
  <2>3. IdsIn(waiting)' = IdsIn(waiting) /\ Increasing(waiting)'
    BY <1>0, <1>5 DEF WaitingInv, Increasing, IdsIn
  <2>4. WaitingInv'
    BY <1>0, <1>1, <1>2, <1>3, <1>5, <2>1, <2>3, Facts DEF WaitingInv
  <2>5. TaskInv' /\ OwnOutcome'
    BY <1>0, <1>1, <1>2, <1>3, <2>1, Facts, ZenonT(40) DEF TaskInv, OwnOutcome
  <2>6. Disturbed => Disturbed'
    BY <1>2, <2>1, DisturbedStays
  <2>7. OneJob'
    BY <1>0, <1>2, <1>3, <1>5, <2>6 DEF OneJob
  <2> QED BY <1>2, <2>2, <2>4, <2>5, <2>7 DEF AsyncInv
<1>6. CASE /\ ~task[i].being_processed /\ waiting' = Without(waiting, i)
           /\ task' = [task EXCEPT ![i].state = "cancelled"]
  <2>1. /\ task' \in [Tasks -> TaskRecs] /\ \A j \in Tasks : j # i => task'[j] = task[j]
        /\ task'[i].state = "cancelled" /\ task'[i].outcome = task[i].outcome
        /\ task'[i].stmt = task[i].stmt /\ task'[i].refused = task[i].refused
    BY <1>6, Facts, ZenonT(40) DEF TaskRecs
  <2>2. /\ waiting' \in Seq(Tasks) /\ Increasing(waiting)' /\ IdsIn(waiting)' = IdsIn(waiting) \ {i}
        /\ i # Head(waiting) => waiting' # << >> /\ Head(waiting)' = Head(waiting)
    <3>1. Increasing(waiting)
      BY <1>0 DEF WaitingInv
    <3> QED BY <1>1, <1>6, <3>1, Facts, Removed
  <2>3. TypeOK'
    BY <1>1, <1>2, <2>1, <2>2, Facts, TypeKeeps, LinkKeeps
  <2>4. WaitingInv'
    <3>1. ASSUME NEW j \in IdsIn(waiting)'
          PROVE  /\ j <= submitted' /\ task'[j].state = "live" /\ task'[j].outcome = "none"
                 /\ Launched(j)' => /\ j = Head(waiting)' /\ job'[j].state \in Due
                                    /\ task'[j].being_processed \/ task'[j].refused
                 /\ ~Launched(j)' => \A k \in Tasks : Launched(k)' => k < j
                 /\ At("launch")' => ~Launched(j)'
      <4>1. j \in IdsIn(waiting) /\ j # i /\ j \in Tasks /\ task'[j] = task[j]
        BY <2>1, <2>2, Facts
      <4> QED BY <1>0, <1>1, <1>2, <1>3, <2>2, <4>1 DEF WaitingInv
    <3> QED BY <2>2, <3>1 DEF WaitingInv
  <2>5. TaskInv'
    <3>1. ASSUME NEW j \in Tasks, j > submitted
          PROVE  task'[j].state = "live" /\ task'[j].outcome = "none" /\ ~Launched(j)'
      <4>1. j # i
        BY <1>4, <3>1, Facts
      <4> QED BY <1>0, <1>2, <2>1, <3>1, <4>1 DEF TaskInv
    <3>2. ASSUME NEW j \in IdsIn(completed)
          PROVE  task'[j].outcome # "none" /\ task'[j].state # "cancelled"
      BY <1>0, <1>4, <2>1, Facts DEF TaskInv
    <3> QED BY <1>1, <1>3, <3>1, <3>2 DEF TaskInv
  <2>6. OwnOutcome'
    BY <1>0, <1>2, <2>1 DEF OwnOutcome
  <2>7. Disturbed => Disturbed'
    <3>1. ASSUME NEW j \in Tasks
          PROVE  /\ task[j].state = "cancelled" /\ task[j].refused =>
                      task'[j].state = "cancelled" /\ task'[j].refused
                 /\ ~task[j].stmt /\ job[j].state = "none" => ~task'[j].stmt /\ job'[j].state = "none"
      BY <1>2, <1>4, <2>1
    <3> QED BY <3>1, DisturbedStays
  <2>8. OneJob'
    <3> SUFFICES ASSUME ~Disturbed'
                 PROVE  async_tasks' = IF At("launch")' \/ waiting' = << >> THEN << >>
                                       ELSE <<Head(waiting')>>
      BY DEF OneJob
    <3>1. waiting # << >> /\ async_tasks = <<Head(waiting)>>
      BY <1>0, <1>1, <1>3, <2>7, Facts, Ids DEF OneJob
    <3>2. i # Head(waiting)
      <4> SUFFICES ASSUME i = Head(waiting) PROVE FALSE
        OBVIOUS
      <4>1. i \in IdsIn(async_tasks)
        BY <3>1, Single
      <4>2. Launched(i)
        BY <1>0, <4>1 DEF JobInv, Launched, Due
      <4>3. task'[i].state = "cancelled" /\ task'[i].refused
        BY <1>0, <1>1, <1>6, <2>1, <4>2 DEF WaitingInv
      <4> QED BY <4>3 DEF Disturbed
    <3> QED BY <1>2, <1>3, <2>2, <3>1, <3>2
  <2> QED BY <1>2, <2>3, <2>4, <2>5, <2>6, <2>8 DEF AsyncInv
<1> QED BY <1>5, <1>6 DEF Cancel

-----------------------------------------------------------------------------
(* Launching.                                                              *)

\* The job of a task younger than those launched so far is the last of each list.
LEMMA JobLaunched ==
    ASSUME AsyncInv, NEW t \in Users \cup {NoUser}, NEW i \in Tasks, LaunchAccepted(t, i), ~Launched(i),
           \A j \in Tasks : Launched(j) => j < i, UNCHANGED <<running, started>>
    PROVE  /\ JobInv' /\ job' \in [Tasks -> JobRecs] /\ jobs' \in Seq(Tasks)
           /\ async_tasks' \in Seq(Tasks) /\ async_tasks' = Append(async_tasks, i)
           /\ job'[i].state = "queued" /\ \A j \in Tasks : j # i => job'[j] = job[j]
<1>0. JobInv /\ job[i].state = "none"
  BY Facts DEF Launched
<1>1. /\ job' = [job EXCEPT ![i].by = t, ![i].state = "queued"]
      /\ jobs' = Append(jobs, i) /\ async_tasks' = Append(async_tasks, i)
      /\ running' = running /\ started' = started
  BY DEF LaunchAccepted
<1>2. /\ job' \in [Tasks -> JobRecs] /\ job'[i].state = "queued"
      /\ \A j \in Tasks : j # i => job'[j] = job[j]
  BY <1>1, Facts DEF JobRecs
<1>3. \A j \in IdsIn(jobs) \cup IdsIn(async_tasks) \cup IdsIn(started) : j \in Tasks /\ j < i /\ j # i
  <2>1. \A j \in IdsIn(jobs) \cup IdsIn(async_tasks) \cup IdsIn(started) : j \in Tasks /\ Launched(j)
    BY <1>0, Facts DEF JobInv, Launched, Due
  <2> QED BY <2>1
<1>4. /\ jobs' \in Seq(Tasks) /\ Increasing(jobs)' /\ IdsIn(jobs)' = IdsIn(jobs) \cup {i}
  <2>1. Increasing(jobs)
    BY <1>0 DEF JobInv
  <2>2. /\ Append(jobs, i) \in Seq(Tasks) /\ IdsIn(Append(jobs, i)) = IdsIn(jobs) \cup {i}
        /\ Increasing(Append(jobs, i))
    BY <1>3, <2>1, Facts, Appended
  <2> QED BY <1>1, <2>2
<1>5. /\ async_tasks' \in Seq(Tasks) /\ Increasing(async_tasks)'
      /\ IdsIn(async_tasks)' = IdsIn(async_tasks) \cup {i}
  <2>1. Increasing(async_tasks)
    BY <1>0 DEF JobInv
  <2>2. /\ Append(async_tasks, i) \in Seq(Tasks)
        /\ IdsIn(Append(async_tasks, i)) = IdsIn(async_tasks) \cup {i}
        /\ Increasing(Append(async_tasks, i))
    BY <1>3, <2>1, Facts, Appended
  <2> QED BY <1>1, <2>2
<1>6. Increasing(started)' /\ IdsIn(started)' = IdsIn(started)
  BY <1>0, <1>1 DEF JobInv, Increasing, IdsIn
<1>7. \A j \in IdsIn(started)', k \in IdsIn(jobs)' : j < k
  BY <1>0, <1>3, <1>4, <1>6 DEF JobInv
<1>8. ASSUME NEW j \in Tasks
      PROVE  /\ j \in IdsIn(jobs)' <=> job'[j].state = "queued"
             /\ j = running' <=> job'[j].state = "running"
             /\ j \in IdsIn(async_tasks)' <=> job'[j].state \in Due
             /\ j \in IdsIn(started)' => job'[j].state \in {"running", "done", "taken"}
             /\ job'[j].state = "done" => job'[j].outcome # "none"
  <2>1. CASE j = i
    <3>1. j # running /\ j \notin IdsIn(started)
      BY <1>0, <2>1 DEF JobInv
    <3> QED BY <1>1, <1>2, <1>4, <1>5, <1>6, <2>1, <3>1 DEF Due
  <2>2. CASE j # i
    BY <1>0, <1>1, <1>2, <1>4, <1>5, <1>6, <2>2 DEF JobInv
  <2> QED BY <2>1, <2>2
<1>9. JobInv'
  BY <1>4, <1>5, <1>6, <1>7, <1>8 DEF JobInv
<1> QED BY <1>1, <1>2, <1>4, <1>5, <1>9

\* A new task waits behind the others, is launched at once or fails at once.
LEMMA SubmitKeeps ==
    ASSUME AsyncInv, NEW t \in Users, Submit(t)
    PROVE  AsyncInv'
<1>0. TypeOK /\ JobInv /\ WaitingInv /\ TaskInv /\ OneJob /\ OwnOutcome
  BY Facts
<1>9. PICK i \in Tasks : i = submitted + 1
  <2>1. submitted \in 0 .. MaxTasks /\ submitted < MaxTasks /\ MaxTasks \in Nat
    BY Facts DEF Submit
  <2>2. submitted + 1 \in Tasks
    BY <2>1 DEF Tasks
  <2> QED BY <2>2
<1>1. /\ lock = Unlocked /\ lock' = lock /\ submitted' = i
      /\ running' = running /\ started' = started
  BY <1>9 DEF Submit, Enter, NextId
<1>2. /\ i \in Tasks /\ i \in 0 .. MaxTasks /\ i > submitted
      /\ \A j \in Tasks : /\ j > i => j > submitted
                          /\ ~(j > submitted) => j < i /\ j <= i /\ j # i
                          /\ j <= submitted => j < i /\ j <= i /\ j # i
  <2>1. submitted \in 0 .. MaxTasks /\ submitted < MaxTasks /\ MaxTasks \in Nat
    BY Facts DEF Submit
  <2> QED BY <1>9, <2>1 DEF Tasks
<1>3. ~At("launch") /\ ~At("launch")'
  BY <1>1, Outside DEF At
<1>4. task[i].state = "live" /\ task[i].outcome = "none" /\ ~Launched(i) /\ job[i].state = "none"
  BY <1>0, <1>2 DEF TaskInv, Launched
<1>5. /\ \A j \in Tasks : Launched(j) => j < i
      /\ \A j \in IdsIn(waiting) : j < i /\ j <= i /\ j # i
      /\ \A j \in IdsIn(completed) : j # i
  <2>1. \A j \in Tasks : Launched(j) => j < i
    BY <1>0, <1>2 DEF TaskInv
  <2>2. \A j \in IdsIn(waiting) : j < i /\ j <= i /\ j # i
    BY <1>0, <1>2, Facts DEF WaitingInv
  <2>3. \A j \in IdsIn(completed) : j # i
    BY <1>0, <1>4 DEF TaskInv
  <2> QED BY <2>1, <2>2, <2>3
<1>6. CASE /\ waiting # << >> /\ waiting' = Append(waiting, i) /\ task' = [task EXCEPT ![i].by = t]
           /\ UNCHANGED <<completed, prov, link>>
  <2>1. /\ task' \in [Tasks -> TaskRecs] /\ \A j \in Tasks : j # i => task'[j] = task[j]
        /\ task'[i].state = task[i].state /\ task'[i].outcome = task[i].outcome
        /\ task'[i].stmt = task[i].stmt /\ task'[i].refused = task[i].refused
    BY <1>2, <1>6, Facts, ZenonT(40) DEF TaskRecs
  <2>2. /\ JobInv' /\ async_tasks' = async_tasks /\ jobs' = jobs /\ job' = job
        /\ \A j : Launched(j)' <=> Launched(j)
    BY <1>1, <1>6, JobsKeep
  <2>3. /\ waiting' \in Seq(Tasks) /\ IdsIn(waiting)' = IdsIn(waiting) \cup {i} /\ waiting' # << >>
        /\ Head(waiting') = Head(waiting) /\ Increasing(waiting)'
        /\ completed' = completed /\ IdsIn(completed)' = IdsIn(completed)
    <3>1. Increasing(waiting)
      BY <1>0 DEF WaitingInv
    <3>2. waiting \in Seq(Tasks)
      BY Facts
    <3>3. /\ Append(waiting, i) \in Seq(Tasks) /\ IdsIn(Append(waiting, i)) = IdsIn(waiting) \cup {i}
          /\ Append(waiting, i) # << >> /\ Head(Append(waiting, i)) = Head(waiting)
          /\ Increasing(Append(waiting, i))
      BY <1>5, <1>6, <3>1, <3>2, Appended
    <3>4. completed' = completed /\ IdsIn(completed)' = IdsIn(completed)
      BY <1>6 DEF IdsIn
    <3> QED BY <1>6, <3>3, <3>4
  <2>4. TypeOK'
    BY <1>1, <1>2, <1>6, <2>1, <2>2, <2>3, Facts, TypeKeeps, LinkKeeps
  <2>5. WaitingInv'
    <3>1. ASSUME NEW j \in IdsIn(waiting)'
          PROVE  /\ j <= submitted' /\ task'[j].state = "live" /\ task'[j].outcome = "none"
                 /\ Launched(j)' => /\ j = Head(waiting)' /\ job'[j].state \in Due
                                    /\ task'[j].being_processed \/ task'[j].refused
                 /\ ~Launched(j)' => \A k \in Tasks : Launched(k)' => k < j
                 /\ At("launch")' => ~Launched(j)'
      <4>1. CASE j = i
        <5>1. i <= i
          BY <1>2
        <5> QED BY <1>1, <1>3, <1>4, <1>5, <2>1, <2>2, <4>1, <5>1
      <4>2. CASE j # i
        <5>1. j \in IdsIn(waiting) /\ j \in Tasks /\ task'[j] = task[j]
          BY <2>1, <2>3, <4>2, Facts
        <5> QED BY <1>0, <1>1, <1>3, <1>5, <2>2, <2>3, <5>1 DEF WaitingInv
      <4> QED BY <4>1, <4>2
    <3> QED BY <2>3, <3>1 DEF WaitingInv
  <2>6. TaskInv'
    <3>1. ASSUME NEW j \in Tasks, j > i
          PROVE  task'[j].state = "live" /\ task'[j].outcome = "none" /\ ~Launched(j)'
      BY <1>0, <1>2, <1>4, <2>1, <2>2, <3>1 DEF TaskInv
    <3>2. ASSUME NEW j \in IdsIn(completed)
          PROVE  task'[j].outcome # "none" /\ task'[j].state # "cancelled"
      BY <1>0, <1>5, <2>1, Facts DEF TaskInv
    <3> QED BY <1>1, <2>3, <3>1, <3>2 DEF TaskInv
  <2>7. OwnOutcome'
    BY <1>0, <2>1, <2>2 DEF OwnOutcome
  <2>8. Disturbed => Disturbed'
    <3>1. ASSUME NEW j \in Tasks
          PROVE  /\ task[j].state = "cancelled" /\ task[j].refused =>
                      task'[j].state = "cancelled" /\ task'[j].refused
                 /\ ~task[j].stmt /\ job[j].state = "none" => ~task'[j].stmt /\ job'[j].state = "none"
      BY <2>1, <2>2
    <3> QED BY <3>1, DisturbedStays
  <2>9. OneJob'
    BY <1>0, <1>3, <1>6, <2>2, <2>3, <2>8 DEF OneJob
  <2> QED BY <2>2, <2>4, <2>5, <2>6, <2>7, <2>9 DEF AsyncInv
<1>7. CASE /\ waiting = << >> /\ LaunchAccepted(t, i) /\ waiting' = <<i>>
           /\ task' = [task EXCEPT ![i] = Processed([@ EXCEPT !.by = t])]
           /\ UNCHANGED completed
  <2>1. /\ task' \in [Tasks -> TaskRecs] /\ \A j \in Tasks : j # i => task'[j] = task[j]
        /\ task'[i].state = task[i].state /\ task'[i].outcome = task[i].outcome
        /\ task'[i].being_processed = TRUE
    BY <1>2, <1>7, Facts, ZenonT(40) DEF TaskRecs, Processed
  <2>2. /\ JobInv' /\ job' \in [Tasks -> JobRecs] /\ jobs' \in Seq(Tasks)
        /\ async_tasks' \in Seq(Tasks) /\ async_tasks' = Append(async_tasks, i)
        /\ job'[i].state = "queued" /\ \A j \in Tasks : j # i => job'[j] = job[j]
    BY <1>1, <1>2, <1>4, <1>5, <1>7, JobLaunched
  <2>3. /\ waiting' \in Seq(Tasks) /\ IdsIn(waiting)' = {i} /\ Head(waiting') = i
        /\ Increasing(waiting)' /\ completed' = completed /\ IdsIn(completed)' = IdsIn(completed)
    <3>1. waiting' = Append(waiting, i) /\ Increasing(waiting) /\ IdsIn(waiting) = {}
      BY <1>0, <1>7, Single DEF WaitingInv
    <3>2. Append(waiting, i) \in Seq(Tasks) /\ Increasing(Append(waiting, i))
      BY <1>2, <3>1, Facts, Appended
    <3>3. IdsIn(waiting)' = {i} /\ Head(waiting') = i
      BY <1>7, Single
    <3> QED BY <1>7, <3>1, <3>2, <3>3 DEF IdsIn
  <2>4. TypeOK'
    <3>1. LinkOK'
      BY <1>7, Facts, LinkKeeps DEF LaunchAccepted
    <3> QED BY <1>1, <1>2, <2>1, <2>2, <2>3, <3>1, Facts, TypeKeeps
  <2>5. WaitingInv'
    <3>1. i <= i
      BY <1>2
    <3>2. Launched(i)' /\ job'[i].state \in Due
      BY <2>2 DEF Launched, Due
    <3> QED BY <1>1, <1>3, <1>4, <2>1, <2>3, <3>1, <3>2 DEF WaitingInv
  <2>6. TaskInv'
    <3>1. ASSUME NEW j \in Tasks, j > i
          PROVE  task'[j].state = "live" /\ task'[j].outcome = "none" /\ ~Launched(j)'
      <4>1. j # i /\ j > submitted
        BY <1>2, <3>1, Facts
      <4> QED BY <1>0, <2>1, <2>2, <4>1 DEF TaskInv, Launched
    <3>2. ASSUME NEW j \in IdsIn(completed)
          PROVE  task'[j].outcome # "none" /\ task'[j].state # "cancelled"
      BY <1>0, <1>5, <2>1, Facts DEF TaskInv
    <3> QED BY <1>1, <2>3, <3>1, <3>2 DEF TaskInv
  <2>7. OwnOutcome'
    BY <1>0, <1>4, <2>1, <2>2 DEF OwnOutcome
  <2>8. Disturbed => Disturbed'
    <3>1. ASSUME NEW j \in Tasks
          PROVE  /\ task[j].state = "cancelled" /\ task[j].refused =>
                      task'[j].state = "cancelled" /\ task'[j].refused
                 /\ ~task[j].stmt /\ job[j].state = "none" => ~task'[j].stmt /\ job'[j].state = "none"
      <4>1. task[i].stmt
        BY <1>7 DEF LaunchAccepted
      <4> QED BY <1>4, <2>1, <2>2, <4>1
    <3> QED BY <3>1, DisturbedStays
  <2>9. OneJob'
    <3>1. ~Disturbed => async_tasks = << >>
      BY <1>0, <1>7 DEF OneJob
    <3>2. ~Disturbed => async_tasks' = <<i>>
      BY <2>2, <3>1, Single
    <3>3. waiting' # << >>
      BY <1>7, Single
    <3> QED BY <1>3, <2>3, <2>8, <3>2, <3>3 DEF OneJob
  <2> QED BY <2>2, <2>4, <2>5, <2>6, <2>7, <2>9 DEF AsyncInv
<1>8. CASE /\ waiting = << >> /\ LaunchFails(t, i) /\ completed' = Append(completed, i)
           /\ task' = [task EXCEPT ![i].by = t, ![i].outcome = "error"]
           /\ UNCHANGED <<waiting, prov>>
  <2>1. /\ task' \in [Tasks -> TaskRecs] /\ \A j \in Tasks : j # i => task'[j] = task[j]
        /\ task'[i].state = task[i].state /\ task'[i].outcome = "error"
        /\ task'[i].stmt = task[i].stmt /\ task'[i].refused = task[i].refused
    BY <1>2, <1>8, Facts, ZenonT(40) DEF TaskRecs
  <2>2. /\ JobInv' /\ async_tasks' = async_tasks /\ jobs' = jobs /\ job' = job
        /\ \A j : Launched(j)' <=> Launched(j)
    BY <1>1, <1>8, JobsKeep
  <2>3. /\ completed' \in Seq(Tasks) /\ IdsIn(completed)' = IdsIn(completed) \cup {i}
        /\ waiting' = waiting /\ IdsIn(waiting)' = {} /\ Increasing(waiting)'
    BY <1>0, <1>2, <1>8, Facts, Appended, Single DEF WaitingInv, Increasing
  <2>4. TypeOK'
    <3>1. LinkOK'
      BY <1>8, Facts, LinkKeeps DEF LaunchFails
    <3> QED BY <1>1, <1>2, <2>1, <2>2, <2>3, <3>1, Facts, TypeKeeps
  <2>5. WaitingInv'
    BY <2>3 DEF WaitingInv
  <2>6. TaskInv'
    <3>1. ASSUME NEW j \in Tasks, j > i
          PROVE  task'[j].state = "live" /\ task'[j].outcome = "none" /\ ~Launched(j)'
      <4>1. j # i /\ j > submitted
        BY <1>2, <3>1, Facts
      <4> QED BY <1>0, <2>1, <2>2, <4>1 DEF TaskInv
    <3>2. ASSUME NEW j \in IdsIn(completed) \cup {i}
          PROVE  task'[j].outcome # "none" /\ task'[j].state # "cancelled"
      BY <1>0, <1>4, <1>5, <2>1, Facts DEF TaskInv
    <3> QED BY <1>1, <2>3, <3>1, <3>2 DEF TaskInv
  <2>7. OwnOutcome'
    BY <1>0, <1>4, <2>1, <2>2 DEF OwnOutcome
  <2>8. Disturbed => Disturbed'
    <3>1. ASSUME NEW j \in Tasks
          PROVE  /\ task[j].state = "cancelled" /\ task[j].refused =>
                      task'[j].state = "cancelled" /\ task'[j].refused
                 /\ ~task[j].stmt /\ job[j].state = "none" => ~task'[j].stmt /\ job'[j].state = "none"
      BY <2>1, <2>2
    <3> QED BY <3>1, DisturbedStays
  <2>9. OneJob'
    BY <1>0, <1>3, <1>8, <2>2, <2>3, <2>8 DEF OneJob
  <2> QED BY <2>2, <2>4, <2>5, <2>6, <2>7, <2>9 DEF AsyncInv
<1> QED BY <1>6, <1>7, <1>8, <1>9 DEF Submit, NextId

\* The callback of the oldest job: its task, if it still waits, is the first one.
LEMMA HandleReadyKeeps ==
    ASSUME AsyncInv, HandleReady
    PROVE  AsyncInv'
<1>0. TypeOK /\ JobInv /\ WaitingInv /\ TaskInv /\ OneJob /\ OwnOutcome
  BY Facts
<1>1. PICK i \in Tasks : i = Head(async_tasks) /\ i \in IdsIn(async_tasks)
  BY Facts, Ids DEF HandleReady
<1>2. /\ lock.at = "handle" /\ async_tasks # << >> /\ job[i].state = "done" /\ Notice
      /\ job' = [job EXCEPT ![i].state = "taken"] /\ async_tasks' = Tail(async_tasks)
      /\ submitted' = submitted /\ jobs' = jobs /\ running' = running /\ started' = started
  BY <1>1 DEF HandleReady, Ready, At
<1>3. /\ job' \in [Tasks -> JobRecs] /\ job'[i].state = "taken" /\ job'[i].outcome = job[i].outcome
      /\ \A j \in Tasks : j # i => job'[j] = job[j]
  BY <1>2, Facts DEF JobRecs
<1>4. job[i].outcome # "none" /\ task[i].outcome = "none" /\ Launched(i)
  BY <1>0, <1>2 DEF JobInv, OwnOutcome, Launched
<1>5. /\ async_tasks' \in Seq(Tasks) /\ Increasing(async_tasks)'
      /\ IdsIn(async_tasks)' = IdsIn(async_tasks) \ {i}
  <2>1. Increasing(async_tasks)
    BY <1>0 DEF JobInv
  <2>2. /\ Tail(async_tasks) \in Seq(Tasks) /\ Increasing(Tail(async_tasks))
        /\ IdsIn(Tail(async_tasks)) = IdsIn(async_tasks) \ {i}
    BY <1>1, <1>2, <2>1, Facts, Shortened
  <2> QED BY <1>2, <2>2
<1>6. JobInv'
  <2>1. /\ Increasing(jobs)' /\ IdsIn(jobs)' = IdsIn(jobs)
        /\ Increasing(started)' /\ IdsIn(started)' = IdsIn(started)
    BY <1>0, <1>2 DEF JobInv, Increasing, IdsIn
  <2>2. \A j \in IdsIn(started)', k \in IdsIn(jobs)' : j < k
    BY <1>0, <2>1 DEF JobInv
  <2>3. ASSUME NEW j \in Tasks
        PROVE  /\ j \in IdsIn(jobs)' <=> job'[j].state = "queued"
               /\ j = running' <=> job'[j].state = "running"
               /\ j \in IdsIn(async_tasks)' <=> job'[j].state \in Due
               /\ j \in IdsIn(started)' => job'[j].state \in {"running", "done", "taken"}
               /\ job'[j].state = "done" => job'[j].outcome # "none"
    <3>1. CASE j = i
      <4>1. j \notin IdsIn(jobs) /\ j # running
        BY <1>0, <1>2, <3>1 DEF JobInv
      <4> QED BY <1>2, <1>3, <1>5, <2>1, <3>1, <4>1 DEF Due
    <3>2. CASE j # i
      BY <1>0, <1>2, <1>3, <1>5, <2>1, <3>2 DEF JobInv
    <3> QED BY <3>1, <3>2
  <2> QED BY <1>5, <2>1, <2>2, <2>3 DEF JobInv
<1>7. \A j \in Tasks : Launched(j)' <=> Launched(j)
  BY <1>2, <1>3 DEF Launched
<1>8. ~At("launch") /\ LinkOK'
  BY <1>2, Facts, LinkKeeps DEF At
<1>9. CASE i \notin IdsIn(waiting) /\ UNCHANGED <<waiting, completed, task>> /\ Then("lookup")
  <2>1. waiting' = waiting /\ completed' = completed /\ task' = task
        /\ IdsIn(completed)' = IdsIn(completed)
    BY <1>9 DEF IdsIn
  <2>2. lock' \in LockRecs /\ ~At("launch")'
    BY <1>9, Facts, LockKeeps DEF At
  <2>3. TypeOK'
    BY <1>2, <1>3, <1>5, <1>8, <2>1, <2>2, Facts, TypeKeeps
  <2>4. \A j \in IdsIn(waiting) : job'[j] = job[j]
    BY <1>3, <1>9, Facts
  <2>5. WaitingInv'
    BY <1>2, <1>7, <2>1, <2>2, <2>4, WaitingKeeps
  <2>6. TaskInv'
    BY <1>0, <1>2, <1>7, <2>1 DEF TaskInv
  <2>7. OwnOutcome'
    BY <1>0, <1>3, <1>4, <2>1 DEF OwnOutcome
  <2>8. Disturbed
    <3> SUFFICES ASSUME ~Disturbed PROVE FALSE
      OBVIOUS
    <3>1. waiting # << >> /\ async_tasks = <<Head(waiting)>>
      BY <1>0, <1>2, <1>8 DEF OneJob
    <3>2. i = Head(waiting)
      BY <1>1, <3>1, Single
    <3> QED BY <1>9, <3>1, <3>2, Facts, Ids
  <2>9. Disturbed'
    BY <1>7, <2>1, <2>8 DEF Disturbed, Launched
  <2> QED BY <1>6, <2>3, <2>5, <2>6, <2>7, <2>9 DEF AsyncInv, OneJob
<1>10. CASE /\ i \in IdsIn(waiting) /\ waiting' = Without(waiting, i)
            /\ completed' = Append(completed, i)
            /\ task' = [task EXCEPT ![i].being_processed = FALSE, ![i].stmt = FALSE,
                                    ![i].outcome = Outcome(i)]
            /\ AfterCompletion
  <2>1. lock' \in LockRecs /\ At("launch")'
    BY <1>10, Facts, LockKeeps DEF At, AfterCompletion
  <2>2. PICK o \in {"none", "result", "error"} : o = job[i].outcome
    BY Facts DEF JobRecs
  <2>3. /\ task' \in [Tasks -> TaskRecs] /\ \A j \in Tasks : j # i => task'[j] = task[j]
        /\ task'[i].outcome = job[i].outcome /\ task'[i].state = task[i].state
        /\ task'[i].refused = task[i].refused
    <3>1. task' = [task EXCEPT ![i].being_processed = FALSE, ![i].stmt = FALSE, ![i].outcome = o]
      BY <1>10, <2>2 DEF Outcome
    <3>2. /\ task' \in [Tasks -> TaskRecs] /\ \A j \in Tasks : j # i => task'[j] = task[j]
          /\ task'[i].outcome = o /\ task'[i].state = task[i].state
          /\ task'[i].refused = task[i].refused
      <4>1. task \in [Tasks -> TaskRecs] /\ task[i] \in TaskRecs
        BY Facts
      <4> DEFINE r == [task[i] EXCEPT !.being_processed = FALSE, !.stmt = FALSE, !.outcome = o]
      <4>2. /\ r \in TaskRecs /\ r.outcome = o /\ r.state = task[i].state
            /\ r.refused = task[i].refused
        BY <4>1 DEF TaskRecs
      <4>3. task' = [task EXCEPT ![i] = r]
        BY <3>1, <4>1
      <4> HIDE DEF r
      <4> QED BY <4>1, <4>2, <4>3
    <3> QED BY <2>2, <3>2
  <2>4. /\ waiting' \in Seq(Tasks) /\ Increasing(waiting)' /\ IdsIn(waiting)' = IdsIn(waiting) \ {i}
    <3>1. Increasing(waiting)
      BY <1>0 DEF WaitingInv
    <3> QED BY <1>10, <3>1, Facts, Removed
  <2>5. completed' \in Seq(Tasks) /\ IdsIn(completed)' = IdsIn(completed) \cup {i}
    BY <1>10, Facts, Appended
  <2>6. TypeOK'
    BY <1>2, <1>3, <1>5, <1>8, <2>1, <2>3, <2>4, <2>5, Facts, TypeKeeps
  <2>7. i = Head(waiting) /\ i <= submitted /\ task[i].state = "live"
    BY <1>0, <1>4, <1>10 DEF WaitingInv
  <2>8. WaitingInv'
    <3>1. ASSUME NEW j \in IdsIn(waiting)'
          PROVE  /\ j <= submitted' /\ task'[j].state = "live" /\ task'[j].outcome = "none"
                 /\ ~Launched(j)' /\ \A k \in Tasks : Launched(k)' => k < j
      <4>1. j \in IdsIn(waiting) /\ j # i /\ j \in Tasks /\ task'[j] = task[j]
        BY <2>3, <2>4, Facts
      <4>2. ~Launched(j)
        BY <1>0, <2>7, <4>1 DEF WaitingInv
      <4> QED BY <1>0, <1>2, <1>7, <4>1, <4>2 DEF WaitingInv
    <3> QED BY <2>4, <3>1 DEF WaitingInv
  <2>9. TaskInv'
    <3>1. ASSUME NEW j \in Tasks, j > submitted
          PROVE  task'[j].state = "live" /\ task'[j].outcome = "none" /\ ~Launched(j)'
      <4>1. j # i
        BY <2>7, <3>1, Facts
      <4> QED BY <1>0, <1>7, <2>3, <3>1, <4>1 DEF TaskInv
    <3>2. ASSUME NEW j \in IdsIn(completed) \cup {i}
          PROVE  task'[j].outcome # "none" /\ task'[j].state # "cancelled"
      BY <1>0, <1>4, <2>3, <2>7, Facts DEF TaskInv
    <3> QED BY <1>2, <2>5, <3>1, <3>2 DEF TaskInv
  <2>10. OwnOutcome'
    <3>1. ASSUME NEW j \in Tasks, task'[j].outcome # "none"
          PROVE  IF job'[j].state = "none" THEN task'[j].outcome = "error"
                 ELSE job'[j].state = "taken" /\ task'[j].outcome = job'[j].outcome
      <4>1. CASE j = i
        BY <1>3, <2>3, <4>1
      <4>2. CASE j # i
        BY <1>0, <1>3, <2>3, <3>1, <4>2 DEF OwnOutcome
      <4> QED BY <4>1, <4>2
    <3> QED BY <3>1 DEF OwnOutcome
  <2>11. Disturbed => Disturbed'
    <3>1. ASSUME NEW j \in Tasks
          PROVE  /\ task[j].state = "cancelled" /\ task[j].refused =>
                      task'[j].state = "cancelled" /\ task'[j].refused
                 /\ ~task[j].stmt /\ job[j].state = "none" => ~task'[j].stmt /\ job'[j].state = "none"
      BY <1>2, <1>3, <2>3, <2>7
    <3> QED BY <3>1, DisturbedStays
  <2>12. OneJob'
    <3>1. waiting # << >>
      BY <1>10, Facts, Ids
    <3>2. ~Disturbed => async_tasks = <<Head(waiting)>>
      BY <1>0, <1>8, <3>1 DEF OneJob
    <3>3. ~Disturbed => async_tasks' = << >>
      BY <1>2, <3>2, Single
    <3> QED BY <2>1, <2>11, <3>3 DEF OneJob
  <2> QED BY <1>6, <2>6, <2>8, <2>9, <2>10, <2>12 DEF AsyncInv
<1> QED BY <1>1, <1>9, <1>10 DEF HandleReady

\* The next task is launched, is ignored or fails at once.
LEMMA LaunchNextKeeps ==
    ASSUME AsyncInv, LaunchNext
    PROVE  AsyncInv'
<1>0. TypeOK /\ JobInv /\ WaitingInv /\ TaskInv /\ OneJob /\ OwnOutcome
  BY Facts
<1>1. At("launch") /\ lock.at = "launch" /\ submitted' = submitted /\ running' = running /\ started' = started
  BY DEF LaunchNext, At
<1>2. CASE waiting = << >> /\ Then("lookup") /\ UNCHANGED <<waiting, completed, task, prov, link>>
  <2>1. UNCHANGED <<cnc, prov, running, started>> /\ LinkOK'
    BY <1>1, <1>2, Facts, LinkKeeps DEF cnc
  <2>2. lock' \in LockRecs /\ ~At("launch")'
    BY <1>2, Facts, LockKeeps DEF At
  <2> QED BY <1>2, <2>1, <2>2, Steady
<1>3. ASSUME waiting # << >>
      PROVE  \E i \in Tasks : i = Head(waiting) /\ i \in IdsIn(waiting)
  BY <1>3, Facts, Ids
<1>4. ASSUME NEW i \in Tasks, i = Head(waiting), i \in IdsIn(waiting)
      PROVE  /\ i <= submitted /\ task[i].state = "live" /\ task[i].outcome = "none"
             /\ ~Launched(i) /\ job[i].state = "none" /\ \A j \in Tasks : Launched(j) => j < i
             /\ \A j \in IdsIn(waiting) : ~Launched(j) /\ (j # i => i < j)
  <2>1. Increasing(waiting) /\ waiting # << >>
    BY <1>0, <1>4, Facts, Ids DEF WaitingInv
  <2>2. \A j \in IdsIn(waiting) : j # i => i < j
    BY <1>4, <2>1, Facts, Shortened
  <2> QED BY <1>0, <1>1, <1>4, <2>2 DEF WaitingInv, Launched
<1>5. ASSUME NEW i \in Tasks, i = Head(waiting), i \in IdsIn(waiting), waiting # << >>,
             LaunchAccepted(lock.by, i), task' = [task EXCEPT ![i] = Processed(@)],
             Then("lookup"), UNCHANGED <<waiting, completed>>
      PROVE  AsyncInv'
  <2>1. /\ task' \in [Tasks -> TaskRecs] /\ \A j \in Tasks : j # i => task'[j] = task[j]
        /\ task'[i].state = task[i].state /\ task'[i].outcome = task[i].outcome
        /\ task'[i].being_processed = TRUE
    <3>1. task \in [Tasks -> TaskRecs] /\ task' = [task EXCEPT ![i].being_processed = TRUE]
      BY <1>5, Facts DEF Processed
    <3> QED BY <3>1 DEF TaskRecs
  <2>2. PICK t \in Users \cup {NoUser} : t = lock.by
    BY Facts DEF LockRecs
  <2>3. /\ ~Launched(i) /\ job[i].state = "none" /\ \A j \in Tasks : Launched(j) => j < i
        /\ i <= submitted /\ task[i].state = "live" /\ task[i].outcome = "none"
        /\ \A j \in IdsIn(waiting) : ~Launched(j) /\ (j # i => i < j)
    BY <1>4, <1>5
  <2>4. /\ JobInv' /\ job' \in [Tasks -> JobRecs] /\ jobs' \in Seq(Tasks)
        /\ async_tasks' \in Seq(Tasks) /\ async_tasks' = Append(async_tasks, i)
        /\ job'[i].state = "queued" /\ \A j \in Tasks : j # i => job'[j] = job[j]
    BY <1>1, <1>5, <2>2, <2>3, JobLaunched
  <2>5. lock' \in LockRecs /\ ~At("launch")'
    BY <1>5, Facts, LockKeeps DEF At
  <2>6. LinkOK'
    BY <1>5, Facts, LinkKeeps DEF LaunchAccepted
  <2>7. /\ waiting' = waiting /\ completed' = completed /\ IdsIn(waiting)' = IdsIn(waiting)
        /\ IdsIn(completed)' = IdsIn(completed) /\ Increasing(waiting)'
    BY <1>0, <1>5 DEF WaitingInv, Increasing, IdsIn
  <2>8. TypeOK'
    BY <1>1, <2>1, <2>4, <2>5, <2>6, <2>7, Facts, TypeKeeps
  <2>9. \A j \in Tasks : Launched(j)' <=> Launched(j) \/ j = i
    BY <2>4 DEF Launched
  <2>10. WaitingInv'
    <3>1. ASSUME NEW j \in IdsIn(waiting)
          PROVE  /\ j <= submitted' /\ task'[j].state = "live" /\ task'[j].outcome = "none"
                 /\ Launched(j)' => /\ j = Head(waiting) /\ job'[j].state \in Due
                                    /\ task'[j].being_processed \/ task'[j].refused
                 /\ ~Launched(j)' => \A k \in Tasks : Launched(k)' => k < j
      <4>1. CASE j = i
        <5>1. Launched(i)'
          BY <2>9
        <5> QED BY <1>1, <1>5, <2>1, <2>3, <2>4, <4>1, <5>1 DEF Due
      <4>2. CASE j # i
        <5>1. j \in Tasks /\ task'[j] = task[j] /\ ~Launched(j)' /\ ~Launched(j) /\ i < j
          BY <2>1, <2>3, <2>9, <4>2, Facts
        <5>2. \A k \in Tasks : Launched(k) => k < j
          BY <1>0, <5>1 DEF WaitingInv
        <5> QED BY <1>0, <1>1, <2>9, <5>1, <5>2 DEF WaitingInv
      <4> QED BY <4>1, <4>2
    <3> QED BY <2>5, <2>7, <3>1 DEF WaitingInv
  <2>11. TaskInv'
    <3>1. ASSUME NEW j \in Tasks, j > submitted
          PROVE  task'[j].state = "live" /\ task'[j].outcome = "none" /\ ~Launched(j)'
      <4>1. j # i
        BY <2>3, <3>1, Facts
      <4> QED BY <1>0, <2>1, <2>9, <3>1, <4>1 DEF TaskInv
    <3>2. ASSUME NEW j \in IdsIn(completed)
          PROVE  task'[j].outcome # "none" /\ task'[j].state # "cancelled"
      BY <1>0, <2>1, <2>3, Facts DEF TaskInv
    <3> QED BY <1>1, <2>7, <3>1, <3>2 DEF TaskInv
  <2>12. OwnOutcome'
    BY <1>0, <2>1, <2>3, <2>4 DEF OwnOutcome
  <2>13. Disturbed => Disturbed'
    <3>1. ASSUME NEW j \in Tasks
          PROVE  /\ task[j].state = "cancelled" /\ task[j].refused =>
                      task'[j].state = "cancelled" /\ task'[j].refused
                 /\ ~task[j].stmt /\ job[j].state = "none" => ~task'[j].stmt /\ job'[j].state = "none"
      <4>1. task[i].stmt
        BY <1>5 DEF LaunchAccepted
      <4> QED BY <2>1, <2>3, <2>4, <4>1
    <3> QED BY <3>1, DisturbedStays
  <2>14. OneJob'
    <3>1. ~Disturbed => async_tasks = << >>
      BY <1>0, <1>1 DEF OneJob
    <3>2. ~Disturbed => async_tasks' = <<i>>
      BY <2>4, <3>1, Single
    <3> QED BY <1>5, <2>5, <2>7, <2>13, <3>2 DEF OneJob
  <2> QED BY <2>4, <2>8, <2>10, <2>11, <2>12, <2>14 DEF AsyncInv
<1>6. ASSUME NEW i \in Tasks, i = Head(waiting), i \in IdsIn(waiting),
             LaunchIgnored(i), task' = [task EXCEPT ![i] = Processed(@)],
             Then("lookup"), UNCHANGED <<waiting, completed>>
      PROVE  AsyncInv'
  <2>1. /\ task' \in [Tasks -> TaskRecs] /\ \A j \in Tasks : j # i => task'[j] = task[j]
        /\ task'[i].state = task[i].state /\ task'[i].outcome = task[i].outcome
        /\ task'[i].stmt = task[i].stmt
    <3>1. task \in [Tasks -> TaskRecs] /\ task' = [task EXCEPT ![i].being_processed = TRUE]
      BY <1>6, Facts DEF Processed
    <3> QED BY <3>1 DEF TaskRecs
  <2>2. /\ JobInv' /\ async_tasks' = async_tasks /\ jobs' = jobs /\ job' = job
        /\ \A j : Launched(j)' <=> Launched(j)
    BY <1>1, <1>6, JobsKeep DEF LaunchIgnored
  <2>3. lock' \in LockRecs /\ ~At("launch")'
    BY <1>6, Facts, LockKeeps DEF At
  <2>4. LinkOK'
    BY <1>6, Facts, LinkKeeps DEF LaunchIgnored
  <2>5. /\ waiting' = waiting /\ completed' = completed /\ IdsIn(waiting)' = IdsIn(waiting)
        /\ IdsIn(completed)' = IdsIn(completed) /\ Increasing(waiting)'
    BY <1>0, <1>6 DEF WaitingInv, Increasing, IdsIn
  <2>6. TypeOK'
    BY <1>1, <2>1, <2>2, <2>3, <2>4, <2>5, Facts, TypeKeeps
  <2>7. /\ ~Launched(i) /\ job[i].state = "none" /\ \A j \in IdsIn(waiting) : ~Launched(j)
    BY <1>4, <1>6
  <2>8. \A j \in Tasks : task'[j].state = task[j].state /\ task'[j].outcome = task[j].outcome
    BY <2>1
  <2>9. WaitingInv'
    BY <1>0, <1>1, <2>2, <2>5, <2>7, <2>8, Facts DEF WaitingInv
  <2>10. TaskInv' /\ OwnOutcome'
    BY <1>0, <1>1, <2>2, <2>5, <2>8, Facts DEF TaskInv, OwnOutcome
  <2>11. Disturbed'
    BY <1>6, <2>1, <2>2, <2>7 DEF Disturbed, LaunchIgnored
  <2> QED BY <2>2, <2>6, <2>9, <2>10, <2>11 DEF AsyncInv, OneJob
<1>7. ASSUME NEW i \in Tasks, i = Head(waiting), i \in IdsIn(waiting),
             LaunchFails(lock.by, i), waiting' = Without(waiting, i),
             completed' = Append(completed, i), task' = [task EXCEPT ![i].outcome = "error"],
             lock' = lock, UNCHANGED prov
      PROVE  AsyncInv'
  <2>1. /\ task' \in [Tasks -> TaskRecs] /\ \A j \in Tasks : j # i => task'[j] = task[j]
        /\ task'[i].state = task[i].state /\ task'[i].outcome = "error"
        /\ task'[i].stmt = task[i].stmt /\ task'[i].refused = task[i].refused
    BY <1>7, Facts, ZenonT(40) DEF TaskRecs
  <2>2. /\ JobInv' /\ async_tasks' = async_tasks /\ jobs' = jobs /\ job' = job
        /\ \A j : Launched(j)' <=> Launched(j)
    BY <1>1, <1>7, JobsKeep
  <2>3. LinkOK' /\ At("launch")'
    BY <1>1, <1>7, Facts, LinkKeeps DEF LaunchFails, At
  <2>4. /\ waiting' \in Seq(Tasks) /\ Increasing(waiting)' /\ IdsIn(waiting)' = IdsIn(waiting) \ {i}
    <3>1. Increasing(waiting)
      BY <1>0 DEF WaitingInv
    <3> QED BY <1>7, <3>1, Facts, Removed
  <2>5. completed' \in Seq(Tasks) /\ IdsIn(completed)' = IdsIn(completed) \cup {i}
    BY <1>7, Facts, Appended
  <2>6. TypeOK'
    BY <1>1, <1>7, <2>1, <2>2, <2>3, <2>4, <2>5, Facts, TypeKeeps
  <2>7. /\ ~Launched(i) /\ job[i].state = "none" /\ i <= submitted /\ task[i].state = "live"
        /\ \A j \in IdsIn(waiting) : ~Launched(j)
    BY <1>4, <1>7
  <2>8. WaitingInv'
    <3>1. ASSUME NEW j \in IdsIn(waiting)'
          PROVE  /\ j <= submitted' /\ task'[j].state = "live" /\ task'[j].outcome = "none"
                 /\ ~Launched(j)' /\ \A k \in Tasks : Launched(k)' => k < j
      <4>1. j \in IdsIn(waiting) /\ j # i /\ j \in Tasks /\ task'[j] = task[j]
        BY <2>1, <2>4, Facts
      <4> QED BY <1>0, <1>1, <2>2, <2>7, <4>1 DEF WaitingInv
    <3> QED BY <2>4, <3>1 DEF WaitingInv
  <2>9. TaskInv'
    <3>1. ASSUME NEW j \in Tasks, j > submitted
          PROVE  task'[j].state = "live" /\ task'[j].outcome = "none" /\ ~Launched(j)'
      <4>1. j # i
        BY <2>7, <3>1, Facts
      <4> QED BY <1>0, <2>1, <2>2, <3>1, <4>1 DEF TaskInv
    <3>2. ASSUME NEW j \in IdsIn(completed) \cup {i}
          PROVE  task'[j].outcome # "none" /\ task'[j].state # "cancelled"
      BY <1>0, <2>1, <2>7, Facts DEF TaskInv
    <3> QED BY <1>1, <2>5, <3>1, <3>2 DEF TaskInv
  <2>10. OwnOutcome'
    BY <1>0, <2>1, <2>2, <2>7 DEF OwnOutcome
  <2>11. Disturbed => Disturbed'
    <3>1. ASSUME NEW j \in Tasks
          PROVE  /\ task[j].state = "cancelled" /\ task[j].refused =>
                      task'[j].state = "cancelled" /\ task'[j].refused
                 /\ ~task[j].stmt /\ job[j].state = "none" => ~task'[j].stmt /\ job'[j].state = "none"
      BY <2>1, <2>2
    <3> QED BY <3>1, DisturbedStays
  <2>12. OneJob'
    BY <1>0, <1>1, <2>2, <2>3, <2>11 DEF OneJob
  <2> QED BY <2>2, <2>6, <2>8, <2>9, <2>10, <2>12 DEF AsyncInv
<1> QED BY <1>2, <1>3, <1>5, <1>6, <1>7 DEF LaunchNext, NextWaiting, AfterFailure

-----------------------------------------------------------------------------
(* The theorems                                                            *)

\* Nothing was submitted.
LEMMA AsyncInit ==
    ASSUME Init
    PROVE  AsyncInv
<1>1. /\ submitted = 0 /\ waiting = << >> /\ completed = << >> /\ async_tasks = << >> /\ jobs = << >>
      /\ started = << >> /\ running = NoTask /\ lock = Unlocked /\ LinkOK
      /\ task = [i \in Tasks |-> NewTask]
      /\ job = [i \in Tasks |-> [by |-> NoUser, state |-> "none", outcome |-> "none"]]
  BY DEF Init, LinkOK
<1>2. << >> \in Seq(Tasks) /\ 0 \in 0 .. MaxTasks /\ NoTask \notin Tasks /\ IdsIn(<< >>) = {}
  <2>1. << >> \in Seq(Tasks) /\ IdsIn(<< >>) = {}
    BY EmptySeq, Single
  <2>2. 0 \in 0 .. MaxTasks /\ NoTask \notin Tasks
    BY AsyncAssumption DEF Tasks, NoTask
  <2> QED BY <2>1, <2>2
<1>3. NewTask \in TaskRecs /\ NewTask.state = "live" /\ NewTask.outcome = "none" /\ NewTask.stmt = TRUE
  BY DEF NewTask, TaskRecs
<1>4. [by |-> NoUser, state |-> "none", outcome |-> "none"] \in JobRecs
  BY DEF JobRecs
<1>5. /\ \A i \in Tasks : task[i].state = "live" /\ task[i].outcome = "none" /\ job[i].state = "none"
  BY <1>1, <1>3
<1>6. lock \in LockRecs
  BY <1>1 DEF Unlocked, LockRecs
<1>7. TypeOK
  <2>1. task \in [Tasks -> TaskRecs] /\ job \in [Tasks -> JobRecs]
    BY <1>1, <1>3, <1>4
  <2> QED BY <1>1, <1>2, <1>6, <2>1 DEF TypeOK, TaskRecs, JobRecs, LockRecs, LinkOK
<1>8. Increasing(<< >>)
  BY DEF Increasing
<1>9. JobInv /\ WaitingInv /\ TaskInv /\ OwnOutcome
  BY <1>1, <1>2, <1>5, <1>8 DEF JobInv, WaitingInv, TaskInv, OwnOutcome, Launched, Due
<1>10. OneJob
  BY <1>1 DEF OneJob
<1> QED BY <1>7, <1>9, <1>10 DEF AsyncInv

\* One step per action.
LEMMA AsyncNext ==
    ASSUME AsyncInv, [Next]_vars
    PROVE  AsyncInv'
<1>1. ASSUME NEW t \in Users, Submit(t) PROVE AsyncInv'
  BY <1>1, SubmitKeeps
<1>2. ASSUME NEW t \in Users, Close(t) \/ Open(t) \/ \E i \in Tasks : FetchBegin(t, i) PROVE AsyncInv'
  BY <1>2, OutsideKeeps
<1>3. ASSUME NEW t \in Users, NEW i \in Tasks, Cancel(t, i) PROVE AsyncInv'
  BY <1>3, CancelKeeps
<1>4. ASSUME NEW i \in Tasks, StatementReset(i) PROVE AsyncInv'
  BY <1>4, StatementResetKeeps
<1>5. CASE FetchStep
  BY <1>5, HandleKeeps, HandleReadyKeeps, LaunchNextKeeps, FetchEndKeeps DEF FetchStep
<1>6. CASE WorkerStep
  BY <1>6, JobStartKeeps, JobEndKeeps DEF WorkerStep
<1>7. CASE UNCHANGED vars
  <2>1. UNCHANGED <<cnc, prov, running, started>> /\ lock' = lock /\ UNCHANGED link
    BY <1>7 DEF vars, cnc, prov, link
  <2> QED BY <2>1, Steady, Facts, LinkKeeps DEF At
<1> QED BY <1>1, <1>2, <1>3, <1>4, <1>5, <1>6, <1>7 DEF Next

\* The lists of tasks, jobs and callbacks are in the order of submission, a job is where
\* its state says, and only the first waiting task has one.
THEOREM AsyncInvariant == Spec => []AsyncInv
<1>1. Init => AsyncInv
  BY AsyncInit
<1>2. AsyncInv /\ [Next]_vars => AsyncInv'
  BY AsyncNext
<1> QED BY <1>1, <1>2, PTL DEF Spec

\* Statements are executed in the order in which they were submitted and once each,
\* whichever threads submit, fetch and cancel, and whatever closes the connection.
THEOREM SubmissionOrder == Spec => []ExecutedInOrder
<1>1. AsyncInv => ExecutedInOrder
  BY DEF AsyncInv, JobInv, Increasing, ExecutedInOrder
<1> QED BY <1>1, AsyncInvariant, PTL

\* What gda_connection_async_fetch_result() delivers for a task is the outcome of the
\* task's own job, or an error when it had none.
THEOREM OutcomesNotMixed == Spec => []OwnOutcome
<1>1. AsyncInv => OwnOutcome
  BY DEF AsyncInv
<1> QED BY <1>1, AsyncInvariant, PTL

\* What the worker uses is not freed before its callback.
THEOREM TaskOutlivesJob == Spec => []NoFreedTaskInUse
<1>1. AsyncInv => NoFreedTaskInUse
  <2> SUFFICES ASSUME AsyncInv, running # NoTask, ~Disturbed
               PROVE  running \in IdsIn(waiting) /\ task[running].state = "live"
    BY DEF NoFreedTaskInUse
  <2>1. running \in Tasks /\ job[running].state = "running"
    BY Facts DEF JobInv
  <2>2. running \in IdsIn(async_tasks)
    BY <2>1, Facts DEF JobInv, Due
  <2>3. async_tasks # << >>
    BY <2>2, Single
  <2>4. waiting # << >> /\ async_tasks = <<Head(waiting)>>
    BY <2>3, Facts DEF OneJob
  <2>5. running = Head(waiting)
    BY <2>2, <2>4, Single
  <2>6. running \in IdsIn(waiting)
    BY <2>4, <2>5, Facts, Ids
  <2> QED BY <2>6, Facts DEF WaitingInv
<1> QED BY <1>1, AsyncInvariant, PTL

\* The queue does not stop: while tasks wait, the callback of the first one is due.
THEOREM QueueGoesOn == Spec => []NeverStalled
<1>1. AsyncInv => NeverStalled
  <2> SUFFICES ASSUME AsyncInv, lock = Unlocked, waiting # << >>, ~Disturbed
               PROVE  async_tasks = <<Head(waiting)>>
    BY DEF NeverStalled
  <2>1. ~At("launch")
    BY Outside
  <2> QED BY <2>1, Facts DEF OneJob
<1> QED BY <1>1, AsyncInvariant, PTL

\* The worker never starts the job of a task that was cancelled.
THEOREM CancelledStaysUnexecuted == Spec => CancelledNotExecuted
<1>1. AsyncInv => [\A i \in Tasks : JobStart /\ running' = i /\ ~Disturbed => task[i].state # "cancelled"]_vars
  <2> SUFFICES ASSUME AsyncInv, NEW i \in Tasks, JobStart, running' = i, ~Disturbed
               PROVE  task[i].state # "cancelled"
    OBVIOUS
  <2>1. i \in IdsIn(jobs)
    BY Facts, Ids DEF JobStart
  <2>2. i \in IdsIn(async_tasks)
    BY <2>1, Facts DEF JobInv, Due
  <2>3. async_tasks # << >>
    BY <2>2, Single
  <2>4. waiting # << >> /\ async_tasks = <<Head(waiting)>>
    BY <2>3, Facts DEF OneJob
  <2>5. i \in IdsIn(waiting)
    BY <2>2, <2>4, Single, Facts, Ids
  <2> QED BY <2>5, Facts DEF WaitingInv
<1> QED BY <1>1, AsyncInvariant, PTL DEF CancelledNotExecuted
=============================================================================
