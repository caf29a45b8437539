------------------------- MODULE ThreadWrapper_proofs -------------------------
(***************************************************************************)
(* Theorems about ThreadWrapper, for any set of threads, any number of     *)
(* jobs and any pipe capacity, in four parts, each on top of the one       *)
(* before: type correctness, and that a cancelled job is never executed;   *)
(* where a job can be, so that it is freed once and nothing leads to it    *)
(* afterwards; the order of the queue, so that functions run in the order  *)
(* they were submitted and no reply is lost; the steps of JobService.      *)
(***************************************************************************)
EXTENDS ThreadWrapper, SequenceTheorems, FiniteSetTheorems, TLAPS

-----------------------------------------------------------------------------
(* Type correctness.  The one thing TypeOK does not say by itself is that  *)
(* the worker holds a real job while it works on one, so that the reply    *)
(* queue it pushes on is that of a thread.                                 *)

WorkerHoldsJob == wpc \in {"run", "notify", "report"} => cur \in JobIds

TypeInv == TypeOK /\ WorkerHoldsJob

\* What is built by NewJob is a Job, and a ThreadData is one whether it was
\* there before or not.
LEMMA NewRecords ==
    ASSUME TypeOK, NEW t \in Threads, NEW void \in BOOLEAN, NEW arg \in BOOLEAN
    PROVE  NewJob(t, void, arg) \in Job /\ ThreadDataOf(t) \in ThreadData
<1>1. pipe[t].known \in BOOLEAN /\ td[t] \in ThreadData
  BY DEF TypeOK
<1>2. ThreadDataOf(t) \in ThreadData
  BY <1>1 DEF ThreadDataOf, NoData, ThreadData
<1>3. ThreadDataOf(t).notif \in BOOLEAN
  BY <1>2 DEF ThreadData
<1>4. NewJob(t, void, arg) \in Job
  BY <1>3 DEF NewJob, Job
<1> QED BY <1>2, <1>4

\* A submission, common to execute() and execute_void() in every thread, keeps
\* the job table and the thread data well formed.
LEMMA SubmitType ==
    ASSUME TypeOK, NEW t \in Threads, NEW void \in BOOLEAN, NEW arg \in BOOLEAN,
           Submit(t, void, arg)
    PROVE  /\ next_job_id \in JobIds
           /\ next_job_id' \in 1 .. (MaxJobs + 1)
           /\ job' \in [JobIds -> Job]
           /\ td' \in [Threads -> ThreadData]
<1>1. next_job_id \in JobIds /\ next_job_id' \in 1 .. (MaxJobs + 1)
  BY BoundsAssumption DEF Submit, TypeOK, JobIds
<1>2. job' \in [JobIds -> Job]
  BY NewRecords DEF Submit, TypeOK
<1>3. [ThreadDataOf(t) EXCEPT !.jobs = @ \cup {next_job_id}] \in ThreadData
  BY <1>1, NewRecords DEF ThreadData
<1>4. td' \in [Threads -> ThreadData]
  BY <1>3 DEF Submit, TypeOK
<1> QED BY <1>1, <1>2, <1>4

\* What a thread takes from its reply queue leaves the queues well formed.
LEMMA PopType ==
    ASSUME TypeOK, NEW t \in Threads, Pop(t)
    PROVE  /\ Head(from_worker[t]) \in JobIds \cup {NOTIFICATION_ERROR}
           /\ from_worker' \in [Threads -> Seq(JobIds \cup {NOTIFICATION_ERROR})]
<1>1. from_worker[t] \in Seq(JobIds \cup {NOTIFICATION_ERROR}) /\ from_worker[t] # << >>
  BY DEF TypeOK, Pop
<1>2. /\ Tail(from_worker[t]) \in Seq(JobIds \cup {NOTIFICATION_ERROR})
      /\ Head(from_worker[t]) \in JobIds \cup {NOTIFICATION_ERROR}
  BY <1>1, HeadTailProperties
<1>3. from_worker' = [from_worker EXCEPT ![t] = Tail(from_worker[t])]
  BY DEF Pop
<1> QED BY <1>2, <1>3 DEF TypeOK

\* Counting once or not.
LEMMA TimesType == ASSUME NEW b PROVE Times(b) \in Nat
BY DEF Times

\* Freeing a job keeps its history well formed and executes nothing.
LEMMA JobFreeType ==
    ASSUME TypeOK, NEW id \in JobIds, JobFree(id)
    PROVE  /\ hist' \in [JobIds -> Fate]
           /\ \A i \in JobIds : hist'[i].ran = hist[i].ran
<1>1. hist \in [JobIds -> Fate] /\ hist[id] \in Fate /\ Times(job[id].arg) \in Nat
  BY TimesType DEF TypeOK
<1>2. /\ hist[id].freed + 1 \in Nat
      /\ hist[id].destroyed + Times(job[id].arg) \in Nat
  BY <1>1 DEF Fate
<1>3. Freed(id) \in Fate /\ Freed(id).ran = hist[id].ran
  BY <1>1, <1>2 DEF Fate, Freed
<1> QED BY <1>1, <1>3 DEF JobFree

\* So does destroying the argument of a cancelled job.
LEMMA DestroyArgumentType ==
    ASSUME TypeOK, NEW id \in JobIds, DestroyArgument(id)
    PROVE  /\ hist' \in [JobIds -> Fate]
           /\ \A i \in JobIds : hist'[i].ran = hist[i].ran
<1> DEFINE f == [hist[id] EXCEPT !.destroyed = @ + Times(job[id].arg)]
<1>1. hist \in [JobIds -> Fate] /\ hist[id] \in Fate /\ Times(job[id].arg) \in Nat
  BY TimesType DEF TypeOK
<1>2. f \in Fate /\ f.ran = hist[id].ran
  BY <1>1 DEF Fate
<1>3. hist' = [hist EXCEPT ![id] = f]
  BY <1>1 DEF DestroyArgument
<1> QED BY <1>1, <1>2, <1>3

\* And so does executing it.
LEMMA RanType ==
    ASSUME TypeOK, NEW id \in JobIds, hist' = [hist EXCEPT ![id].ran = @ + 1]
    PROVE  /\ hist' \in [JobIds -> Fate]
           /\ \A i \in JobIds \ {id} : hist'[i] = hist[i]
<1> DEFINE f == [hist[id] EXCEPT !.ran = @ + 1]
<1>1. hist \in [JobIds -> Fate] /\ hist[id] \in Fate
  BY DEF TypeOK
<1>2. f \in Fate
  BY <1>1 DEF Fate
<1>3. hist' = [hist EXCEPT ![id] = f]
  BY <1>1
<1> QED BY <1>1, <1>2, <1>3

\* The initial state is well typed.
LEMMA InitType == Init => TypeInv
<1> SUFFICES ASSUME Init PROVE TypeInv
  OBVIOUS
<1>1. NoJob \in Job /\ NoData \in ThreadData /\ Idle \in Call
  BY DEF NoJob, NoData, Idle, Job, ThreadData, Call, Threads
<1>2. next_job_id \in 1 .. (MaxJobs + 1)
  BY BoundsAssumption DEF Init
<1>3. /\ to_worker \in Seq(JobIds \cup {DESTROY})
      /\ from_worker \in [Threads -> Seq(JobIds \cup {NOTIFICATION_ERROR})]
      /\ pipe \in [Threads -> [known : BOOLEAN, fd : {"none", "open", "closed"}]]
  BY EmptySeq DEF Init
<1>4. unread \in [Threads -> 0 .. PipeCapacity]
  BY BoundsAssumption DEF Init
<1>5. hist \in [JobIds -> Fate]
  BY DEF Init, Fate
<1> QED BY <1>1, <1>2, <1>3, <1>4, <1>5 DEF Init, TypeInv, TypeOK, WorkerHoldsJob

-----------------------------------------------------------------------------
(* Steps of a calling thread.                                              *)

\* The calls keep the types.
LEMMA CallType ==
    ASSUME TypeInv, NEW t \in Threads, ClientCall(t)
    PROVE  TypeInv'
<1> USE DEF TypeInv, WorkerHoldsJob
<1>1. ASSUME NEW void \in BOOLEAN, NEW arg \in BOOLEAN, ExecuteBegin(t, void, arg)
      PROVE  TypeInv'
  <2>1. Submit(t, void, arg)
    BY <1>1 DEF ExecuteBegin
  <2>2. /\ next_job_id \in JobIds /\ next_job_id' \in 1 .. (MaxJobs + 1)
        /\ job' \in [JobIds -> Job] /\ td' \in [Threads -> ThreadData]
    BY <2>1, SubmitType
  <2>3. call' \in [Threads -> Call]
    BY <1>1, <2>2 DEF ExecuteBegin, Call, TypeOK
  <2> QED BY <1>1, <2>2, <2>3 DEF ExecuteBegin, TypeOK
<1>2. ASSUME NEW id \in JobIds, Cancel(t, id)
      PROVE  TypeInv'
  <2>1. hist' \in [JobIds -> Fate]
    BY <1>2, DestroyArgumentType DEF Cancel
  <2>2. td' \in [Threads -> ThreadData]
    BY <1>2, ZenonT(40) DEF Cancel, TypeOK, ThreadData
  <2>3. job' \in [JobIds -> Job]
    BY <1>2, ZenonT(40) DEF Cancel, Stopped, TypeOK, Job
  <2> QED BY <1>2, <2>1, <2>2, <2>3 DEF Cancel, TypeOK
<1>3. ASSUME NEW block \in BOOLEAN, IterateBegin(t, block)
      PROVE  TypeInv'
  <2>1. call' \in [Threads -> Call]
    BY <1>3 DEF IterateBegin, Call, TypeOK
  <2> QED BY <1>3, <2>1 DEF IterateBegin, TypeOK
<1>4. ASSUME NEW id \in JobIds, NEW block \in BOOLEAN, FetchBegin(t, id, block)
      PROVE  TypeInv'
  <2>1. call' \in [Threads -> Call]
    BY <1>4 DEF FetchBegin, Call, TypeOK
  <2> QED BY <1>4, <2>1 DEF FetchBegin, TypeOK
<1>5. CASE GetIoChannel(t)
  BY <1>5 DEF GetIoChannel, TypeOK
<1>6. CASE UnsetIoChannel(t)
  <2>1. td' \in [Threads -> ThreadData]
    BY <1>6, ZenonT(40) DEF UnsetIoChannel, CleanNotifications, TypeOK, ThreadData
  <2> QED BY <1>6, <2>1 DEF UnsetIoChannel, CleanNotifications, TypeOK
<1> QED BY <1>1, <1>2, <1>3, <1>4, <1>5, <1>6 DEF ClientCall

\* The steps within a call keep the types.
LEMMA ClientStepType ==
    ASSUME TypeInv, NEW t \in Threads, ClientStep(t)
    PROVE  TypeInv'
<1> USE DEF TypeInv, WorkerHoldsJob
<1>0. Idle \in Call /\ NoData \in ThreadData
  BY DEF Idle, Call, NoData, ThreadData
<1>1. CASE ExecutePush(t)
  <2>1. call[t].id \in JobIds \cup {DESTROY}
    BY DEF TypeOK, Call, DESTROY
  <2>2. to_worker' \in Seq(JobIds \cup {DESTROY})
    BY <1>1, <2>1, AppendProperties DEF ExecutePush, TypeOK
  <2> QED BY <1>0, <1>1, <2>2 DEF ExecutePush, Return, TypeOK
<1>2. CASE PopNothing(t)
  BY <1>0, <1>2 DEF PopNothing, Return, TypeOK
<1>3. CASE PopVoid(t)
  <2> DEFINE id == Head(from_worker[t])
  <2>1. id \in JobIds /\ from_worker' \in [Threads -> Seq(JobIds \cup {NOTIFICATION_ERROR})]
    BY <1>3, PopType DEF PopVoid
  <2>2. hist' \in [JobIds -> Fate]
    BY <1>3, <2>1, JobFreeType DEF PopVoid
  <2>3. td' \in [Threads -> ThreadData]
    BY <1>3, ZenonT(40) DEF PopVoid, TypeOK, ThreadData
  <2> QED BY <1>3, <2>1, <2>2, <2>3 DEF PopVoid, TypeOK
<1>4. CASE PopResult(t)
  <2> DEFINE id == Head(from_worker[t])
             d  == [td[t] EXCEPT !.jobs = @ \ {id}, !.results = @ \cup {id}]
  <2>1. id \in JobIds /\ from_worker' \in [Threads -> Seq(JobIds \cup {NOTIFICATION_ERROR})]
    BY <1>4, PopType DEF PopResult
  <2>2. td \in [Threads -> ThreadData] /\ d \in ThreadData
    BY <2>1 DEF TypeOK, ThreadData
  <2>3. td' = [td EXCEPT ![t] = d]
    BY <1>4, <2>2 DEF PopResult, ThreadData
  <2>4. LookAgain(t) \in Call
    BY <1>0 DEF LookAgain, TypeOK, Call
  <2> QED BY <1>4, <2>1, <2>2, <2>3, <2>4 DEF PopResult, TypeOK
<1>5. CASE PopNotificationError(t)
  <2>1. from_worker' \in [Threads -> Seq(JobIds \cup {NOTIFICATION_ERROR})]
    BY <1>5, PopType DEF PopNotificationError
  <2>2. [call[t] EXCEPT !.at = "look"] \in Call
    BY DEF TypeOK, Call
  <2>3. call' \in [Threads -> Call]
    BY <1>0, <1>5, <2>2 DEF PopNotificationError, TypeOK
  <2>4. td' \in [Threads -> ThreadData]
    BY <1>5, ZenonT(40) DEF PopNotificationError, CleanNotifications, TypeOK, ThreadData
  <2> QED BY <1>5, <2>1, <2>3, <2>4 DEF PopNotificationError, CleanNotifications, TypeOK
<1>6. CASE FetchFound(t)
  <2> DEFINE rest == td[t].results \ {call[t].id}
  <2>1. call[t].id \in JobIds /\ rest \in SUBSET JobIds
    BY <1>6 DEF FetchFound, TypeOK, ThreadData
  <2>2. hist' \in [JobIds -> Fate]
    BY <1>6, <2>1, JobFreeType DEF FetchFound
  <2>3. [td[t] EXCEPT !.results = rest] \in ThreadData
    BY <2>1, ZenonT(40) DEF TypeOK, ThreadData
  <2>4. td' \in [Threads -> ThreadData]
    BY <1>0, <1>6, <2>3 DEF FetchFound, TypeOK
  <2> QED BY <1>0, <1>6, <2>2, <2>4 DEF FetchFound, Return, TypeOK
<1>7. CASE FetchNotFound(t)
  <2>1. call' \in [Threads -> Call]
    BY <1>7 DEF FetchNotFound, TypeOK, Call
  <2> QED BY <1>7, <2>1 DEF FetchNotFound, TypeOK
<1> QED BY <1>1, <1>2, <1>3, <1>4, <1>5, <1>6, <1>7 DEF ClientStep

\* A function executed by a function: submitted and run in the same step.
LEMMA InlineType ==
    ASSUME TypeInv, NEW void \in BOOLEAN, NEW arg \in BOOLEAN, ExecuteInline(void, arg)
    PROVE  TypeInv'
<1>1. Submit(Worker, void, arg) /\ Worker \in Threads
  BY DEF ExecuteInline, Threads
<1>2. /\ next_job_id \in JobIds /\ next_job_id' \in 1 .. (MaxJobs + 1)
      /\ job' \in [JobIds -> Job] /\ td' \in [Threads -> ThreadData]
  BY <1>1, SubmitType DEF TypeInv
<1>3. hist' \in [JobIds -> Fate]
  BY <1>2, RanType DEF ExecuteInline, TypeInv
<1>4. Append(from_worker[Worker], next_job_id) \in Seq(JobIds \cup {NOTIFICATION_ERROR})
  BY <1>1, <1>2, AppendProperties DEF TypeInv, TypeOK
<1>5. from_worker' \in [Threads -> Seq(JobIds \cup {NOTIFICATION_ERROR})]
  BY <1>4 DEF ExecuteInline, TypeInv, TypeOK
<1> QED BY <1>2, <1>3, <1>5 DEF ExecuteInline, TypeInv, TypeOK, WorkerHoldsJob

\* Steps of the worker.
LEMMA WorkerType ==
    ASSUME TypeInv, WorkerStep \/ WorkerFinish
    PROVE  TypeInv'
<1> USE DEF TypeInv, WorkerHoldsJob
<1>1. ASSUME to_worker # << >>
      PROVE  Tail(to_worker) \in Seq(JobIds \cup {DESTROY})
  BY <1>1, HeadTailProperties DEF TypeOK
<1>2. ASSUME cur \in JobIds
      PROVE  job[cur].owner \in Threads
  BY <1>2 DEF TypeOK, Job
<1>3. CASE WorkerPop
  <2>1. PICK id \in JobIds :
          /\ WorkerTakes(id)
          /\ job' = [job EXCEPT ![id].processed = TRUE]
          /\ IF Dropped(id)
             THEN JobFree(id) /\ UNCHANGED <<wpc, cur>>
             ELSE wpc' = "run" /\ cur' = id /\ UNCHANGED hist
          /\ UNCHANGED <<next_job_id, td, from_worker, pipe, unread, call, dispose>>
    BY <1>3 DEF WorkerPop
  <2>2. to_worker' \in Seq(JobIds \cup {DESTROY}) /\ wpc = "pop"
    BY <1>1, <2>1 DEF WorkerTakes
  <2>3. job' \in [JobIds -> Job]
    BY <2>1, ZenonT(40) DEF TypeOK, Job
  <2>4. hist' \in [JobIds -> Fate]
    BY <2>1, JobFreeType DEF TypeOK
  <2> QED BY <2>1, <2>2, <2>3, <2>4 DEF TypeOK
<1>4. CASE WorkerExit
  BY <1>1, <1>4 DEF WorkerExit, WorkerTakes, TypeOK
<1>5. CASE WorkerNotify
  <2>1. cur \in JobIds
    BY <1>5 DEF WorkerNotify
  <2> DEFINE o == job[cur].owner
  <2>2. unread \in [Threads -> 0 .. PipeCapacity] /\ o \in Threads
    BY <1>2, <2>1 DEF TypeOK
  <2>3. unread[o] < PipeCapacity => unread[o] + 1 \in 0 .. PipeCapacity
    BY <2>2, BoundsAssumption
  <2>4. unread' \in [Threads -> 0 .. PipeCapacity]
    BY <1>5, <2>2, <2>3 DEF WorkerNotify, HasRoom
  <2> QED BY <1>5, <2>4 DEF WorkerNotify, TypeOK
<1>6. CASE WorkerNotifyFails
  BY <1>6 DEF WorkerNotifyFails, TypeOK
<1>7. CASE WorkerReport
  <2>1. cur \in JobIds
    BY <1>7 DEF WorkerReport
  <2>2. Append(from_worker[job[cur].owner], NOTIFICATION_ERROR)
          \in Seq(JobIds \cup {NOTIFICATION_ERROR})
    BY <1>2, <2>1, AppendProperties DEF TypeOK
  <2>3. from_worker' \in [Threads -> Seq(JobIds \cup {NOTIFICATION_ERROR})]
    BY <1>7, <2>2 DEF WorkerReport, ErrorReported, TypeOK
  <2> QED BY <1>7, <2>3 DEF WorkerReport, TypeOK
<1>8. CASE WorkerFinish
  <2>1. cur \in JobIds
    BY <1>8 DEF WorkerFinish
  <2>2. Append(from_worker[job[cur].owner], cur) \in Seq(JobIds \cup {NOTIFICATION_ERROR})
    BY <1>2, <2>1, AppendProperties DEF TypeOK
  <2>3. from_worker' \in [Threads -> Seq(JobIds \cup {NOTIFICATION_ERROR})]
    BY <1>8, <2>2 DEF WorkerFinish, TypeOK
  <2>4. hist' \in [JobIds -> Fate]
    BY <1>8, <2>1, RanType DEF WorkerFinish
  <2> QED BY <1>8, <2>1, <2>3, <2>4 DEF WorkerFinish, TypeOK
<1> QED BY <1>3, <1>4, <1>5, <1>6, <1>7, <1>8 DEF WorkerStep

\* Disposal.
LEMMA DisposeType ==
    ASSUME TypeInv, DisposePush \/ DisposeClean
    PROVE  TypeInv'
<1> USE DEF TypeInv, WorkerHoldsJob
<1>1. CASE DisposePush
  <2>1. to_worker' \in Seq(JobIds \cup {DESTROY})
    BY <1>1, AppendProperties DEF DisposePush, TellWorker, TypeOK
  <2> QED BY <1>1, <2>1 DEF DisposePush, TypeOK
<1>2. CASE DisposeClean
  <2>1. \A i \in JobIds : Stopped(job[i]) \in Job /\ job[i] \in Job
    BY DEF TypeOK, Job, Stopped
  <2>2. job' \in [JobIds -> Job]
    BY <1>2, <2>1 DEF DisposeClean
  <2>3. ASSUME NEW h \in Fate, NEW m \in Nat, NEW n \in Nat
        PROVE  [h EXCEPT !.destroyed = @ + m, !.freed = @ + n] \in Fate
    <3>1. h.destroyed + m \in Nat /\ h.freed + n \in Nat
      BY <2>3 DEF Fate
    <3> QED BY <3>1 DEF Fate
  <2>4. hist' \in [JobIds -> Fate]
    BY <1>2, <2>3, TimesType DEF DisposeClean, TypeOK
  <2>5. NoData \in ThreadData
    BY DEF NoData, ThreadData
  <2> QED BY <1>2, <2>2, <2>4, <2>5 DEF DisposeClean, TypeOK
<1> QED BY <1>1, <1>2

\* Every step keeps the types.
LEMMA NextType == TypeInv /\ [Next]_vars => TypeInv'
<1> SUFFICES ASSUME TypeInv, [Next]_vars PROVE TypeInv'
  OBVIOUS
<1>1. ASSUME NEW t \in Threads, ReadNotification(t)
      PROVE  TypeInv'
  <2>1. unread \in [Threads -> 0 .. PipeCapacity] /\ unread[t] > 0
    BY <1>1 DEF ReadNotification, TypeInv, TypeOK
  <2>2. unread[t] - 1 \in 0 .. PipeCapacity
    BY <2>1, BoundsAssumption
  <2>3. unread' \in [Threads -> 0 .. PipeCapacity]
    BY <1>1, <2>1, <2>2 DEF ReadNotification
  <2> QED BY <1>1, <2>3 DEF ReadNotification, TypeInv, TypeOK, WorkerHoldsJob
<1>2. CASE UNCHANGED vars
  BY <1>2 DEF vars, TypeInv, TypeOK, WorkerHoldsJob
<1> QED BY <1>1, <1>2, CallType, ClientStepType, InlineType, WorkerType, DisposeType DEF Next

\* Type correctness: the tables, the queues and the two control states of the
\* wrapper stay well formed, in particular no pipe is written past its capacity
\* and every reply is pushed on the queue of a thread.
THEOREM TypeCorrect == Spec => []TypeOK
<1>1. TypeInv => TypeOK
  BY DEF TypeInv
<1> QED BY <1>1, InitType, NextType, PTL DEF Spec

-----------------------------------------------------------------------------
(* A cancelled job is never executed.  CancelExcludesExecution alone is    *)
(* not inductive: that a job which ran cannot be cancelled afterwards      *)
(* rests on `processed', which the worker sets when it takes the job and   *)
(* which only a new Job with the same identifier would reset, so           *)
(* identifiers on their way must be below next_job_id.                     *)

NoneRanYet == \A i \in JobIds : i >= next_job_id => hist[i].ran = 0

RanIsProcessed ==
    \A i \in JobIds : hist[i].ran > 0 => job[i].processed /\ ~job[i].cancelled

RunningIsProcessed ==
    wpc = "run" => cur < next_job_id /\ job[cur].processed /\ ~job[cur].cancelled

QueuedIsCreated ==
    /\ \A k \in DOMAIN to_worker : to_worker[k] < next_job_id
    /\ \A t \in Threads : call[t].at = "push" => call[t].id < next_job_id

CancelParts == NoneRanYet /\ RanIsProcessed /\ RunningIsProcessed /\ QueuedIsCreated

CancelInv == TypeInv /\ CancelParts

\* A cancelled job was not executed and is not the one being executed.
LEMMA CancelInvImplies == CancelInv => CancelExcludesExecution
<1> SUFFICES ASSUME CancelInv, NEW i \in JobIds, job[i].cancelled
             PROVE  hist[i].ran = 0 /\ ~(wpc = "run" /\ cur = i)
  BY DEF CancelExcludesExecution
<1>1. hist[i].ran \in Nat
  BY DEF CancelInv, TypeInv, TypeOK, Fate
<1>2. ~(hist[i].ran > 0)
  BY DEF CancelInv, CancelParts, RanIsProcessed
<1>3. ~(wpc = "run" /\ cur = i)
  BY DEF CancelInv, CancelParts, RunningIsProcessed
<1> QED BY <1>1, <1>2, <1>3

\* No job has been created.
LEMMA InitCancel == Init => CancelInv
<1>1. Init => CancelParts
  BY DEF Init, CancelParts, NoneRanYet, RanIsProcessed, RunningIsProcessed,
         QueuedIsCreated, Idle, Fate
<1> QED BY <1>1, InitType DEF CancelInv

\* A step that touches no job, no queue of the worker and executes nothing.
LEMMA CalmStep ==
    ASSUME CancelParts, UNCHANGED <<next_job_id, job, to_worker, wpc, cur>>,
           \A i \in JobIds : hist'[i].ran = hist[i].ran,
           \A t \in Threads : call'[t].at = "push" => call'[t] = call[t]
    PROVE  CancelParts'
BY DEF CancelParts, NoneRanYet, RanIsProcessed, RunningIsProcessed, QueuedIsCreated

\* A step that stops waiting jobs: every job it changes had not been taken.
LEMMA StopStep ==
    ASSUME CancelInv, UNCHANGED <<next_job_id, to_worker, wpc, cur, call>>,
           \A i \in JobIds : hist'[i].ran = hist[i].ran,
           \A i \in JobIds : job'[i] = job[i] \/ ~job[i].processed
    PROVE  CancelParts'
<1>1. NoneRanYet' /\ QueuedIsCreated'
  BY DEF CancelInv, CancelParts, NoneRanYet, QueuedIsCreated
<1>2. RanIsProcessed'
  BY DEF CancelInv, CancelParts, RanIsProcessed
<1>3. RunningIsProcessed'
  BY DEF CancelInv, CancelParts, TypeInv, WorkerHoldsJob, RunningIsProcessed
<1> QED BY <1>1, <1>2, <1>3 DEF CancelParts

\* A submission: the new job has an identifier nothing refers to yet.
LEMMA SubmitStep ==
    ASSUME CancelInv, NEW t \in Threads, NEW void \in BOOLEAN, NEW arg \in BOOLEAN,
           Submit(t, void, arg)
    PROVE  /\ next_job_id' = next_job_id + 1 /\ next_job_id \in JobIds
           /\ job \in [JobIds -> Job]
           /\ t # Worker => ~job'[next_job_id].processed
           /\ t = Worker => job'[next_job_id].processed
           /\ ~job'[next_job_id].cancelled
           /\ \A i \in JobIds \ {next_job_id} : job'[i] = job[i]
<1>1. next_job_id \in JobIds /\ job \in [JobIds -> Job]
  BY SubmitType DEF CancelInv, TypeInv, TypeOK
<1> QED BY <1>1 DEF Submit, NewJob

\* A new job is not processed and did not run.
LEMMA ExecuteStep ==
    ASSUME CancelInv, NEW t \in Threads, NEW void \in BOOLEAN, NEW arg \in BOOLEAN,
           ExecuteBegin(t, void, arg)
    PROVE  CancelParts'
<1> DEFINE n == next_job_id
<1>1. Submit(t, void, arg) /\ t # Worker
  BY DEF ExecuteBegin
<1>2. /\ n' = n + 1 /\ n \in JobIds /\ n \in Nat
      /\ ~job'[n].processed /\ ~job'[n].cancelled
      /\ \A i \in JobIds \ {n} : job'[i] = job[i]
  <2>1. n \in JobIds => n \in Nat
    BY DEF JobIds
  <2> QED BY <1>1, <2>1, SubmitStep
<1>3. hist' = hist /\ wpc' = wpc /\ cur' = cur /\ to_worker' = to_worker
  BY DEF ExecuteBegin
<1>4. hist[n].ran = 0
  BY <1>2 DEF CancelInv, CancelParts, NoneRanYet
<1>5. NoneRanYet'
  BY <1>2, <1>3 DEF CancelInv, CancelParts, NoneRanYet, JobIds
<1>6. RanIsProcessed'
  BY <1>2, <1>3, <1>4 DEF CancelInv, CancelParts, RanIsProcessed
<1>7. RunningIsProcessed'
  <2> SUFFICES ASSUME wpc = "run" PROVE RunningIsProcessed'
    BY <1>3 DEF RunningIsProcessed
  <2>1. cur \in JobIds /\ cur < n /\ cur \in Nat
    BY DEF CancelInv, CancelParts, TypeInv, WorkerHoldsJob, RunningIsProcessed, JobIds
  <2>2. job'[cur] = job[cur] /\ cur < n'
    BY <1>2, <2>1
  <2> QED BY <1>3, <2>2 DEF CancelInv, CancelParts, RunningIsProcessed
<1>8. QueuedIsCreated'
  <2>1. ASSUME NEW k \in DOMAIN to_worker
        PROVE  to_worker[k] < n'
    <3>1. to_worker[k] \in Nat /\ to_worker[k] < n
      BY DEF CancelInv, CancelParts, QueuedIsCreated, TypeInv, TypeOK, JobIds, DESTROY
    <3> QED BY <1>2, <3>1
  <2>2. ASSUME NEW u \in Threads, call'[u].at = "push"
        PROVE  call'[u].id < n'
    <3>1. call \in [Threads -> Call]
      BY DEF CancelInv, TypeInv, TypeOK
    <3>2. CASE u = t
      BY <1>2, <3>1, <3>2 DEF ExecuteBegin
    <3>3. CASE u # t
      <4>1. call'[u] = call[u]
        BY <3>1, <3>3 DEF ExecuteBegin
      <4>2. call[u].id < n /\ call[u].id \in Nat
        BY <2>2, <3>1, <4>1 DEF CancelInv, CancelParts, QueuedIsCreated, Call, JobIds
      <4> QED BY <1>2, <4>1, <4>2
    <3> QED BY <3>2, <3>3
  <2> QED BY <1>3, <2>1, <2>2 DEF QueuedIsCreated
<1> QED BY <1>5, <1>6, <1>7, <1>8 DEF CancelParts

\* The worker executes a function for itself: the job is taken as it is made.
LEMMA InlineStep ==
    ASSUME CancelInv, NEW void \in BOOLEAN, NEW arg \in BOOLEAN, ExecuteInline(void, arg)
    PROVE  CancelParts'
<1> DEFINE n == next_job_id
<1>1. Submit(Worker, void, arg) /\ Worker \in Threads
  BY DEF ExecuteInline, Threads
<1>2. /\ n' = n + 1 /\ n \in JobIds /\ n \in Nat
      /\ job'[n].processed /\ ~job'[n].cancelled
      /\ \A i \in JobIds \ {n} : job'[i] = job[i]
  <2>1. n \in JobIds => n \in Nat
    BY DEF JobIds
  <2> QED BY <1>1, <2>1, SubmitStep
<1>3. \A i \in JobIds \ {n} : hist'[i] = hist[i]
  BY <1>2, RanType DEF ExecuteInline, CancelInv, TypeInv
<1>4. NoneRanYet'
  <2> SUFFICES ASSUME NEW i \in JobIds, i >= n' PROVE hist'[i].ran = 0
    BY DEF NoneRanYet
  <2>1. i # n /\ i >= n
    BY <1>2 DEF JobIds
  <2> QED BY <1>3, <2>1 DEF CancelInv, CancelParts, NoneRanYet
<1>5. RanIsProcessed'
  BY <1>2, <1>3 DEF CancelInv, CancelParts, RanIsProcessed
<1>6. RunningIsProcessed'
  <2>1. wpc' = wpc /\ cur' = cur /\ wpc = "run"
    BY DEF ExecuteInline, Submit, CanCall
  <2>2. cur \in JobIds /\ cur < n /\ cur \in Nat
    BY <2>1 DEF CancelInv, CancelParts, TypeInv, WorkerHoldsJob, RunningIsProcessed, JobIds
  <2>3. job'[cur] = job[cur] /\ cur < n'
    BY <1>2, <2>2
  <2> QED BY <2>1, <2>3 DEF CancelInv, CancelParts, RunningIsProcessed
<1>7. QueuedIsCreated'
  <2>1. ASSUME NEW k \in DOMAIN to_worker
        PROVE  to_worker[k] < n'
    <3>1. to_worker[k] \in Nat /\ to_worker[k] < n
      BY DEF CancelInv, CancelParts, QueuedIsCreated, TypeInv, TypeOK, JobIds, DESTROY
    <3> QED BY <1>2, <3>1
  <2>2. ASSUME NEW u \in Threads, call[u].at = "push"
        PROVE  call[u].id < n'
    <3>1. call[u].id < n /\ call[u].id \in Nat
      BY <2>2 DEF CancelInv, CancelParts, TypeInv, TypeOK, QueuedIsCreated, Call, JobIds
    <3> QED BY <1>2, <3>1
  <2> QED BY <2>1, <2>2 DEF QueuedIsCreated, ExecuteInline
<1> QED BY <1>4, <1>5, <1>6, <1>7 DEF CancelParts

\* What a push at the tail or a pop at the head does to the queue.
LEMMA QueueStep ==
    ASSUME TypeOK, CancelParts, UNCHANGED next_job_id
    PROVE  /\ \A id \in JobIds \cup {DESTROY} :
                id < next_job_id /\ to_worker' = Append(to_worker, id)
                  => \A k \in DOMAIN to_worker' : to_worker'[k] < next_job_id'
           /\ to_worker # << >> /\ to_worker' = Tail(to_worker)
                  => /\ \A k \in DOMAIN to_worker' : to_worker'[k] < next_job_id'
                     /\ Head(to_worker) < next_job_id
<1>1. to_worker \in Seq(JobIds \cup {DESTROY})
  BY DEF TypeOK
<1>2. \A k \in DOMAIN to_worker : to_worker[k] < next_job_id
  BY DEF CancelParts, QueuedIsCreated
<1>3. ASSUME NEW id \in JobIds \cup {DESTROY}, id < next_job_id,
             to_worker' = Append(to_worker, id)
      PROVE  \A k \in DOMAIN to_worker' : to_worker'[k] < next_job_id
  BY <1>1, <1>2, <1>3, AppendProperties
<1>4. ASSUME to_worker # << >>, to_worker' = Tail(to_worker)
      PROVE  /\ \A k \in DOMAIN to_worker' : to_worker'[k] < next_job_id
             /\ Head(to_worker) < next_job_id
  BY <1>1, <1>2, <1>4, HeadTailProperties
<1> QED BY <1>3, <1>4

\* The calls: cancel() only marks jobs that are not processed.
LEMMA CallCancel ==
    ASSUME CancelInv, NEW t \in Threads, ClientCall(t)
    PROVE  CancelParts'
<1>0. TypeOK /\ CancelParts /\ call \in [Threads -> Call]
  BY DEF CancelInv, TypeInv, TypeOK
<1>1. ASSUME NEW void \in BOOLEAN, NEW arg \in BOOLEAN, ExecuteBegin(t, void, arg)
      PROVE  CancelParts'
  BY <1>1, ExecuteStep
<1>2. ASSUME NEW id \in JobIds, Cancel(t, id)
      PROVE  CancelParts'
  <2>1. \A i \in JobIds : hist'[i].ran = hist[i].ran
    BY <1>0, <1>2, DestroyArgumentType DEF Cancel
  <2>2. \A i \in JobIds : job'[i] = job[i] \/ ~job[i].processed
    BY <1>0, <1>2 DEF Cancel, MayCancel, TypeOK
  <2> QED BY <1>2, <2>1, <2>2, StopStep DEF Cancel
<1>3. ASSUME NEW block \in BOOLEAN, IterateBegin(t, block)
      PROVE  CancelParts'
  BY <1>0, <1>3, CalmStep DEF IterateBegin
<1>4. ASSUME NEW id \in JobIds, NEW block \in BOOLEAN, FetchBegin(t, id, block)
      PROVE  CancelParts'
  BY <1>0, <1>4, CalmStep DEF FetchBegin
<1>5. CASE GetIoChannel(t) \/ UnsetIoChannel(t)
  BY <1>0, <1>5, CalmStep DEF GetIoChannel, UnsetIoChannel
<1> QED BY <1>1, <1>2, <1>3, <1>4, <1>5 DEF ClientCall

\* The steps within a call execute and cancel nothing.
LEMMA ClientStepCancel ==
    ASSUME CancelInv, NEW t \in Threads, ClientStep(t)
    PROVE  CancelParts'
<1>0. TypeOK /\ CancelParts /\ call \in [Threads -> Call] /\ Idle.at # "push"
  BY DEF CancelInv, TypeInv, TypeOK, Idle
<1>1. CASE ExecutePush(t)
  <2>1. call[t].id \in JobIds \cup {DESTROY} /\ call[t].id < next_job_id
    BY <1>0, <1>1 DEF ExecutePush, CancelParts, QueuedIsCreated, Call, DESTROY
  <2>2. \A k \in DOMAIN to_worker' : to_worker'[k] < next_job_id'
    BY <1>0, <1>1, <2>1, QueueStep DEF ExecutePush
  <2>3. \A u \in Threads : call'[u].at = "push" => call'[u] = call[u]
    BY <1>0, <1>1 DEF ExecutePush, Return
  <2> QED BY <1>0, <1>1, <2>2, <2>3
          DEF ExecutePush, CancelParts, NoneRanYet, RanIsProcessed, RunningIsProcessed,
              QueuedIsCreated
<1>2. CASE PopNothing(t)
  BY <1>0, <1>2, CalmStep DEF PopNothing, Return
<1>3. CASE PopVoid(t)
  <2>1. Head(from_worker[t]) \in JobIds
    BY <1>0, <1>3, PopType DEF PopVoid
  <2> QED BY <1>0, <1>3, <2>1, JobFreeType, CalmStep DEF PopVoid
<1>4. CASE PopResult(t)
  <2>1. LookAgain(t).at # "push"
    BY <1>0 DEF LookAgain, Call
  <2> QED BY <1>0, <1>4, <2>1, CalmStep DEF PopResult
<1>5. CASE PopNotificationError(t)
  <2>1. [call[t] EXCEPT !.at = "look"].at # "push"
    BY <1>0 DEF Call
  <2> QED BY <1>0, <1>5, <2>1, CalmStep DEF PopNotificationError
<1>6. CASE FetchFound(t)
  <2>1. call[t].id \in JobIds
    BY <1>0, <1>6 DEF FetchFound, TypeOK, ThreadData
  <2> QED BY <1>0, <1>6, <2>1, JobFreeType, CalmStep DEF FetchFound, Return
<1>7. CASE FetchNotFound(t)
  BY <1>0, <1>7, CalmStep DEF FetchNotFound, Call
<1> QED BY <1>1, <1>2, <1>3, <1>4, <1>5, <1>6, <1>7 DEF ClientStep

\* The worker takes a job it will execute only when it was not cancelled, and
\* counts an execution only of the job it took.
LEMMA WorkerCancel ==
    ASSUME CancelInv, WorkerStep \/ WorkerFinish
    PROVE  CancelParts'
<1>0. TypeOK /\ CancelParts /\ job \in [JobIds -> Job] /\ next_job_id \in Nat
  BY DEF CancelInv, TypeInv, TypeOK
<1>1. CASE WorkerPop
  <2>1. PICK id \in JobIds :
          /\ WorkerTakes(id)
          /\ job' = [job EXCEPT ![id].processed = TRUE]
          /\ IF Dropped(id)
             THEN JobFree(id) /\ UNCHANGED <<wpc, cur>>
             ELSE wpc' = "run" /\ cur' = id /\ UNCHANGED hist
          /\ UNCHANGED <<next_job_id, td, from_worker, pipe, unread, call, dispose>>
    BY <1>1 DEF WorkerPop
  <2>2. wpc = "pop" /\ id < next_job_id /\ \A k \in DOMAIN to_worker' : to_worker'[k] < next_job_id'
    BY <1>0, <2>1, QueueStep DEF WorkerTakes
  <2>3. \A i \in JobIds : hist'[i].ran = hist[i].ran
    BY <1>0, <2>1, JobFreeType
  <2>4. /\ job'[id].processed
        /\ \A i \in JobIds : job'[i].cancelled = job[i].cancelled
        /\ \A i \in JobIds \ {id} : job'[i] = job[i]
    BY <1>0, <2>1 DEF Job
  <2>5. NoneRanYet' /\ QueuedIsCreated'
    BY <1>0, <2>1, <2>2, <2>3 DEF CancelParts, NoneRanYet, QueuedIsCreated
  <2>6. RanIsProcessed'
    BY <1>0, <2>3, <2>4 DEF CancelParts, RanIsProcessed
  <2>7. RunningIsProcessed'
    BY <2>1, <2>2, <2>4 DEF Dropped, RunningIsProcessed
  <2> QED BY <2>5, <2>6, <2>7 DEF CancelParts
<1>2. CASE WorkerExit
  <2>1. \A k \in DOMAIN to_worker' : to_worker'[k] < next_job_id'
    BY <1>0, <1>2, QueueStep DEF WorkerExit, WorkerTakes
  <2> QED BY <1>0, <1>2, <2>1
          DEF WorkerExit, CancelParts, NoneRanYet, RanIsProcessed, RunningIsProcessed,
              QueuedIsCreated
<1>3. CASE WorkerNotify \/ WorkerNotifyFails \/ WorkerReport
  <2>1. wpc' # "run" /\ UNCHANGED <<next_job_id, job, to_worker, call, hist>>
    BY <1>3 DEF WorkerNotify, WorkerNotifyFails, WorkerReport
  <2> QED BY <1>0, <2>1
          DEF CancelParts, NoneRanYet, RanIsProcessed, RunningIsProcessed, QueuedIsCreated
<1>4. CASE WorkerFinish
  <2>1. /\ cur \in JobIds /\ cur \in Nat /\ cur < next_job_id
        /\ job[cur].processed /\ ~job[cur].cancelled
    BY <1>4 DEF WorkerFinish, CancelInv, TypeInv, WorkerHoldsJob, CancelParts,
                RunningIsProcessed, JobIds
  <2>2. \A i \in JobIds \ {cur} : hist'[i] = hist[i]
    BY <1>0, <1>4, <2>1, RanType DEF WorkerFinish
  <2>3. NoneRanYet'
    <3> SUFFICES ASSUME NEW i \in JobIds, i >= next_job_id PROVE hist'[i].ran = 0
      BY <1>4 DEF WorkerFinish, NoneRanYet
    <3>1. i # cur
      BY <1>0, <2>1 DEF JobIds
    <3> QED BY <1>0, <2>2, <3>1 DEF CancelParts, NoneRanYet
  <2>4. RanIsProcessed'
    BY <1>0, <1>4, <2>1, <2>2 DEF WorkerFinish, CancelParts, RanIsProcessed
  <2>5. RunningIsProcessed' /\ QueuedIsCreated'
    BY <1>0, <1>4 DEF WorkerFinish, CancelParts, RunningIsProcessed, QueuedIsCreated
  <2> QED BY <2>3, <2>4, <2>5 DEF CancelParts
<1> QED BY <1>1, <1>2, <1>3, <1>4 DEF WorkerStep

\* dispose() stops only jobs that were not taken.
LEMMA DisposeCancel ==
    ASSUME CancelInv, DisposePush \/ DisposeClean
    PROVE  CancelParts'
<1>0. TypeOK /\ CancelParts /\ hist \in [JobIds -> Fate] /\ 0 < next_job_id
  BY DEF CancelInv, TypeInv, TypeOK
<1>1. CASE DisposePush
  <2>1. \A k \in DOMAIN to_worker' : to_worker'[k] < next_job_id'
    BY <1>0, <1>1, QueueStep DEF DisposePush, TellWorker, DESTROY
  <2> QED BY <1>0, <1>1, <2>1
          DEF DisposePush, CancelParts, NoneRanYet, RanIsProcessed, RunningIsProcessed,
              QueuedIsCreated
<1>2. CASE DisposeClean
  <2>1. ASSUME NEW i \in JobIds
        PROVE  hist'[i].ran = hist[i].ran
    <3> DEFINE m == hist[i].destroyed + Times(job[i].arg)
               n == hist[i].freed + Times(i \in UNION {td[t].results : t \in Threads})
    <3>1. hist'[i] = [hist[i] EXCEPT !.destroyed = m, !.freed = n] \/ hist'[i] = hist[i]
      BY <1>2 DEF DisposeClean
    <3>2. hist[i] \in Fate
      BY <1>0
    <3> HIDE DEF m, n
    <3>3. [hist[i] EXCEPT !.destroyed = m, !.freed = n].ran = hist[i].ran
      BY <3>2 DEF Fate
    <3> QED BY <3>1, <3>3
  <2>2. \A i \in JobIds : job'[i] = job[i] \/ ~job[i].processed
    BY <1>2 DEF DisposeClean
  <2> QED BY <1>2, <2>1, <2>2, StopStep DEF DisposeClean
<1> QED BY <1>1, <1>2

\* Every step keeps the invariant.
LEMMA NextCancel == CancelInv /\ [Next]_vars => CancelInv'
<1> SUFFICES ASSUME CancelInv, [Next]_vars PROVE CancelInv'
  OBVIOUS
<1>1. TypeInv'
  BY NextType DEF CancelInv
<1>2. ASSUME NEW t \in Threads, ReadNotification(t)
      PROVE  CancelParts'
  <2>1. UNCHANGED <<next_job_id, job, to_worker, wpc, cur>> /\ hist' = hist /\ call' = call
    BY <1>2 DEF ReadNotification
  <2> QED BY <2>1, CalmStep DEF CancelInv
<1>3. ASSUME UNCHANGED vars
      PROVE  CancelParts'
  <2>1. UNCHANGED <<next_job_id, job, to_worker, wpc, cur>> /\ hist' = hist /\ call' = call
    BY <1>3 DEF vars
  <2> QED BY <2>1, CalmStep DEF CancelInv
<1>4. CancelParts'
  BY <1>2, <1>3, CallCancel, ClientStepCancel, InlineStep, WorkerCancel, DisposeCancel
     DEF Next
<1> QED BY <1>1, <1>4 DEF CancelInv

\* gda_thread_wrapper_cancel(): once it returned TRUE, and for the jobs stopped
\* when the object is disposed, the function is not executing and never will be,
\* whatever the number of threads and jobs.
THEOREM CancelledNeverExecuted == Spec => []CancelExcludesExecution
BY InitCancel, NextCancel, CancelInvImplies, PTL DEF Spec

-----------------------------------------------------------------------------
(* The places of a job.  A job goes from the hands of its submitter to     *)
(* to_worker, to the worker, to the reply queue of its submitter and to    *)
(* the results, or leaves on the way when it is cancelled.  It is in one   *)
(* place at a time, as the marks it has got there show: `processed' once   *)
(* the worker took it, `ran' once it was executed.                         *)

InWorkerQueue ==
    /\ \A k \in DOMAIN to_worker :
          to_worker[k] # DESTROY => /\ ~job[to_worker[k]].processed
                                    /\ hist[to_worker[k]].freed = 0
    /\ \A k, l \in DOMAIN to_worker :
          to_worker[k] = to_worker[l] /\ to_worker[k] # DESTROY => k = l

BeingPushed ==
    \A t \in Threads :
       call[t].at = "push" =>
         /\ call[t].id # DESTROY /\ job[call[t].id].owner = t
         /\ ~job[call[t].id].processed /\ hist[call[t].id].freed = 0
         /\ \A k \in DOMAIN to_worker : to_worker[k] # call[t].id

BeingExecuted == wpc = "run" => hist[cur].ran = 0 /\ hist[cur].freed = 0

\* A reply that waits for the thread t which submitted job i.
Replied(t, i) == /\ i < next_job_id /\ job[i].owner = t
                 /\ hist[i].ran > 0 /\ hist[i].freed = 0
                 /\ i \notin td[t].results

InReplyQueue ==
    \A t \in Threads :
       /\ \A k \in DOMAIN from_worker[t] :
             from_worker[t][k] # NOTIFICATION_ERROR => Replied(t, from_worker[t][k])
       /\ \A k, l \in DOMAIN from_worker[t] :
             from_worker[t][k] = from_worker[t][l] /\ from_worker[t][k] # NOTIFICATION_ERROR
               => k = l

InThreadData ==
    \A t \in Threads, i \in JobIds :
       /\ i \in td[t].jobs => /\ i < next_job_id /\ job[i].owner = t /\ hist[i].freed = 0
                              /\ ~job[i].cancelled /\ i \notin td[t].results
       /\ i \in td[t].results => /\ i < next_job_id /\ job[i].owner = t /\ hist[i].freed = 0
                                 /\ hist[i].ran > 0

\* What was done to the memory of a job.
Accounts ==
    \A i \in JobIds :
       /\ hist[i].freed <= 1 /\ hist[i].destroyed <= 1
       /\ hist[i].destroyed > 0 => job[i].cancelled \/ hist[i].freed > 0
       /\ job[i].cancelled => ~job[i].arg
       /\ i >= next_job_id => hist[i].freed = 0 /\ hist[i].destroyed = 0

PlaceParts == /\ InWorkerQueue /\ BeingPushed /\ BeingExecuted
              /\ InReplyQueue /\ InThreadData /\ Accounts

PlaceInv == CancelInv /\ PlaceParts

\* The counters of the history.
LEMMA FateType ==
    ASSUME TypeOK, NEW i \in JobIds
    PROVE  hist[i].ran \in Nat /\ hist[i].destroyed \in Nat /\ hist[i].freed \in Nat
<1>1. hist[i] \in Fate
  BY DEF TypeOK
<1> QED BY <1>1 DEF Fate

\* Nothing leads to a freed job, and destroyed arguments are counted in the accounts.
LEMMA PlaceInvImplies == PlaceInv => NoDanglingJob /\ ArgumentDestroyedOnce
<1> SUFFICES ASSUME PlaceInv PROVE NoDanglingJob /\ ArgumentDestroyedOnce
  OBVIOUS
<1> USE DEF PlaceInv, PlaceParts
<1>1. TypeOK /\ WorkerHoldsJob /\ CancelParts
  BY DEF CancelInv, TypeInv
<1>2. \A i \in JobIds : i # DESTROY /\ i # NOTIFICATION_ERROR
  BY DEF JobIds, DESTROY, NOTIFICATION_ERROR
<1>3. ASSUME NEW i \in Reachable
      PROVE  hist[i].freed = 0
  BY <1>1, <1>2 DEF Reachable, InWorkerQueue, BeingPushed, BeingExecuted, InReplyQueue, Replied, InThreadData
<1>4. ASSUME wpc = "run"
      PROVE  hist[cur].destroyed = 0
  <2>1. cur \in JobIds /\ ~job[cur].cancelled /\ hist[cur].freed = 0
    BY <1>1, <1>4 DEF WorkerHoldsJob, CancelParts, RunningIsProcessed, BeingExecuted
  <2>2. hist[cur].destroyed \in Nat
    BY <1>1, <2>1, FateType
  <2> QED BY <2>1, <2>2 DEF Accounts
<1> QED BY <1>3, <1>4 DEF NoDanglingJob, ArgumentDestroyedOnce, Accounts

\* No job is anywhere.
LEMMA InitPlaces == Init => PlaceInv
<1> SUFFICES ASSUME Init PROVE PlaceParts
  BY InitCancel DEF PlaceInv
<1>1. InWorkerQueue /\ BeingPushed /\ BeingExecuted /\ InReplyQueue
  BY DEF Init, InWorkerQueue, BeingPushed, BeingExecuted, InReplyQueue, Replied, Idle
<1>2. InThreadData /\ Accounts
  BY DEF Init, InThreadData, Accounts, NoData, NoJob
<1> QED BY <1>1, <1>2 DEF PlaceParts

-----------------------------------------------------------------------------
(* What a push at the tail and a pop at the head do to a list.             *)

\* A push at the tail.
LEMMA Appended ==
    ASSUME NEW S, NEW s \in Seq(S), NEW e \in S
    PROVE  /\ Append(s, e) \in Seq(S)
           /\ DOMAIN Append(s, e) = DOMAIN s \cup {Len(s) + 1}
           /\ Len(s) + 1 \notin DOMAIN s
           /\ \A k \in DOMAIN s : Append(s, e)[k] = s[k]
           /\ Append(s, e)[Len(s) + 1] = e
<1>1. Len(s) \in Nat /\ DOMAIN s = 1 .. Len(s)
  BY LenProperties
<1>2. /\ Append(s, e) \in Seq(S) /\ Len(Append(s, e)) = Len(s) + 1
      /\ \A k \in 1 .. Len(s) : Append(s, e)[k] = s[k]
      /\ Append(s, e)[Len(s) + 1] = e
  BY AppendProperties
<1>3. DOMAIN Append(s, e) = 1 .. Len(s) + 1
  BY <1>2, LenProperties
<1> QED BY <1>1, <1>2, <1>3

\* A pop at the head.
LEMMA Popped ==
    ASSUME NEW S, NEW s \in Seq(S), s # << >>
    PROVE  /\ Tail(s) \in Seq(S)
           /\ 1 \in DOMAIN s /\ s[1] = Head(s)
           /\ \A k \in DOMAIN Tail(s) : /\ k + 1 \in DOMAIN s /\ k + 1 # 1 /\ k \in Nat
                                        /\ Tail(s)[k] = s[k + 1]
<1>1. Len(s) \in Nat /\ DOMAIN s = 1 .. Len(s) /\ Len(s) # 0
  BY LenProperties, EmptySeq
<1>2. /\ Tail(s) \in Seq(S) /\ Len(Tail(s)) = Len(s) - 1
      /\ \A k \in 1 .. Len(Tail(s)) : Tail(s)[k] = s[k + 1]
  BY HeadTailProperties
<1>3. DOMAIN Tail(s) = 1 .. Len(s) - 1
  BY <1>2, LenProperties
<1>4. Head(s) = s[1]
  BY <1>1
<1> QED BY <1>1, <1>2, <1>3, <1>4

\* The queues and lists hold jobs, but for the two reserved numbers.
LEMMA Elements ==
    ASSUME TypeOK
    PROVE  /\ \A k \in DOMAIN to_worker : to_worker[k] # DESTROY => to_worker[k] \in JobIds
           /\ \A t \in Threads : \A k \in DOMAIN from_worker[t] :
                from_worker[t][k] # NOTIFICATION_ERROR => from_worker[t][k] \in JobIds
           /\ \A t \in Threads : call[t].id # DESTROY => call[t].id \in JobIds
           /\ \A t \in Threads : td[t].jobs \subseteq JobIds /\ td[t].results \subseteq JobIds
<1>1. ASSUME NEW k \in DOMAIN to_worker
      PROVE  to_worker[k] \in JobIds \cup {DESTROY}
  BY LenProperties, ElementOfSeq DEF TypeOK
<1>2. ASSUME NEW t \in Threads, NEW k \in DOMAIN from_worker[t]
      PROVE  from_worker[t][k] \in JobIds \cup {NOTIFICATION_ERROR}
  <2>1. from_worker[t] \in Seq(JobIds \cup {NOTIFICATION_ERROR})
    BY DEF TypeOK
  <2> QED BY <2>1, LenProperties, ElementOfSeq
<1>3. ASSUME NEW t \in Threads
      PROVE  call[t] \in Call /\ td[t] \in ThreadData
  BY DEF TypeOK
<1> QED BY <1>1, <1>2, <1>3 DEF Call, ThreadData, DESTROY

\* job_free() touches the history of its job only.
LEMMA FreedEffect ==
    ASSUME TypeOK, NEW id \in JobIds, JobFree(id)
    PROVE  /\ \A i \in JobIds \ {id} : hist'[i] = hist[i]
           /\ hist'[id].ran = hist[id].ran
           /\ hist'[id].freed = hist[id].freed + 1
           /\ hist'[id].destroyed = hist[id].destroyed + Times(job[id].arg)
<1>1. hist \in [JobIds -> Fate] /\ hist[id] \in Fate
  BY DEF TypeOK
<1>2. hist' = [hist EXCEPT ![id] = Freed(id)]
  BY DEF JobFree
<1>3. /\ Freed(id).ran = hist[id].ran
      /\ Freed(id).freed = hist[id].freed + 1
      /\ Freed(id).destroyed = hist[id].destroyed + Times(job[id].arg)
  BY <1>1 DEF Freed, Fate
<1> QED BY <1>1, <1>2, <1>3

-----------------------------------------------------------------------------
(* Steps that keep jobs where they are, or take some away.                 *)

Shrinks(old, new) == \/ new = old
                     \/ old # << >> /\ new = Tail(old)

\* Nothing is added to a list, a set or the hands of a thread.
NothingMoves ==
    /\ next_job_id' = next_job_id
    /\ Shrinks(to_worker, to_worker')
    /\ \A t \in Threads :
          /\ Shrinks(from_worker[t], from_worker'[t])
          /\ td'[t].jobs \subseteq td[t].jobs /\ td'[t].results \subseteq td[t].results
          /\ call'[t].at = "push" => call'[t] = call[t]
    /\ wpc' = "run" => wpc = "run" /\ cur' = cur

\* Each element of a list that shrank was there before, at one other place.
LEMMA ShrunkElements ==
    ASSUME NEW S, NEW old \in Seq(S), NEW new, Shrinks(old, new)
    PROVE  \E d \in {0, 1} : \A k \in DOMAIN new : /\ k \in Nat /\ k + d \in DOMAIN old
                                                   /\ new[k] = old[k + d]
<1>1. CASE new = old
  <2>1. \A k \in DOMAIN new : k \in Nat /\ k + 0 \in DOMAIN old /\ new[k] = old[k + 0]
    BY <1>1, LenProperties
  <2> QED BY <2>1
<1>2. CASE old # << >> /\ new = Tail(old)
  BY <1>2, Popped
<1> QED BY <1>1, <1>2 DEF Shrinks

\* A step that moves no job and changes none.
LEMMA CalmPlaces ==
    ASSUME PlaceInv, NothingMoves, job' = job, hist' = hist
    PROVE  PlaceParts'
<1> USE DEF PlaceInv, PlaceParts
<1>0. TypeOK
  BY DEF CancelInv, TypeInv
<1>1. InWorkerQueue'
  <2>1. to_worker \in Seq(JobIds \cup {DESTROY})
    BY <1>0 DEF TypeOK
  <2>2. PICK d \in {0, 1} : \A k \in DOMAIN to_worker' :
           k \in Nat /\ k + d \in DOMAIN to_worker /\ to_worker'[k] = to_worker[k + d]
    BY <2>1, ShrunkElements DEF NothingMoves
  <2> QED BY <2>2 DEF InWorkerQueue
<1>2. BeingPushed'
  <2>1. to_worker \in Seq(JobIds \cup {DESTROY})
    BY <1>0 DEF TypeOK
  <2>2. PICK d \in {0, 1} : \A k \in DOMAIN to_worker' :
           k \in Nat /\ k + d \in DOMAIN to_worker /\ to_worker'[k] = to_worker[k + d]
    BY <2>1, ShrunkElements DEF NothingMoves
  <2> QED BY <2>2 DEF BeingPushed, NothingMoves
<1>3. BeingExecuted'
  BY DEF BeingExecuted, NothingMoves
<1>4. InReplyQueue'
  <2> SUFFICES ASSUME NEW t \in Threads
               PROVE  /\ \A k \in DOMAIN from_worker'[t] :
                           from_worker'[t][k] # NOTIFICATION_ERROR =>
                             /\ from_worker'[t][k] < next_job_id
                             /\ job[from_worker'[t][k]].owner = t
                             /\ hist[from_worker'[t][k]].ran > 0
                             /\ hist[from_worker'[t][k]].freed = 0
                             /\ from_worker'[t][k] \notin td'[t].results
                      /\ \A k, l \in DOMAIN from_worker'[t] :
                           from_worker'[t][k] = from_worker'[t][l]
                             /\ from_worker'[t][k] # NOTIFICATION_ERROR => k = l
    BY DEF InReplyQueue, Replied, NothingMoves
  <2>1. from_worker[t] \in Seq(JobIds \cup {NOTIFICATION_ERROR})
    BY <1>0 DEF TypeOK
  <2>2. PICK d \in {0, 1} : \A k \in DOMAIN from_worker'[t] :
           /\ k \in Nat /\ k + d \in DOMAIN from_worker[t]
           /\ from_worker'[t][k] = from_worker[t][k + d]
    BY <2>1, ShrunkElements DEF NothingMoves
  <2>3. td'[t].results \subseteq td[t].results
    BY DEF NothingMoves
  <2> QED BY <2>2, <2>3 DEF InReplyQueue, Replied
<1>5. InThreadData'
  BY DEF InThreadData, NothingMoves
<1>6. Accounts'
  BY DEF Accounts, NothingMoves
<1> QED BY <1>1, <1>2, <1>3, <1>4, <1>5, <1>6

\* A job is freed and left nowhere.
LEMMA FreePlaces ==
    ASSUME PlaceInv, NothingMoves, NEW id \in JobIds, id < next_job_id,
           hist[id].freed = 0, JobFree(id),
           \A i \in JobIds \ {id} : job'[i] = job[i],
           job'[id].cancelled = job[id].cancelled, job'[id].arg = job[id].arg,
           \A k \in DOMAIN to_worker' : to_worker'[k] # id,
           \A t \in Threads : /\ call'[t].at = "push" => call'[t].id # id
                              /\ \A k \in DOMAIN from_worker'[t] : from_worker'[t][k] # id
                              /\ id \notin td'[t].jobs \cup td'[t].results,
           ~(wpc' = "run" /\ cur' = id)
    PROVE  PlaceParts'
<1> USE DEF PlaceInv, PlaceParts
<1>0. TypeOK /\ WorkerHoldsJob
  BY DEF CancelInv, TypeInv
<1>1. \A i \in JobIds \ {id} : hist'[i] = hist[i] /\ job'[i] = job[i]
  BY <1>0, FreedEffect
<1>2. hist'[id].freed = 1 /\ hist'[id].destroyed = hist[id].destroyed + Times(job[id].arg)
  BY <1>0, FreedEffect
<1>3. InWorkerQueue' /\ BeingPushed'
  <2>1. to_worker \in Seq(JobIds \cup {DESTROY})
    BY <1>0 DEF TypeOK
  <2>2. PICK d \in {0, 1} : \A k \in DOMAIN to_worker' :
           k \in Nat /\ k + d \in DOMAIN to_worker /\ to_worker'[k] = to_worker[k + d]
    BY <2>1, ShrunkElements DEF NothingMoves
  <2>3. InWorkerQueue'
    BY <1>0, <1>1, <2>2, Elements DEF InWorkerQueue
  <2>4. BeingPushed'
    <3> SUFFICES ASSUME NEW t \in Threads, call'[t].at = "push"
                 PROVE  /\ call'[t].id # DESTROY /\ job'[call'[t].id].owner = t
                        /\ ~job'[call'[t].id].processed /\ hist'[call'[t].id].freed = 0
                        /\ \A k \in DOMAIN to_worker' : to_worker'[k] # call'[t].id
      BY DEF BeingPushed
    <3>1. call'[t] = call[t] /\ call[t].id \in JobIds \ {id}
      BY <1>0, Elements DEF NothingMoves, BeingPushed
    <3> QED BY <1>1, <2>2, <3>1 DEF BeingPushed
  <2> QED BY <2>3, <2>4
<1>4. BeingExecuted'
  BY <1>0, <1>1 DEF BeingExecuted, NothingMoves, WorkerHoldsJob
<1>5. InReplyQueue'
  <2> SUFFICES ASSUME NEW t \in Threads
               PROVE  /\ \A k \in DOMAIN from_worker'[t] :
                           from_worker'[t][k] # NOTIFICATION_ERROR =>
                             /\ from_worker'[t][k] < next_job_id
                             /\ job'[from_worker'[t][k]].owner = t
                             /\ hist'[from_worker'[t][k]].ran > 0
                             /\ hist'[from_worker'[t][k]].freed = 0
                             /\ from_worker'[t][k] \notin td'[t].results
                      /\ \A k, l \in DOMAIN from_worker'[t] :
                           from_worker'[t][k] = from_worker'[t][l]
                             /\ from_worker'[t][k] # NOTIFICATION_ERROR => k = l
    BY DEF InReplyQueue, Replied, NothingMoves
  <2>1. from_worker[t] \in Seq(JobIds \cup {NOTIFICATION_ERROR})
    BY <1>0 DEF TypeOK
  <2>2. PICK d \in {0, 1} : \A k \in DOMAIN from_worker'[t] :
           /\ k \in Nat /\ k + d \in DOMAIN from_worker[t]
           /\ from_worker'[t][k] = from_worker[t][k + d]
    BY <2>1, ShrunkElements DEF NothingMoves
  <2>3. td'[t].results \subseteq td[t].results
    BY DEF NothingMoves
  <2>4. ASSUME NEW k \in DOMAIN from_worker'[t], from_worker'[t][k] # NOTIFICATION_ERROR
        PROVE  from_worker'[t][k] \in JobIds \ {id}
    BY <1>0, <2>2, <2>4, Elements
  <2> QED BY <1>1, <2>2, <2>3, <2>4 DEF InReplyQueue, Replied
<1>6. InThreadData'
  <2> SUFFICES ASSUME NEW t \in Threads, NEW i \in JobIds, i \in td'[t].jobs \cup td'[t].results
               PROVE  /\ i \in td'[t].jobs => /\ i < next_job_id' /\ job'[i].owner = t
                                              /\ hist'[i].freed = 0 /\ ~job'[i].cancelled
                                              /\ i \notin td'[t].results
                      /\ i \in td'[t].results => /\ i < next_job_id' /\ job'[i].owner = t
                                                 /\ hist'[i].freed = 0 /\ hist'[i].ran > 0
    BY DEF InThreadData
  <2>1. i # id
    OBVIOUS
  <2> QED BY <1>1, <2>1 DEF InThreadData, NothingMoves
<1>7. Accounts'
  <2>1. next_job_id' = next_job_id
    BY DEF NothingMoves
  <2>2. ASSUME NEW i \in JobIds, i # id
        PROVE  /\ hist'[i].freed <= 1 /\ hist'[i].destroyed <= 1
               /\ hist'[i].destroyed > 0 => job'[i].cancelled \/ hist'[i].freed > 0
               /\ job'[i].cancelled => ~job'[i].arg
               /\ i >= next_job_id' => hist'[i].freed = 0 /\ hist'[i].destroyed = 0
    BY <1>1, <2>1, <2>2 DEF Accounts
  <2>3. hist'[id].destroyed <= 1
    BY <1>0, <1>2, FateType DEF Accounts, Times
  <2>4. job'[id].cancelled => ~job'[id].arg
    BY DEF Accounts
  <2>5. ~(id >= next_job_id')
    BY <1>0, <2>1 DEF TypeOK, JobIds
  <2> QED BY <1>2, <2>2, <2>3, <2>4, <2>5 DEF Accounts
<1> QED BY <1>3, <1>4, <1>5, <1>6, <1>7

-----------------------------------------------------------------------------
(* Submissions.                                                            *)

\* A new job: nothing refers to its identifier yet, the other jobs are as
\* before, and only the lists of its submitter may grow by it.
LEMMA SubmitPlaces ==
    ASSUME PlaceInv, NEW t \in Threads, NEW void \in BOOLEAN, NEW arg \in BOOLEAN,
           Submit(t, void, arg)
    PROVE  LET n == next_job_id IN
           /\ n \in JobIds /\ n \in Nat /\ n' = n + 1
           /\ hist[n].freed = 0 /\ hist[n].destroyed = 0 /\ hist[n].ran = 0
           /\ job'[n].owner = t /\ ~job'[n].cancelled /\ (job'[n].processed <=> t = Worker)
           /\ \A i \in JobIds \ {n} : job'[i] = job[i]
           /\ \A k \in DOMAIN to_worker : to_worker[k] # n
           /\ \A u \in Threads : /\ td'[u].jobs \subseteq td[u].jobs \cup (IF u = t THEN {n} ELSE {})
                                 /\ td'[u].results \subseteq td[u].results
                                 /\ n \notin td[u].jobs \cup td[u].results
                                 /\ \A k \in DOMAIN from_worker[u] : from_worker[u][k] # n
                                 /\ call[u].at = "push" => call[u].id # n
           /\ wpc = "run" => cur # n
<1> DEFINE n == next_job_id
<1> USE DEF PlaceInv, PlaceParts
<1>0. TypeOK /\ CancelParts /\ td \in [Threads -> ThreadData] /\ job \in [JobIds -> Job]
  BY DEF CancelInv, TypeInv, TypeOK
<1>1. n \in JobIds /\ n \in Nat /\ n' = n + 1
  BY SubmitStep DEF JobIds
<1>2. hist[n].freed = 0 /\ hist[n].destroyed = 0 /\ hist[n].ran = 0
  BY <1>0, <1>1 DEF Accounts, CancelParts, NoneRanYet
<1>3. /\ job'[n].owner = t /\ ~job'[n].cancelled /\ (job'[n].processed <=> t = Worker)
      /\ \A i \in JobIds \ {n} : job'[i] = job[i]
  BY <1>0, <1>1 DEF Submit, NewJob
<1>4. /\ \A k \in DOMAIN to_worker : to_worker[k] # n
      /\ wpc = "run" => cur # n
      /\ \A u \in Threads : call[u].at = "push" => call[u].id # n
  BY <1>0, <1>1 DEF CancelParts, QueuedIsCreated, RunningIsProcessed
<1>5. ASSUME NEW u \in Threads
      PROVE  /\ td'[u].jobs \subseteq td[u].jobs \cup (IF u = t THEN {n} ELSE {})
             /\ td'[u].results \subseteq td[u].results
  <2>1. CASE u # t
    BY <1>0, <2>1 DEF Submit
  <2>2. CASE u = t
    <3>1. ThreadDataOf(t) \in ThreadData
      BY <1>0, NewRecords
    <3>2. ThreadDataOf(t).jobs \subseteq td[t].jobs /\ ThreadDataOf(t).results \subseteq td[t].results
      BY <1>0 DEF ThreadDataOf, NoData, ThreadData
    <3>3. td'[t] = [ThreadDataOf(t) EXCEPT !.jobs = @ \cup {n}]
      BY <1>0 DEF Submit
    <3> QED BY <2>2, <3>1, <3>2, <3>3 DEF ThreadData
  <2> QED BY <2>1, <2>2
<1>6. ASSUME NEW u \in Threads
      PROVE  /\ n \notin td[u].jobs \cup td[u].results
             /\ \A k \in DOMAIN from_worker[u] : from_worker[u][k] # n
  BY <1>0, <1>1 DEF InThreadData, InReplyQueue, Replied, NOTIFICATION_ERROR, JobIds
<1> QED BY <1>1, <1>2, <1>3, <1>4, <1>5, <1>6

\* gda_thread_wrapper_execute() creates a job, which is in the hands of its submitter.
LEMMA ExecutePlaces ==
    ASSUME PlaceInv, NEW t \in Threads, NEW void \in BOOLEAN, NEW arg \in BOOLEAN,
           ExecuteBegin(t, void, arg)
    PROVE  PlaceParts'
<1> DEFINE n == next_job_id
<1> USE DEF PlaceInv, PlaceParts
<1>0. TypeOK /\ WorkerHoldsJob /\ call \in [Threads -> Call]
  BY DEF CancelInv, TypeInv, TypeOK
<1>1. /\ n \in JobIds /\ n \in Nat /\ n' = n + 1
      /\ hist[n].freed = 0 /\ hist[n].destroyed = 0 /\ hist[n].ran = 0
      /\ job'[n].owner = t /\ ~job'[n].cancelled /\ ~job'[n].processed
      /\ \A i \in JobIds \ {n} : job'[i] = job[i]
  BY SubmitPlaces DEF ExecuteBegin
<1>2. /\ \A k \in DOMAIN to_worker : to_worker[k] # n
      /\ wpc = "run" => cur # n
  BY SubmitPlaces DEF ExecuteBegin
<1>3. \A u \in Threads : /\ td'[u].jobs \subseteq td[u].jobs \cup (IF u = t THEN {n} ELSE {})
                         /\ td'[u].results \subseteq td[u].results
                         /\ n \notin td[u].jobs \cup td[u].results
                         /\ \A k \in DOMAIN from_worker[u] : from_worker[u][k] # n
                         /\ call[u].at = "push" => call[u].id # n
  BY SubmitPlaces DEF ExecuteBegin
<1>4. /\ UNCHANGED <<to_worker, from_worker, wpc, cur, hist>>
      /\ call'[t].id = n
      /\ \A u \in Threads \ {t} : call'[u] = call[u]
  BY <1>0 DEF ExecuteBegin
<1>5. InWorkerQueue'
  BY <1>0, <1>1, <1>2, <1>4, Elements DEF InWorkerQueue
<1>6. BeingPushed'
  <2>1. ASSUME NEW u \in Threads, call'[u].at = "push", u # t
        PROVE  call[u].id \in JobIds \ {n} /\ call'[u] = call[u]
    BY <1>0, <1>3, <1>4, <2>1, Elements DEF BeingPushed
  <2>2. n # DESTROY
    BY <1>1 DEF JobIds, DESTROY
  <2> SUFFICES ASSUME NEW u \in Threads, call'[u].at = "push"
               PROVE  /\ call'[u].id # DESTROY /\ job'[call'[u].id].owner = u
                      /\ ~job'[call'[u].id].processed /\ hist'[call'[u].id].freed = 0
                      /\ \A k \in DOMAIN to_worker' : to_worker'[k] # call'[u].id
    BY DEF BeingPushed
  <2>3. CASE u = t
    BY <1>1, <1>2, <1>4, <2>2, <2>3
  <2>4. CASE u # t
    <3>1. call'[u] = call[u] /\ call[u].id \in JobIds \ {n} /\ call[u].at = "push"
      BY <2>1, <2>4
    <3>2. job'[call[u].id] = job[call[u].id] /\ hist' = hist /\ to_worker' = to_worker
      BY <1>1, <1>4, <3>1
    <3> QED BY <3>1, <3>2 DEF BeingPushed
  <2> QED BY <2>3, <2>4
<1>7. BeingExecuted'
  BY <1>4 DEF BeingExecuted
<1>8. InReplyQueue'
  BY <1>0, <1>1, <1>3, <1>4, Elements DEF InReplyQueue, Replied, NOTIFICATION_ERROR, JobIds
<1>9. InThreadData'
  BY <1>0, <1>1, <1>3, <1>4 DEF InThreadData, JobIds
<1>10. Accounts'
  BY <1>0, <1>1, <1>4 DEF Accounts, JobIds
<1> QED BY <1>5, <1>6, <1>7, <1>8, <1>9, <1>10

\* A push on a reply queue, of a new reply or of a notification error.
LEMMA ReplyPushed ==
    ASSUME TypeOK, InReplyQueue, NEW o \in Threads, NEW e \in JobIds \cup {NOTIFICATION_ERROR},
           from_worker' = [from_worker EXCEPT ![o] = Append(@, e)],
           \A t \in Threads, i \in JobIds : Replied(t, i) => Replied(t, i)',
           e # NOTIFICATION_ERROR => /\ Replied(o, e)'
                                     /\ \A k \in DOMAIN from_worker[o] : from_worker[o][k] # e
    PROVE  InReplyQueue'
<1> DEFINE s == from_worker[o]
<1>1. from_worker \in [Threads -> Seq(JobIds \cup {NOTIFICATION_ERROR})]
  BY DEF TypeOK
<1>2. from_worker'[o] = Append(s, e) /\ \A u \in Threads \ {o} : from_worker'[u] = from_worker[u]
  BY <1>1
<1>3. /\ DOMAIN Append(s, e) = DOMAIN s \cup {Len(s) + 1} /\ Len(s) + 1 \notin DOMAIN s
      /\ \A k \in DOMAIN s : Append(s, e)[k] = s[k]
      /\ Append(s, e)[Len(s) + 1] = e
  BY <1>1, Appended
<1>4. ASSUME NEW t \in Threads, NEW k \in DOMAIN from_worker'[t], NEW i,
             i = from_worker'[t][k], i # NOTIFICATION_ERROR
      PROVE  Replied(t, i)'
  <2>1. CASE k \in DOMAIN from_worker[t] /\ i = from_worker[t][k]
    <3>1. i \in JobIds /\ Replied(t, i)
      BY <1>4, <2>1, Elements DEF InReplyQueue
    <3> QED BY <3>1
  <2>2. CASE t = o /\ i = e
    BY <1>4, <2>2
  <2> QED BY <1>2, <1>3, <1>4, <2>1, <2>2
<1>5. ASSUME NEW t \in Threads, NEW k \in DOMAIN from_worker'[t], NEW l \in DOMAIN from_worker'[t],
             from_worker'[t][k] = from_worker'[t][l], from_worker'[t][k] # NOTIFICATION_ERROR
      PROVE  k = l
  <2>1. CASE t = o
    BY <1>2, <1>3, <1>5, <2>1 DEF InReplyQueue
  <2>2. CASE t # o
    BY <1>2, <1>5, <2>2 DEF InReplyQueue
  <2> QED BY <2>1, <2>2
<1> HIDE DEF s
<1> QED BY <1>4, <1>5 DEF InReplyQueue

\* A function executed inside another one: its job is replied as it is made.
LEMMA InlinePlaces ==
    ASSUME PlaceInv, NEW void \in BOOLEAN, NEW arg \in BOOLEAN, ExecuteInline(void, arg)
    PROVE  PlaceParts'
<1> DEFINE n == next_job_id
<1> USE DEF PlaceInv, PlaceParts
<1>0. TypeOK /\ WorkerHoldsJob /\ Worker \in Threads /\ Submit(Worker, void, arg)
  BY DEF CancelInv, TypeInv, Threads, ExecuteInline
<1>1. /\ n \in JobIds /\ n \in Nat /\ n' = n + 1
      /\ hist[n].freed = 0 /\ hist[n].destroyed = 0 /\ hist[n].ran = 0
      /\ job'[n].owner = Worker /\ ~job'[n].cancelled
      /\ \A i \in JobIds \ {n} : job'[i] = job[i]
  BY <1>0, SubmitPlaces
<1>2. /\ \A k \in DOMAIN to_worker : to_worker[k] # n
      /\ wpc = "run" => cur # n
  BY <1>0, SubmitPlaces
<1>3. \A u \in Threads : /\ td'[u].jobs \subseteq td[u].jobs \cup (IF u = Worker THEN {n} ELSE {})
                         /\ td'[u].results \subseteq td[u].results
                         /\ n \notin td[u].jobs \cup td[u].results
                         /\ \A k \in DOMAIN from_worker[u] : from_worker[u][k] # n
                         /\ call[u].at = "push" => call[u].id # n
  BY <1>0, SubmitPlaces
<1>4. UNCHANGED <<to_worker, wpc, cur, call>>
  BY DEF ExecuteInline
<1>5. /\ \A i \in JobIds \ {n} : hist'[i] = hist[i]
      /\ hist'[n].freed = 0 /\ hist'[n].destroyed = 0 /\ hist'[n].ran > 0
  <2>1. hist \in [JobIds -> Fate] /\ hist[n] \in Fate
    BY <1>0, <1>1 DEF TypeOK
  <2>2. hist' = [hist EXCEPT ![n] = [hist[n] EXCEPT !.ran = @ + 1]]
    BY <2>1 DEF ExecuteInline
  <2> QED BY <1>1, <2>1, <2>2 DEF Fate
<1>6. InWorkerQueue'
  BY <1>0, <1>1, <1>2, <1>4, <1>5, Elements DEF InWorkerQueue
<1>7. BeingPushed'
  <2> SUFFICES ASSUME NEW u \in Threads, call[u].at = "push"
               PROVE  /\ call[u].id # DESTROY /\ job'[call[u].id].owner = u
                      /\ ~job'[call[u].id].processed /\ hist'[call[u].id].freed = 0
                      /\ \A k \in DOMAIN to_worker : to_worker[k] # call[u].id
    BY <1>4 DEF BeingPushed
  <2>1. call[u].id \in JobIds \ {n}
    BY <1>0, <1>3, Elements DEF BeingPushed
  <2>2. job'[call[u].id] = job[call[u].id] /\ hist'[call[u].id] = hist[call[u].id]
    BY <1>1, <1>5, <2>1
  <2> QED BY <2>2 DEF BeingPushed
<1>8. BeingExecuted'
  BY <1>0, <1>2, <1>4, <1>5 DEF BeingExecuted, WorkerHoldsJob
<1>9. InReplyQueue'
  <2>1. ASSUME NEW t \in Threads, NEW i \in JobIds, Replied(t, i)
        PROVE  Replied(t, i)'
    <3>1. i < n /\ i \in JobIds \ {n}
      BY <1>1, <2>1 DEF Replied, JobIds
    <3>2. i < n'
      BY <1>1, <3>1 DEF JobIds
    <3> QED BY <1>1, <1>3, <1>5, <2>1, <3>1, <3>2 DEF Replied
  <2>2. PICK m \in JobIds : m = n
    BY <1>1
  <2>3. Replied(Worker, m)'
    BY <1>0, <1>1, <1>3, <1>5, <2>2 DEF Replied
  <2>4. \A k \in DOMAIN from_worker[Worker] : from_worker[Worker][k] # m
    BY <1>0, <1>3, <2>2
  <2>5. from_worker' = [from_worker EXCEPT ![Worker] = Append(@, m)]
    BY <2>2 DEF ExecuteInline
  <2> QED BY <1>0, <2>1, <2>3, <2>4, <2>5, ReplyPushed
<1>10. InThreadData'
  BY <1>0, <1>1, <1>3, <1>4, <1>5 DEF InThreadData, JobIds
<1>11. Accounts'
  BY <1>0, <1>1, <1>4, <1>5 DEF Accounts, JobIds
<1> QED BY <1>6, <1>7, <1>8, <1>9, <1>10, <1>11

-----------------------------------------------------------------------------
(* Jobs that are stopped, and results that are freed.                      *)

\* A job that was executed is nowhere on its way to the worker.
LEMMA RanIsElsewhere ==
    ASSUME PlaceInv, NEW i \in JobIds, hist[i].ran > 0
    PROVE  /\ job[i].processed /\ ~job[i].cancelled
           /\ \A k \in DOMAIN to_worker : to_worker[k] # i
           /\ \A t \in Threads : call[t].at = "push" => call[t].id # i
           /\ ~(wpc = "run" /\ cur = i)
<1>1. CancelParts /\ PlaceParts
  BY DEF PlaceInv, CancelInv
<1>2. job[i].processed /\ ~job[i].cancelled
  BY <1>1 DEF CancelParts, RanIsProcessed
<1>3. i # DESTROY
  BY DEF JobIds, DESTROY
<1>4. \A k \in DOMAIN to_worker : to_worker[k] # i
  BY <1>1, <1>2, <1>3 DEF PlaceParts, InWorkerQueue
<1>5. \A t \in Threads : call[t].at = "push" => call[t].id # i
  BY <1>1, <1>2 DEF PlaceParts, BeingPushed
<1>6. ~(wpc = "run" /\ cur = i)
  BY <1>1 DEF PlaceParts, BeingExecuted
<1> QED BY <1>2, <1>4, <1>5, <1>6

\* cancel() and dispose: the jobs of S are stopped before the worker took them,
\* the results of R are freed, and no ThreadData leads to either any more.
LEMMA StopPlaces ==
    ASSUME PlaceInv, NothingMoves, NEW S \in SUBSET JobIds, NEW R \in SUBSET JobIds,
           \A i \in S : /\ i < next_job_id /\ ~job[i].processed /\ ~job[i].cancelled
                        /\ hist[i].freed = 0 /\ job'[i] = Stopped(job[i])
                        /\ \A t \in Threads : i \notin td'[t].jobs,
           \A i \in R : /\ i < next_job_id /\ hist[i].ran > 0 /\ hist[i].freed = 0
                        /\ \A t \in Threads :
                              /\ i \notin td'[t].jobs \cup td'[t].results
                              /\ \A k \in DOMAIN from_worker[t] : from_worker[t][k] # i,
           \A i \in JobIds \ S : job'[i] = job[i],
           \A i \in JobIds : /\ hist'[i].ran = hist[i].ran
                             /\ hist'[i].freed = hist[i].freed + Times(i \in R)
                             /\ i \in S \cup R =>
                                  hist'[i].destroyed = hist[i].destroyed + Times(job[i].arg)
                             /\ i \notin S \cup R => hist'[i].destroyed = hist[i].destroyed
    PROVE  PlaceParts'
<1>0. TypeOK /\ WorkerHoldsJob /\ CancelParts /\ PlaceParts /\ job \in [JobIds -> Job]
  BY DEF PlaceInv, CancelInv, TypeInv, TypeOK
<1>1. ASSUME NEW i \in JobIds
      PROVE  /\ job'[i].owner = job[i].owner /\ job'[i].processed = job[i].processed
             /\ i \notin S => job'[i].cancelled = job[i].cancelled /\ job'[i].arg = job[i].arg
             /\ i \in S => job'[i].cancelled /\ ~job'[i].arg
  <2>1. job[i] \in Job
    BY <1>0
  <2>2. /\ Stopped(job[i]).owner = job[i].owner /\ Stopped(job[i]).processed = job[i].processed
        /\ Stopped(job[i]).cancelled /\ ~Stopped(job[i]).arg
    BY <2>1 DEF Stopped, Job
  <2>3. CASE i \in S
    BY <2>2, <2>3
  <2>4. CASE i \notin S
    BY <2>4
  <2> QED BY <2>3, <2>4
<1>2. ASSUME NEW i \in JobIds
      PROVE  /\ i \notin R => hist'[i].freed = hist[i].freed
             /\ i \in R => hist'[i].freed = 1
  BY <1>0, FateType DEF Times
<1>3. \A i \in R : job[i].processed /\ ~job[i].cancelled
  BY <1>0 DEF CancelParts, RanIsProcessed
<1>4. InWorkerQueue' /\ BeingPushed'
  <2>1. to_worker \in Seq(JobIds \cup {DESTROY})
    BY <1>0 DEF TypeOK
  <2>2. PICK d \in {0, 1} : \A k \in DOMAIN to_worker' :
           k \in Nat /\ k + d \in DOMAIN to_worker /\ to_worker'[k] = to_worker[k + d]
    BY <2>1, ShrunkElements DEF NothingMoves
  <2>3. ASSUME NEW k \in DOMAIN to_worker', to_worker'[k] # DESTROY
        PROVE  ~job'[to_worker'[k]].processed /\ hist'[to_worker'[k]].freed = 0
    <3>1. PICK i \in JobIds : i = to_worker'[k]
      BY <1>0, <2>2, <2>3, Elements
    <3>2. ~job[i].processed /\ hist[i].freed = 0
      BY <1>0, <2>2, <2>3, <3>1 DEF PlaceParts, InWorkerQueue
    <3>3. job'[i].processed = job[i].processed /\ hist'[i].freed = hist[i].freed
      BY <1>1, <1>2, <1>3, <3>2
    <3> QED BY <3>1, <3>2, <3>3
  <2>4. InWorkerQueue'
    BY <1>0, <2>2, <2>3 DEF PlaceParts, InWorkerQueue
  <2>5. ASSUME NEW t \in Threads, call'[t].at = "push"
        PROVE  /\ call'[t].id # DESTROY /\ job'[call'[t].id].owner = t
               /\ ~job'[call'[t].id].processed /\ hist'[call'[t].id].freed = 0
               /\ \A k \in DOMAIN to_worker' : to_worker'[k] # call'[t].id
    <3>1. call'[t] = call[t]
      BY <2>5 DEF NothingMoves
    <3>2. call[t].id \in JobIds /\ ~job[call[t].id].processed /\ hist[call[t].id].freed = 0
      BY <1>0, <2>5, <3>1, Elements DEF PlaceParts, BeingPushed
    <3>3. ~job'[call[t].id].processed /\ hist'[call[t].id].freed = 0
      BY <1>1, <1>2, <1>3, <3>2
    <3> QED BY <1>0, <1>1, <2>2, <2>5, <3>1, <3>2, <3>3 DEF PlaceParts, BeingPushed
  <2>6. BeingPushed'
    BY <2>5 DEF BeingPushed
  <2> QED BY <2>4, <2>6
<1>5. BeingExecuted'
  <2> SUFFICES ASSUME wpc' = "run" PROVE hist'[cur'].ran = 0 /\ hist'[cur'].freed = 0
    BY DEF BeingExecuted
  <2>1. cur' = cur /\ cur \in JobIds /\ hist[cur].ran = 0 /\ hist[cur].freed = 0
    BY <1>0 DEF NothingMoves, WorkerHoldsJob, PlaceParts, BeingExecuted
  <2> QED BY <1>2, <2>1
<1>6. ASSUME NEW t \in Threads, NEW i \in JobIds \ R, Replied(t, i)
      PROVE  Replied(t, i)'
  BY <1>1, <1>2, <1>6 DEF Replied, NothingMoves
<1>7. InReplyQueue'
  <2>1. ASSUME NEW t \in Threads
        PROVE  \E d \in {0, 1} : \A k \in DOMAIN from_worker'[t] :
                 /\ k \in Nat /\ k + d \in DOMAIN from_worker[t]
                 /\ from_worker'[t][k] = from_worker[t][k + d]
    <3>1. from_worker[t] \in Seq(JobIds \cup {NOTIFICATION_ERROR})
      BY <1>0 DEF TypeOK
    <3> QED BY <3>1, ShrunkElements DEF NothingMoves
  <2>2. ASSUME NEW t \in Threads, NEW k \in DOMAIN from_worker'[t], NEW i,
               i = from_worker'[t][k], i # NOTIFICATION_ERROR
        PROVE  Replied(t, i)'
    <3>1. i \in JobIds \ R /\ Replied(t, i)
      BY <1>0, <2>1, <2>2, Elements DEF PlaceParts, InReplyQueue
    <3> QED BY <1>6, <3>1
  <2>3. ASSUME NEW t \in Threads, NEW k \in DOMAIN from_worker'[t], NEW l \in DOMAIN from_worker'[t],
               from_worker'[t][k] = from_worker'[t][l], from_worker'[t][k] # NOTIFICATION_ERROR
        PROVE  k = l
    BY <1>0, <2>1, <2>3 DEF PlaceParts, InReplyQueue
  <2> QED BY <2>2, <2>3 DEF InReplyQueue
<1>8. InThreadData'
  <2> SUFFICES ASSUME NEW t \in Threads, NEW i \in JobIds, i \in td'[t].jobs \cup td'[t].results
               PROVE  /\ i \in td'[t].jobs => /\ i < next_job_id' /\ job'[i].owner = t
                                              /\ hist'[i].freed = 0 /\ ~job'[i].cancelled
                                              /\ i \notin td'[t].results
                      /\ i \in td'[t].results => /\ i < next_job_id' /\ job'[i].owner = t
                                                 /\ hist'[i].freed = 0 /\ hist'[i].ran > 0
    BY DEF InThreadData
  <2>1. i \notin R /\ (i \in td'[t].jobs => i \notin S)
    OBVIOUS
  <2> QED BY <1>0, <1>1, <1>2, <2>1 DEF PlaceParts, InThreadData, NothingMoves
<1>9. Accounts'
  <2> SUFFICES ASSUME NEW i \in JobIds
               PROVE  /\ hist'[i].freed <= 1 /\ hist'[i].destroyed <= 1
                      /\ hist'[i].destroyed > 0 => job'[i].cancelled \/ hist'[i].freed > 0
                      /\ job'[i].cancelled => ~job'[i].arg
                      /\ i >= next_job_id' => hist'[i].freed = 0 /\ hist'[i].destroyed = 0
    BY DEF Accounts
  <2>1. next_job_id' = next_job_id /\ (i \in S \cup R => ~(i >= next_job_id))
    BY <1>0 DEF NothingMoves, TypeOK, JobIds
  <2>2. CASE i \notin S \cup R
    BY <1>0, <1>1, <1>2, <2>1, <2>2 DEF PlaceParts, Accounts
  <2>3. CASE i \in S \cup R
    <3>1. hist[i].destroyed = 0
      BY <1>0, <1>3, <2>3, FateType DEF PlaceParts, Accounts
    <3>2. hist'[i].destroyed <= 1
      BY <2>3, <3>1 DEF Times
    <3>3. i \in S => job'[i].cancelled /\ ~job'[i].arg
      BY <1>1
    <3>4. i \notin S => ~job'[i].cancelled /\ hist'[i].freed = 1
      BY <1>1, <1>2, <1>3, <2>3
    <3>5. hist'[i].freed <= 1
      BY <1>0, <1>2 DEF PlaceParts, Accounts
    <3> QED BY <2>1, <2>3, <3>2, <3>3, <3>4, <3>5
  <2> QED BY <2>2, <2>3
<1> QED BY <1>4, <1>5, <1>7, <1>8, <1>9 DEF PlaceParts

-----------------------------------------------------------------------------
(* The calls of a client.                                                  *)

\* A step that touches no job and no list.
LEMMA StillPlaces ==
    ASSUME PlaceInv, UNCHANGED <<next_job_id, job, to_worker, from_worker, hist>>,
           \A t \in Threads : /\ td'[t].jobs = td[t].jobs /\ td'[t].results = td[t].results
                              /\ call'[t].at = "push" => call'[t] = call[t],
           wpc' = "run" => wpc = "run" /\ cur' = cur
    PROVE  PlaceParts'
<1>1. NothingMoves
  BY DEF NothingMoves, Shrinks
<1> QED BY <1>1, CalmPlaces

\* The other calls: cancel() leaves a job in the queue with its argument destroyed.
LEMMA CallPlaces ==
    ASSUME PlaceInv, NEW t \in Threads, ClientCall(t)
    PROVE  PlaceParts'
<1>0. /\ TypeOK /\ PlaceParts /\ call \in [Threads -> Call] /\ td \in [Threads -> ThreadData]
      /\ job \in [JobIds -> Job] /\ hist \in [JobIds -> Fate] /\ td[t] \in ThreadData
  BY DEF PlaceInv, CancelInv, TypeInv, TypeOK
<1>1. ASSUME NEW void \in BOOLEAN, NEW arg \in BOOLEAN, ExecuteBegin(t, void, arg)
      PROVE  PlaceParts'
  BY <1>1, ExecutePlaces
<1>2. ASSUME NEW id \in JobIds, Cancel(t, id)
      PROVE  PlaceParts'
  <2>1. /\ id \in td[t].jobs /\ ~job[id].processed
        /\ job' = [job EXCEPT ![id] = Stopped(@)]
        /\ td' = [td EXCEPT ![t].jobs = @ \ {id}]
        /\ hist' = [hist EXCEPT ![id].destroyed = @ + Times(job[id].arg)]
        /\ UNCHANGED <<next_job_id, to_worker, from_worker, call, wpc, cur>>
    BY <1>2 DEF Cancel, MayCancel, DestroyArgument
  <2>2. td'[t].jobs = td[t].jobs \ {id} /\ td'[t].results = td[t].results
    BY <1>0, <2>1 DEF ThreadData
  <2>3. \A u \in Threads \ {t} : td'[u] = td[u]
    BY <1>0, <2>1
  <2>4. NothingMoves
    BY <2>1, <2>2, <2>3 DEF NothingMoves, Shrinks
  <2>5. /\ id < next_job_id /\ job[id].owner = t /\ hist[id].freed = 0 /\ ~job[id].cancelled
    BY <1>0, <2>1 DEF PlaceParts, InThreadData
  <2>6. \A u \in Threads : id \notin td'[u].jobs
    BY <1>0, <2>2, <2>3, <2>5 DEF PlaceParts, InThreadData
  <2>7. ASSUME NEW i \in JobIds
        PROVE  /\ hist'[i].ran = hist[i].ran /\ hist'[i].freed = hist[i].freed
               /\ i = id => hist'[i].destroyed = hist[i].destroyed + Times(job[i].arg)
               /\ i # id => hist'[i].destroyed = hist[i].destroyed
    <3>1. hist[i] \in Fate
      BY <1>0
    <3>2. CASE i # id
      BY <1>0, <2>1, <3>2
    <3>3. CASE i = id
      <4>1. hist'[i] = [hist[i] EXCEPT !.destroyed = @ + Times(job[i].arg)]
        BY <1>0, <2>1, <3>3
      <4> QED BY <3>1, <3>3, <4>1 DEF Fate
    <3> QED BY <3>2, <3>3
  <2>8. job'[id] = Stopped(job[id]) /\ \A i \in JobIds \ {id} : job'[i] = job[i]
    BY <1>0, <2>1
  <2> DEFINE S == {id}
             R == {}
  <2>9. \A i \in JobIds : hist'[i].freed = hist[i].freed + Times(i \in R)
    BY <1>0, <2>7, FateType DEF Times
  <2>10. \A i \in S : /\ i < next_job_id /\ ~job[i].processed /\ ~job[i].cancelled
                      /\ hist[i].freed = 0 /\ job'[i] = Stopped(job[i])
                      /\ \A u \in Threads : i \notin td'[u].jobs
    BY <2>1, <2>5, <2>6, <2>8
  <2>11. \A i \in JobIds : /\ hist'[i].ran = hist[i].ran
                           /\ i \in S \cup R => hist'[i].destroyed = hist[i].destroyed + Times(job[i].arg)
                           /\ i \notin S \cup R => hist'[i].destroyed = hist[i].destroyed
    BY <2>7
  <2>12. \A i \in JobIds \ S : job'[i] = job[i]
    BY <2>8
  <2>13. S \in SUBSET JobIds /\ R \in SUBSET JobIds /\ \A i \in R : FALSE
    OBVIOUS
  <2> HIDE DEF S, R
  <2> QED BY <2>4, <2>9, <2>10, <2>11, <2>12, <2>13, StopPlaces
<1>3. ASSUME NEW block \in BOOLEAN, IterateBegin(t, block)
      PROVE  PlaceParts'
  <2>1. \A u \in Threads : call'[u].at = "push" => call'[u] = call[u]
    BY <1>0, <1>3 DEF IterateBegin
  <2> QED BY <1>3, <2>1, StillPlaces DEF IterateBegin
<1>4. ASSUME NEW id \in JobIds, NEW block \in BOOLEAN, FetchBegin(t, id, block)
      PROVE  PlaceParts'
  <2>1. \A u \in Threads : call'[u].at = "push" => call'[u] = call[u]
    BY <1>0, <1>4 DEF FetchBegin
  <2> QED BY <1>4, <2>1, StillPlaces DEF FetchBegin
<1>5. CASE GetIoChannel(t)
  BY <1>5, StillPlaces DEF GetIoChannel
<1>6. CASE UnsetIoChannel(t)
  <2>1. ASSUME NEW u \in Threads
        PROVE  td'[u].jobs = td[u].jobs /\ td'[u].results = td[u].results
    <3>1. td[u] \in ThreadData /\ td' = [td EXCEPT ![t].notif = FALSE]
      BY <1>0, <1>6 DEF UnsetIoChannel, CleanNotifications
    <3> QED BY <1>0, <3>1 DEF ThreadData
  <2> QED BY <1>6, <2>1, StillPlaces DEF UnsetIoChannel
<1> QED BY <1>1, <1>2, <1>3, <1>4, <1>5, <1>6 DEF ClientCall

\* A reply leaves its queue when it is taken: it stays nowhere else.
LEMMA TakenReply ==
    ASSUME PlaceInv, NEW t \in Threads, Pop(t), NEW id, id = Head(from_worker[t]),
           id # NOTIFICATION_ERROR
    PROVE  /\ id \in JobIds /\ Replied(t, id)
           /\ \A u \in Threads : /\ Shrinks(from_worker[u], from_worker'[u])
                                 /\ \A k \in DOMAIN from_worker'[u] : from_worker'[u][k] # id
<1>0. TypeOK /\ PlaceParts
  BY DEF PlaceInv, CancelInv, TypeInv
<1>1. /\ from_worker \in [Threads -> Seq(JobIds \cup {NOTIFICATION_ERROR})]
      /\ from_worker[t] # << >> /\ from_worker' = [from_worker EXCEPT ![t] = Tail(@)]
  BY <1>0 DEF TypeOK, Pop
<1>2. /\ 1 \in DOMAIN from_worker[t] /\ from_worker[t][1] = id
      /\ \A k \in DOMAIN Tail(from_worker[t]) :
            /\ k + 1 \in DOMAIN from_worker[t] /\ k + 1 # 1
            /\ Tail(from_worker[t])[k] = from_worker[t][k + 1]
  BY <1>1, Popped
<1>3. id \in JobIds /\ Replied(t, id)
  BY <1>0, <1>2, Elements DEF PlaceParts, InReplyQueue
<1>4. ASSUME NEW u \in Threads
      PROVE  /\ Shrinks(from_worker[u], from_worker'[u])
             /\ \A k \in DOMAIN from_worker'[u] : from_worker'[u][k] # id
  <2>1. CASE u = t
    <3>1. from_worker'[u] = Tail(from_worker[t])
      BY <1>1, <2>1
    <3>2. \A k \in DOMAIN Tail(from_worker[t]) : from_worker[t][k + 1] # id
      BY <1>0, <1>2 DEF PlaceParts, InReplyQueue
    <3> QED BY <1>1, <1>2, <2>1, <3>1, <3>2 DEF Shrinks
  <2>2. CASE u # t
    <3>1. from_worker'[u] = from_worker[u]
      BY <1>1, <2>2
    <3>2. \A k \in DOMAIN from_worker[u] : from_worker[u][k] # id
      BY <1>0, <1>3, <2>2 DEF PlaceParts, InReplyQueue, Replied
    <3> QED BY <3>1, <3>2 DEF Shrinks
  <2> QED BY <2>1, <2>2
<1> QED BY <1>3, <1>4

\* iterate() frees a function without result as soon as it is replied.
LEMMA PopVoidPlaces ==
    ASSUME PlaceInv, NEW t \in Threads, PopVoid(t)
    PROVE  PlaceParts'
<1>0. /\ TypeOK /\ PlaceParts /\ td \in [Threads -> ThreadData] /\ td[t] \in ThreadData
  BY DEF PlaceInv, CancelInv, TypeInv, TypeOK
<1>1. PICK id : id = Head(from_worker[t])
  OBVIOUS
<1>2. /\ Pop(t) /\ id # NOTIFICATION_ERROR /\ JobFree(id)
      /\ td' = [td EXCEPT ![t].jobs = @ \ {id}]
      /\ UNCHANGED <<next_job_id, job, to_worker, call, wpc, cur>>
  BY <1>1 DEF PopVoid
<1>3. /\ id \in JobIds /\ Replied(t, id)
      /\ \A u \in Threads : /\ Shrinks(from_worker[u], from_worker'[u])
                            /\ \A k \in DOMAIN from_worker'[u] : from_worker'[u][k] # id
  BY <1>1, <1>2, TakenReply
<1>4. /\ id < next_job_id /\ job[id].owner = t /\ hist[id].ran > 0 /\ hist[id].freed = 0
      /\ id \notin td[t].results
  BY <1>3 DEF Replied
<1>5. /\ td'[t].jobs = td[t].jobs \ {id} /\ td'[t].results = td[t].results
      /\ \A u \in Threads \ {t} : td'[u] = td[u]
  BY <1>0, <1>2 DEF ThreadData
<1>6. NothingMoves
  BY <1>2, <1>3, <1>5 DEF NothingMoves, Shrinks
<1>7. \A u \in Threads : id \notin td'[u].jobs \cup td'[u].results
  BY <1>0, <1>3, <1>4, <1>5 DEF PlaceParts, InThreadData
<1>8. /\ \A k \in DOMAIN to_worker : to_worker[k] # id
      /\ \A u \in Threads : call[u].at = "push" => call[u].id # id
      /\ ~(wpc = "run" /\ cur = id)
  BY <1>3, <1>4, RanIsElsewhere
<1> QED BY <1>2, <1>3, <1>4, <1>6, <1>7, <1>8, FreePlaces

\* iterate() keeps the result of the others in td->results.
LEMMA PopResultPlaces ==
    ASSUME PlaceInv, NEW t \in Threads, PopResult(t)
    PROVE  PlaceParts'
<1>0. /\ TypeOK /\ PlaceParts /\ td \in [Threads -> ThreadData] /\ td[t] \in ThreadData
      /\ call \in [Threads -> Call] /\ call[t] \in Call
      /\ from_worker \in [Threads -> Seq(JobIds \cup {NOTIFICATION_ERROR})]
  BY DEF PlaceInv, CancelInv, TypeInv, TypeOK
<1>1. PICK id : id = Head(from_worker[t])
  OBVIOUS
<1>2. /\ Pop(t) /\ id # NOTIFICATION_ERROR /\ call' = [call EXCEPT ![t] = LookAgain(t)]
      /\ td' = [td EXCEPT ![t].jobs = @ \ {id}, ![t].results = @ \cup {id}]
      /\ UNCHANGED <<next_job_id, job, to_worker, wpc, cur, hist>>
  BY <1>1 DEF PopResult
<1>3. /\ id \in JobIds /\ Replied(t, id)
      /\ \A u \in Threads : /\ Shrinks(from_worker[u], from_worker'[u])
                            /\ \A k \in DOMAIN from_worker'[u] : from_worker'[u][k] # id
  BY <1>1, <1>2, TakenReply
<1>4. /\ id < next_job_id /\ job[id].owner = t /\ hist[id].ran > 0 /\ hist[id].freed = 0
  BY <1>3 DEF Replied
<1>5. /\ td'[t].jobs = td[t].jobs \ {id} /\ td'[t].results = td[t].results \cup {id}
      /\ \A u \in Threads \ {t} : td'[u] = td[u]
  BY <1>0, <1>2 DEF ThreadData
<1>6. \A u \in Threads : call'[u].at = "push" => call'[u] = call[u]
  <2>1. call[t].at \in {"iterate", "fetch"}
    BY <1>2 DEF Pop, InIterate
  <2>2. LookAgain(t).at # "push"
    BY <1>0, <2>1 DEF LookAgain, Idle, Call
  <2> QED BY <1>0, <1>2, <2>2
<1>7. InWorkerQueue' /\ BeingExecuted' /\ BeingPushed' /\ Accounts'
  BY <1>0, <1>2, <1>6 DEF PlaceParts, InWorkerQueue, BeingExecuted, BeingPushed, Accounts
<1>8. InReplyQueue'
  <2>1. ASSUME NEW u \in Threads
        PROVE  \E d \in {0, 1} : \A k \in DOMAIN from_worker'[u] :
                 /\ k \in Nat /\ k + d \in DOMAIN from_worker[u]
                 /\ from_worker'[u][k] = from_worker[u][k + d]
    <3>1. from_worker[u] \in Seq(JobIds \cup {NOTIFICATION_ERROR})
      BY <1>0
    <3> QED BY <1>3, <3>1, ShrunkElements
  <2>2. ASSUME NEW u \in Threads, NEW k \in DOMAIN from_worker'[u], NEW i,
               i = from_worker'[u][k], i # NOTIFICATION_ERROR
        PROVE  Replied(u, i)'
    <3>1. Replied(u, i) /\ i # id
      BY <1>0, <1>3, <2>1, <2>2 DEF PlaceParts, InReplyQueue
    <3>2. i \notin td'[u].results
      BY <1>5, <3>1 DEF Replied
    <3> QED BY <1>2, <3>1, <3>2 DEF Replied
  <2>3. ASSUME NEW u \in Threads, NEW k \in DOMAIN from_worker'[u], NEW l \in DOMAIN from_worker'[u],
               from_worker'[u][k] = from_worker'[u][l], from_worker'[u][k] # NOTIFICATION_ERROR
        PROVE  k = l
    BY <1>0, <2>1, <2>3 DEF PlaceParts, InReplyQueue
  <2> QED BY <2>2, <2>3 DEF InReplyQueue
<1>9. InThreadData'
  <2> SUFFICES ASSUME NEW u \in Threads, NEW i \in JobIds, i \in td'[u].jobs \cup td'[u].results
               PROVE  /\ i \in td'[u].jobs => /\ i < next_job_id /\ job[i].owner = u
                                              /\ hist[i].freed = 0 /\ ~job[i].cancelled
                                              /\ i \notin td'[u].results
                      /\ i \in td'[u].results => /\ i < next_job_id /\ job[i].owner = u
                                                 /\ hist[i].freed = 0 /\ hist[i].ran > 0
    BY <1>2 DEF InThreadData
  <2> QED BY <1>0, <1>4, <1>5 DEF PlaceParts, InThreadData
<1> QED BY <1>7, <1>8, <1>9 DEF PlaceParts

\* fetch_result() frees the job it returns the result of.
LEMMA FetchFoundPlaces ==
    ASSUME PlaceInv, NEW t \in Threads, FetchFound(t)
    PROVE  PlaceParts'
<1>0. /\ TypeOK /\ PlaceParts /\ td \in [Threads -> ThreadData] /\ td[t] \in ThreadData
      /\ call \in [Threads -> Call]
  BY DEF PlaceInv, CancelInv, TypeInv, TypeOK
<1>1. PICK id : id = call[t].id
  OBVIOUS
<1>2. /\ id \in td[t].results /\ JobFree(id)
      /\ UNCHANGED <<next_job_id, job, to_worker, from_worker, wpc, cur>>
  BY <1>1 DEF FetchFound
<1>3. \A u \in Threads : call'[u].at = "push" => u # t /\ call'[u] = call[u]
  BY <1>0 DEF FetchFound, Return, Idle
<1>4. /\ td'[t].jobs \subseteq td[t].jobs /\ td'[t].results \subseteq td[t].results \ {id}
      /\ \A u \in Threads \ {t} : td'[u] = td[u]
  <2>1. /\ NoData.jobs = {} /\ NoData.results = {}
    BY DEF NoData
  <2>2. [td[t] EXCEPT !.results = td[t].results \ {id}].jobs = td[t].jobs
    BY <1>0 DEF ThreadData
  <2>3. [td[t] EXCEPT !.results = td[t].results \ {id}].results = td[t].results \ {id}
    BY <1>0 DEF ThreadData
  <2>4. td' = [td EXCEPT ![t] = IF Empty(t, td[t].results \ {id}) THEN NoData
                                ELSE [td[t] EXCEPT !.results = td[t].results \ {id}]]
    BY <1>0, <1>1 DEF FetchFound
  <2>5. td'[t] = NoData \/ td'[t] = [td[t] EXCEPT !.results = td[t].results \ {id}]
    BY <1>0, <2>4
  <2> QED BY <1>0, <2>1, <2>2, <2>3, <2>4, <2>5
<1>5. /\ id \in JobIds /\ id < next_job_id /\ job[id].owner = t /\ hist[id].ran > 0
      /\ hist[id].freed = 0 /\ id \notin td[t].jobs
  BY <1>0, <1>2, Elements DEF PlaceParts, InThreadData
<1>6. NothingMoves
  BY <1>2, <1>3, <1>4 DEF NothingMoves, Shrinks
<1>7. \A u \in Threads : id \notin td'[u].jobs \cup td'[u].results
  BY <1>0, <1>4, <1>5 DEF PlaceParts, InThreadData
<1>8. /\ \A k \in DOMAIN to_worker : to_worker[k] # id
      /\ \A u \in Threads : call[u].at = "push" => call[u].id # id
      /\ ~(wpc = "run" /\ cur = id)
  BY <1>5, RanIsElsewhere
<1>9. \A u \in Threads : \A k \in DOMAIN from_worker[u] : from_worker[u][k] # id
  <2>1. id # NOTIFICATION_ERROR
    BY <1>5 DEF JobIds, NOTIFICATION_ERROR
  <2> QED BY <1>0, <1>2, <1>5, <2>1 DEF PlaceParts, InReplyQueue, Replied
<1> QED BY <1>2, <1>3, <1>5, <1>6, <1>7, <1>8, <1>9, FreePlaces

-----------------------------------------------------------------------------
(* What is pushed for the worker.                                          *)

\* The job leaves the hands of its submitter for the queue.
LEMMA PushPlaces ==
    ASSUME PlaceInv, NEW t \in Threads, ExecutePush(t)
    PROVE  PlaceParts'
<1>0. /\ TypeOK /\ PlaceParts /\ call \in [Threads -> Call]
      /\ to_worker \in Seq(JobIds \cup {DESTROY})
  BY DEF PlaceInv, CancelInv, TypeInv, TypeOK
<1>1. PICK id : id = call[t].id
  OBVIOUS
<1>2. /\ call[t].at = "push" /\ to_worker' = Append(to_worker, id)
      /\ UNCHANGED <<next_job_id, job, td, from_worker, wpc, cur, hist>>
      /\ \A u \in Threads : call'[u].at = "push" => u # t /\ call'[u] = call[u]
  BY <1>0, <1>1 DEF ExecutePush, Return, Idle
<1>3. /\ id \in JobIds /\ id # DESTROY /\ job[id].owner = t /\ ~job[id].processed
      /\ hist[id].freed = 0 /\ \A k \in DOMAIN to_worker : to_worker[k] # id
  BY <1>0, <1>1, <1>2, Elements DEF PlaceParts, BeingPushed
<1>4. /\ DOMAIN to_worker' = DOMAIN to_worker \cup {Len(to_worker) + 1}
      /\ Len(to_worker) + 1 \notin DOMAIN to_worker
      /\ \A k \in DOMAIN to_worker : to_worker'[k] = to_worker[k]
      /\ to_worker'[Len(to_worker) + 1] = id
  BY <1>0, <1>2, <1>3, Appended
<1>5. InWorkerQueue'
  BY <1>0, <1>2, <1>3, <1>4 DEF PlaceParts, InWorkerQueue
<1>6. BeingPushed'
  <2> SUFFICES ASSUME NEW u \in Threads, call'[u].at = "push"
               PROVE  /\ call'[u].id # DESTROY /\ job[call'[u].id].owner = u
                      /\ ~job[call'[u].id].processed /\ hist[call'[u].id].freed = 0
                      /\ \A k \in DOMAIN to_worker' : to_worker'[k] # call'[u].id
    BY <1>2 DEF BeingPushed
  <2>1. u # t /\ call'[u] = call[u] /\ call[u].id # id
    BY <1>0, <1>2, <1>3 DEF PlaceParts, BeingPushed
  <2> QED BY <1>0, <1>4, <2>1 DEF PlaceParts, BeingPushed
<1>7. BeingExecuted' /\ InReplyQueue' /\ InThreadData' /\ Accounts'
  BY <1>0, <1>2 DEF PlaceParts, BeingExecuted, InReplyQueue, Replied, InThreadData, Accounts
<1> QED BY <1>5, <1>6, <1>7 DEF PlaceParts

\* The rest of a call: a job is popped from the reply queue, kept, handed back or freed.
LEMMA ClientStepPlaces ==
    ASSUME PlaceInv, NEW t \in Threads, ClientStep(t)
    PROVE  PlaceParts'
<1>0. /\ TypeOK /\ call \in [Threads -> Call] /\ td \in [Threads -> ThreadData]
      /\ from_worker \in [Threads -> Seq(JobIds \cup {NOTIFICATION_ERROR})]
      /\ Idle.at # "push"
  BY DEF PlaceInv, CancelInv, TypeInv, TypeOK, Idle
<1>1. CASE ExecutePush(t)
  BY <1>1, PushPlaces
<1>2. CASE PopNothing(t)
  <2>1. \A u \in Threads : call'[u].at = "push" => call'[u] = call[u]
    BY <1>0, <1>2 DEF PopNothing, Return
  <2> QED BY <1>2, <2>1, StillPlaces DEF PopNothing
<1>3. CASE PopVoid(t)
  BY <1>3, PopVoidPlaces
<1>4. CASE PopResult(t)
  BY <1>4, PopResultPlaces
<1>5. CASE PopNotificationError(t)
  <2>1. /\ UNCHANGED <<next_job_id, job, to_worker, wpc, cur, hist>>
        /\ from_worker[t] # << >> /\ from_worker' = [from_worker EXCEPT ![t] = Tail(@)]
        /\ td' = [td EXCEPT ![t].notif = FALSE]
    BY <1>5 DEF PopNotificationError, Pop, CleanNotifications
  <2>2. \A u \in Threads : call'[u].at = "push" => call'[u] = call[u]
    <3>1. call[t] \in Call /\ [call[t] EXCEPT !.at = "look"].at = "look"
      BY <1>0 DEF Call
    <3>2. call' = [call EXCEPT ![t] = IF call[t].at = "fetch" /\ call[t].block
                                      THEN [call[t] EXCEPT !.at = "look"] ELSE Idle]
      BY <1>0, <1>5 DEF PopNotificationError
    <3>3. call'[t] = [call[t] EXCEPT !.at = "look"] \/ call'[t] = Idle
      BY <1>0, <3>2
    <3>4. \A u \in Threads \ {t} : call'[u] = call[u]
      BY <1>0, <3>2
    <3>5. call'[t].at # "push"
      BY <1>0, <3>1, <3>3
    <3> QED BY <3>4, <3>5
  <2>3. ASSUME NEW u \in Threads
        PROVE  td'[u].jobs = td[u].jobs /\ td'[u].results = td[u].results
    <3>1. td[u] \in ThreadData
      BY <1>0
    <3> QED BY <1>0, <2>1, <3>1 DEF ThreadData
  <2>4. \A u \in Threads : Shrinks(from_worker[u], from_worker'[u])
    BY <1>0, <2>1 DEF Shrinks
  <2>5. NothingMoves
    BY <2>1, <2>2, <2>3, <2>4 DEF NothingMoves, Shrinks
  <2> QED BY <2>1, <2>5, CalmPlaces
<1>6. CASE FetchFound(t)
  BY <1>6, FetchFoundPlaces
<1>7. CASE FetchNotFound(t)
  <2>1. \A u \in Threads : call'[u].at = "push" => call'[u] = call[u]
    <3>1. call[t] \in Call /\ [call[t] EXCEPT !.at = "fetch"].at = "fetch"
      BY <1>0 DEF Call
    <3> QED BY <1>0, <1>7, <3>1 DEF FetchNotFound
  <2> QED BY <1>7, <2>1, StillPlaces DEF FetchNotFound
<1> QED BY <1>1, <1>2, <1>3, <1>4, <1>5, <1>6, <1>7 DEF ClientStep

-----------------------------------------------------------------------------
(* The worker, and the end of the object.                                  *)

\* What the worker takes from the head of its queue is not further down in it.
LEMMA TakenJob ==
    ASSUME PlaceInv, NEW id \in JobIds \cup {DESTROY}, WorkerTakes(id)
    PROVE  /\ Shrinks(to_worker, to_worker') /\ wpc = "pop"
           /\ id # DESTROY =>
                /\ id < next_job_id /\ ~job[id].processed
                /\ hist[id].ran = 0 /\ hist[id].freed = 0
                /\ \A k \in DOMAIN to_worker' : to_worker'[k] # id
                /\ \A t \in Threads : /\ call[t].at = "push" => call[t].id # id
                                      /\ id \notin td[t].results
                                      /\ \A k \in DOMAIN from_worker[t] : from_worker[t][k] # id
<1>0. /\ TypeOK /\ PlaceParts /\ CancelParts /\ to_worker \in Seq(JobIds \cup {DESTROY})
  BY DEF PlaceInv, CancelInv, TypeInv, TypeOK
<1>1. wpc = "pop" /\ to_worker # << >> /\ id = Head(to_worker) /\ to_worker' = Tail(to_worker)
  BY DEF WorkerTakes
<1>2. /\ 1 \in DOMAIN to_worker /\ to_worker[1] = id
      /\ \A k \in DOMAIN Tail(to_worker) : /\ k + 1 \in DOMAIN to_worker /\ k + 1 # 1
                                           /\ Tail(to_worker)[k] = to_worker[k + 1]
  BY <1>0, <1>1, Popped
<1>3. ASSUME id # DESTROY
      PROVE  /\ id < next_job_id /\ ~job[id].processed
             /\ hist[id].ran = 0 /\ hist[id].freed = 0
             /\ \A k \in DOMAIN to_worker' : to_worker'[k] # id
             /\ \A t \in Threads : /\ call[t].at = "push" => call[t].id # id
                                   /\ id \notin td[t].results
                                   /\ \A k \in DOMAIN from_worker[t] : from_worker[t][k] # id
  <2>1. id < next_job_id /\ ~job[id].processed /\ hist[id].freed = 0
    BY <1>0, <1>2, <1>3 DEF CancelParts, QueuedIsCreated, PlaceParts, InWorkerQueue
  <2>2. id \in JobIds /\ id # NOTIFICATION_ERROR
    BY <1>3 DEF JobIds, NOTIFICATION_ERROR, DESTROY
  <2>3. hist[id].ran = 0
    BY <1>0, <2>1, <2>2, FateType DEF CancelParts, RanIsProcessed
  <2>4. \A k \in DOMAIN to_worker' : to_worker'[k] # id
    BY <1>0, <1>1, <1>2, <1>3 DEF PlaceParts, InWorkerQueue
  <2>5. \A t \in Threads : call[t].at = "push" => call[t].id # id
    BY <1>0, <1>2 DEF PlaceParts, BeingPushed
  <2>6. \A t \in Threads : id \notin td[t].results
    BY <1>0, <2>2, <2>3 DEF PlaceParts, InThreadData
  <2>7. \A t \in Threads : \A k \in DOMAIN from_worker[t] : from_worker[t][k] # id
    BY <1>0, <2>2, <2>3 DEF PlaceParts, InReplyQueue, Replied
  <2> QED BY <2>1, <2>3, <2>4, <2>5, <2>6, <2>7
<1> QED BY <1>1, <1>3 DEF Shrinks

\* The worker frees a cancelled job it finds, and starts any other.
LEMMA WorkerPopPlaces ==
    ASSUME PlaceInv, WorkerPop
    PROVE  PlaceParts'
<1>0. /\ TypeOK /\ PlaceParts /\ job \in [JobIds -> Job]
      /\ to_worker \in Seq(JobIds \cup {DESTROY})
  BY DEF PlaceInv, CancelInv, TypeInv, TypeOK
<1>1. PICK id \in JobIds :
        /\ WorkerTakes(id)
        /\ job' = [job EXCEPT ![id].processed = TRUE]
        /\ IF Dropped(id)
           THEN JobFree(id) /\ UNCHANGED <<wpc, cur>>
           ELSE wpc' = "run" /\ cur' = id /\ UNCHANGED hist
        /\ UNCHANGED <<next_job_id, td, from_worker, pipe, unread, call, dispose>>
  BY DEF WorkerPop
<1>2. id # DESTROY
  BY DEF JobIds, DESTROY
<1>3. /\ Shrinks(to_worker, to_worker') /\ wpc = "pop"
      /\ id < next_job_id /\ hist[id].ran = 0 /\ hist[id].freed = 0
      /\ \A k \in DOMAIN to_worker' : to_worker'[k] # id
      /\ \A t \in Threads : /\ call[t].at = "push" => call[t].id # id
                            /\ id \notin td[t].results
                            /\ \A k \in DOMAIN from_worker[t] : from_worker[t][k] # id
  BY <1>1, <1>2, TakenJob
<1>4. /\ \A i \in JobIds \ {id} : job'[i] = job[i]
      /\ job'[id].owner = job[id].owner /\ job'[id].cancelled = job[id].cancelled
      /\ job'[id].arg = job[id].arg
  BY <1>0, <1>1 DEF Job
<1>5. CASE Dropped(id)
  <2>1. NothingMoves
    BY <1>1, <1>3, <1>5 DEF NothingMoves, Shrinks
  <2>2. \A t \in Threads : id \notin td'[t].jobs \cup td'[t].results
    BY <1>0, <1>1, <1>3, <1>5 DEF PlaceParts, InThreadData, Dropped
  <2>3. ~(wpc' = "run" /\ cur' = id)
    BY <1>1, <1>3, <1>5
  <2>4. JobFree(id) /\ UNCHANGED <<from_worker, call>>
    BY <1>1, <1>5
  <2> QED BY <1>3, <1>4, <2>1, <2>2, <2>3, <2>4, FreePlaces
<1>6. CASE ~Dropped(id)
  <2>0. UNCHANGED <<next_job_id, td, from_worker, call, hist>> /\ cur' = id
    BY <1>1, <1>6
  <2>1. PICK d \in {0, 1} : \A k \in DOMAIN to_worker' :
           k \in Nat /\ k + d \in DOMAIN to_worker /\ to_worker'[k] = to_worker[k + d]
    BY <1>0, <1>3, ShrunkElements
  <2>2. InWorkerQueue'
    BY <1>0, <1>3, <1>4, <2>0, <2>1, Elements DEF PlaceParts, InWorkerQueue
  <2>3. BeingPushed'
    <3> SUFFICES ASSUME NEW t \in Threads, call[t].at = "push"
                 PROVE  /\ call[t].id # DESTROY /\ job'[call[t].id].owner = t
                        /\ ~job'[call[t].id].processed /\ hist[call[t].id].freed = 0
                        /\ \A k \in DOMAIN to_worker' : to_worker'[k] # call[t].id
      BY <2>0 DEF BeingPushed
    <3>1. call[t].id \in JobIds \ {id}
      BY <1>0, <1>3, Elements DEF PlaceParts, BeingPushed
    <3> QED BY <1>0, <1>4, <2>1, <3>1 DEF PlaceParts, BeingPushed
  <2>4. BeingExecuted'
    BY <1>3, <2>0 DEF BeingExecuted
  <2>5. InReplyQueue'
    <3>1. ASSUME NEW t \in Threads, NEW i, i \in JobIds, Replied(t, i)
          PROVE  Replied(t, i)'
      BY <1>4, <2>0, <3>1 DEF Replied
    <3> QED BY <1>0, <2>0, <3>1, Elements DEF PlaceParts, InReplyQueue
  <2>6. InThreadData'
    BY <1>0, <1>4, <2>0 DEF PlaceParts, InThreadData
  <2>7. Accounts'
    BY <1>0, <1>4, <2>0 DEF PlaceParts, Accounts
  <2> QED BY <2>2, <2>3, <2>4, <2>5, <2>6, <2>7 DEF PlaceParts
<1> QED BY <1>5, <1>6

\* The function returns and its job is replied.
LEMMA WorkerFinishPlaces ==
    ASSUME PlaceInv, WorkerFinish
    PROVE  PlaceParts'
<1>0. /\ TypeOK /\ PlaceParts /\ CancelParts /\ job \in [JobIds -> Job]
      /\ hist \in [JobIds -> Fate] /\ wpc = "run" /\ cur \in JobIds /\ job[cur].owner \in Threads
  BY DEF PlaceInv, CancelInv, TypeInv, TypeOK, WorkerFinish, WorkerHoldsJob, Job
<1>1. PICK id \in JobIds, o \in Threads : id = cur /\ o = job[cur].owner
  BY <1>0
<1>2. /\ UNCHANGED <<next_job_id, job, td, to_worker, call>> /\ wpc' = "notify"
      /\ from_worker' = [from_worker EXCEPT ![o] = Append(@, id)]
      /\ hist' = [hist EXCEPT ![id].ran = @ + 1]
  BY <1>1 DEF WorkerFinish
<1>3. hist[id].ran = 0 /\ hist[id].freed = 0 /\ id < next_job_id
  BY <1>0, <1>1 DEF PlaceParts, BeingExecuted, CancelParts, RunningIsProcessed
<1>4. /\ \A i \in JobIds \ {id} : hist'[i] = hist[i]
      /\ hist'[id].ran > 0 /\ hist'[id].freed = hist[id].freed
      /\ hist'[id].destroyed = hist[id].destroyed
  <2>1. hist[id] \in Fate /\ hist' = [hist EXCEPT ![id] = [hist[id] EXCEPT !.ran = @ + 1]]
    BY <1>0, <1>2
  <2> QED BY <1>0, <2>1 DEF Fate
<1>5. \A i \in JobIds : /\ hist'[i].freed = hist[i].freed /\ hist'[i].destroyed = hist[i].destroyed
                        /\ hist[i].ran > 0 => hist'[i].ran > 0
  BY <1>4
<1>6. InWorkerQueue'
  BY <1>0, <1>2, <1>5, Elements DEF PlaceParts, InWorkerQueue
<1>7. BeingPushed'
  <2> SUFFICES ASSUME NEW t \in Threads, call[t].at = "push"
               PROVE  /\ call[t].id # DESTROY /\ job[call[t].id].owner = t
                      /\ ~job[call[t].id].processed /\ hist'[call[t].id].freed = 0
                      /\ \A k \in DOMAIN to_worker : to_worker[k] # call[t].id
    BY <1>2 DEF BeingPushed
  <2>1. call[t].id \in JobIds
    BY <1>0, Elements DEF PlaceParts, BeingPushed
  <2> QED BY <1>0, <1>5, <2>1 DEF PlaceParts, BeingPushed
<1>8. BeingExecuted'
  BY <1>2 DEF BeingExecuted
<1>9. InReplyQueue'
  <2>1. ASSUME NEW t \in Threads, NEW i \in JobIds, Replied(t, i)
        PROVE  Replied(t, i)'
    BY <1>2, <1>5, <2>1 DEF Replied
  <2>2. \A t \in Threads : id \notin td[t].results
    BY <1>0, <1>3 DEF PlaceParts, InThreadData
  <2>3. Replied(o, id)'
    BY <1>1, <1>2, <1>3, <1>4, <2>2 DEF Replied
  <2>4. \A k \in DOMAIN from_worker[o] : from_worker[o][k] # id
    <3>1. id # NOTIFICATION_ERROR
      BY DEF JobIds, NOTIFICATION_ERROR
    <3> QED BY <1>0, <1>3, <3>1 DEF PlaceParts, InReplyQueue, Replied
  <2> QED BY <1>0, <1>2, <2>1, <2>3, <2>4, ReplyPushed DEF PlaceParts
<1>10. InThreadData'
  BY <1>0, <1>2, <1>5 DEF PlaceParts, InThreadData
<1>11. Accounts'
  BY <1>0, <1>2, <1>5 DEF PlaceParts, Accounts
<1> QED BY <1>6, <1>7, <1>8, <1>9, <1>10, <1>11 DEF PlaceParts

\* The worker takes a job, executes it, hands it over or frees it when it was cancelled.
LEMMA WorkerPlaces ==
    ASSUME PlaceInv, WorkerStep \/ WorkerFinish
    PROVE  PlaceParts'
<1>0. /\ TypeOK /\ PlaceParts /\ job \in [JobIds -> Job] /\ WorkerHoldsJob
  BY DEF PlaceInv, CancelInv, TypeInv, TypeOK
<1>1. CASE WorkerExit
  <2>1. Shrinks(to_worker, to_worker')
    BY <1>1, TakenJob DEF WorkerExit
  <2>2. NothingMoves
    BY <1>1, <2>1 DEF WorkerExit, NothingMoves, Shrinks
  <2> QED BY <1>1, <2>2, CalmPlaces DEF WorkerExit
<1>2. CASE WorkerNotify
  BY <1>2, StillPlaces DEF WorkerNotify
<1>3. CASE WorkerNotifyFails
  BY <1>3, StillPlaces DEF WorkerNotifyFails
<1>4. CASE WorkerReport
  <2>1. CASE from_worker' = from_worker
    BY <1>4, <2>1, StillPlaces DEF WorkerReport
  <2>2. CASE from_worker' = [from_worker EXCEPT ![job[cur].owner] = Append(@, ErrorReported)]
    <3>1. PICK o \in Threads : o = job[cur].owner
      BY <1>0, <1>4 DEF WorkerReport, WorkerHoldsJob, Job
    <3>2. from_worker' = [from_worker EXCEPT ![o] = Append(@, NOTIFICATION_ERROR)]
      BY <2>2, <3>1 DEF ErrorReported
    <3>3. UNCHANGED <<next_job_id, job, td, to_worker, call, hist>> /\ wpc' # "run"
      BY <1>4 DEF WorkerReport
    <3>4. ASSUME NEW t \in Threads, NEW i \in JobIds, Replied(t, i)
          PROVE  Replied(t, i)'
      BY <3>3, <3>4 DEF Replied
    <3>5. InReplyQueue'
      BY <1>0, <3>2, <3>4, ReplyPushed DEF PlaceParts
    <3>6. InWorkerQueue' /\ BeingPushed' /\ BeingExecuted' /\ InThreadData' /\ Accounts'
      BY <1>0, <3>3 DEF PlaceParts, InWorkerQueue, BeingPushed, BeingExecuted, InThreadData, Accounts
    <3> QED BY <3>5, <3>6 DEF PlaceParts
  <2> QED BY <1>4, <2>1, <2>2 DEF WorkerReport
<1> QED BY <1>1, <1>2, <1>3, <1>4, WorkerPopPlaces, WorkerFinishPlaces DEF WorkerStep

\* Dispose cancels what the worker has not taken and frees the results.
LEMMA DisposePlaces ==
    ASSUME PlaceInv, DisposePush \/ DisposeClean
    PROVE  PlaceParts'
<1>0. /\ TypeOK /\ PlaceParts /\ CancelParts /\ job \in [JobIds -> Job] /\ hist \in [JobIds -> Fate]
      /\ to_worker \in Seq(JobIds \cup {DESTROY})
  BY DEF PlaceInv, CancelInv, TypeInv, TypeOK
<1>1. CASE DisposePush
  <2>1. /\ UNCHANGED <<next_job_id, job, td, from_worker, call, wpc, cur, hist>>
        /\ to_worker' = Append(to_worker, DESTROY)
        /\ \A t \in Threads : call[t].at # "push"
    BY <1>1 DEF DisposePush, TellWorker, Idle
  <2>2. /\ DOMAIN to_worker' = DOMAIN to_worker \cup {Len(to_worker) + 1}
        /\ \A k \in DOMAIN to_worker : to_worker'[k] = to_worker[k]
        /\ to_worker'[Len(to_worker) + 1] = DESTROY
    BY <1>0, <2>1, Appended
  <2>3. InWorkerQueue'
    BY <1>0, <2>1, <2>2 DEF PlaceParts, InWorkerQueue
  <2>4. BeingPushed' /\ BeingExecuted' /\ InReplyQueue' /\ InThreadData' /\ Accounts'
    BY <1>0, <2>1
       DEF PlaceParts, BeingPushed, BeingExecuted, InReplyQueue, Replied, InThreadData, Accounts
  <2> QED BY <2>3, <2>4 DEF PlaceParts
<1>2. CASE DisposeClean
  <2> DEFINE S == {i \in UNION {td[t].jobs : t \in Threads} : ~job[i].processed}
             R == UNION {td[t].results : t \in Threads}
  <2>1. /\ job' = [i \in JobIds |-> IF i \in S THEN Stopped(job[i]) ELSE job[i]]
        /\ hist' = [i \in JobIds |->
                      IF i \in S \cup R
                      THEN [hist[i] EXCEPT !.destroyed = @ + Times(job[i].arg),
                                           !.freed = @ + Times(i \in R)]
                      ELSE hist[i]]
        /\ td' = [t \in Threads |-> NoData]
        /\ UNCHANGED <<next_job_id, to_worker, from_worker, call, wpc, cur>>
    BY <1>2 DEF DisposeClean
  <2>2. \A t \in Threads : td'[t].jobs = {} /\ td'[t].results = {}
    BY <2>1 DEF NoData
  <2>3. S \in SUBSET JobIds /\ R \in SUBSET JobIds
    BY <1>0, Elements
  <2>4. NothingMoves
    BY <2>1, <2>2 DEF NothingMoves, Shrinks
  <2>5. ASSUME NEW i \in S
        PROVE  /\ i < next_job_id /\ ~job[i].processed /\ ~job[i].cancelled
               /\ hist[i].freed = 0
    BY <1>0, <2>3 DEF PlaceParts, InThreadData
  <2>6. ASSUME NEW i \in R
        PROVE  /\ i < next_job_id /\ hist[i].ran > 0 /\ hist[i].freed = 0
               /\ \A t \in Threads : \A k \in DOMAIN from_worker[t] : from_worker[t][k] # i
    <3>1. PICK o \in Threads : i \in td[o].results
      OBVIOUS
    <3>2. i \in JobIds /\ i # NOTIFICATION_ERROR
      BY <2>3 DEF JobIds, NOTIFICATION_ERROR
    <3>3. i < next_job_id /\ job[i].owner = o /\ hist[i].ran > 0 /\ hist[i].freed = 0
      BY <1>0, <3>1, <3>2 DEF PlaceParts, InThreadData
    <3>4. \A t \in Threads : \A k \in DOMAIN from_worker[t] : from_worker[t][k] # i
      BY <1>0, <3>1, <3>2, <3>3 DEF PlaceParts, InReplyQueue, Replied
    <3> QED BY <3>3, <3>4
  <2>7. ASSUME NEW i \in JobIds
        PROVE  /\ hist'[i].ran = hist[i].ran
               /\ hist'[i].freed = hist[i].freed + Times(i \in R)
               /\ i \in S \cup R => hist'[i].destroyed = hist[i].destroyed + Times(job[i].arg)
               /\ i \notin S \cup R => hist'[i].destroyed = hist[i].destroyed
    <3> HIDE DEF S, R
    <3>1. hist[i] \in Fate
      BY <1>0
    <3>2. CASE i \in S \cup R
      <4>1. hist'[i] = [hist[i] EXCEPT !.destroyed = @ + Times(job[i].arg),
                                       !.freed = @ + Times(i \in R)]
        BY <2>1, <3>2
      <4> QED BY <3>1, <3>2, <4>1 DEF Fate
    <3>3. CASE i \notin S \cup R
      <4>1. hist'[i] = hist[i] /\ i \notin R
        BY <2>1, <3>3
      <4>2. hist[i].freed + Times(i \in R) = hist[i].freed
        BY <1>0, <4>1, FateType DEF Times
      <4> QED BY <3>3, <4>1, <4>2
    <3> QED BY <3>2, <3>3
  <2> HIDE DEF S, R
  <2>8. \A i \in S : /\ i < next_job_id /\ ~job[i].processed /\ ~job[i].cancelled
                     /\ hist[i].freed = 0 /\ job'[i] = Stopped(job[i])
                     /\ \A t \in Threads : i \notin td'[t].jobs
    BY <2>1, <2>2, <2>3, <2>5
  <2>9. \A i \in R : /\ i < next_job_id /\ hist[i].ran > 0 /\ hist[i].freed = 0
                     /\ \A t \in Threads :
                           /\ i \notin td'[t].jobs \cup td'[t].results
                           /\ \A k \in DOMAIN from_worker[t] : from_worker[t][k] # i
    BY <2>2, <2>6
  <2>10. \A i \in JobIds \ S : job'[i] = job[i]
    BY <2>1
  <2>11. from_worker' = from_worker
    BY <2>1
  <2> QED BY <2>3, <2>4, <2>7, <2>8, <2>9, <2>10, <2>11, StopPlaces
<1> QED BY <1>1, <1>2

-----------------------------------------------------------------------------
\* Every step keeps a job in one place.
LEMMA NextPlaces == PlaceInv /\ [Next]_vars => PlaceInv'
<1> SUFFICES ASSUME PlaceInv, [Next]_vars PROVE PlaceInv'
  OBVIOUS
<1>1. CancelInv'
  BY NextCancel DEF PlaceInv
<1>2. ASSUME NEW t \in Threads, ReadNotification(t)
      PROVE  PlaceParts'
  BY <1>2, StillPlaces DEF ReadNotification
<1>3. ASSUME UNCHANGED vars
      PROVE  PlaceParts'
  BY <1>3, StillPlaces DEF vars
<1>4. PlaceParts'
  BY <1>2, <1>3, CallPlaces, ClientStepPlaces, InlinePlaces, WorkerPlaces, DisposePlaces DEF Next
<1> QED BY <1>1, <1>4 DEF PlaceInv

\* iterate(), fetch_result(), dispose and the worker free jobs in three different
\* threads: a job is freed once, and no list or local variable leads to it then.
THEOREM JobsFreedOnce == Spec => []NoDanglingJob
BY InitPlaces, NextPlaces, PlaceInvImplies, PTL DEF Spec

\* cancel(), dispose and job_free() may each destroy the argument of a job: it is
\* destroyed once, and not while the function that was given it runs.
THEOREM ArgumentsDestroyedOnce == Spec => []ArgumentDestroyedOnce
BY InitPlaces, NextPlaces, PlaceInvImplies, PTL DEF Spec

-----------------------------------------------------------------------------
(* The functions of one thread are in to_worker in the order they were     *)
(* submitted, the last one possibly still in the hands of its thread, and  *)
(* the worker takes one only when all those before it are settled.         *)

Waiting(i) == \E k \in DOMAIN to_worker : to_worker[k] = i
Pushing(i) == call[job[i].owner].at = "push" /\ call[job[i].owner].id = i
Running(i) == wpc = "run" /\ cur = i

\* A job that was neither executed nor cancelled is still on its way.
NoneForgotten ==
    \A i \in Created :
       hist[i].ran > 0 \/ job[i].cancelled \/ Waiting(i) \/ Pushing(i) \/ Running(i)

TakenInOrder ==
    \A i, k \in Created :
       job[i].owner = job[k].owner /\ i < k /\ job[k].processed
         => hist[i].ran > 0 \/ job[i].cancelled

\* What a job function submits is executed as it is submitted.
OwnWorkIsDone == \A i \in Created : job[i].owner = Worker => hist[i].ran > 0

QueueInOrder ==
    \A k, l \in DOMAIN to_worker :
       /\ k < l /\ to_worker[k] # DESTROY /\ to_worker[l] # DESTROY
       /\ job[to_worker[k]].owner = job[to_worker[l]].owner
       => to_worker[k] < to_worker[l]

PushIsLatest ==
    \A t \in Threads : \A k \in DOMAIN to_worker :
       /\ call[t].at = "push"
       /\ to_worker[k] # DESTROY /\ job[to_worker[k]].owner = t
       => to_worker[k] < call[t].id

OrderParts == /\ NoneForgotten /\ TakenInOrder /\ OwnWorkIsDone
              /\ QueueInOrder /\ PushIsLatest

OrderInv == PlaceInv /\ OrderParts

-----------------------------------------------------------------------------
(* The ThreadData of the submitter knows the job until its result is       *)
(* fetched.                                                                *)

InReplies(i) == \E k \in DOMAIN from_worker[job[i].owner] : from_worker[job[i].owner][k] = i

KnownToOwner ==
    dispose # "done" =>
      \A i \in Created :
        hist[i].freed = 0 /\ ~job[i].cancelled =>
          LET d == td[job[i].owner] IN
          /\ d.present
          /\ i \in d.jobs \cup d.results
          /\ i \in d.jobs /\ hist[i].ran > 0 => InReplies(i)

ReplyInv == OrderInv /\ KnownToOwner

\* A job waits at one place of the queue, which is not the head when another is.
LEMMA StillWaiting ==
    ASSUME NEW S, NEW s \in Seq(S), s # << >>, NEW k \in DOMAIN s, s[k] # Head(s)
    PROVE  k - 1 \in DOMAIN Tail(s) /\ Tail(s)[k - 1] = s[k]
<1>1. Len(s) \in Nat /\ DOMAIN s = 1 .. Len(s) /\ Len(s) # 0
  BY LenProperties, EmptySeq
<1>2. /\ Tail(s) \in Seq(S) /\ Len(Tail(s)) = Len(s) - 1
      /\ \A m \in 1 .. Len(Tail(s)) : Tail(s)[m] = s[m + 1]
  BY HeadTailProperties
<1>3. DOMAIN Tail(s) = 1 .. Len(s) - 1
  BY <1>2, LenProperties
<1>4. k # 1
  BY <1>1
<1> QED BY <1>1, <1>2, <1>3, <1>4

\* The jobs created so far are those with a smaller number than the next one.
LEMMA CreatedJobs ==
    ASSUME TypeOK
    PROVE  /\ Created \subseteq JobIds
           /\ \A i \in JobIds : i \in Created <=> i < next_job_id
           /\ \A i \in Created : i < next_job_id /\ i # DESTROY /\ i # NOTIFICATION_ERROR
           /\ \A i \in Created : job[i].owner \in Threads
<1>1. next_job_id \in 1 .. (MaxJobs + 1) /\ MaxJobs \in Nat /\ job \in [JobIds -> Job]
  BY BoundsAssumption DEF TypeOK
<1>2. Created \subseteq JobIds /\ \A i \in JobIds : i \in Created <=> i < next_job_id
  BY <1>1 DEF Created, JobIds
<1>3. \A i \in Created : i < next_job_id /\ i # DESTROY /\ i # NOTIFICATION_ERROR
  BY <1>1 DEF Created, DESTROY, NOTIFICATION_ERROR
<1>4. \A i \in Created : job[i].owner \in Threads
  BY <1>1, <1>2 DEF Job
<1> QED BY <1>2, <1>3, <1>4

\* A job that ran was processed, and is not taken before those of its thread that precede it.
LEMMA OrderInvImplies == OrderInv => ExecutedInOrder
<1> SUFFICES ASSUME OrderInv, NEW i \in Created, NEW k \in Created,
                    job[i].owner = job[k].owner, i < k, hist[k].ran > 0
             PROVE  hist[i].ran > 0 \/ job[i].cancelled
  BY DEF ExecutedInOrder
<1>1. TypeOK /\ CancelParts /\ OrderParts
  BY DEF OrderInv, PlaceInv, CancelInv, TypeInv
<1>2. job[k].processed
  BY <1>1, CreatedJobs DEF CancelParts, RanIsProcessed
<1> QED BY <1>1, <1>2 DEF OrderParts, TakenInOrder

\* No job has been created.
LEMMA InitOrder == Init => ReplyInv
<1> SUFFICES ASSUME Init PROVE ReplyInv
  OBVIOUS
<1>1. Created = {}
  BY DEF Init, Created
<1>2. OrderParts
  BY <1>1 DEF Init, OrderParts, NoneForgotten, TakenInOrder, OwnWorkIsDone, QueueInOrder,
              PushIsLatest
<1>3. KnownToOwner
  BY <1>1 DEF KnownToOwner
<1> QED BY <1>2, <1>3, InitPlaces DEF ReplyInv, OrderInv

-----------------------------------------------------------------------------
(* OrderParts is preserved.                                                *)

\* A step that leaves the queue and the marks of the worker alone.
LEMMA SteadyOrder ==
    ASSUME OrderInv, UNCHANGED <<next_job_id, to_worker>>,
           \A i \in JobIds : /\ job'[i].owner = job[i].owner
                             /\ job'[i].processed = job[i].processed
                             /\ job[i].cancelled => job'[i].cancelled
                             /\ hist[i].ran > 0 => hist'[i].ran > 0,
           \A t \in Threads : /\ call'[t].at = "push" => call'[t] = call[t]
                              /\ call[t].at = "push" => call'[t] = call[t],
           wpc = "run" => (wpc' = "run" /\ cur' = cur) \/ hist'[cur].ran > 0
    PROVE  OrderParts'
<1>0. /\ TypeOK /\ CancelParts /\ OrderParts /\ Created \subseteq JobIds
      /\ \A i \in Created : job[i].owner \in Threads
  BY CreatedJobs DEF OrderInv, PlaceInv, CancelInv, TypeInv
<1>1. Created' = Created
  BY DEF Created
<1>2. NoneForgotten'
  BY <1>0, <1>1 DEF OrderParts, NoneForgotten, Waiting, Pushing, Running
<1>3. TakenInOrder' /\ OwnWorkIsDone'
  BY <1>0, <1>1 DEF OrderParts, TakenInOrder, OwnWorkIsDone
<1>4. \A k \in DOMAIN to_worker : to_worker[k] # DESTROY =>
         to_worker[k] \in JobIds /\ job'[to_worker[k]].owner = job[to_worker[k]].owner
  BY <1>0, Elements
<1>5. QueueInOrder' /\ PushIsLatest'
  BY <1>0, <1>4 DEF OrderParts, QueueInOrder, PushIsLatest
<1> QED BY <1>2, <1>3, <1>5 DEF OrderParts

\* A submission: the new job comes after all those of its submitter.
LEMMA SubmitOrder ==
    ASSUME OrderInv, NEW t \in Threads, NEW void \in BOOLEAN, NEW arg \in BOOLEAN,
           Submit(t, void, arg), UNCHANGED <<to_worker, wpc, cur>>,
           \A i \in JobIds : hist[i].ran > 0 => hist'[i].ran > 0,
           \A u \in Threads \ {t} : call'[u] = call[u],
           t # Worker => call'[t].at = "push" /\ call'[t].id = next_job_id,
           t = Worker => call'[t] = call[t] /\ hist'[next_job_id].ran > 0
    PROVE  OrderParts'
<1>0. /\ TypeOK /\ CancelParts /\ PlaceParts /\ OrderParts /\ Created \subseteq JobIds
      /\ \A i \in Created : i < next_job_id /\ job[i].owner \in Threads
      /\ call[t].at # "push"
  BY CreatedJobs DEF OrderInv, PlaceInv, CancelInv, TypeInv, Submit, CanCall, Idle
<1>1. PICK n \in JobIds : n = next_job_id
  BY SubmitPlaces DEF OrderInv
<1>2. /\ n \in Nat /\ next_job_id' = n + 1
      /\ job'[n].owner = t /\ (job'[n].processed <=> t = Worker)
      /\ \A i \in JobIds \ {n} : job'[i] = job[i]
      /\ \A k \in DOMAIN to_worker : to_worker[k] # n
  BY <1>1, SubmitPlaces DEF OrderInv
<1>3. /\ Created' = Created \cup {n} /\ n \notin Created
      /\ \A i \in Created : i < n /\ job'[i] = job[i]
  <2>1. Created' = 1 .. n /\ Created = 1 .. (n - 1)
    BY <1>1, <1>2 DEF Created
  <2> QED BY <1>0, <1>1, <1>2, <2>1 DEF JobIds
<1>4. NoneForgotten'
  <2>1. ASSUME NEW i \in Created
        PROVE  (hist[i].ran > 0 \/ job[i].cancelled \/ Waiting(i) \/ Pushing(i) \/ Running(i))'
    <3>1. hist[i].ran > 0 \/ job[i].cancelled \/ Waiting(i) \/ Pushing(i) \/ Running(i)
      BY <1>0 DEF OrderParts, NoneForgotten
    <3> QED BY <1>0, <1>3, <3>1 DEF Waiting, Pushing, Running
  <2>2. hist'[n].ran > 0 \/ Pushing(n)'
    BY <1>1, <1>2 DEF Pushing
  <2> QED BY <1>3, <2>1, <2>2 DEF NoneForgotten
<1>5. OwnWorkIsDone'
  BY <1>0, <1>1, <1>2, <1>3 DEF OrderParts, OwnWorkIsDone
<1>6. TakenInOrder'
  <2> SUFFICES ASSUME NEW i \in Created', NEW k \in Created', job'[i].owner = job'[k].owner,
                      i < k, job'[k].processed
               PROVE  hist'[i].ran > 0 \/ job'[i].cancelled
    BY DEF TakenInOrder
  <2>1. i \in Created
    BY <1>0, <1>1, <1>3 DEF JobIds
  <2>2. CASE k = n
    BY <1>0, <1>2, <1>3, <2>1, <2>2 DEF OrderParts, OwnWorkIsDone
  <2>3. CASE k # n
    BY <1>0, <1>3, <2>1, <2>3 DEF OrderParts, TakenInOrder
  <2> QED BY <2>2, <2>3
<1>7. \A k \in DOMAIN to_worker : to_worker[k] # DESTROY =>
         /\ to_worker[k] \in JobIds \ {n} /\ to_worker[k] < n
         /\ job'[to_worker[k]] = job[to_worker[k]]
  BY <1>0, <1>1, <1>2, Elements DEF CancelParts, QueuedIsCreated
<1>8. QueueInOrder'
  BY <1>0, <1>7 DEF OrderParts, QueueInOrder
<1>9. PushIsLatest'
  <2> SUFFICES ASSUME NEW u \in Threads, NEW k \in DOMAIN to_worker, call'[u].at = "push",
                      to_worker[k] # DESTROY, job'[to_worker[k]].owner = u
               PROVE  to_worker[k] < call'[u].id
    BY DEF PushIsLatest
  <2>1. CASE u = t
    BY <1>0, <1>1, <1>7, <2>1
  <2>2. CASE u # t
    BY <1>0, <1>7, <2>2 DEF OrderParts, PushIsLatest
  <2> QED BY <2>1, <2>2
<1> QED BY <1>4, <1>5, <1>6, <1>8, <1>9 DEF OrderParts

\* The push that ends a submission puts the job behind those of its thread.
LEMMA PushOrder ==
    ASSUME OrderInv, NEW t \in Threads, ExecutePush(t)
    PROVE  OrderParts'
<1>0. /\ TypeOK /\ PlaceParts /\ OrderParts /\ call \in [Threads -> Call]
      /\ to_worker \in Seq(JobIds \cup {DESTROY}) /\ Created \subseteq JobIds
      /\ \A i \in Created : job[i].owner \in Threads
  BY CreatedJobs DEF OrderInv, PlaceInv, CancelInv, TypeInv, TypeOK
<1>1. PICK id : id = call[t].id
  OBVIOUS
<1>2. /\ call[t].at = "push" /\ to_worker' = Append(to_worker, id)
      /\ UNCHANGED <<next_job_id, job, wpc, cur, hist>>
      /\ \A u \in Threads : call'[u].at = "push" => u # t /\ call'[u] = call[u]
      /\ \A u \in Threads \ {t} : call'[u] = call[u]
  BY <1>0, <1>1 DEF ExecutePush, Return, Idle
<1>3. id \in JobIds /\ id # DESTROY /\ job[id].owner = t
  BY <1>0, <1>1, <1>2, Elements DEF PlaceParts, BeingPushed
<1>4. /\ DOMAIN to_worker' = DOMAIN to_worker \cup {Len(to_worker) + 1}
      /\ DOMAIN to_worker = 1 .. Len(to_worker) /\ Len(to_worker) \in Nat
      /\ \A k \in DOMAIN to_worker : to_worker'[k] = to_worker[k]
      /\ to_worker'[Len(to_worker) + 1] = id
  BY <1>0, <1>2, <1>3, Appended, LenProperties
<1>5. Created' = Created
  BY <1>2 DEF Created
<1>6. NoneForgotten'
  <2> SUFFICES ASSUME NEW i \in Created
               PROVE  (hist[i].ran > 0 \/ job[i].cancelled \/ Waiting(i) \/ Pushing(i) \/ Running(i))'
    BY <1>5 DEF NoneForgotten
  <2>1. hist[i].ran > 0 \/ job[i].cancelled \/ Waiting(i) \/ Pushing(i) \/ Running(i)
    BY <1>0 DEF OrderParts, NoneForgotten
  <2>2. Waiting(i) => Waiting(i)'
    BY <1>4 DEF Waiting
  <2>3. Pushing(i) => Pushing(i)' \/ Waiting(i)'
    <3>1. Len(to_worker) + 1 \in DOMAIN to_worker'
      BY <1>4
    <3> QED BY <1>0, <1>1, <1>2, <1>4, <3>1 DEF Waiting, Pushing
  <2> QED BY <1>2, <2>1, <2>2, <2>3 DEF Running
<1>7. TakenInOrder' /\ OwnWorkIsDone'
  BY <1>0, <1>2, <1>5 DEF OrderParts, TakenInOrder, OwnWorkIsDone
<1>8. QueueInOrder'
  <2> SUFFICES ASSUME NEW k \in DOMAIN to_worker', NEW l \in DOMAIN to_worker', k < l,
                      to_worker'[k] # DESTROY, to_worker'[l] # DESTROY,
                      job[to_worker'[k]].owner = job[to_worker'[l]].owner
               PROVE  to_worker'[k] < to_worker'[l]
    BY <1>2 DEF QueueInOrder
  <2>1. k \in DOMAIN to_worker /\ to_worker'[k] = to_worker[k]
    BY <1>4
  <2>2. CASE l \in DOMAIN to_worker
    BY <1>0, <1>4, <2>1, <2>2 DEF OrderParts, QueueInOrder
  <2>3. CASE l = Len(to_worker) + 1
    BY <1>0, <1>1, <1>2, <1>3, <1>4, <2>1, <2>3 DEF OrderParts, PushIsLatest
  <2> QED BY <1>4, <2>2, <2>3
<1>9. PushIsLatest'
  <2> SUFFICES ASSUME NEW u \in Threads, NEW k \in DOMAIN to_worker', call'[u].at = "push",
                      to_worker'[k] # DESTROY, job[to_worker'[k]].owner = u
               PROVE  to_worker'[k] < call'[u].id
    BY <1>2 DEF PushIsLatest
  <2>1. u # t /\ call'[u] = call[u]
    BY <1>2
  <2>2. k \in DOMAIN to_worker /\ to_worker'[k] = to_worker[k]
    BY <1>3, <1>4, <2>1
  <2> QED BY <1>0, <2>1, <2>2 DEF OrderParts, PushIsLatest
<1> QED BY <1>6, <1>7, <1>8, <1>9 DEF OrderParts

\* The job that tells the worker to stop comes behind everything.
LEMMA DisposePushOrder ==
    ASSUME OrderInv, DisposePush
    PROVE  OrderParts'
<1>0. /\ TypeOK /\ OrderParts /\ to_worker \in Seq(JobIds \cup {DESTROY})
  BY DEF OrderInv, PlaceInv, CancelInv, TypeInv, TypeOK
<1>1. /\ to_worker' = Append(to_worker, DESTROY)
      /\ UNCHANGED <<next_job_id, job, call, wpc, cur, hist>>
      /\ \A u \in Threads : call[u].at # "push"
  BY DEF DisposePush, TellWorker, Idle
<1>2. /\ DOMAIN to_worker' = DOMAIN to_worker \cup {Len(to_worker) + 1}
      /\ \A k \in DOMAIN to_worker : to_worker'[k] = to_worker[k]
      /\ to_worker'[Len(to_worker) + 1] = DESTROY
  BY <1>0, <1>1, Appended
<1>3. Created' = Created
  BY <1>1 DEF Created
<1>4. NoneForgotten'
  <2> SUFFICES ASSUME NEW i \in Created
               PROVE  (hist[i].ran > 0 \/ job[i].cancelled \/ Waiting(i) \/ Pushing(i) \/ Running(i))'
    BY <1>3 DEF NoneForgotten
  <2>1. hist[i].ran > 0 \/ job[i].cancelled \/ Waiting(i) \/ Pushing(i) \/ Running(i)
    BY <1>0 DEF OrderParts, NoneForgotten
  <2>2. Waiting(i) => Waiting(i)'
    BY <1>2 DEF Waiting
  <2> QED BY <1>1, <2>1, <2>2 DEF Pushing, Running
<1>5. TakenInOrder' /\ OwnWorkIsDone'
  BY <1>0, <1>1, <1>3 DEF OrderParts, TakenInOrder, OwnWorkIsDone
<1>6. QueueInOrder' /\ PushIsLatest'
  BY <1>0, <1>1, <1>2 DEF OrderParts, QueueInOrder, PushIsLatest
<1> QED BY <1>4, <1>5, <1>6 DEF OrderParts

\* The worker takes the head of the queue: what its submitter submitted before
\* is settled, because it is neither further down nor still to be pushed.
LEMMA TakenOrder ==
    ASSUME OrderInv, NEW id \in JobIds \cup {DESTROY}, WorkerTakes(id),
           UNCHANGED <<next_job_id, call>>,
           \A i \in JobIds : /\ job'[i].owner = job[i].owner
                             /\ job'[i].cancelled = job[i].cancelled
                             /\ i # id => job'[i].processed = job[i].processed
                             /\ hist'[i].ran = hist[i].ran,
           id # DESTROY => job[id].cancelled \/ (wpc' = "run" /\ cur' = id)
    PROVE  OrderParts'
<1>0. /\ TypeOK /\ PlaceParts /\ OrderParts /\ to_worker \in Seq(JobIds \cup {DESTROY})
      /\ Created \subseteq JobIds
      /\ \A i \in Created : job[i].owner \in Threads /\ i # DESTROY
  BY CreatedJobs DEF OrderInv, PlaceInv, CancelInv, TypeInv, TypeOK
<1>1. wpc = "pop" /\ to_worker # << >> /\ id = Head(to_worker) /\ to_worker' = Tail(to_worker)
  BY DEF WorkerTakes
<1>2. /\ 1 \in DOMAIN to_worker /\ to_worker[1] = id
      /\ \A k \in DOMAIN to_worker' : /\ k \in Nat /\ k + 1 \in DOMAIN to_worker
                                      /\ to_worker'[k] = to_worker[k + 1]
  BY <1>0, <1>1, Popped
<1>3. ASSUME NEW k \in DOMAIN to_worker, to_worker[k] # id
      PROVE  k - 1 \in DOMAIN to_worker' /\ to_worker'[k - 1] = to_worker[k]
  BY <1>0, <1>1, <1>3, StillWaiting
<1>4. Created' = Created
  BY DEF Created
<1>5. NoneForgotten'
  <2> SUFFICES ASSUME NEW i \in Created
               PROVE  (hist[i].ran > 0 \/ job[i].cancelled \/ Waiting(i) \/ Pushing(i) \/ Running(i))'
    BY <1>4 DEF NoneForgotten
  <2>1. hist[i].ran > 0 \/ job[i].cancelled \/ Waiting(i) \/ Pushing(i)
    BY <1>0, <1>1 DEF OrderParts, NoneForgotten, Running
  <2>2. i # id /\ Waiting(i) => Waiting(i)'
    BY <1>3 DEF Waiting
  <2>3. i = id => job'[i].cancelled \/ Running(i)'
    BY <1>0 DEF Running
  <2>4. /\ hist'[i].ran = hist[i].ran /\ job'[i].cancelled = job[i].cancelled
        /\ Pushing(i) => Pushing(i)'
    BY <1>0 DEF Pushing
  <2> QED BY <2>1, <2>2, <2>3, <2>4
<1>6. TakenInOrder'
  <2> SUFFICES ASSUME NEW i \in Created, NEW k \in Created, job[i].owner = job[k].owner,
                      i < k, job'[k].processed
               PROVE  hist[i].ran > 0 \/ job[i].cancelled
    BY <1>0, <1>4 DEF TakenInOrder
  <2>1. CASE k = id
    <3>1. ASSUME NEW l \in DOMAIN to_worker, to_worker[l] = i
          PROVE  FALSE
      <4>1. l \in Nat /\ l # 1 /\ 1 < l
        <5>1. l \in 1 .. Len(to_worker)
          BY <1>0, LenProperties
        <5> QED BY <1>0, <1>2, <2>1, <3>1, <5>1 DEF JobIds
      <4>2. id < i
        BY <1>0, <1>2, <2>1, <3>1, <4>1 DEF OrderParts, QueueInOrder
      <4> QED BY <1>0, <2>1, <4>2 DEF JobIds
    <3>2. ~Pushing(i)
      <4>1. SUFFICES ASSUME Pushing(i) PROVE FALSE
        OBVIOUS
      <4>2. id < i
        BY <1>0, <1>2, <2>1, <4>1 DEF OrderParts, PushIsLatest, Pushing
      <4> QED BY <1>0, <2>1, <4>2 DEF JobIds
    <3> QED BY <1>0, <1>1, <3>1, <3>2 DEF OrderParts, NoneForgotten, Waiting, Running
  <2>2. CASE k # id
    BY <1>0, <2>2 DEF OrderParts, TakenInOrder
  <2> QED BY <2>1, <2>2
<1>7. OwnWorkIsDone'
  BY <1>0, <1>4 DEF OrderParts, OwnWorkIsDone
<1>8. \A k \in DOMAIN to_worker : to_worker[k] # DESTROY =>
         to_worker[k] \in JobIds /\ job'[to_worker[k]].owner = job[to_worker[k]].owner
  BY <1>0, Elements
<1>9. QueueInOrder'
  <2> SUFFICES ASSUME NEW k \in DOMAIN to_worker', NEW l \in DOMAIN to_worker', k < l,
                      to_worker'[k] # DESTROY, to_worker'[l] # DESTROY,
                      job'[to_worker'[k]].owner = job'[to_worker'[l]].owner
               PROVE  to_worker'[k] < to_worker'[l]
    BY DEF QueueInOrder
  <2>1. k + 1 \in DOMAIN to_worker /\ l + 1 \in DOMAIN to_worker /\ k + 1 < l + 1
    BY <1>2
  <2>2. job[to_worker[k + 1]].owner = job[to_worker[l + 1]].owner
    BY <1>2, <1>8, <2>1
  <2> QED BY <1>0, <1>2, <2>1, <2>2 DEF OrderParts, QueueInOrder
<1>10. PushIsLatest'
  <2> SUFFICES ASSUME NEW u \in Threads, NEW k \in DOMAIN to_worker', call[u].at = "push",
                      to_worker'[k] # DESTROY, job'[to_worker'[k]].owner = u
               PROVE  to_worker'[k] < call[u].id
    BY DEF PushIsLatest
  <2>1. k + 1 \in DOMAIN to_worker /\ job[to_worker[k + 1]].owner = u
    BY <1>2, <1>8
  <2> QED BY <1>0, <1>2, <2>1 DEF OrderParts, PushIsLatest
<1> QED BY <1>5, <1>6, <1>7, <1>9, <1>10 DEF OrderParts

-----------------------------------------------------------------------------
\* The calls: a new job is the last one of its thread.
LEMMA CallOrder ==
    ASSUME OrderInv, NEW t \in Threads, ClientCall(t)
    PROVE  OrderParts'
<1>0. /\ TypeOK /\ call \in [Threads -> Call] /\ job \in [JobIds -> Job]
      /\ hist \in [JobIds -> Fate]
  BY DEF OrderInv, PlaceInv, CancelInv, TypeInv, TypeOK
<1>1. ASSUME NEW void \in BOOLEAN, NEW arg \in BOOLEAN, ExecuteBegin(t, void, arg)
      PROVE  OrderParts'
  <2>1. call'[t].at = "push" /\ call'[t].id = next_job_id
    BY <1>0, <1>1 DEF ExecuteBegin
  <2> QED BY <1>0, <1>1, <2>1, SubmitOrder DEF ExecuteBegin
<1>2. ASSUME NEW id \in JobIds, Cancel(t, id)
      PROVE  OrderParts'
  <2>1. ASSUME NEW i \in JobIds
        PROVE  /\ job'[i].owner = job[i].owner /\ job'[i].processed = job[i].processed
               /\ job[i].cancelled => job'[i].cancelled
    <3>1. job[i] \in Job /\ job' = [job EXCEPT ![id] = Stopped(@)]
      BY <1>0, <1>2 DEF Cancel
    <3>2. /\ Stopped(job[i]).owner = job[i].owner /\ Stopped(job[i]).processed = job[i].processed
          /\ Stopped(job[i]).cancelled
      BY <3>1 DEF Stopped, Job
    <3>3. job'[i] = job[i] \/ job'[i] = Stopped(job[i])
      BY <1>0, <3>1
    <3> QED BY <3>2, <3>3
  <2>2. \A i \in JobIds : hist'[i].ran = hist[i].ran
    BY <1>0, <1>2, DestroyArgumentType DEF Cancel
  <2> QED BY <1>2, <2>1, <2>2, SteadyOrder DEF Cancel
<1>3. ASSUME \/ \E block \in BOOLEAN : IterateBegin(t, block)
             \/ \E id \in JobIds, block \in BOOLEAN : FetchBegin(t, id, block)
      PROVE  OrderParts'
  <2>1. call[t].at # "push" /\ call'[t].at # "push" /\ \A u \in Threads \ {t} : call'[u] = call[u]
    BY <1>0, <1>3 DEF IterateBegin, FetchBegin, CanCall, Idle
  <2>2. UNCHANGED <<next_job_id, job, to_worker, wpc, cur, hist>>
    BY <1>3 DEF IterateBegin, FetchBegin
  <2> QED BY <2>1, <2>2, SteadyOrder
<1>4. CASE GetIoChannel(t) \/ UnsetIoChannel(t)
  <2>1. UNCHANGED <<next_job_id, job, to_worker, wpc, cur, hist, call>>
    BY <1>4 DEF GetIoChannel, UnsetIoChannel
  <2> QED BY <2>1, SteadyOrder
<1> QED BY <1>1, <1>2, <1>3, <1>4 DEF ClientCall

\* Taking replies leaves the queue of the worker alone.
LEMMA ClientStepOrder ==
    ASSUME OrderInv, NEW t \in Threads, ClientStep(t)
    PROVE  OrderParts'
<1>0. /\ TypeOK /\ call \in [Threads -> Call] /\ call[t] \in Call /\ PlaceInv
  BY DEF OrderInv, PlaceInv, CancelInv, TypeInv, TypeOK
<1>1. CASE ExecutePush(t)
  BY <1>1, PushOrder
<1>2. ASSUME UNCHANGED <<next_job_id, job, to_worker, wpc, cur>>,
             \A i \in JobIds : hist'[i].ran = hist[i].ran,
             call[t].at # "push", call'[t].at # "push",
             \A u \in Threads \ {t} : call'[u] = call[u]
      PROVE  OrderParts'
  BY <1>2, SteadyOrder
<1>3. CASE PopNothing(t) \/ FetchNotFound(t)
  <2>1. call[t].at # "push" /\ \A u \in Threads \ {t} : call'[u] = call[u]
    BY <1>0, <1>3 DEF PopNothing, FetchNotFound, InIterate, Return
  <2>2. [call[t] EXCEPT !.at = "fetch"].at = "fetch"
    BY <1>0 DEF Call
  <2>3. call'[t].at # "push"
    <3>1. call'[t] = Idle \/ call'[t] = [call[t] EXCEPT !.at = "fetch"]
      BY <1>0, <1>3 DEF PopNothing, FetchNotFound, Return
    <3>2. Idle.at = "none"
      BY DEF Idle
    <3>3. call'[t].at = "fetch" \/ call'[t].at = "none"
      BY <2>2, <3>1, <3>2
    <3> QED BY <3>3
  <2> QED BY <1>2, <1>3, <2>1, <2>3 DEF PopNothing, FetchNotFound
<1>4. CASE PopVoid(t)
  <2>1. PICK id : id = Head(from_worker[t])
    OBVIOUS
  <2>2. id \in JobIds /\ JobFree(id) /\ call' = call /\ call[t].at # "push"
    BY <1>0, <1>4, <2>1, TakenReply DEF PopVoid, Pop, InIterate
  <2>3. \A i \in JobIds : hist'[i].ran = hist[i].ran
    BY <1>0, <2>2, JobFreeType
  <2> QED BY <1>2, <1>4, <2>2, <2>3 DEF PopVoid
<1>5. CASE PopResult(t)
  <2>1. call[t].at \in {"iterate", "fetch"} /\ call' = [call EXCEPT ![t] = LookAgain(t)]
    BY <1>5 DEF PopResult, Pop, InIterate
  <2>2. LookAgain(t).at # "push"
    BY <1>0, <2>1 DEF LookAgain, Idle, Call
  <2> QED BY <1>0, <1>2, <1>5, <2>1, <2>2 DEF PopResult
<1>6. CASE PopNotificationError(t)
  <2>1. call[t].at \in {"iterate", "fetch"}
    BY <1>6 DEF PopNotificationError, Pop, InIterate
  <2>2. [call[t] EXCEPT !.at = "look"].at = "look"
    BY <1>0 DEF Call
  <2>3. call' = [call EXCEPT ![t] = IF call[t].at = "fetch" /\ call[t].block
                                    THEN [call[t] EXCEPT !.at = "look"] ELSE Idle]
    BY <1>0, <1>6 DEF PopNotificationError
  <2>4. call'[t].at # "push"
    BY <1>0, <2>2, <2>3 DEF Idle
  <2> QED BY <1>0, <1>2, <1>6, <2>1, <2>3, <2>4 DEF PopNotificationError
<1>7. CASE FetchFound(t)
  <2>1. PICK id : id = call[t].id
    OBVIOUS
  <2>2. id \in JobIds /\ JobFree(id)
    BY <1>0, <1>7, <2>1, Elements DEF FetchFound
  <2>3. \A i \in JobIds : hist'[i].ran = hist[i].ran
    BY <1>0, <2>2, JobFreeType
  <2>4. call[t].at # "push" /\ call'[t].at # "push" /\ \A u \in Threads \ {t} : call'[u] = call[u]
    BY <1>0, <1>7 DEF FetchFound, Return, Idle
  <2> QED BY <1>2, <1>7, <2>3, <2>4 DEF FetchFound
<1> QED BY <1>1, <1>3, <1>4, <1>5, <1>6, <1>7 DEF ClientStep

\* A function executed inside another one is the latest of the worker.
LEMMA InlineOrder ==
    ASSUME OrderInv, NEW void \in BOOLEAN, NEW arg \in BOOLEAN, ExecuteInline(void, arg)
    PROVE  OrderParts'
<1>1. Worker \in Threads /\ Submit(Worker, void, arg) /\ TypeOK /\ hist \in [JobIds -> Fate]
  BY DEF ExecuteInline, Threads, OrderInv, PlaceInv, CancelInv, TypeInv, TypeOK
<1>2. PICK n \in JobIds : n = next_job_id
  BY <1>1, SubmitPlaces DEF OrderInv
<1>3. hist' = [hist EXCEPT ![n].ran = @ + 1] /\ hist[n].ran \in Nat
  BY <1>1, <1>2, FateType DEF ExecuteInline
<1>4. hist'[n].ran > 0
  <2>1. hist[n] \in Fate /\ hist'[n] = [hist[n] EXCEPT !.ran = hist[n].ran + 1]
    BY <1>1, <1>3
  <2> QED BY <1>3, <2>1 DEF Fate
<1>5. \A i \in JobIds : hist[i].ran > 0 => hist'[i].ran > 0
  BY <1>1, <1>3, <1>4
<1> QED BY <1>1, <1>2, <1>4, <1>5, SubmitOrder DEF ExecuteInline

\* The worker takes the head of the queue, behind which its thread has only later jobs.
LEMMA WorkerOrder ==
    ASSUME OrderInv, WorkerStep \/ WorkerFinish
    PROVE  OrderParts'
<1>0. /\ TypeOK /\ PlaceInv /\ WorkerHoldsJob /\ job \in [JobIds -> Job] /\ hist \in [JobIds -> Fate]
  BY DEF OrderInv, PlaceInv, CancelInv, TypeInv, TypeOK
<1>1. CASE WorkerPop
  <2>1. PICK id \in JobIds :
          /\ WorkerTakes(id)
          /\ job' = [job EXCEPT ![id].processed = TRUE]
          /\ IF Dropped(id)
             THEN JobFree(id) /\ UNCHANGED <<wpc, cur>>
             ELSE wpc' = "run" /\ cur' = id /\ UNCHANGED hist
          /\ UNCHANGED <<next_job_id, td, from_worker, pipe, unread, call, dispose>>
    BY <1>1 DEF WorkerPop
  <2>2. \A i \in JobIds : /\ job'[i].owner = job[i].owner /\ job'[i].cancelled = job[i].cancelled
                          /\ i # id => job'[i].processed = job[i].processed
    BY <1>0, <2>1 DEF Job
  <2>3. \A i \in JobIds : hist'[i].ran = hist[i].ran
    BY <1>0, <2>1, JobFreeType
  <2>4. job[id].cancelled \/ (wpc' = "run" /\ cur' = id)
    BY <2>1 DEF Dropped
  <2> QED BY <2>1, <2>2, <2>3, <2>4, TakenOrder
<1>2. CASE WorkerExit
  BY <1>2, TakenOrder DEF WorkerExit
<1>3. CASE WorkerNotify \/ WorkerNotifyFails \/ WorkerReport
  <2>1. UNCHANGED <<next_job_id, job, to_worker, hist, call>> /\ wpc # "run"
    BY <1>3 DEF WorkerNotify, WorkerNotifyFails, WorkerReport
  <2> QED BY <2>1, SteadyOrder
<1>4. CASE WorkerFinish
  <2>1. /\ UNCHANGED <<next_job_id, job, to_worker, call>> /\ cur \in JobIds
        /\ hist' = [hist EXCEPT ![cur].ran = @ + 1]
    BY <1>0, <1>4 DEF WorkerFinish, WorkerHoldsJob
  <2>2. hist'[cur].ran > 0
    <3>1. hist[cur] \in Fate /\ hist'[cur] = [hist[cur] EXCEPT !.ran = hist[cur].ran + 1]
      BY <1>0, <2>1
    <3>2. hist[cur].ran \in Nat /\ hist'[cur].ran = hist[cur].ran + 1
      BY <3>1 DEF Fate
    <3> QED BY <3>2
  <2>3. \A i \in JobIds : hist[i].ran > 0 => hist'[i].ran > 0
    BY <1>0, <2>1, <2>2
  <2> QED BY <2>1, <2>2, <2>3, SteadyOrder
<1> QED BY <1>1, <1>2, <1>3, <1>4 DEF WorkerStep

\* Dispose cancels jobs where they are.
LEMMA DisposeCleanOrder ==
    ASSUME OrderInv, DisposeClean
    PROVE  OrderParts'
<1>0. /\ TypeOK /\ job \in [JobIds -> Job] /\ hist \in [JobIds -> Fate]
  BY DEF OrderInv, PlaceInv, CancelInv, TypeInv, TypeOK
<1>1. ASSUME NEW i \in JobIds
      PROVE  /\ job'[i].owner = job[i].owner /\ job'[i].processed = job[i].processed
             /\ job[i].cancelled => job'[i].cancelled
  <2>1. job'[i] = job[i] \/ job'[i] = Stopped(job[i])
    BY DEF DisposeClean
  <2>2. job[i] \in Job
    BY <1>0
  <2>3. /\ Stopped(job[i]).owner = job[i].owner /\ Stopped(job[i]).processed = job[i].processed
        /\ Stopped(job[i]).cancelled
    BY <2>2 DEF Stopped, Job
  <2> QED BY <2>1, <2>3
<1>2. ASSUME NEW i \in JobIds
      PROVE  hist'[i].ran = hist[i].ran
  <2> DEFINE m == hist[i].destroyed + Times(job[i].arg)
             n == hist[i].freed + Times(i \in UNION {td[t].results : t \in Threads})
  <2>1. hist'[i] = [hist[i] EXCEPT !.destroyed = m, !.freed = n] \/ hist'[i] = hist[i]
    BY DEF DisposeClean
  <2>2. hist[i] \in Fate
    BY <1>0
  <2> HIDE DEF m, n
  <2> QED BY <2>1, <2>2 DEF Fate
<1> QED BY <1>1, <1>2, SteadyOrder DEF DisposeClean

\* Every step keeps the order.
LEMMA NextOrder == OrderInv /\ [Next]_vars => OrderInv'
<1> SUFFICES ASSUME OrderInv, [Next]_vars PROVE OrderInv'
  OBVIOUS
<1>1. PlaceInv'
  BY NextPlaces DEF OrderInv
<1>2. ASSUME NEW t \in Threads, ReadNotification(t)
      PROVE  OrderParts'
  BY <1>2, SteadyOrder DEF ReadNotification
<1>3. ASSUME UNCHANGED vars
      PROVE  OrderParts'
  BY <1>3, SteadyOrder DEF vars
<1>4. OrderParts'
  BY <1>2, <1>3, CallOrder, ClientStepOrder, InlineOrder, WorkerOrder, DisposePushOrder,
     DisposeCleanOrder DEF Next
<1> QED BY <1>1, <1>4 DEF OrderInv

\* gda_thread_wrapper_execute() from any number of threads: the functions of one
\* thread are executed in the order it submitted them.
THEOREM RunInOrder == Spec => []ExecutedInOrder
<1>1. Init => OrderInv
  BY InitOrder DEF ReplyInv
<1> QED BY <1>1, NextOrder, OrderInvImplies, PTL DEF Spec

-----------------------------------------------------------------------------
(* No reply is lost.                                                       *)

Entries(s, i) == {k \in DOMAIN s : s[k] = i}

\* A list that holds i at one place at most holds it once or not at all.
LEMMA CountEntries ==
    ASSUME NEW s, NEW i, \A k, l \in DOMAIN s : s[k] = i /\ s[l] = i => k = l
    PROVE  Cardinality(Entries(s, i)) = IF \E k \in DOMAIN s : s[k] = i THEN 1 ELSE 0
<1>1. CASE \E k \in DOMAIN s : s[k] = i
  <2>1. PICK k \in DOMAIN s : s[k] = i
    BY <1>1
  <2>2. Entries(s, i) = {k}
    BY <2>1 DEF Entries
  <2> QED BY <1>1, <2>2, FS_Singleton
<1>2. CASE ~ \E k \in DOMAIN s : s[k] = i
  <2>1. Entries(s, i) = {}
    BY <1>2 DEF Entries
  <2> QED BY <1>2, <2>1, FS_EmptySet
<1> QED BY <1>1, <1>2

\* While nothing stops or frees it, a job is at one place on its way exactly as
\* long as its ThreadData lists it among the jobs.
LEMMA ReplyInvImplies == ReplyInv => NoLostReply
<1> SUFFICES ASSUME ReplyInv, dispose # "done", NEW i \in Created,
                    hist[i].freed = 0, ~job[i].cancelled
             PROVE  LET d == td[job[i].owner] IN
                    /\ d.present
                    /\ OnTheWay(i) = IF i \in d.jobs THEN 1 ELSE 0
                    /\ (i \in d.results) = (i \notin d.jobs)
  BY DEF NoLostReply
<1>1. /\ TypeOK /\ CancelParts /\ PlaceInv /\ PlaceParts /\ OrderParts /\ KnownToOwner
      /\ i \in JobIds /\ i # DESTROY /\ i # NOTIFICATION_ERROR
  BY CreatedJobs DEF ReplyInv, OrderInv, PlaceInv, CancelInv, TypeInv
<1>2. PICK o \in Threads : o = job[i].owner
  BY <1>1, CreatedJobs
<1>3. /\ td[o].present /\ i \in td[o].jobs \cup td[o].results
      /\ i \in td[o].jobs /\ hist[i].ran > 0 => InReplies(i)
  BY <1>1, <1>2 DEF KnownToOwner
<1>4. (i \in td[o].results) = (i \notin td[o].jobs)
  BY <1>1, <1>2, <1>3 DEF PlaceParts, InThreadData
<1>5. /\ Cardinality(Entries(to_worker, i)) = IF Waiting(i) THEN 1 ELSE 0
      /\ Cardinality(Entries(from_worker[o], i)) = IF InReplies(i) THEN 1 ELSE 0
  <2>1. \A k, l \in DOMAIN to_worker : to_worker[k] = i /\ to_worker[l] = i => k = l
    BY <1>1 DEF PlaceParts, InWorkerQueue
  <2>2. \A k, l \in DOMAIN from_worker[o] : from_worker[o][k] = i /\ from_worker[o][l] = i => k = l
    BY <1>1 DEF PlaceParts, InReplyQueue
  <2> QED BY <1>2, <2>1, <2>2, CountEntries DEF Waiting, InReplies
<1>6. OnTheWay(i) = (IF Waiting(i) THEN 1 ELSE 0) + (IF InReplies(i) THEN 1 ELSE 0)
                      + (IF Pushing(i) THEN 1 ELSE 0) + (IF Running(i) THEN 1 ELSE 0)
  BY <1>2, <1>5 DEF OnTheWay, Entries, Pushing, Running
<1>7. hist[i].ran > 0 => ~Waiting(i) /\ ~Pushing(i) /\ ~Running(i)
  BY <1>1, <1>2, RanIsElsewhere DEF Waiting, Pushing, Running
<1>8. InReplies(i) => hist[i].ran > 0 /\ i \notin td[o].results
  BY <1>1, <1>2 DEF InReplies, PlaceParts, InReplyQueue, Replied
<1>9. /\ Waiting(i) => ~job[i].processed /\ ~Pushing(i)
      /\ Pushing(i) => ~job[i].processed
      /\ Running(i) => job[i].processed
  BY <1>1, <1>2 DEF Waiting, Pushing, Running, PlaceParts, InWorkerQueue, BeingPushed,
                    CancelParts, RunningIsProcessed
<1>10. hist[i].ran > 0 \/ Waiting(i) \/ Pushing(i) \/ Running(i)
  BY <1>1 DEF OrderParts, NoneForgotten
<1>11. i \notin td[o].jobs => hist[i].ran > 0
  BY <1>1, <1>3 DEF PlaceParts, InThreadData
<1>12. OnTheWay(i) = IF i \in td[o].jobs THEN 1 ELSE 0
  <2>1. CASE hist[i].ran > 0
    BY <1>3, <1>4, <1>6, <1>7, <1>8, <2>1
  <2>2. CASE ~(hist[i].ran > 0)
    BY <1>6, <1>8, <1>9, <1>10, <1>11, <2>2
  <2> QED BY <2>1, <2>2
<1> QED BY <1>2, <1>3, <1>4, <1>12

\* What a step must do for a job that it neither stops nor frees.
LEMMA SteadyKnown ==
    ASSUME ReplyInv, next_job_id' = next_job_id, dispose = "done" => dispose' = "done",
           \A i \in Created : hist'[i].freed = 0 /\ ~job'[i].cancelled =>
             LET o == job[i].owner IN
             /\ hist[i].freed = 0 /\ ~job[i].cancelled /\ job'[i].owner = o
             /\ td[o].present /\ i \in td[o].jobs \cup td[o].results =>
                  td'[o].present /\ i \in td'[o].jobs \cup td'[o].results
             /\ i \in td'[o].jobs =>
                  /\ i \in td[o].jobs
                  /\ hist'[i].ran > 0 => hist[i].ran > 0 \/ InReplies(i)'
                  /\ InReplies(i) => InReplies(i)'
    PROVE  KnownToOwner'
<1>1. Created' = Created
  BY DEF Created
<1> QED BY <1>1 DEF ReplyInv, KnownToOwner

\* A step that leaves the ThreadData and the reply queues as they are.
LEMMA StillKnown ==
    ASSUME ReplyInv, UNCHANGED <<next_job_id, from_worker>>,
           dispose = "done" => dispose' = "done",
           \A t \in Threads : /\ td'[t].present = td[t].present
                              /\ td'[t].jobs = td[t].jobs /\ td'[t].results = td[t].results,
           \A i \in JobIds : /\ hist'[i].freed = 0 => hist[i].freed = 0
                             /\ hist'[i].ran = hist[i].ran
                             /\ job'[i].owner = job[i].owner
                             /\ ~job'[i].cancelled => ~job[i].cancelled
    PROVE  KnownToOwner'
<1>1. Created \subseteq JobIds /\ \A i \in Created : job[i].owner \in Threads
  BY CreatedJobs DEF ReplyInv, OrderInv, PlaceInv, CancelInv, TypeInv
<1> QED BY <1>1, SteadyKnown DEF InReplies

\* A submission makes the job known to its thread.
LEMMA SubmitKnown ==
    ASSUME ReplyInv, NEW t \in Threads, NEW void \in BOOLEAN, NEW arg \in BOOLEAN,
           Submit(t, void, arg), dispose' = dispose,
           \A i \in JobIds \ {next_job_id} : hist'[i] = hist[i],
           \/ from_worker' = from_worker /\ hist'[next_job_id].ran = 0
           \/ from_worker' = [from_worker EXCEPT ![t] = Append(@, next_job_id)]
    PROVE  KnownToOwner'
<1>0. /\ TypeOK /\ PlaceInv /\ Created \subseteq JobIds
      /\ \A i \in Created : i < next_job_id /\ job[i].owner \in Threads
      /\ from_worker \in [Threads -> Seq(JobIds \cup {NOTIFICATION_ERROR})]
      /\ td \in [Threads -> ThreadData]
  BY CreatedJobs DEF ReplyInv, OrderInv, PlaceInv, CancelInv, TypeInv, TypeOK
<1>1. PICK n \in JobIds : n = next_job_id
  BY <1>0, SubmitPlaces
<1>2. /\ n \in Nat /\ next_job_id' = n + 1 /\ job'[n].owner = t
      /\ \A i \in JobIds \ {n} : job'[i] = job[i]
  BY <1>0, <1>1, SubmitPlaces
<1>3. Created' = Created \cup {n} /\ n \notin Created
  <2>1. Created' = 1 .. n /\ Created = 1 .. (n - 1)
    BY <1>1, <1>2 DEF Created
  <2> QED BY <1>2, <2>1 DEF JobIds
<1>4. /\ td'[t].present /\ n \in td'[t].jobs
      /\ td[t].present => td'[t].jobs = td[t].jobs \cup {n} /\ td'[t].results = td[t].results
      /\ \A u \in Threads \ {t} : td'[u] = td[u]
  <2>1. ThreadDataOf(t) \in ThreadData /\ (td[t].present => ThreadDataOf(t) = td[t])
    BY <1>0, NewRecords DEF ThreadDataOf
  <2>2. ThreadDataOf(t).present
    <3>1. CASE td[t].present
      BY <2>1, <3>1
    <3>2. CASE ~td[t].present
      BY <3>2 DEF ThreadDataOf, NoData
    <3> QED BY <3>1, <3>2
  <2>3. td' = [td EXCEPT ![t] = [ThreadDataOf(t) EXCEPT !.jobs = @ \cup {n}]]
    BY <1>1 DEF Submit
  <2> QED BY <1>0, <2>1, <2>2, <2>3 DEF ThreadData
<1>5. \A u \in Threads : \A k \in DOMAIN from_worker[u] :
         k \in DOMAIN from_worker'[u] /\ from_worker'[u][k] = from_worker[u][k]
  <2>1. CASE from_worker' = from_worker
    BY <2>1
  <2>2. CASE from_worker' = [from_worker EXCEPT ![t] = Append(@, n)]
    <3>1. /\ DOMAIN Append(from_worker[t], n) = DOMAIN from_worker[t] \cup {Len(from_worker[t]) + 1}
          /\ \A k \in DOMAIN from_worker[t] : Append(from_worker[t], n)[k] = from_worker[t][k]
      BY <1>0, Appended
    <3>2. from_worker'[t] = Append(from_worker[t], n) /\ \A u \in Threads \ {t} : from_worker'[u] = from_worker[u]
      BY <1>0, <2>2
    <3> QED BY <3>1, <3>2
  <2> QED BY <1>1, <2>1, <2>2
<1>6. hist'[n].ran > 0 => InReplies(n)'
  <2>1. CASE hist'[n].ran = 0
    BY <2>1
  <2>2. CASE from_worker' = [from_worker EXCEPT ![t] = Append(@, n)]
    <3>1. /\ Len(from_worker[t]) + 1 \in DOMAIN Append(from_worker[t], n)
          /\ Append(from_worker[t], n)[Len(from_worker[t]) + 1] = n
      BY <1>0, Appended
    <3>2. from_worker'[t] = Append(from_worker[t], n)
      BY <1>0, <2>2
    <3> QED BY <1>2, <3>1, <3>2 DEF InReplies
  <2> QED BY <1>1, <2>1, <2>2
<1>7. ASSUME dispose # "done", NEW i \in Created, hist'[i].freed = 0, ~job'[i].cancelled
      PROVE  LET d == td'[job'[i].owner] IN
             /\ d.present
             /\ i \in d.jobs \cup d.results
             /\ i \in d.jobs /\ hist'[i].ran > 0 => InReplies(i)'
  <2>1. job'[i] = job[i] /\ hist'[i] = hist[i] /\ i # n
    BY <1>0, <1>1, <1>2, <1>3
  <2>2. PICK o \in Threads : o = job[i].owner
    BY <1>0
  <2>3. /\ td[o].present /\ i \in td[o].jobs \cup td[o].results
        /\ i \in td[o].jobs /\ hist[i].ran > 0 => InReplies(i)
    BY <1>7, <2>1, <2>2 DEF ReplyInv, KnownToOwner
  <2>4. /\ td'[o].present /\ i \in td'[o].jobs \cup td'[o].results
        /\ i \in td'[o].jobs => i \in td[o].jobs
    BY <1>4, <2>1, <2>3
  <2>5. InReplies(i) => InReplies(i)'
    BY <1>5, <2>1, <2>2 DEF InReplies
  <2> QED BY <2>1, <2>2, <2>3, <2>4, <2>5
<1> QED BY <1>2, <1>3, <1>4, <1>6, <1>7 DEF KnownToOwner

\* The calls: a new job is entered in the ThreadData of its thread.
LEMMA CallKnown ==
    ASSUME ReplyInv, NEW t \in Threads, ClientCall(t)
    PROVE  KnownToOwner'
<1>0. /\ TypeOK /\ PlaceInv /\ PlaceParts /\ job \in [JobIds -> Job] /\ hist \in [JobIds -> Fate]
      /\ td \in [Threads -> ThreadData] /\ td[t] \in ThreadData
      /\ Created \subseteq JobIds /\ \A i \in Created : job[i].owner \in Threads
  BY CreatedJobs DEF ReplyInv, OrderInv, PlaceInv, CancelInv, TypeInv, TypeOK
<1>1. ASSUME NEW void \in BOOLEAN, NEW arg \in BOOLEAN, ExecuteBegin(t, void, arg)
      PROVE  KnownToOwner'
  <2>1. Submit(t, void, arg) /\ UNCHANGED <<dispose, hist, from_worker>>
    BY <1>1 DEF ExecuteBegin
  <2>2. hist[next_job_id].ran = 0
    BY <1>0, <2>1, SubmitPlaces
  <2> QED BY <2>1, <2>2, SubmitKnown
<1>2. ASSUME NEW id \in JobIds, Cancel(t, id)
      PROVE  KnownToOwner'
  <2>1. /\ job' = [job EXCEPT ![id] = Stopped(@)] /\ DestroyArgument(id)
        /\ td' = [td EXCEPT ![t].jobs = @ \ {id}]
        /\ UNCHANGED <<next_job_id, from_worker, dispose>>
    BY <1>2 DEF Cancel
  <2>2. /\ td'[t].jobs = td[t].jobs \ {id} /\ td'[t].results = td[t].results
        /\ td'[t].present = td[t].present /\ \A u \in Threads \ {t} : td'[u] = td[u]
    BY <1>0, <2>1 DEF ThreadData
  <2>3. job'[id].cancelled /\ \A i \in JobIds \ {id} : job'[i] = job[i]
    <3>1. job[id] \in Job /\ job'[id] = Stopped(job[id])
      BY <1>0, <2>1
    <3>2. Stopped(job[id]).cancelled
      BY <3>1 DEF Stopped, Job
    <3> QED BY <1>0, <2>1, <3>1, <3>2
  <2>4. \A i \in JobIds \ {id} : hist'[i] = hist[i]
    BY <1>0, <2>1 DEF DestroyArgument
  <2>5. ASSUME NEW i \in Created, hist'[i].freed = 0, ~job'[i].cancelled
        PROVE  LET o == job[i].owner IN
               /\ hist[i].freed = 0 /\ ~job[i].cancelled /\ job'[i].owner = o
               /\ td[o].present /\ i \in td[o].jobs \cup td[o].results =>
                    td'[o].present /\ i \in td'[o].jobs \cup td'[o].results
               /\ i \in td'[o].jobs =>
                    /\ i \in td[o].jobs
                    /\ hist'[i].ran > 0 => hist[i].ran > 0 \/ InReplies(i)'
                    /\ InReplies(i) => InReplies(i)'
    <3>1. i # id /\ i \in JobIds
      BY <1>0, <2>3, <2>5
    <3>2. job'[i] = job[i] /\ hist'[i] = hist[i] /\ job[i].owner \in Threads
      BY <1>0, <2>3, <2>4, <3>1
    <3>3. InReplies(i) => InReplies(i)'
      BY <2>1, <3>2 DEF InReplies
    <3> QED BY <2>2, <2>5, <3>1, <3>2, <3>3
  <2> QED BY <2>1, <2>5, SteadyKnown
<1>3. ASSUME \/ \E block \in BOOLEAN : IterateBegin(t, block)
             \/ \E id \in JobIds, block \in BOOLEAN : FetchBegin(t, id, block)
             \/ GetIoChannel(t)
      PROVE  KnownToOwner'
  <2>1. UNCHANGED <<next_job_id, job, td, from_worker, dispose, hist>>
    BY <1>3 DEF IterateBegin, FetchBegin, GetIoChannel
  <2> QED BY <2>1, StillKnown
<1>4. CASE UnsetIoChannel(t)
  <2>1. /\ UNCHANGED <<next_job_id, job, from_worker, dispose, hist>>
        /\ td' = [td EXCEPT ![t].notif = FALSE]
    BY <1>4 DEF UnsetIoChannel, CleanNotifications
  <2>2. \A u \in Threads : /\ td'[u].present = td[u].present
                           /\ td'[u].jobs = td[u].jobs /\ td'[u].results = td[u].results
    BY <1>0, <2>1 DEF ThreadData
  <2> QED BY <2>1, <2>2, StillKnown
<1> QED BY <1>1, <1>2, <1>3, <1>4 DEF ClientCall

\* A reply that is taken makes the others move up.
LEMMA OtherReplies ==
    ASSUME TypeOK, NEW t \in Threads, Pop(t), NEW i, i # Head(from_worker[t]),
           job[i].owner \in Threads, job'[i].owner = job[i].owner, InReplies(i)
    PROVE  InReplies(i)'
<1>1. /\ from_worker \in [Threads -> Seq(JobIds \cup {NOTIFICATION_ERROR})]
      /\ from_worker[t] # << >> /\ from_worker' = [from_worker EXCEPT ![t] = Tail(@)]
  BY DEF TypeOK, Pop
<1>2. PICK o \in Threads : o = job[i].owner
  OBVIOUS
<1>3. PICK k \in DOMAIN from_worker[o] : from_worker[o][k] = i
  BY <1>2 DEF InReplies
<1>4. CASE o = t
  <2>1. k - 1 \in DOMAIN Tail(from_worker[t]) /\ Tail(from_worker[t])[k - 1] = i
    BY <1>1, <1>3, <1>4, StillWaiting
  <2>2. from_worker'[o] = Tail(from_worker[t])
    BY <1>1, <1>4
  <2> QED BY <1>2, <2>1, <2>2 DEF InReplies
<1>5. CASE o # t
  BY <1>1, <1>2, <1>3, <1>5 DEF InReplies
<1> QED BY <1>4, <1>5

\* iterate() and fetch_result() move a job from the reply queue to the results or free it.
LEMMA ClientStepKnown ==
    ASSUME ReplyInv, NEW t \in Threads, ClientStep(t)
    PROVE  KnownToOwner'
<1>0. /\ TypeOK /\ PlaceInv /\ PlaceParts /\ hist \in [JobIds -> Fate]
      /\ td \in [Threads -> ThreadData] /\ td[t] \in ThreadData
      /\ Created \subseteq JobIds
      /\ \A i \in Created : job[i].owner \in Threads /\ i # NOTIFICATION_ERROR
  BY CreatedJobs DEF ReplyInv, OrderInv, PlaceInv, CancelInv, TypeInv, TypeOK
<1>1. CASE ExecutePush(t) \/ PopNothing(t) \/ FetchNotFound(t)
  <2>1. UNCHANGED <<next_job_id, job, td, from_worker, dispose, hist>>
    BY <1>1 DEF ExecutePush, PopNothing, FetchNotFound
  <2> QED BY <2>1, StillKnown
<1>2. CASE PopVoid(t)
  <2>1. PICK id : id = Head(from_worker[t])
    OBVIOUS
  <2>2. /\ Pop(t) /\ id # NOTIFICATION_ERROR /\ JobFree(id)
        /\ td' = [td EXCEPT ![t].jobs = @ \ {id}]
        /\ UNCHANGED <<next_job_id, job, dispose>>
    BY <1>2, <2>1 DEF PopVoid
  <2>3. id \in JobIds
    BY <1>0, <2>1, <2>2, TakenReply
  <2>4. /\ td'[t].jobs = td[t].jobs \ {id} /\ td'[t].results = td[t].results
        /\ td'[t].present = td[t].present /\ \A u \in Threads \ {t} : td'[u] = td[u]
    BY <1>0, <2>2 DEF ThreadData
  <2>5. hist'[id].freed # 0 /\ \A i \in JobIds \ {id} : hist'[i] = hist[i]
    BY <1>0, <2>2, <2>3, FreedEffect, FateType
  <2>6. ASSUME NEW i \in Created, hist'[i].freed = 0, ~job'[i].cancelled
        PROVE  LET o == job[i].owner IN
               /\ hist[i].freed = 0 /\ ~job[i].cancelled /\ job'[i].owner = o
               /\ td[o].present /\ i \in td[o].jobs \cup td[o].results =>
                    td'[o].present /\ i \in td'[o].jobs \cup td'[o].results
               /\ i \in td'[o].jobs =>
                    /\ i \in td[o].jobs
                    /\ hist'[i].ran > 0 => hist[i].ran > 0 \/ InReplies(i)'
                    /\ InReplies(i) => InReplies(i)'
    <3>1. i \in JobIds \ {id} /\ hist'[i] = hist[i] /\ job'[i] = job[i] /\ job[i].owner \in Threads
      BY <1>0, <2>2, <2>5, <2>6
    <3>2. InReplies(i) => InReplies(i)'
      BY <1>0, <2>1, <2>2, <3>1, OtherReplies
    <3> QED BY <2>4, <2>6, <3>1, <3>2
  <2> QED BY <2>2, <2>6, SteadyKnown
<1>3. CASE PopResult(t)
  <2>1. PICK id : id = Head(from_worker[t])
    OBVIOUS
  <2>2. /\ Pop(t) /\ id # NOTIFICATION_ERROR
        /\ td' = [td EXCEPT ![t].jobs = @ \ {id}, ![t].results = @ \cup {id}]
        /\ UNCHANGED <<next_job_id, job, dispose, hist>>
    BY <1>3, <2>1 DEF PopResult
  <2>3. id \in JobIds /\ job[id].owner = t
    BY <1>0, <2>1, <2>2, TakenReply DEF Replied
  <2>4. /\ td'[t].jobs = td[t].jobs \ {id} /\ td'[t].results = td[t].results \cup {id}
        /\ td'[t].present = td[t].present /\ \A u \in Threads \ {t} : td'[u] = td[u]
    BY <1>0, <2>2 DEF ThreadData
  <2>5. ASSUME NEW i \in Created, hist'[i].freed = 0, ~job'[i].cancelled
        PROVE  LET o == job[i].owner IN
               /\ hist[i].freed = 0 /\ ~job[i].cancelled /\ job'[i].owner = o
               /\ td[o].present /\ i \in td[o].jobs \cup td[o].results =>
                    td'[o].present /\ i \in td'[o].jobs \cup td'[o].results
               /\ i \in td'[o].jobs =>
                    /\ i \in td[o].jobs
                    /\ hist'[i].ran > 0 => hist[i].ran > 0 \/ InReplies(i)'
                    /\ InReplies(i) => InReplies(i)'
    <3>1. hist'[i] = hist[i] /\ job'[i] = job[i] /\ job[i].owner \in Threads
      BY <1>0, <2>2
    <3>2. i # id /\ InReplies(i) => InReplies(i)'
      BY <1>0, <2>1, <2>2, <3>1, OtherReplies
    <3>3. i = id => i \notin td'[job[i].owner].jobs
      BY <2>3, <2>4
    <3> QED BY <2>4, <2>5, <3>1, <3>2, <3>3
  <2> QED BY <2>2, <2>5, SteadyKnown
<1>4. CASE PopNotificationError(t)
  <2>1. /\ Pop(t) /\ Head(from_worker[t]) = NOTIFICATION_ERROR
        /\ td' = [td EXCEPT ![t].notif = FALSE]
        /\ UNCHANGED <<next_job_id, job, dispose, hist>>
    BY <1>4 DEF PopNotificationError, CleanNotifications
  <2>2. \A u \in Threads : /\ td'[u].present = td[u].present
                           /\ td'[u].jobs = td[u].jobs /\ td'[u].results = td[u].results
    BY <1>0, <2>1 DEF ThreadData
  <2>3. \A i \in Created : InReplies(i) => InReplies(i)'
    BY <1>0, <2>1, OtherReplies
  <2> QED BY <1>0, <2>1, <2>2, <2>3, SteadyKnown
<1>5. CASE FetchFound(t)
  <2>1. PICK id : id = call[t].id
    OBVIOUS
  <2>2. /\ id \in td[t].results /\ JobFree(id)
        /\ td' = [td EXCEPT ![t] = IF Empty(t, td[t].results \ {id}) THEN NoData
                                   ELSE [td[t] EXCEPT !.results = td[t].results \ {id}]]
        /\ UNCHANGED <<next_job_id, job, from_worker, dispose>>
    BY <1>0, <1>5, <2>1 DEF FetchFound
  <2>3. id \in JobIds
    BY <1>0, <2>2, Elements
  <2>4. hist'[id].freed # 0 /\ \A i \in JobIds \ {id} : hist'[i] = hist[i]
    BY <1>0, <2>2, <2>3, FreedEffect, FateType
  <2>5. /\ \A u \in Threads \ {t} : td'[u] = td[u]
        /\ \/ td'[t].jobs = {} /\ td[t].jobs = {} /\ td[t].results \ {id} = {}
           \/ /\ td'[t].jobs = td[t].jobs /\ td'[t].results = td[t].results \ {id}
              /\ td'[t].present = td[t].present
    <3>1. CASE Empty(t, td[t].results \ {id})
      <4>1. td'[t] = NoData
        BY <1>0, <2>2, <3>1
      <4>2. td'[t].jobs = {}
        BY <4>1 DEF NoData
      <4> QED BY <1>0, <2>2, <3>1, <4>2 DEF Empty
    <3>2. CASE ~Empty(t, td[t].results \ {id})
      BY <1>0, <2>2, <3>2 DEF ThreadData
    <3> QED BY <3>1, <3>2
  <2>6. ASSUME NEW i \in Created, hist'[i].freed = 0, ~job'[i].cancelled
        PROVE  LET o == job[i].owner IN
               /\ hist[i].freed = 0 /\ ~job[i].cancelled /\ job'[i].owner = o
               /\ td[o].present /\ i \in td[o].jobs \cup td[o].results =>
                    td'[o].present /\ i \in td'[o].jobs \cup td'[o].results
               /\ i \in td'[o].jobs =>
                    /\ i \in td[o].jobs
                    /\ hist'[i].ran > 0 => hist[i].ran > 0 \/ InReplies(i)'
                    /\ InReplies(i) => InReplies(i)'
    <3>1. i \in JobIds \ {id} /\ hist'[i] = hist[i] /\ job'[i] = job[i] /\ job[i].owner \in Threads
      BY <1>0, <2>2, <2>4, <2>6
    <3>2. InReplies(i) => InReplies(i)'
      BY <2>2, <3>1 DEF InReplies
    <3> QED BY <2>5, <2>6, <3>1, <3>2
  <2> QED BY <2>2, <2>6, SteadyKnown
<1> QED BY <1>1, <1>2, <1>3, <1>4, <1>5 DEF ClientStep

\* A push on a reply queue keeps the replies that were there.
LEMMA MoreReplies ==
    ASSUME TypeOK, NEW o \in Threads, NEW e \in JobIds \cup {NOTIFICATION_ERROR},
           from_worker' = [from_worker EXCEPT ![o] = Append(@, e)], job' = job
    PROVE  /\ \A i : job[i].owner \in Threads /\ InReplies(i) => InReplies(i)'
           /\ job[e].owner = o => InReplies(e)'
<1>1. from_worker \in [Threads -> Seq(JobIds \cup {NOTIFICATION_ERROR})]
  BY DEF TypeOK
<1>2. from_worker'[o] = Append(from_worker[o], e) /\ \A u \in Threads \ {o} : from_worker'[u] = from_worker[u]
  BY <1>1
<1>3. /\ DOMAIN from_worker'[o] = DOMAIN from_worker[o] \cup {Len(from_worker[o]) + 1}
      /\ \A k \in DOMAIN from_worker[o] : from_worker'[o][k] = from_worker[o][k]
      /\ from_worker'[o][Len(from_worker[o]) + 1] = e
  BY <1>1, <1>2, Appended
<1>4. ASSUME NEW i, job[i].owner \in Threads, InReplies(i)
      PROVE  InReplies(i)'
  <2>1. PICK u \in Threads : u = job[i].owner
    BY <1>4
  <2>2. \A k \in DOMAIN from_worker[u] :
           k \in DOMAIN from_worker'[u] /\ from_worker'[u][k] = from_worker[u][k]
    BY <1>2, <1>3
  <2> QED BY <1>4, <2>1, <2>2 DEF InReplies
<1>5. ASSUME job[e].owner = o
      PROVE  InReplies(e)'
  <2>1. Len(from_worker[o]) + 1 \in DOMAIN from_worker'[o]
    BY <1>3
  <2> QED BY <1>3, <1>5, <2>1 DEF InReplies
<1> QED BY <1>4, <1>5

\* The worker puts a job that it has executed in the reply queue of its submitter.
LEMMA WorkerKnown ==
    ASSUME ReplyInv, WorkerStep \/ WorkerFinish
    PROVE  KnownToOwner'
<1>0. /\ TypeOK /\ WorkerHoldsJob /\ job \in [JobIds -> Job] /\ hist \in [JobIds -> Fate]
      /\ Created \subseteq JobIds /\ \A i \in Created : job[i].owner \in Threads
  BY CreatedJobs DEF ReplyInv, OrderInv, PlaceInv, CancelInv, TypeInv, TypeOK
<1>1. CASE WorkerPop
  <2>1. PICK id \in JobIds :
          /\ WorkerTakes(id)
          /\ job' = [job EXCEPT ![id].processed = TRUE]
          /\ IF Dropped(id)
             THEN JobFree(id) /\ UNCHANGED <<wpc, cur>>
             ELSE wpc' = "run" /\ cur' = id /\ UNCHANGED hist
          /\ UNCHANGED <<next_job_id, td, from_worker, pipe, unread, call, dispose>>
    BY <1>1 DEF WorkerPop
  <2>2. \A i \in JobIds : job'[i].owner = job[i].owner /\ job'[i].cancelled = job[i].cancelled
    BY <1>0, <2>1 DEF Job
  <2>3. \A i \in JobIds : /\ hist'[i].freed = 0 => hist[i].freed = 0
                          /\ hist'[i].ran = hist[i].ran
    <3>1. CASE hist' = hist
      BY <3>1
    <3>2. CASE JobFree(id)
      BY <1>0, <3>2, FreedEffect, FateType
    <3> QED BY <2>1, <3>1, <3>2
  <2> QED BY <2>1, <2>2, <2>3, StillKnown
<1>2. CASE WorkerExit \/ WorkerNotify \/ WorkerNotifyFails
  <2>1. UNCHANGED <<next_job_id, job, td, from_worker, dispose, hist>>
    BY <1>2 DEF WorkerExit, WorkerNotify, WorkerNotifyFails
  <2> QED BY <2>1, StillKnown
<1>3. CASE WorkerReport
  <2>1. UNCHANGED <<next_job_id, job, td, dispose, hist>> /\ job[cur].owner \in Threads
    BY <1>0, <1>3 DEF WorkerReport, WorkerHoldsJob, Job
  <2>2. CASE from_worker' = from_worker
    BY <2>1, <2>2, StillKnown
  <2>3. CASE from_worker' = [from_worker EXCEPT ![job[cur].owner] = Append(@, ErrorReported)]
    <3>1. PICK o \in Threads : o = job[cur].owner
      BY <2>1
    <3>2. from_worker' = [from_worker EXCEPT ![o] = Append(@, NOTIFICATION_ERROR)]
      BY <2>3, <3>1 DEF ErrorReported
    <3>3. \A i \in Created : InReplies(i) => InReplies(i)'
      BY <1>0, <2>1, <3>2, MoreReplies
    <3> QED BY <1>0, <2>1, <3>3, SteadyKnown
  <2> QED BY <1>3, <2>2, <2>3 DEF WorkerReport
<1>4. CASE WorkerFinish
  <2>1. /\ UNCHANGED <<next_job_id, job, td, dispose>> /\ cur \in JobIds /\ job[cur].owner \in Threads
        /\ from_worker' = [from_worker EXCEPT ![job[cur].owner] = Append(@, cur)]
        /\ hist' = [hist EXCEPT ![cur].ran = @ + 1]
    BY <1>0, <1>4 DEF WorkerFinish, WorkerHoldsJob, Job
  <2>2. PICK id \in JobIds, o \in Threads : id = cur /\ o = job[cur].owner
    BY <2>1
  <2>3. /\ \A i \in Created : InReplies(i) => InReplies(i)'
        /\ InReplies(id)'
    BY <1>0, <2>1, <2>2, MoreReplies
  <2>4. /\ \A i \in JobIds \ {id} : hist'[i] = hist[i]
        /\ hist'[id].freed = hist[id].freed
    <3>1. hist[id] \in Fate /\ hist'[id] = [hist[id] EXCEPT !.ran = @ + 1]
      BY <1>0, <2>1, <2>2
    <3> QED BY <1>0, <2>1, <2>2, <3>1 DEF Fate
  <2>5. \A i \in Created : /\ hist'[i].freed = hist[i].freed
                           /\ hist'[i].ran > 0 => hist[i].ran > 0 \/ InReplies(i)'
    BY <1>0, <2>3, <2>4
  <2> QED BY <1>0, <2>1, <2>3, <2>5, SteadyKnown
<1> QED BY <1>1, <1>2, <1>3, <1>4 DEF WorkerStep

\* Every step keeps the jobs known to their submitters.
LEMMA NextReply == ReplyInv /\ [Next]_vars => ReplyInv'
<1> SUFFICES ASSUME ReplyInv, [Next]_vars PROVE ReplyInv'
  OBVIOUS
<1>1. OrderInv'
  BY NextOrder DEF ReplyInv
<1>2. ASSUME NEW void \in BOOLEAN, NEW arg \in BOOLEAN, ExecuteInline(void, arg)
      PROVE  KnownToOwner'
  <2>1. Submit(Worker, void, arg) /\ Worker \in Threads /\ dispose' = dispose
    BY <1>2 DEF ExecuteInline, Threads
  <2>2. hist \in [JobIds -> Fate]
    BY DEF ReplyInv, OrderInv, PlaceInv, CancelInv, TypeInv, TypeOK
  <2>3. \A i \in JobIds \ {next_job_id} : hist'[i] = hist[i]
    BY <1>2, <2>2 DEF ExecuteInline
  <2> QED BY <1>2, <2>1, <2>3, SubmitKnown DEF ExecuteInline
<1>3. ASSUME NEW t \in Threads, ReadNotification(t)
      PROVE  KnownToOwner'
  <2>1. UNCHANGED <<next_job_id, job, td, from_worker, dispose, hist>>
    BY <1>3 DEF ReadNotification
  <2> QED BY <2>1, StillKnown
<1>4. ASSUME DisposePush PROVE KnownToOwner'
  <2>1. UNCHANGED <<next_job_id, job, td, from_worker, hist>> /\ dispose = "no"
    BY <1>4 DEF DisposePush
  <2> QED BY <2>1, StillKnown
<1>5. ASSUME DisposeClean PROVE KnownToOwner'
  BY <1>5 DEF DisposeClean, KnownToOwner
<1>6. ASSUME UNCHANGED vars PROVE KnownToOwner'
  <2>1. UNCHANGED <<next_job_id, job, td, from_worker, dispose, hist>>
    BY <1>6 DEF vars
  <2> QED BY <2>1, StillKnown
<1>7. KnownToOwner'
  BY <1>2, <1>3, <1>4, <1>5, <1>6, CallKnown, ClientStepKnown, WorkerKnown DEF Next
<1> QED BY <1>1, <1>7 DEF ReplyInv

\* fetch_result() removes the ThreadData of its thread when it holds nothing
\* else: no reply that is still due loses it, and a job is in one place at a time.
THEOREM RepliesNotLost == Spec => []NoLostReply
BY InitOrder, NextReply, ReplyInvImplies, PTL DEF Spec

-----------------------------------------------------------------------------
(* What the mapping needs besides ReplyInv.                                *)

\* dispose() runs when no other method does, and none is called after it.
NoCallAtEnd == dispose # "no" => \A t \in Threads : call[t] = Idle

\* A job is not cancelled before it is made, nor before it is queued.
NotCancelledEarly ==
    /\ \A i \in JobIds : i >= next_job_id => ~job[i].cancelled
    /\ \A t \in Threads : call[t].at = "push" => ~job[call[t].id].cancelled

MapParts == NoCallAtEnd /\ NotCancelledEarly

MapInv == ReplyInv /\ MapParts

\* No job has been created and no call begun.
LEMMA InitMap == Init => MapInv
<1>1. Init => MapParts
  BY DEF Init, MapParts, NoCallAtEnd, NotCancelledEarly, NoJob, Idle
<1> QED BY <1>1, InitOrder DEF MapInv

\* A step that cancels nothing and starts no call.
LEMMA SteadyMap ==
    ASSUME MapInv, next_job_id' = next_job_id, dispose' = dispose,
           \A i \in JobIds : job'[i].cancelled = job[i].cancelled,
           \A t \in Threads : call'[t] = call[t] \/ call'[t] = Idle
                              \/ (dispose = "no" /\ call'[t].at # "push")
    PROVE  MapParts'
<1>1. TypeOK /\ PlaceParts /\ Idle.at # "push"
  BY DEF MapInv, ReplyInv, OrderInv, PlaceInv, CancelInv, TypeInv, Idle
<1>2. NoCallAtEnd'
  BY DEF MapInv, MapParts, NoCallAtEnd
<1>3. ASSUME NEW t \in Threads, call'[t].at = "push"
      PROVE  ~job'[call'[t].id].cancelled
  <2>1. call'[t] = call[t]
    BY <1>1, <1>3
  <2>2. call[t].id \in JobIds
    BY <1>1, <1>3, <2>1, Elements DEF PlaceParts, BeingPushed
  <2> QED BY <1>3, <2>1, <2>2 DEF MapInv, MapParts, NotCancelledEarly
<1>4. NotCancelledEarly'
  BY <1>3 DEF MapInv, MapParts, NotCancelledEarly
<1> QED BY <1>2, <1>4 DEF MapParts

\* Every step keeps the two facts the mapping needs.
LEMMA NextMap == MapInv /\ [Next]_vars => MapInv'
<1> SUFFICES ASSUME MapInv, [Next]_vars PROVE MapInv'
  OBVIOUS
<1>0. /\ TypeOK /\ PlaceInv /\ PlaceParts /\ job \in [JobIds -> Job] /\ call \in [Threads -> Call]
      /\ ReplyInv /\ MapParts
  BY DEF MapInv, ReplyInv, OrderInv, PlaceInv, CancelInv, TypeInv, TypeOK
<1>1. ReplyInv'
  BY NextReply DEF MapInv
<1>2. ASSUME NEW t \in Threads, NEW void \in BOOLEAN, NEW arg \in BOOLEAN, Submit(t, void, arg),
             dispose' = dispose,
             \/ call' = call
             \/ call' = [call EXCEPT ![t] = [at |-> "push", id |-> next_job_id, block |-> FALSE]]
      PROVE  MapParts'
  <2>1. PICK n \in JobIds : n = next_job_id
    BY <1>0, <1>2, SubmitPlaces
  <2>2. /\ n \in Nat /\ next_job_id' = n + 1 /\ ~job'[n].cancelled
        /\ \A i \in JobIds \ {n} : job'[i] = job[i]
        /\ \A u \in Threads : call[u].at = "push" => call[u].id # n
    BY <1>0, <1>2, <2>1, SubmitPlaces
  <2>3. dispose = "no"
    BY <1>2 DEF Submit, CanCall
  <2>4. \A i \in JobIds : i >= next_job_id' => ~job'[i].cancelled
    BY <1>0, <2>1, <2>2 DEF MapParts, NotCancelledEarly, JobIds
  <2>5. ASSUME NEW u \in Threads, call'[u].at = "push"
        PROVE  ~job'[call'[u].id].cancelled
    <3>1. CASE call'[u] = call[u]
      <4>1. call[u].id \in JobIds \ {n}
        BY <1>0, <2>2, <2>5, <3>1, Elements DEF PlaceParts, BeingPushed
      <4> QED BY <1>0, <2>2, <2>5, <3>1, <4>1 DEF MapParts, NotCancelledEarly
    <3>2. CASE call'[u].id = n
      BY <2>2, <3>2
    <3> QED BY <1>0, <1>2, <2>1, <3>1, <3>2
  <2> QED BY <1>2, <2>3, <2>4, <2>5 DEF MapParts, NoCallAtEnd, NotCancelledEarly
<1>3. ASSUME NEW t \in Threads, ClientCall(t) PROVE MapParts'
  <2>1. ASSUME NEW void \in BOOLEAN, NEW arg \in BOOLEAN, ExecuteBegin(t, void, arg)
        PROVE  MapParts'
    BY <1>2, <2>1 DEF ExecuteBegin
  <2>2. ASSUME NEW id \in JobIds, Cancel(t, id) PROVE MapParts'
    <3>1. /\ UNCHANGED <<next_job_id, dispose, call>> /\ call[t] = Idle /\ dispose = "no"
          /\ job' = [job EXCEPT ![id] = Stopped(@)] /\ id \in td[t].jobs
      BY <2>2 DEF Cancel, CanCall
    <3>2. id < next_job_id /\ job[id].owner = t
      BY <1>0, <3>1 DEF PlaceParts, InThreadData
    <3>3. \A i \in JobIds \ {id} : job'[i] = job[i]
      BY <1>0, <3>1
    <3>4. ASSUME NEW u \in Threads, call[u].at = "push"
          PROVE  ~job'[call[u].id].cancelled
      <4>1. call[u].id \in JobIds /\ job[call[u].id].owner = u /\ u # t
        BY <1>0, <3>1, <3>4, Elements DEF PlaceParts, BeingPushed, Idle
      <4> QED BY <1>0, <3>2, <3>3, <3>4, <4>1 DEF MapParts, NotCancelledEarly
    <3>5. \A i \in JobIds : i >= next_job_id => i # id
      BY <1>0, <3>2 DEF JobIds, TypeOK
    <3> QED BY <1>0, <3>1, <3>3, <3>4, <3>5 DEF MapParts, NotCancelledEarly, NoCallAtEnd
  <2>3. ASSUME \/ \E block \in BOOLEAN : IterateBegin(t, block)
               \/ \E id \in JobIds, block \in BOOLEAN : FetchBegin(t, id, block)
               \/ GetIoChannel(t) \/ UnsetIoChannel(t)
        PROVE  MapParts'
    <3>1. UNCHANGED <<next_job_id, job, dispose>> /\ dispose = "no"
      BY <2>3 DEF IterateBegin, FetchBegin, GetIoChannel, UnsetIoChannel, CanCall
    <3>2. \A u \in Threads : call'[u] = call[u] \/ call'[u].at # "push"
      BY <1>0, <2>3 DEF IterateBegin, FetchBegin, GetIoChannel, UnsetIoChannel
    <3> QED BY <3>1, <3>2, SteadyMap DEF MapInv
  <2> QED BY <1>3, <2>1, <2>2, <2>3 DEF ClientCall
<1>4. ASSUME NEW t \in Threads, ClientStep(t) PROVE MapParts'
  <2>1. UNCHANGED <<next_job_id, job, dispose>>
    BY <1>4 DEF ClientStep, ExecutePush, PopNothing, PopVoid, PopResult, PopNotificationError,
                FetchFound, FetchNotFound
  <2>2. call[t].at # "none"
    BY <1>4 DEF ClientStep, ExecutePush, PopNothing, PopVoid, PopResult, PopNotificationError,
                FetchFound, FetchNotFound, Pop, InIterate
  <2>3. dispose = "no"
    BY <1>0, <2>2 DEF MapParts, NoCallAtEnd, Idle
  <2>4. \A u \in Threads \ {t} : call'[u] = call[u]
    BY <1>0, <1>4 DEF ClientStep, ExecutePush, PopNothing, PopVoid, PopResult,
                      PopNotificationError, FetchFound, FetchNotFound, Return
  <2>5. call'[t] = call[t] \/ call'[t] = Idle \/ call'[t].at # "push"
    <3>1. \A s \in {"look", "fetch"} : [call[t] EXCEPT !.at = s].at = s
      BY <1>0 DEF Call
    <3>2. \/ call'[t] = call[t] \/ call'[t] = Idle
          \/ \E s \in {"look", "fetch"} : call'[t] = [call[t] EXCEPT !.at = s]
      BY <1>0, <1>4 DEF ClientStep, ExecutePush, PopNothing, PopVoid, PopResult, LookAgain,
                        PopNotificationError, FetchFound, FetchNotFound, Return
    <3> QED BY <3>1, <3>2
  <2> QED BY <2>1, <2>3, <2>4, <2>5, SteadyMap
<1>5. ASSUME NEW void \in BOOLEAN, NEW arg \in BOOLEAN, ExecuteInline(void, arg) PROVE MapParts'
  BY <1>2, <1>5 DEF ExecuteInline, Threads
<1>6. ASSUME WorkerStep \/ WorkerFinish PROVE MapParts'
  <2>1. UNCHANGED <<next_job_id, dispose, call>>
    BY <1>6 DEF WorkerStep, WorkerPop, WorkerExit, WorkerNotify, WorkerNotifyFails, WorkerReport,
                WorkerFinish
  <2>2. job' = job \/ \E id \in JobIds : job' = [job EXCEPT ![id].processed = TRUE]
    BY <1>6 DEF WorkerStep, WorkerPop, WorkerExit, WorkerNotify, WorkerNotifyFails, WorkerReport,
                WorkerFinish
  <2>3. \A i \in JobIds : job'[i].cancelled = job[i].cancelled
    BY <1>0, <2>2 DEF Job
  <2> QED BY <2>1, <2>3, SteadyMap
<1>7. ASSUME DisposePush PROVE MapParts'
  BY <1>0, <1>7 DEF DisposePush, MapParts, NoCallAtEnd, NotCancelledEarly
<1>8. ASSUME DisposeClean PROVE MapParts'
  <2>1. /\ UNCHANGED <<next_job_id, call>> /\ \A t \in Threads : call[t] = Idle
    BY <1>0, <1>8 DEF DisposeClean, MapParts, NoCallAtEnd
  <2>2. ASSUME NEW i \in JobIds, i >= next_job_id PROVE job'[i] = job[i]
    <3>1. \A t \in Threads : i \notin td[t].jobs
      BY <1>0, <2>2 DEF PlaceParts, InThreadData, TypeOK, JobIds
    <3> QED BY <1>8, <3>1 DEF DisposeClean
  <2> QED BY <1>0, <2>1, <2>2 DEF MapParts, NoCallAtEnd, NotCancelledEarly, Idle
<1>9. ASSUME \/ \E t \in Threads : ReadNotification(t)
             \/ UNCHANGED vars
      PROVE  MapParts'
  BY <1>9, SteadyMap DEF ReadNotification, vars
<1>10. MapParts'
  BY <1>3, <1>4, <1>5, <1>6, <1>7, <1>8, <1>9 DEF Next
<1> QED BY <1>1, <1>10 DEF MapInv

-----------------------------------------------------------------------------
(* The mapped status of a job.                                             *)

\* The mapped status by the marks of the job and by where it is.
LEMMA StatusValues ==
    ASSUME MapInv, NEW i \in JobIds
    PROVE  /\ StatusOf(i) = "running" <=> Running(i)
           /\ hist[i].ran > 0 => StatusOf(i) = IF hist[i].freed = 0 THEN "done" ELSE "collected"
           /\ job[i].cancelled => StatusOf(i) = "cancelled"
           /\ Waiting(i) /\ ~job[i].cancelled => StatusOf(i) = "waiting"
           /\ StatusOf(i) = "waiting" => Waiting(i) /\ ~job[i].cancelled /\ i \in Created
           /\ i \notin Created => StatusOf(i) = "none"
           /\ \A t \in Threads : call[t].at = "push" /\ call[t].id = i => StatusOf(i) = "none"
<1>0. /\ TypeOK /\ CancelParts /\ PlaceInv /\ PlaceParts /\ MapParts /\ i # DESTROY
      /\ (i \in Created <=> i < next_job_id) /\ next_job_id \in Nat /\ i \in Nat
  BY CreatedJobs DEF MapInv, ReplyInv, OrderInv, PlaceInv, CancelInv, TypeInv, TypeOK, JobIds, DESTROY
<1>1. hist[i].ran > 0 => job[i].processed /\ ~job[i].cancelled /\ ~Waiting(i) /\ ~Running(i)
  BY <1>0, RanIsElsewhere DEF Waiting, Running
<1>2. Waiting(i) => ~job[i].processed /\ i < next_job_id
  BY <1>0 DEF Waiting, PlaceParts, InWorkerQueue, CancelParts, QueuedIsCreated
<1>3. Running(i) => job[i].processed /\ ~job[i].cancelled /\ i < next_job_id
  BY <1>0 DEF Running, CancelParts, RunningIsProcessed
<1>4. i \notin Created => ~(hist[i].ran > 0) /\ ~job[i].cancelled
  BY <1>0 DEF CancelParts, NoneRanYet, MapParts, NotCancelledEarly
<1>5. \A t \in Threads : call[t].at = "push" /\ call[t].id = i =>
         ~job[i].processed /\ ~job[i].cancelled /\ ~Waiting(i)
  BY <1>0 DEF PlaceParts, BeingPushed, MapParts, NotCancelledEarly, Waiting
<1>6. StatusOf(i) = IF Running(i) THEN "running"
                    ELSE IF hist[i].ran > 0
                         THEN IF hist[i].freed = 0 THEN "done" ELSE "collected"
                    ELSE IF job[i].cancelled THEN "cancelled"
                    ELSE IF Waiting(i) THEN "waiting" ELSE "none"
  BY DEF StatusOf, Running, Waiting
<1> QED BY <1>0, <1>1, <1>2, <1>3, <1>4, <1>5, <1>6

\* The status of one job is set; JobStatus is a function of the jobs.
LEMMA StatusSet ==
    ASSUME NEW j \in JobIds, NEW s, StatusOf(j)' = s,
           \A i \in JobIds \ {j} : StatusOf(i)' = StatusOf(i)
    PROVE  JobStatus' = [JobStatus EXCEPT ![j] = s]
BY DEF JobStatus

\* What a step leaves alone, seen by the status.
LEMMA StatusKept ==
    ASSUME MapInv, NEW i \in JobIds,
           hist'[i].ran = hist[i].ran, hist[i].ran > 0 => hist'[i].freed = hist[i].freed,
           job'[i].cancelled = job[i].cancelled,
           job[i].cancelled \/ (Waiting(i)' <=> Waiting(i)), Running(i)' <=> Running(i)
    PROVE  StatusOf(i)' = StatusOf(i)
BY DEF StatusOf, Waiting, Running

-----------------------------------------------------------------------------
(* The mapped queue.                                                       *)

\* The pairs of elements of s at places of W, the one before the other.
LEMMA PairMembers ==
    ASSUME NEW s, NEW W, NEW p
    PROVE  p \in PairsAt(s, W) <=> \E a, b \in W : a < b /\ p = <<s[a], s[b]>>
<1>1. ASSUME p \in PairsAt(s, W)
      PROVE  \E a, b \in W : a < b /\ p = <<s[a], s[b]>>
  <2>1. PICK q \in W \X W : q[1] < q[2] /\ p = <<s[q[1]], s[q[2]]>>
    BY <1>1 DEF PairsAt
  <2>2. q[1] \in W /\ q[2] \in W
    OBVIOUS
  <2> QED BY <2>1, <2>2
<1>2. ASSUME NEW a \in W, NEW b \in W, a < b, p = <<s[a], s[b]>>
      PROVE  p \in PairsAt(s, W)
  <2>1. <<a, b>> \in W \X W /\ <<a, b>>[1] = a /\ <<a, b>>[2] = b
    OBVIOUS
  <2> QED BY <1>2, <2>1 DEF PairsAt
<1> QED BY <1>1, <1>2

\* The relation the abstract queue is mapped to, before and after a step.
LEMMA QueuePairs ==
    ASSUME NEW p
    PROVE  /\ p \in QueuedBefore <=>
                \E a, b \in WaitingAt : a < b /\ p = <<to_worker[a], to_worker[b]>>
           /\ p \in QueuedBefore' <=>
                \E a, b \in WaitingAt' : a < b /\ p = <<to_worker'[a], to_worker'[b]>>
BY PairMembers DEF QueuedBefore

\* A place of the mapped queue holds a job that waits.
LEMMA QueuedJobs ==
    ASSUME MapInv, NEW a \in WaitingAt
    PROVE  to_worker[a] \in JobIds /\ StatusOf(to_worker[a]) = "waiting" /\ a \in DOMAIN to_worker
<1>1. TypeOK
  BY DEF MapInv, ReplyInv, OrderInv, PlaceInv, CancelInv, TypeInv
<1>2. a \in DOMAIN to_worker /\ to_worker[a] \in JobIds /\ ~job[to_worker[a]].cancelled
  BY <1>1, Elements DEF WaitingAt
<1> QED BY <1>2, StatusValues DEF Waiting

\* Nothing is pushed or taken, and the queued jobs are as alive as before.
LEMMA SameQueue ==
    ASSUME MapInv, to_worker' = to_worker,
           \A i \in JobIds : Waiting(i) => job'[i].cancelled = job[i].cancelled
    PROVE  QueuedBefore' = QueuedBefore
<1>1. TypeOK
  BY DEF MapInv, ReplyInv, OrderInv, PlaceInv, CancelInv, TypeInv
<1>2. \A k \in DOMAIN to_worker : to_worker[k] # DESTROY =>
         job'[to_worker[k]].cancelled = job[to_worker[k]].cancelled
  BY <1>1, Elements DEF Waiting
<1>3. WaitingAt' = WaitingAt
  BY <1>2 DEF WaitingAt
<1> QED BY <1>3 DEF QueuedBefore

\* One job leaves the queue, stopped where it is or taken at the head; the
\* others keep their order, d places nearer to the head.
LEMMA LeaveQueue ==
    ASSUME MapInv, NEW j, NEW d \in {0, 1},
           \A a \in WaitingAt : to_worker[a] # j =>
              a - d \in WaitingAt' /\ to_worker'[a - d] = to_worker[a],
           \A c \in WaitingAt' : /\ c \in Nat /\ c + d \in WaitingAt
                                 /\ to_worker[c + d] = to_worker'[c] /\ to_worker[c + d] # j
    PROVE  QueuedBefore' = {p \in QueuedBefore : p[1] # j /\ p[2] # j}
<1>0. \A a \in WaitingAt : a \in Nat
  <2>1. to_worker \in Seq(JobIds \cup {DESTROY})
    BY DEF MapInv, ReplyInv, OrderInv, PlaceInv, CancelInv, TypeInv, TypeOK
  <2> QED BY <2>1, LenProperties DEF WaitingAt
<1>1. ASSUME NEW p \in QueuedBefore'
      PROVE  p \in QueuedBefore /\ p[1] # j /\ p[2] # j
  <2>1. PICK a \in WaitingAt', b \in WaitingAt' : a < b /\ p = <<to_worker'[a], to_worker'[b]>>
    BY QueuePairs
  <2>2. a + d < b + d /\ p = <<to_worker[a + d], to_worker[b + d]>>
    BY <2>1
  <2> QED BY <2>2, QueuePairs
<1>2. ASSUME NEW p \in QueuedBefore, p[1] # j, p[2] # j
      PROVE  p \in QueuedBefore'
  <2>1. PICK a \in WaitingAt, b \in WaitingAt : a < b /\ p = <<to_worker[a], to_worker[b]>>
    BY QueuePairs
  <2>2. to_worker[a] # j /\ to_worker[b] # j
    BY <1>2, <2>1
  <2>3. /\ a - d \in WaitingAt' /\ b - d \in WaitingAt' /\ a - d < b - d
        /\ p = <<to_worker'[a - d], to_worker'[b - d]>>
    BY <1>0, <2>1, <2>2
  <2> QED BY <2>3, QueuePairs
<1> QED BY <1>1, <1>2

\* A job is queued behind those that wait.
LEMMA JoinQueue ==
    ASSUME MapInv, NEW j \in JobIds, NEW n \in Nat, job' = job, ~job[j].cancelled,
           \A k \in DOMAIN to_worker : /\ k \in Nat /\ k < n
                                       /\ to_worker'[k] = to_worker[k],
           DOMAIN to_worker' = DOMAIN to_worker \cup {n}, to_worker'[n] = j
    PROVE  QueuedBefore' = QueuedBefore \cup (Service!Waiting \X {j})
<1>1. j # DESTROY
  BY DEF JobIds, DESTROY
<1>3. WaitingAt' = WaitingAt \cup {n} /\ \A a \in WaitingAt : a \in DOMAIN to_worker
  BY <1>1 DEF WaitingAt
<1>4. \A i : i \in Service!Waiting <=> \E a \in WaitingAt : to_worker[a] = i
  <2>1. ASSUME NEW i \in Service!Waiting
        PROVE  \E a \in WaitingAt : to_worker[a] = i
    <3>1. i \in JobIds /\ StatusOf(i) = "waiting"
      BY DEF Service!Waiting, JobStatus
    <3>2. Waiting(i) /\ ~job[i].cancelled /\ i # DESTROY
      BY <3>1, StatusValues DEF JobIds, DESTROY
    <3> QED BY <3>2 DEF Waiting, WaitingAt
  <2>2. ASSUME NEW a \in WaitingAt
        PROVE  to_worker[a] \in Service!Waiting
    BY QueuedJobs DEF Service!Waiting, JobStatus
  <2> QED BY <2>1, <2>2
<1>5. ASSUME NEW p \in QueuedBefore'
      PROVE  p \in QueuedBefore \cup (Service!Waiting \X {j})
  <2>1. PICK a \in WaitingAt', b \in WaitingAt' : a < b /\ p = <<to_worker'[a], to_worker'[b]>>
    BY <1>5, QueuePairs
  <2>2. a \in WaitingAt
    <3>1. CASE b = n
      BY <1>3, <2>1, <3>1
    <3>2. CASE b \in WaitingAt
      BY <1>3, <2>1, <3>2
    <3> QED BY <1>3, <3>1, <3>2
  <2>3. CASE b = n
    BY <1>3, <1>4, <2>1, <2>2, <2>3
  <2>4. CASE b \in WaitingAt
    <3>1. p = <<to_worker[a], to_worker[b]>>
      BY <1>3, <2>1, <2>2, <2>4
    <3> QED BY <2>1, <2>2, <2>4, <3>1, QueuePairs
  <2> QED BY <1>3, <2>3, <2>4
<1>6. ASSUME NEW p \in QueuedBefore
      PROVE  p \in QueuedBefore'
  <2>1. PICK a \in WaitingAt, b \in WaitingAt : a < b /\ p = <<to_worker[a], to_worker[b]>>
    BY QueuePairs
  <2>2. p = <<to_worker'[a], to_worker'[b]>> /\ a \in WaitingAt' /\ b \in WaitingAt'
    BY <1>3, <2>1
  <2> QED BY <2>1, <2>2, QueuePairs
<1>7. ASSUME NEW p \in Service!Waiting \X {j}
      PROVE  p \in QueuedBefore'
  <2>1. PICK a \in WaitingAt : to_worker[a] = p[1]
    BY <1>4
  <2>2. p = <<to_worker'[a], to_worker'[n]>> /\ a < n /\ a \in WaitingAt' /\ n \in WaitingAt'
    BY <1>3, <2>1
  <2> QED BY <2>2, QueuePairs
<1> QED BY <1>5, <1>6, <1>7

\* Only waiting jobs are in the mapped queue.
LEMMA OnlyWaiting ==
    ASSUME MapInv, NEW j, j \in JobIds => StatusOf(j) # "waiting"
    PROVE  QueuedBefore = {p \in QueuedBefore : p[1] # j /\ p[2] # j}
<1>1. ASSUME NEW p \in QueuedBefore
      PROVE  p[1] # j /\ p[2] # j
  <2>1. PICK a \in WaitingAt, b \in WaitingAt : a < b /\ p = <<to_worker[a], to_worker[b]>>
    BY QueuePairs
  <2> QED BY <2>1, QueuedJobs
<1> QED BY <1>1

\* What the worker takes is the head of the queue, nothing is before it.
LEMMA TakeQueue ==
    ASSUME MapInv, NEW id \in JobIds \cup {DESTROY}, WorkerTakes(id),
           \A i \in JobIds : job'[i].cancelled = job[i].cancelled
    PROVE  /\ QueuedBefore' = {p \in QueuedBefore : p[1] # id /\ p[2] # id}
           /\ \A i \in JobIds : Waiting(i)' <=> Waiting(i) /\ i # id
           /\ id # DESTROY => Waiting(id)
           /\ id # DESTROY => \A k \in JobIds : <<k, id>> \notin QueuedBefore
<1>0. /\ TypeOK /\ to_worker \in Seq(JobIds \cup {DESTROY}) /\ InWorkerQueue
      /\ to_worker # << >> /\ to_worker' = Tail(to_worker) /\ id = Head(to_worker)
      /\ DESTROY \notin JobIds
  BY DEF MapInv, ReplyInv, OrderInv, PlaceInv, PlaceParts, CancelInv, TypeInv, TypeOK,
         WorkerTakes, JobIds, DESTROY
<1>1. /\ 1 \in DOMAIN to_worker /\ to_worker[1] = id
      /\ \A k \in DOMAIN to_worker' : /\ k + 1 \in DOMAIN to_worker /\ k + 1 # 1 /\ k \in Nat
                                      /\ to_worker'[k] = to_worker[k + 1]
  BY <1>0, Popped
<1>2. \A k \in DOMAIN to_worker : to_worker[k] # id =>
         k - 1 \in DOMAIN to_worker' /\ to_worker'[k - 1] = to_worker[k]
  BY <1>0, StillWaiting
<1>3. id # DESTROY => \A k \in DOMAIN to_worker : k # 1 => to_worker[k] # id
  BY <1>0, <1>1 DEF InWorkerQueue
<1>4. ASSUME NEW a \in WaitingAt, to_worker[a] # id
      PROVE  a - 1 \in WaitingAt' /\ to_worker'[a - 1] = to_worker[a]
  <2>1. a \in DOMAIN to_worker /\ to_worker[a] \in JobIds /\ ~job[to_worker[a]].cancelled
    BY <1>0, Elements DEF WaitingAt
  <2> QED BY <1>0, <1>2, <1>4, <2>1 DEF WaitingAt
<1>5. ASSUME NEW c \in WaitingAt'
      PROVE  /\ c \in Nat /\ c + 1 \in WaitingAt
             /\ to_worker[c + 1] = to_worker'[c] /\ to_worker[c + 1] # id
  <2>1. c \in DOMAIN to_worker' /\ to_worker'[c] # DESTROY /\ ~job'[to_worker'[c]].cancelled
    BY DEF WaitingAt
  <2>2. /\ c + 1 \in DOMAIN to_worker /\ c + 1 # 1 /\ c \in Nat
        /\ to_worker'[c] = to_worker[c + 1]
    BY <1>1, <2>1
  <2>3. to_worker[c + 1] \in JobIds
    BY <1>0, <2>1, <2>2, Elements
  <2> QED BY <1>3, <2>1, <2>2, <2>3 DEF WaitingAt
<1>6. QueuedBefore' = {p \in QueuedBefore : p[1] # id /\ p[2] # id}
  <2>1. 1 \in {0, 1}
    OBVIOUS
  <2> QED BY <1>4, <1>5, <2>1, LeaveQueue
<1>7. ASSUME NEW i \in JobIds
      PROVE  Waiting(i)' <=> Waiting(i) /\ i # id
  <2>1. ASSUME NEW k \in DOMAIN to_worker', to_worker'[k] = i
        PROVE  Waiting(i) /\ i # id
    <3>1. k + 1 \in DOMAIN to_worker /\ to_worker[k + 1] = i /\ k + 1 # 1
      BY <1>1, <2>1
    <3> QED BY <1>0, <1>3, <3>1 DEF Waiting
  <2>2. ASSUME NEW k \in DOMAIN to_worker, to_worker[k] = i, i # id
        PROVE  Waiting(i)'
    <3>1. k - 1 \in DOMAIN to_worker' /\ to_worker'[k - 1] = i
      BY <1>2, <2>2
    <3> QED BY <3>1 DEF Waiting
  <2> QED BY <2>1, <2>2 DEF Waiting
<1>8. ASSUME id # DESTROY, NEW k \in JobIds
      PROVE  <<k, id>> \notin QueuedBefore
  <2>1. SUFFICES ASSUME <<k, id>> \in QueuedBefore PROVE FALSE
    OBVIOUS
  <2>2. PICK a \in WaitingAt, b \in WaitingAt : a < b /\ <<k, id>> = <<to_worker[a], to_worker[b]>>
    BY <2>1, QueuePairs
  <2>3. a \in DOMAIN to_worker /\ b \in DOMAIN to_worker /\ to_worker[b] = id
    BY <2>2 DEF WaitingAt
  <2>4. b = 1
    BY <1>3, <1>8, <2>3
  <2>5. a >= 1 /\ a \in Nat
    BY <1>0, <2>3, LenProperties
  <2> QED BY <2>2, <2>4, <2>5
<1> QED BY <1>1, <1>6, <1>7, <1>8 DEF Waiting

-----------------------------------------------------------------------------
(* Each step of the wrapper is a step of the service, or none.             *)

\* A step that no job service can tell.
LEMMA Unseen ==
    ASSUME MapInv, dispose' = "done" <=> dispose = "done", to_worker' = to_worker,
           \A i \in JobIds : /\ hist'[i].ran = hist[i].ran /\ hist'[i].freed = hist[i].freed
                             /\ job'[i].cancelled = job[i].cancelled
                             /\ Running(i)' <=> Running(i)
    PROVE  UNCHANGED Service!svars
<1>1. \A i \in JobIds : StatusOf(i)' = StatusOf(i)
  BY StatusKept DEF Waiting
<1>2. JobStatus' = JobStatus
  BY <1>1 DEF JobStatus
<1>3. QueuedBefore' = QueuedBefore
  BY SameQueue
<1> QED BY <1>2, <1>3 DEF Service!svars

\* execute(): the job is queued by the push.
LEMMA PushMaps ==
    ASSUME MapInv, NEW t \in Threads, ExecutePush(t)
    PROVE  Service!SNext
<1>0. /\ TypeOK /\ PlaceParts /\ MapParts /\ to_worker \in Seq(JobIds \cup {DESTROY})
      /\ call[t].at = "push" /\ dispose # "done" /\ dispose' = dispose
      /\ to_worker' = Append(to_worker, call[t].id) /\ UNCHANGED <<job, hist, wpc, cur>>
  BY DEF MapInv, ReplyInv, OrderInv, PlaceInv, CancelInv, TypeInv, TypeOK, ExecutePush,
         MapParts, NoCallAtEnd, Idle
<1>1. PICK id \in JobIds : id = call[t].id
  BY <1>0, Elements DEF PlaceParts, BeingPushed
<1>2. /\ StatusOf(id) = "none" /\ ~job[id].cancelled
      /\ \A k \in DOMAIN to_worker : to_worker[k] # id
  BY <1>0, <1>1, StatusValues DEF PlaceParts, BeingPushed, MapParts, NotCancelledEarly
<1>3. PICK n \in Nat : /\ \A k \in DOMAIN to_worker : /\ k \in Nat /\ k < n
                                                      /\ to_worker'[k] = to_worker[k]
                       /\ DOMAIN to_worker' = DOMAIN to_worker \cup {n} /\ to_worker'[n] = id
  <2>1. Len(to_worker) + 1 \in Nat
        /\ \A k \in DOMAIN to_worker : k \in Nat /\ k < Len(to_worker) + 1
    BY <1>0, LenProperties
  <2> QED BY <1>0, <1>1, <2>1, Appended
<1>4. Waiting(id)' /\ \A i \in JobIds \ {id} : Waiting(i)' <=> Waiting(i)
  BY <1>3 DEF Waiting
<1>5. StatusOf(id)' = "waiting"
  <2>1. ~Running(id) /\ ~(hist[id].ran > 0)
    BY <1>2, StatusValues
  <2> QED BY <1>0, <1>2, <1>4, <2>1 DEF StatusOf, Running, Waiting
<1>6. \A i \in JobIds \ {id} : StatusOf(i)' = StatusOf(i)
  BY <1>0, <1>4, StatusKept DEF Running
<1>7. JobStatus' = [JobStatus EXCEPT ![id] = "waiting"]
  BY <1>5, <1>6, StatusSet
<1>8. QueuedBefore' = QueuedBefore \cup (Service!Waiting \X {id})
  BY <1>0, <1>2, <1>3, JoinQueue
<1>9. JobStatus[id] = "none"
  BY <1>2 DEF JobStatus
<1> QED BY <1>0, <1>7, <1>8, <1>9 DEF Service!SNext, Service!Enqueue, Service!SetTo

\* A function executed inside another one is done as it is submitted.
LEMMA InlineMaps ==
    ASSUME MapInv, NEW void \in BOOLEAN, NEW arg \in BOOLEAN, ExecuteInline(void, arg)
    PROVE  Service!SNext
<1>0. /\ TypeOK /\ PlaceInv /\ PlaceParts /\ MapParts /\ CancelParts /\ Worker \in Threads
      /\ wpc = "run" /\ cur \in JobIds /\ dispose = "no" /\ Submit(Worker, void, arg)
      /\ UNCHANGED <<to_worker, wpc, cur, dispose>>
      /\ hist' = [hist EXCEPT ![next_job_id].ran = @ + 1]
  BY DEF MapInv, ReplyInv, OrderInv, PlaceInv, CancelInv, TypeInv, WorkerHoldsJob, ExecuteInline,
         Submit, CanCall, Threads
<1>1. PICK n \in JobIds : n = next_job_id
  BY <1>0, SubmitPlaces
<1>2. /\ ~job'[n].cancelled /\ ~job[n].cancelled
      /\ \A i \in JobIds \ {n} : job'[i] = job[i]
  <2>1. ~job'[n].cancelled /\ \A i \in JobIds \ {n} : job'[i] = job[i]
    BY <1>0, <1>1, SubmitPlaces
  <2> QED BY <1>0, <1>1, <2>1 DEF MapParts, NotCancelledEarly, JobIds
<1>3. /\ \A i \in JobIds \ {n} : hist'[i] = hist[i]
      /\ hist'[n].ran > 0 /\ hist'[n].freed = 0 /\ hist[n].ran = 0
  <2>1. hist \in [JobIds -> Fate] /\ hist[n] \in Fate /\ n >= n
    BY <1>0 DEF TypeOK, JobIds
  <2>2. hist'[n] = [hist[n] EXCEPT !.ran = @ + 1]
    BY <1>0, <1>1, <2>1
  <2>3. hist[n].ran = 0 /\ hist[n].freed = 0
    BY <1>0, <1>1, <2>1 DEF CancelParts, NoneRanYet, PlaceParts, Accounts
  <2>4. hist'[n].ran = 1 /\ hist'[n].freed = 0
    BY <2>1, <2>2, <2>3 DEF Fate
  <2> QED BY <1>0, <1>1, <2>1, <2>3, <2>4
<1>4. StatusOf(n) = "none" /\ cur # n /\ StatusOf(cur) = "running"
  <2>1. n \notin Created /\ cur # n
    BY <1>0, <1>1, CreatedJobs DEF CancelParts, RunningIsProcessed, TypeOK, JobIds
  <2>2. Running(cur)
    BY <1>0 DEF Running
  <2> QED BY <1>0, <2>1, <2>2, StatusValues
<1>5. StatusOf(n)' = "done"
  BY <1>0, <1>3, <1>4 DEF StatusOf
<1>6. \A i \in JobIds \ {n} : StatusOf(i)' = StatusOf(i)
  BY <1>0, <1>2, <1>3, StatusKept DEF Running, Waiting
<1>7. JobStatus' = [JobStatus EXCEPT ![n] = "done"]
  BY <1>5, <1>6, StatusSet
<1>8. QueuedBefore' = QueuedBefore
  <2>1. \A i \in JobIds : Waiting(i) => job'[i].cancelled = job[i].cancelled
    <3>1. ~Waiting(n)
      BY <1>2, <1>4, StatusValues
    <3> QED BY <1>2, <3>1
  <2> QED BY <1>0, <2>1, SameQueue
<1>9. JobStatus[n] = "none" /\ JobStatus[cur] = "running"
  BY <1>0, <1>4 DEF JobStatus
<1> QED BY <1>0, <1>7, <1>8, <1>9 DEF Service!SNext, Service!RunNested, Service!SetTo

\* cancel(): only a job that waits can be cancelled.
LEMMA CancelMaps ==
    ASSUME MapInv, NEW t \in Threads, NEW id \in JobIds, Cancel(t, id)
    PROVE  Service!SNext
<1>0. /\ TypeOK /\ PlaceParts /\ CancelParts /\ OrderParts
      /\ call[t] = Idle /\ dispose = "no" /\ id \in td[t].jobs /\ ~job[id].processed
      /\ job' = [job EXCEPT ![id] = Stopped(@)] /\ DestroyArgument(id)
      /\ UNCHANGED <<to_worker, wpc, cur, dispose>>
  BY DEF MapInv, ReplyInv, OrderInv, PlaceInv, CancelInv, TypeInv, Cancel, CanCall, MayCancel
<1>1. id \in Created /\ job[id].owner = t /\ ~job[id].cancelled
  BY <1>0, CreatedJobs DEF PlaceParts, InThreadData
<1>2. Waiting(id) /\ ~Running(id) /\ hist[id].ran = 0
  <2>1. ~(hist[id].ran > 0) /\ ~Running(id)
    BY <1>0 DEF CancelParts, RanIsProcessed, RunningIsProcessed, Running
  <2>2. ~Pushing(id)
    BY <1>0, <1>1 DEF Pushing, Idle
  <2> QED BY <1>0, <1>1, <2>1, <2>2, FateType DEF OrderParts, NoneForgotten
<1>3. /\ job'[id].cancelled /\ \A i \in JobIds \ {id} : job'[i] = job[i]
  BY <1>0 DEF TypeOK, Stopped, Job
<1>4. \A i \in JobIds : hist'[i].ran = hist[i].ran /\ hist'[i].freed = hist[i].freed
  BY <1>0 DEF TypeOK, DestroyArgument, Fate
<1>5. StatusOf(id) = "waiting" /\ StatusOf(id)' = "cancelled"
  <2>1. ~(hist'[id].ran > 0) /\ ~Running(id)'
    BY <1>0, <1>2, <1>4 DEF Running
  <2> QED BY <1>1, <1>2, <1>3, <2>1, StatusValues DEF StatusOf, Running
<1>6. \A i \in JobIds \ {id} : StatusOf(i)' = StatusOf(i)
  BY <1>0, <1>3, <1>4, StatusKept DEF Running, Waiting
<1>7. JobStatus' = [JobStatus EXCEPT ![id] = "cancelled"]
  BY <1>5, <1>6, StatusSet
<1>8. QueuedBefore' = {p \in QueuedBefore : p[1] # id /\ p[2] # id}
  <2>1. ASSUME NEW a \in WaitingAt, to_worker[a] # id
        PROVE  a - 0 \in WaitingAt' /\ to_worker'[a - 0] = to_worker[a]
    <3>1. a \in DOMAIN to_worker /\ to_worker[a] \in JobIds /\ a \in Nat
      <4>1. to_worker \in Seq(JobIds \cup {DESTROY})
        BY <1>0 DEF TypeOK
      <4> QED BY <1>0, <4>1, Elements, LenProperties DEF WaitingAt
    <3>2. a - 0 = a
      BY <3>1
    <3> QED BY <1>0, <1>3, <2>1, <3>1, <3>2 DEF WaitingAt
  <2>2. ASSUME NEW c \in WaitingAt'
        PROVE  /\ c \in Nat /\ c + 0 \in WaitingAt
               /\ to_worker[c + 0] = to_worker'[c] /\ to_worker[c + 0] # id
    <3>1. c \in DOMAIN to_worker /\ to_worker[c] # DESTROY /\ ~job'[to_worker[c]].cancelled
      BY <1>0 DEF WaitingAt
    <3>2. to_worker[c] \in JobIds /\ c \in Nat
      <4>1. to_worker \in Seq(JobIds \cup {DESTROY})
        BY <1>0 DEF TypeOK
      <4> QED BY <1>0, <3>1, <4>1, Elements, LenProperties
    <3>3. c + 0 = c
      BY <3>2
    <3> QED BY <1>0, <1>3, <3>1, <3>2, <3>3 DEF WaitingAt
  <2>3. 0 \in {0, 1}
    OBVIOUS
  <2> QED BY <2>1, <2>2, <2>3, LeaveQueue
<1>9. JobStatus[id] = "waiting"
  BY <1>5 DEF JobStatus
<1> QED BY <1>0, <1>7, <1>8, <1>9 DEF Service!SNext, Service!Cancel, Service!SetTo, Service!Leave

\* iterate() and fetch_result(): a job that was executed is freed with its result.
LEMMA CollectMaps ==
    ASSUME MapInv, NEW id \in JobIds, hist[id].ran > 0, hist[id].freed = 0, JobFree(id),
           UNCHANGED <<job, to_worker, wpc, cur, dispose>>
    PROVE  Service!SNext
<1>0. TypeOK
  BY DEF MapInv, ReplyInv, OrderInv, PlaceInv, CancelInv, TypeInv
<1>1. /\ \A i \in JobIds \ {id} : hist'[i] = hist[i]
      /\ hist'[id].ran = hist[id].ran /\ hist'[id].freed # 0
  BY <1>0, FreedEffect
<1>2. StatusOf(id) = "done" /\ ~Running(id)
  BY StatusValues
<1>3. StatusOf(id)' = "collected"
  BY <1>1, <1>2 DEF StatusOf, Running
<1>4. \A i \in JobIds \ {id} : StatusOf(i)' = StatusOf(i)
  BY <1>1, StatusKept DEF Running, Waiting
<1>5. JobStatus' = [JobStatus EXCEPT ![id] = "collected"]
  BY <1>3, <1>4, StatusSet
<1>6. QueuedBefore' = QueuedBefore
  BY SameQueue
<1>7. JobStatus[id] = "done"
  BY <1>2 DEF JobStatus
<1> QED BY <1>5, <1>6, <1>7 DEF Service!SNext, Service!Collect, Service!SetTo

\* The worker starts the first job that waits, and drops the cancelled ones.
LEMMA WorkerPopMaps ==
    ASSUME MapInv, WorkerPop
    PROVE  [Service!SNext]_Service!svars
<1>1. PICK id \in JobIds :
         /\ WorkerTakes(id) /\ wpc = "pop" /\ dispose' = dispose
         /\ job' = [job EXCEPT ![id].processed = TRUE]
         /\ \/ job[id].cancelled /\ JobFree(id) /\ UNCHANGED <<wpc, cur>>
            \/ ~job[id].cancelled /\ wpc' = "run" /\ cur' = id /\ UNCHANGED hist
  BY DEF WorkerPop, WorkerTakes, Dropped
<1>2. TypeOK /\ PlaceInv /\ id \in JobIds \cup {DESTROY} /\ id # DESTROY
  BY DEF MapInv, ReplyInv, OrderInv, PlaceInv, CancelInv, TypeInv, JobIds, DESTROY
<1>3. \A i \in JobIds : job'[i].cancelled = job[i].cancelled
  BY <1>1, <1>2 DEF TypeOK, Job
<1>4. /\ QueuedBefore' = {p \in QueuedBefore : p[1] # id /\ p[2] # id}
      /\ \A i \in JobIds : Waiting(i)' <=> Waiting(i) /\ i # id
      /\ Waiting(id) /\ \A k \in JobIds : <<k, id>> \notin QueuedBefore
  BY <1>1, <1>2, <1>3, TakeQueue
<1>5. hist[id].ran = 0
  BY <1>1, <1>2, TakenJob
<1>6. CASE job[id].cancelled
  <2>1. JobFree(id) /\ UNCHANGED <<wpc, cur>>
    BY <1>1, <1>6
  <2>2. \A i \in JobIds : /\ hist'[i].ran = hist[i].ran
                          /\ i # id => hist'[i] = hist[i]
    BY <1>2, <2>1, FreedEffect
  <2>3. \A i \in JobIds : StatusOf(i)' = StatusOf(i)
    BY <1>3, <1>4, <1>5, <1>6, <2>1, <2>2, StatusKept DEF Running
  <2>4. StatusOf(id) # "waiting"
    BY <1>6, StatusValues
  <2>5. QueuedBefore' = QueuedBefore
    BY <1>4, <2>4, OnlyWaiting
  <2> QED BY <1>1, <2>3, <2>5 DEF Service!svars, JobStatus
<1>7. CASE ~job[id].cancelled
  <2>1. wpc' = "run" /\ cur' = id /\ UNCHANGED hist
    BY <1>1, <1>7
  <2>2. StatusOf(id) = "waiting" /\ \A k \in JobIds : StatusOf(k) # "running"
    BY <1>1, <1>4, <1>7, StatusValues DEF Running
  <2>3. StatusOf(id)' = "running"
    BY <2>1 DEF StatusOf
  <2>4. \A i \in JobIds \ {id} : StatusOf(i)' = StatusOf(i)
    BY <1>1, <1>3, <1>4, <2>1, StatusKept DEF Running
  <2>5. JobStatus' = [JobStatus EXCEPT ![id] = "running"]
    BY <2>3, <2>4, StatusSet
  <2>6. JobStatus[id] = "waiting" /\ \A k \in JobIds : JobStatus[k] # "running"
    BY <2>2 DEF JobStatus
  <2> QED BY <1>1, <1>4, <2>5, <2>6 DEF Service!SNext, Service!Start, Service!SetTo, Service!Leave
<1> QED BY <1>6, <1>7

\* The function returns.
LEMMA WorkerFinishMaps ==
    ASSUME MapInv, WorkerFinish
    PROVE  Service!SNext
<1>1. PICK id \in JobIds : id = cur
  BY DEF MapInv, ReplyInv, OrderInv, PlaceInv, CancelInv, TypeInv, WorkerHoldsJob, WorkerFinish
<1>2. /\ TypeOK /\ BeingExecuted /\ wpc = "run" /\ wpc' = "notify"
      /\ hist' = [hist EXCEPT ![id].ran = @ + 1]
      /\ UNCHANGED <<job, to_worker, cur, dispose>>
  BY <1>1 DEF MapInv, ReplyInv, OrderInv, PlaceInv, CancelInv, TypeInv, PlaceParts, WorkerFinish
<1>3. /\ \A i \in JobIds \ {id} : hist'[i] = hist[i]
      /\ hist'[id].ran > 0 /\ hist'[id].freed = 0
  <2>1. hist \in [JobIds -> Fate] /\ hist[id] \in Fate /\ hist[id].ran = 0 /\ hist[id].freed = 0
    BY <1>1, <1>2 DEF TypeOK, BeingExecuted
  <2>2. hist'[id] = [hist[id] EXCEPT !.ran = @ + 1]
    BY <1>2, <2>1
  <2>3. hist'[id].ran = 1 /\ hist'[id].freed = 0
    BY <2>1, <2>2 DEF Fate
  <2> QED BY <1>2, <2>1, <2>3
<1>4. StatusOf(id) = "running"
  BY <1>1, <1>2, StatusValues DEF Running
<1>5. StatusOf(id)' = "done"
  BY <1>2, <1>3 DEF StatusOf
<1>6. \A i \in JobIds \ {id} : StatusOf(i)' = StatusOf(i)
  BY <1>1, <1>2, <1>3, StatusKept DEF Running, Waiting
<1>7. JobStatus' = [JobStatus EXCEPT ![id] = "done"]
  BY <1>5, <1>6, StatusSet
<1>8. QueuedBefore' = QueuedBefore
  BY <1>2, SameQueue
<1>9. JobStatus[id] = "running"
  BY <1>4 DEF JobStatus
<1> QED BY <1>2, <1>7, <1>8, <1>9 DEF Service!SNext, Service!Finish, Service!SetTo

\* dispose() tells the worker to stop: the DESTROY job is not a job.
LEMMA DisposePushMaps ==
    ASSUME MapInv, DisposePush
    PROVE  UNCHANGED Service!svars
<1>0. /\ TypeOK /\ to_worker \in Seq(JobIds \cup {DESTROY}) /\ DESTROY \notin JobIds
      /\ to_worker' = Append(to_worker, DESTROY) /\ dispose = "no" /\ dispose' = "pushed"
      /\ UNCHANGED <<job, hist, wpc, cur>>
  BY DEF MapInv, ReplyInv, OrderInv, PlaceInv, CancelInv, TypeInv, TypeOK, DisposePush,
         TellWorker, JobIds, DESTROY
<1>1. PICK n \in Nat : /\ \A k \in DOMAIN to_worker : /\ k \in Nat
                                                      /\ to_worker'[k] = to_worker[k]
                       /\ DOMAIN to_worker' = DOMAIN to_worker \cup {n}
                       /\ to_worker'[n] = DESTROY
  <2>1. Len(to_worker) + 1 \in Nat /\ \A k \in DOMAIN to_worker : k \in Nat
    BY <1>0, LenProperties
  <2> QED BY <1>0, <2>1, Appended
<1>2. \A i \in JobIds : Waiting(i)' <=> Waiting(i)
  BY <1>0, <1>1 DEF Waiting
<1>3. \A i \in JobIds : StatusOf(i)' = StatusOf(i)
  BY <1>0, <1>2, StatusKept DEF Running
<1>4. QueuedBefore' = {p \in QueuedBefore : p[1] # DESTROY /\ p[2] # DESTROY}
  <2>1. ASSUME NEW a \in WaitingAt, to_worker[a] # DESTROY
        PROVE  a - 0 \in WaitingAt' /\ to_worker'[a - 0] = to_worker[a]
    <3>1. a \in DOMAIN to_worker /\ ~job[to_worker[a]].cancelled
      BY DEF WaitingAt
    <3>2. a \in Nat /\ to_worker'[a] = to_worker[a] /\ a \in DOMAIN to_worker'
      BY <1>1, <3>1
    <3>3. a - 0 = a
      BY <3>2
    <3> QED BY <1>0, <2>1, <3>1, <3>2, <3>3 DEF WaitingAt
  <2>2. ASSUME NEW c \in WaitingAt'
        PROVE  /\ c \in Nat /\ c + 0 \in WaitingAt
               /\ to_worker[c + 0] = to_worker'[c] /\ to_worker[c + 0] # DESTROY
    <3>1. c \in DOMAIN to_worker' /\ to_worker'[c] # DESTROY /\ ~job'[to_worker'[c]].cancelled
      BY DEF WaitingAt
    <3>2. c \in DOMAIN to_worker /\ c \in Nat /\ to_worker'[c] = to_worker[c]
      BY <1>1, <3>1
    <3>3. c + 0 = c
      BY <3>2
    <3> QED BY <1>0, <3>1, <3>2, <3>3 DEF WaitingAt
  <2>3. 0 \in {0, 1}
    OBVIOUS
  <2> QED BY <2>1, <2>2, <2>3, LeaveQueue
<1>5. QueuedBefore' = QueuedBefore
  BY <1>0, <1>4, OnlyWaiting
<1> QED BY <1>0, <1>3, <1>5 DEF Service!svars, JobStatus

\* dispose(): every job that waits is stopped, and no other.
LEMMA DisposeCleanMaps ==
    ASSUME MapInv, DisposeClean
    PROVE  Service!SNext
<1> DEFINE stopped == {i \in UNION {td[t].jobs : t \in Threads} : ~job[i].processed}
           results == UNION {td[t].results : t \in Threads}
<1>0. /\ TypeOK /\ PlaceParts /\ CancelParts /\ OrderParts /\ KnownToOwner
      /\ dispose = "pushed" /\ dispose' = "done" /\ \A t \in Threads : call[t] = Idle
      /\ UNCHANGED <<to_worker, wpc, cur>>
  BY DEF MapInv, ReplyInv, OrderInv, PlaceInv, CancelInv, TypeInv, DisposeClean, MapParts,
         NoCallAtEnd
<1>1. \A i \in stopped : i \in Created /\ ~job[i].cancelled /\ ~job[i].processed
  <2>1. ASSUME NEW t \in Threads, NEW i \in td[t].jobs
        PROVE  i \in Created /\ ~job[i].cancelled
    BY <1>0, CreatedJobs, Elements DEF PlaceParts, InThreadData
  <2> QED BY <2>1
<1>2. \A i \in results : i \in JobIds /\ hist[i].ran > 0 /\ hist[i].freed = 0
  <2>1. ASSUME NEW t \in Threads, NEW i \in td[t].results
        PROVE  i \in JobIds /\ hist[i].ran > 0 /\ hist[i].freed = 0
    BY <1>0, Elements DEF PlaceParts, InThreadData
  <2> QED BY <2>1
<1>3. ASSUME NEW i \in JobIds, StatusOf(i) = "waiting"
      PROVE  i \in stopped
  <2>1. Waiting(i) /\ ~job[i].cancelled /\ i \in Created
    BY <1>3, StatusValues
  <2>2. hist[i].ran = 0 /\ hist[i].freed = 0 /\ ~job[i].processed
    <3>1. i # DESTROY
      BY DEF JobIds, DESTROY
    <3>2. ~job[i].processed /\ hist[i].freed = 0
      BY <1>0, <2>1, <3>1 DEF Waiting, PlaceParts, InWorkerQueue
    <3> QED BY <1>0, <3>2, FateType DEF CancelParts, RanIsProcessed
  <2>3. i \in td[job[i].owner].jobs \cup td[job[i].owner].results
    BY <1>0, <2>1, <2>2 DEF KnownToOwner
  <2>4. i \notin results
    BY <1>2, <2>2
  <2>5. job[i].owner \in Threads
    BY <1>0, <2>1, CreatedJobs
  <2> QED BY <2>2, <2>3, <2>4, <2>5
<1>4. \A i \in stopped : i \in JobIds /\ StatusOf(i) = "waiting"
  <2>1. ASSUME NEW i \in stopped
        PROVE  Waiting(i)
    <3>1. i \in JobIds /\ i \in Created /\ ~job[i].cancelled /\ ~job[i].processed
      BY <1>0, <1>1, CreatedJobs
    <3>2. ~(hist[i].ran > 0) /\ ~Running(i)
      BY <1>0, <3>1 DEF CancelParts, RanIsProcessed, RunningIsProcessed, Running
    <3>3. ~Pushing(i)
      BY <1>0, <3>1, CreatedJobs DEF Pushing, Idle
    <3> QED BY <1>0, <3>1, <3>2, <3>3 DEF OrderParts, NoneForgotten
  <2> QED BY <1>0, <1>1, <2>1, CreatedJobs, StatusValues
<1>5. \A i \in JobIds : job'[i] = IF i \in stopped THEN Stopped(job[i]) ELSE job[i]
  BY DEF DisposeClean
<1>6. \A i \in JobIds : hist'[i] =
         IF i \in stopped \cup results
         THEN [hist[i] EXCEPT !.destroyed = @ + Times(job[i].arg),
                              !.freed = @ + Times(i \in results)]
         ELSE hist[i]
  BY DEF DisposeClean
<1> HIDE DEF stopped, results
<1>7. ASSUME NEW i \in JobIds
      PROVE  /\ hist'[i].ran = hist[i].ran
             /\ i \in results => hist'[i].freed = 1
             /\ i \notin results => hist'[i].freed = hist[i].freed
             /\ i \in stopped => job'[i].cancelled
             /\ i \notin stopped => job'[i] = job[i]
  <2>1. hist[i] \in Fate /\ job[i] \in Job
    BY <1>0 DEF TypeOK
  <2>2. i \in results => hist[i].freed + Times(i \in results) = 1
    BY <1>2 DEF Times
  <2>3. i \notin results => hist[i].freed + Times(i \in results) = hist[i].freed
    BY <2>1 DEF Times, Fate
  <2> QED BY <1>5, <1>6, <2>1, <2>2, <2>3 DEF Fate, Job, Stopped
<1>8. ASSUME NEW i \in JobIds
      PROVE  StatusOf(i)' = CASE StatusOf(i) = "waiting" -> "cancelled"
                              [] i \in results -> "collected"
                              [] OTHER -> StatusOf(i)
  <2>1. CASE StatusOf(i) = "waiting"
    <3>1. ~Running(i) /\ ~(hist[i].ran > 0)
      BY <2>1, StatusValues
    <3>2. StatusOf(i)' = "cancelled"
      BY <1>0, <1>3, <1>7, <2>1, <3>1 DEF StatusOf, Running
    <3>3. i \notin results
      BY <1>2, <3>1
    <3> QED BY <2>1, <3>2, <3>3
  <2>2. CASE i \in results
    <3>1. StatusOf(i) = "done" /\ ~Running(i)
      BY <1>2, <2>2, StatusValues
    <3>2. StatusOf(i)' = "collected"
      BY <1>0, <1>2, <1>7, <2>2, <3>1 DEF StatusOf, Running
    <3> QED BY <2>2, <3>1, <3>2
  <2>3. CASE StatusOf(i) # "waiting" /\ i \notin results
    <3>1. StatusOf(i)' = StatusOf(i)
      BY <1>0, <1>4, <1>7, <2>3, StatusKept DEF Running, Waiting
    <3> QED BY <2>3, <3>1
  <2> QED BY <2>1, <2>2, <2>3
<1>9. results \in SUBSET {i \in JobIds : JobStatus[i] = "done"}
  BY <1>2, StatusValues DEF JobStatus
<1>10. JobStatus' = [i \in JobIds |-> CASE JobStatus[i] = "waiting" -> "cancelled"
                                        [] i \in results -> "collected"
                                        [] OTHER -> JobStatus[i]]
  BY <1>8 DEF JobStatus
<1>11. QueuedBefore' = {}
  <2>1. ASSUME NEW k \in DOMAIN to_worker, to_worker[k] # DESTROY
        PROVE  job'[to_worker[k]].cancelled
    <3>1. to_worker[k] \in JobIds /\ Waiting(to_worker[k])
      BY <1>0, <2>1, Elements DEF Waiting
    <3> QED BY <1>3, <1>7, <3>1, StatusValues
  <2>2. WaitingAt' = {}
    BY <1>0, <2>1 DEF WaitingAt
  <2> QED BY <2>2, QueuePairs
<1> QED BY <1>0, <1>9, <1>10, <1>11 DEF Service!SNext, Service!Close

-----------------------------------------------------------------------------
\* The calls of a client: a submission is queued later, by the push.
LEMMA CallMaps ==
    ASSUME MapInv, NEW t \in Threads, ClientCall(t)
    PROVE  [Service!SNext]_Service!svars
<1>0. TypeOK /\ PlaceInv /\ MapParts
  BY DEF MapInv, ReplyInv, OrderInv, PlaceInv, CancelInv, TypeInv
<1>1. ASSUME NEW void \in BOOLEAN, NEW arg \in BOOLEAN, ExecuteBegin(t, void, arg)
      PROVE  UNCHANGED Service!svars
  <2>1. Submit(t, void, arg) /\ UNCHANGED <<to_worker, wpc, cur, dispose, hist>>
    BY <1>1 DEF ExecuteBegin
  <2>2. PICK n \in JobIds : n = next_job_id
    BY <1>0, <2>1, SubmitPlaces
  <2>3. ~job'[n].cancelled /\ \A i \in JobIds \ {n} : job'[i] = job[i]
    BY <1>0, <2>1, <2>2, SubmitPlaces
  <2>4. ~job[n].cancelled
    BY <1>0, <2>2 DEF MapParts, NotCancelledEarly, JobIds
  <2>5. \A i \in JobIds : job'[i].cancelled = job[i].cancelled
    <3>1. job'[n].cancelled = FALSE /\ job[n].cancelled = FALSE
      <4>1. job'[n].cancelled \in BOOLEAN
        <5>1. job' \in [JobIds -> Job]
          BY <1>0, <2>1, SubmitType
        <5> QED BY <5>1 DEF Job
      <4>2. job[n].cancelled \in BOOLEAN
        BY <1>0 DEF TypeOK, Job
      <4> QED BY <2>3, <2>4, <4>1, <4>2
    <3> QED BY <2>3, <3>1
  <2> QED BY <2>1, <2>5, Unseen DEF Running
<1>2. ASSUME NEW id \in JobIds, Cancel(t, id) PROVE Service!SNext
  BY <1>2, CancelMaps
<1>3. ASSUME \/ \E block \in BOOLEAN : IterateBegin(t, block)
             \/ \E id \in JobIds, block \in BOOLEAN : FetchBegin(t, id, block)
             \/ GetIoChannel(t) \/ UnsetIoChannel(t)
      PROVE  UNCHANGED Service!svars
  <2>1. UNCHANGED <<job, hist, to_worker, wpc, cur, dispose>>
    BY <1>3 DEF IterateBegin, FetchBegin, GetIoChannel, UnsetIoChannel
  <2> QED BY <2>1, Unseen DEF Running
<1> QED BY <1>1, <1>2, <1>3 DEF ClientCall

\* What a call does to its replies: only freeing one shows.
LEMMA ClientStepMaps ==
    ASSUME MapInv, NEW t \in Threads, ClientStep(t)
    PROVE  [Service!SNext]_Service!svars
<1>0. TypeOK /\ PlaceInv /\ PlaceParts
  BY DEF MapInv, ReplyInv, OrderInv, PlaceInv, CancelInv, TypeInv
<1>1. CASE ExecutePush(t)
  BY <1>1, PushMaps
<1>2. CASE PopVoid(t)
  <2>1. PICK id : /\ Pop(t) /\ id = Head(from_worker[t]) /\ id # NOTIFICATION_ERROR
                  /\ JobFree(id) /\ UNCHANGED <<job, to_worker, wpc, cur, dispose>>
    BY <1>2 DEF PopVoid
  <2>2. id \in JobIds /\ Replied(t, id)
    BY <1>0, <2>1, TakenReply
  <2> QED BY <2>1, <2>2, CollectMaps DEF Replied
<1>3. CASE FetchFound(t)
  <2>1. PICK id : /\ id \in td[t].results /\ JobFree(id)
                  /\ UNCHANGED <<job, to_worker, wpc, cur, dispose>>
    BY <1>3 DEF FetchFound
  <2>2. id \in JobIds /\ hist[id].ran > 0 /\ hist[id].freed = 0
    BY <1>0, <2>1, Elements DEF PlaceParts, InThreadData
  <2> QED BY <2>1, <2>2, CollectMaps
<1>4. CASE PopNothing(t) \/ PopResult(t) \/ PopNotificationError(t) \/ FetchNotFound(t)
  <2>1. UNCHANGED <<job, hist, to_worker, wpc, cur, dispose>>
    BY <1>4 DEF PopNothing, PopResult, PopNotificationError, FetchNotFound
  <2> QED BY <2>1, Unseen DEF Running
<1> QED BY <1>1, <1>2, <1>3, <1>4 DEF ClientStep

\* A step of the worker starts or finishes a job of the service, or is not seen.
LEMMA WorkerMaps ==
    ASSUME MapInv, WorkerStep \/ WorkerFinish
    PROVE  [Service!SNext]_Service!svars
<1>1. CASE WorkerPop
  BY <1>1, WorkerPopMaps
<1>2. CASE WorkerFinish
  BY <1>2, WorkerFinishMaps
<1>3. CASE WorkerExit
  <2>1. /\ WorkerTakes(DESTROY) /\ wpc = "pop" /\ wpc' = "exited" /\ DESTROY \notin JobIds
        /\ UNCHANGED <<job, hist, dispose>>
    BY <1>3 DEF WorkerExit, WorkerTakes, JobIds, DESTROY
  <2>2. DESTROY \in JobIds \cup {DESTROY}
    OBVIOUS
  <2>3. /\ QueuedBefore' = {p \in QueuedBefore : p[1] # DESTROY /\ p[2] # DESTROY}
        /\ \A i \in JobIds : Waiting(i)' <=> Waiting(i)
    BY <2>1, <2>2, TakeQueue
  <2>4. QueuedBefore' = QueuedBefore
    BY <2>1, <2>3, OnlyWaiting
  <2>5. \A i \in JobIds : StatusOf(i)' = StatusOf(i)
    BY <2>1, <2>3, StatusKept DEF Running
  <2> QED BY <2>1, <2>4, <2>5 DEF Service!svars, JobStatus
<1>4. CASE WorkerNotify \/ WorkerNotifyFails \/ WorkerReport
  <2>1. /\ wpc # "run" /\ wpc' # "run" /\ UNCHANGED <<job, hist, to_worker, dispose>>
    BY <1>4 DEF WorkerNotify, WorkerNotifyFails, WorkerReport
  <2> QED BY <2>1, Unseen DEF Running
<1> QED BY <1>1, <1>2, <1>3, <1>4 DEF WorkerStep

\* Every step is a step of the service or is not seen.
LEMMA NextMaps == MapInv /\ [Next]_vars => [Service!SNext]_Service!svars
<1> SUFFICES ASSUME MapInv, [Next]_vars PROVE [Service!SNext]_Service!svars
  OBVIOUS
<1>1. ASSUME NEW t \in Threads, ReadNotification(t) PROVE [Service!SNext]_Service!svars
  <2>1. UNCHANGED <<job, hist, to_worker, wpc, cur, dispose>>
    BY <1>1 DEF ReadNotification
  <2> QED BY <2>1, Unseen DEF Running
<1>2. ASSUME UNCHANGED vars PROVE UNCHANGED Service!svars
  <2>1. UNCHANGED <<job, hist, to_worker, wpc, cur, dispose>>
    BY <1>2 DEF vars
  <2> QED BY <2>1, Unseen DEF Running
<1> QED BY <1>1, <1>2, CallMaps, ClientStepMaps, InlineMaps, WorkerMaps, DisposePushMaps,
           DisposeCleanMaps DEF Next

\* The initial state is one of the service.
LEMMA InitMaps == Init => Service!SInit
<1> SUFFICES ASSUME Init PROVE Service!SInit
  OBVIOUS
<1>1. /\ wpc = "pop" /\ to_worker = << >> /\ dispose = "no"
      /\ \A i \in JobIds : ~(hist[i].ran > 0) /\ ~job[i].cancelled
  BY DEF Init, NoJob
<1>2. DOMAIN to_worker = {}
  BY <1>1
<1>3. \A i \in JobIds : StatusOf(i) = "none"
  BY <1>1, <1>2 DEF StatusOf
<1>4. QueuedBefore = {}
  <2>1. WaitingAt = {}
    BY <1>2 DEF WaitingAt
  <2> QED BY <2>1, QueuePairs
<1> QED BY <1>1, <1>3, <1>4 DEF Service!SInit, JobStatus

\* gda-thread-wrapper.c as its callers see it: a function given to the wrapper is
\* executed once or cancelled before it started, one at a time and in the order of
\* the pushes, and its result is collected once.  Any thread may push, cancel and
\* fetch, and dispose() stops exactly the functions that wait, in a single step.
THEOREM Implements == Spec => ImplementsJobService
<1>1. Init => MapInv
  BY InitMap
<1>2. MapInv /\ [Next]_vars => MapInv'
  BY NextMap
<1>3. Init => Service!SInit
  BY InitMaps
<1>4. MapInv /\ [Next]_vars => [Service!SNext]_Service!svars
  BY NextMaps
<1> QED BY <1>1, <1>2, <1>3, <1>4, PTL DEF Spec, ImplementsJobService, Service!SSpec
=============================================================================
