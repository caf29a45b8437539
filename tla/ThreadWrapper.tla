---------------------------- MODULE ThreadWrapper ----------------------------
(***************************************************************************)
(* GdaThreadWrapper, jobs: client threads have functions executed by one   *)
(* private worker thread (libgda/thread-wrapper/gda-thread-wrapper.c).     *)
(* A Job travels  client -> to_worker -> worker -> from_worker[t] ->       *)
(* td[t].results -> client.  The signal half of the object is in           *)
(* ThreadSignals.                                                          *)
(*                                                                         *)
(* One step is one critical section of the code: a hold of `rmutex', of    *)
(* the lock inside a GAsyncQueue, or an access to memory that only the     *)
(* acting thread touches.  A Job is named by its job_id.                   *)
(*                                                                         *)
(* A name that ends in _mutant is a wrong version of the definition after  *)
(* it, used to confirm that the properties notice such a mistake.          *)
(***************************************************************************)
EXTENDS Naturals, Sequences, FiniteSets

CONSTANTS
    Clients,        \* threads that use the wrapper, besides its own
    Worker,         \* the private sub thread
    MaxJobs,        \* bound: jobs created in a behaviour
    PipeCapacity,   \* notifications a pipe holds before write() blocks
    PipeUsers,      \* clients that ask for an I/O channel
    FaultyPipes     \* owners of a pipe on which a write() may fail

ASSUME ThreadsAssumption == /\ Worker \notin Clients
                            /\ PipeUsers \subseteq Clients
                            /\ FaultyPipes \subseteq PipeUsers
ASSUME BoundsAssumption == MaxJobs \in Nat /\ PipeCapacity \in Nat \ {0}

Threads == Clients \cup {Worker}
JobIds  == 1 .. MaxJobs

DESTROY            == 0     \* the JOB_TYPE_DESTROY job in to_worker
NOTIFICATION_ERROR == 0     \* a JOB_TYPE_NOTIFICATION_ERROR job in a reply queue

VARIABLES
    next_job_id,  \* priv->next_job_id
    job,          \* the Job structures, by job_id
    td,           \* priv->threads_hash: the ThreadData of each thread
    to_worker,    \* priv->to_worker_thread
    from_worker,  \* td->from_worker_thread of each thread
    pipe,         \* the Pipe of each thread: is it in priv->pipes_hash, its write end
    unread,       \* notifications in each pipe
    call,         \* where each thread is in the method it is executing
    wpc, cur,     \* where the worker is, and the job it works on
    dispose,      \* progress of gda_thread_wrapper_dispose()
    hist          \* history: what was done to each job so far

vars == <<next_job_id, job, td, to_worker, from_worker, pipe, unread, call,
          wpc, cur, dispose, hist>>

-----------------------------------------------------------------------------
Job == [owner : Threads, void : BOOLEAN, arg : BOOLEAN,
        processed : BOOLEAN, cancelled : BOOLEAN, notif : BOOLEAN]
ThreadData == [present : BOOLEAN, jobs : SUBSET JobIds,
               results : SUBSET JobIds, notif : BOOLEAN]
Call == [at : {"none", "push", "iterate", "look", "fetch"},
         id : JobIds \cup {0}, block : BOOLEAN]
Fate == [ran : Nat, destroyed : Nat, freed : Nat]

NoJob  == [owner |-> Worker, void |-> FALSE, arg |-> FALSE, processed |-> FALSE,
           cancelled |-> FALSE, notif |-> FALSE]
NoData == [present |-> FALSE, jobs |-> {}, results |-> {}, notif |-> FALSE]
Idle   == [at |-> "none", id |-> 0, block |-> FALSE]

\* get_thread_data(): the caller's ThreadData, created on first use with a
\* reference to the pipe its thread has at that moment.
ThreadDataOf(t) ==
    IF td[t].present THEN td[t]
    ELSE [NoData EXCEPT !.present = TRUE, !.notif = pipe[t].known]

Times(b) == IF b THEN 1 ELSE 0

\* job_free(): destroys the argument the job still holds, if any.
Freed(id) == [hist[id] EXCEPT !.freed = @ + 1, !.destroyed = @ + Times(job[id].arg)]
JobFree(id) == hist' = [hist EXCEPT ![id] = Freed(id)]

\* clean_notifications(): drops the pipe of thread t.
CleanNotifications(t) ==
    /\ td' = [td EXCEPT ![t].notif = FALSE]
    /\ pipe' = [pipe EXCEPT ![t].known = FALSE]

\* A thread may start a call: it is in none, the object still exists and, for
\* the worker, a job function is running (only such a function can call).
CanCall(t) == /\ call[t] = Idle
              /\ dispose = "no"
              /\ t = Worker => wpc = "run"

Return(t) == call' = [call EXCEPT ![t] = Idle]

Init ==
    /\ next_job_id = 1
    /\ job = [i \in JobIds |-> NoJob]
    /\ td = [t \in Threads |-> NoData]
    /\ to_worker = << >>
    /\ from_worker = [t \in Threads |-> << >>]
    /\ pipe = [t \in Threads |-> [known |-> FALSE, fd |-> "none"]]
    /\ unread = [t \in Threads |-> 0]
    /\ call = [t \in Threads |-> Idle]
    /\ wpc = "pop" /\ cur = 0
    /\ dispose = "no"
    /\ hist = [i \in JobIds |-> [ran |-> 0, destroyed |-> 0, freed |-> 0]]

-----------------------------------------------------------------------------
(* gda_thread_wrapper_execute(), gda_thread_wrapper_execute_void()         *)

\* The Job both functions build for thread t.
NewJob(t, void, arg) ==
    [owner |-> t, void |-> void, arg |-> arg, processed |-> t = Worker,
     cancelled |-> FALSE, notif |-> ThreadDataOf(t).notif]

\* The identifier is taken under rmutex, the Job built and appended to td->jobs.
Submit(t, void, arg) ==
    /\ CanCall(t)
    /\ next_job_id <= MaxJobs
    /\ next_job_id' = next_job_id + 1
    /\ job' = [job EXCEPT ![next_job_id] = NewJob(t, void, arg)]
    /\ td' = [td EXCEPT ![t] = [ThreadDataOf(t) EXCEPT !.jobs = @ \cup {next_job_id}]]

\* From any other thread: the push on to_worker is still to be done.
ExecuteBegin(t, void, arg) ==
    /\ t # Worker
    /\ Submit(t, void, arg)
    /\ call' = [call EXCEPT ![t] = [at |-> "push", id |-> next_job_id, block |-> FALSE]]
    /\ UNCHANGED <<to_worker, from_worker, pipe, unread, wpc, cur, dispose, hist>>

ExecutePush_mutant(t) ==
    /\ call[t].at = "push"
    /\ to_worker' = <<call[t].id>> \o to_worker
    /\ Return(t)
    /\ UNCHANGED <<next_job_id, job, td, from_worker, pipe, unread, wpc, cur, dispose, hist>>

ExecutePush(t) ==
    /\ call[t].at = "push"
    /\ to_worker' = Append(to_worker, call[t].id)
    /\ Return(t)
    /\ UNCHANGED <<next_job_id, job, td, from_worker, pipe, unread, wpc, cur, dispose, hist>>

\* From the worker itself (a job function submitting a job): executed at once.
\* The worker never asks for an I/O channel, so it has nothing to notify.
ExecuteInline(void, arg) ==
    /\ Submit(Worker, void, arg)
    /\ hist' = [hist EXCEPT ![next_job_id].ran = @ + 1]
    /\ from_worker' = [from_worker EXCEPT ![Worker] = Append(@, next_job_id)]
    /\ UNCHANGED <<to_worker, pipe, unread, call, wpc, cur, dispose>>

-----------------------------------------------------------------------------
(* gda_thread_wrapper_cancel(): rmutex and the queue's lock are both held, *)
(* so the worker cannot pop the job between the test and the assignment.   *)
MayCancel_mutant(id) == TRUE
MayCancel(id) == ~job[id].processed

Stopped_mutant(j) == [j EXCEPT !.cancelled = TRUE]
Stopped(j) == [j EXCEPT !.cancelled = TRUE, !.arg = FALSE]

DestroyArgument(id) == hist' = [hist EXCEPT ![id].destroyed = @ + Times(job[id].arg)]

Cancel(t, id) ==
    /\ CanCall(t)
    /\ td[t].present
    /\ id \in td[t].jobs
    /\ MayCancel(id)
    /\ job' = [job EXCEPT ![id] = Stopped(@)]
    /\ DestroyArgument(id)
    /\ td' = [td EXCEPT ![t].jobs = @ \ {id}]
    /\ UNCHANGED <<next_job_id, to_worker, from_worker, pipe, unread, call, wpc, cur, dispose>>

-----------------------------------------------------------------------------
(* gda_thread_wrapper_iterate() and gda_thread_wrapper_fetch_result().     *)
(* call[t].at is "iterate" in the first called on its own, "look" when     *)
(* fetch_result scans td->results and "fetch" when fetch_result is inside  *)
(* iterate.                                                                *)

\* A thread asks to block only for a completion it is entitled to.
IterateBegin(t, block) ==
    /\ CanCall(t)
    /\ td[t].present
    /\ block => \E i \in td[t].jobs : ~job[i].void
    /\ call' = [call EXCEPT ![t] = [at |-> "iterate", id |-> 0, block |-> block]]
    /\ UNCHANGED <<next_job_id, job, td, to_worker, from_worker, pipe, unread, wpc, cur, dispose, hist>>

\* "The function's execution must have been requested using
\* gda_thread_wrapper_execute()", by this thread and not fetched or cancelled.
FetchBegin(t, id, block) ==
    /\ CanCall(t)
    /\ td[t].present
    /\ id \in td[t].jobs \cup td[t].results
    /\ ~job[id].void
    /\ call' = [call EXCEPT ![t] = [at |-> "look", id |-> id, block |-> block]]
    /\ UNCHANGED <<next_job_id, job, td, to_worker, from_worker, pipe, unread, wpc, cur, dispose, hist>>

InIterate(t) == call[t].at \in {"iterate", "fetch"}

\* g_async_queue_try_pop() finds nothing: both functions return.
PopNothing(t) ==
    /\ InIterate(t)
    /\ ~call[t].block
    /\ from_worker[t] = << >>
    /\ Return(t)
    /\ UNCHANGED <<next_job_id, job, td, to_worker, from_worker, pipe, unread, wpc, cur, dispose, hist>>

Pop(t) == /\ InIterate(t)
          /\ from_worker[t] # << >>
          /\ from_worker' = [from_worker EXCEPT ![t] = Tail(@)]

\* A function without result: freed, and iterate looks at the next reply.
PopVoid(t) ==
    LET id == Head(from_worker[t]) IN
    /\ Pop(t)
    /\ id # NOTIFICATION_ERROR /\ job[id].void
    /\ td' = [td EXCEPT ![t].jobs = @ \ {id}]
    /\ JobFree(id)
    /\ UNCHANGED <<next_job_id, job, to_worker, pipe, unread, call, wpc, cur, dispose>>

\* A function with a result: kept in td->results; fetch_result looks again.
LookAgain_mutant(t) == IF call[t].at = "iterate" THEN Idle ELSE call[t]
LookAgain(t) == IF call[t].at = "iterate" THEN Idle ELSE [call[t] EXCEPT !.at = "look"]

PopResult(t) ==
    LET id == Head(from_worker[t]) IN
    /\ Pop(t)
    /\ id # NOTIFICATION_ERROR /\ ~job[id].void
    /\ td' = [td EXCEPT ![t].jobs = @ \ {id}, ![t].results = @ \cup {id}]
    /\ call' = [call EXCEPT ![t] = LookAgain(t)]
    /\ UNCHANGED <<next_job_id, job, to_worker, pipe, unread, wpc, cur, dispose, hist>>

\* A notification error: the results did not change, so a non-blocking
\* fetch_result gives up.
PopNotificationError(t) ==
    /\ Pop(t)
    /\ Head(from_worker[t]) = NOTIFICATION_ERROR
    /\ CleanNotifications(t)
    /\ call' = [call EXCEPT ![t] = IF @.at = "fetch" /\ @.block
                                   THEN [@ EXCEPT !.at = "look"] ELSE Idle]
    /\ UNCHANGED <<next_job_id, job, to_worker, unread, wpc, cur, dispose, hist>>

\* The result is there: the ThreadData is removed when it holds nothing else,
\* the value is returned and the job freed.
Empty_mutant(t, rest) == rest = {} /\ from_worker[t] = << >>
Empty(t, rest) == rest = {} /\ td[t].jobs = {} /\ from_worker[t] = << >>

FetchFound(t) ==
    LET rest == td[t].results \ {call[t].id} IN
    /\ call[t].at = "look"
    /\ call[t].id \in td[t].results
    /\ td' = [td EXCEPT ![t] = IF Empty(t, rest) THEN NoData ELSE [@ EXCEPT !.results = rest]]
    /\ JobFree(call[t].id)
    /\ Return(t)
    /\ UNCHANGED <<next_job_id, job, to_worker, from_worker, pipe, unread, wpc, cur, dispose>>

FetchNotFound(t) ==
    /\ call[t].at = "look"
    /\ call[t].id \notin td[t].results
    /\ call' = [call EXCEPT ![t].at = "fetch"]
    /\ UNCHANGED <<next_job_id, job, td, to_worker, from_worker, pipe, unread, wpc, cur, dispose, hist>>

-----------------------------------------------------------------------------
(* Notification pipes: at most one pipe is created per thread (bound).     *)

\* gda_thread_wrapper_get_io_channel()
GetIoChannel(t) ==
    /\ CanCall(t)
    /\ t \in PipeUsers
    /\ pipe[t].fd = "none"
    /\ pipe' = [pipe EXCEPT ![t] = [known |-> TRUE, fd |-> "open"]]
    /\ UNCHANGED <<next_job_id, job, td, to_worker, from_worker, unread, call, wpc, cur, dispose, hist>>

\* gda_thread_wrapper_unset_io_channel()
UnsetIoChannel(t) ==
    /\ CanCall(t)
    /\ td[t].present
    /\ pipe[t].known
    /\ CleanNotifications(t)
    /\ UNCHANGED <<next_job_id, job, to_worker, from_worker, unread, call, wpc, cur, dispose, hist>>

\* The user's main loop reads one GdaThreadNotification.
ReadNotification(t) ==
    /\ call[t] = Idle
    /\ unread[t] > 0
    /\ unread' = [unread EXCEPT ![t] = @ - 1]
    /\ UNCHANGED <<next_job_id, job, td, to_worker, from_worker, pipe, call, wpc, cur, dispose, hist>>

-----------------------------------------------------------------------------
(* worker_thread_entry_point()                                             *)

\* Popped and marked under the queue's lock.  A cancelled job is freed here.
WorkerTakes_mutant(id) == /\ wpc = "pop"
                          /\ Len(to_worker) > 1
                          /\ id = Head(to_worker)
                          /\ to_worker' = Tail(to_worker)

WorkerTakes(id) == /\ wpc = "pop"
                   /\ to_worker # << >>
                   /\ id = Head(to_worker)
                   /\ to_worker' = Tail(to_worker)

Dropped_mutant(id) == FALSE
Dropped(id) == job[id].cancelled

WorkerPop ==
    \E id \in JobIds :
      /\ WorkerTakes(id)
      /\ job' = [job EXCEPT ![id].processed = TRUE]
      /\ IF Dropped(id)
         THEN JobFree(id) /\ UNCHANGED <<wpc, cur>>
         ELSE wpc' = "run" /\ cur' = id /\ UNCHANGED hist
      /\ UNCHANGED <<next_job_id, td, from_worker, pipe, unread, call, dispose>>

WorkerExit ==
    /\ WorkerTakes(DESTROY)
    /\ wpc' = "exited"
    /\ UNCHANGED <<next_job_id, job, td, from_worker, pipe, unread, call, cur, dispose, hist>>

\* The function returns: the job is pushed on its reply queue.  From here on
\* the submitter owns it; the worker kept a reference to the pipe.
WorkerFinish ==
    /\ wpc = "run"
    /\ call[Worker] = Idle
    /\ hist' = [hist EXCEPT ![cur].ran = @ + 1]
    /\ from_worker' = [from_worker EXCEPT ![job[cur].owner] = Append(@, cur)]
    /\ wpc' = "notify"
    /\ UNCHANGED <<next_job_id, job, td, to_worker, pipe, unread, call, cur, dispose>>

\* write_notification(): nothing to write to, a complete write (which blocks
\* while the pipe is full), or a failed one.
HasRoom_mutant(t) == TRUE
HasRoom(t) == unread[t] < PipeCapacity
MustWrite == job[cur].notif /\ pipe[job[cur].owner].fd = "open"

WorkerNotify ==
    /\ wpc = "notify"
    /\ IF MustWrite
       THEN /\ HasRoom(job[cur].owner)
            /\ unread' = [unread EXCEPT ![job[cur].owner] = @ + 1]
       ELSE UNCHANGED unread
    /\ wpc' = "pop" /\ cur' = 0
    /\ UNCHANGED <<next_job_id, job, td, to_worker, from_worker, pipe, call, dispose, hist>>

WorkerNotifyFails ==
    /\ wpc = "notify"
    /\ MustWrite
    /\ job[cur].owner \in FaultyPipes
    /\ pipe' = [pipe EXCEPT ![job[cur].owner].fd = "closed"]
    /\ wpc' = "report"
    /\ UNCHANGED <<next_job_id, job, td, to_worker, from_worker, unread, call, cur, dispose, hist>>

\* The error is reported on job->reply_queue, read from the Job that was given
\* away.  When the submitter freed it the read is undefined: the build pushes
\* on the queue that is still there, or crashes.
ErrorReported_mutant == cur
ErrorReported == NOTIFICATION_ERROR

WorkerReport ==
    /\ wpc = "report"
    /\ \/ /\ from_worker' = [from_worker EXCEPT ![job[cur].owner] = Append(@, ErrorReported)]
          /\ wpc' = "pop" /\ cur' = 0
       \/ /\ hist[cur].freed > 0
          /\ wpc' = "crashed"
          /\ UNCHANGED <<from_worker, cur>>
    /\ UNCHANGED <<next_job_id, job, td, to_worker, pipe, unread, call, dispose, hist>>

-----------------------------------------------------------------------------
(* gda_thread_wrapper_dispose(): runs when the last reference is dropped,  *)
(* so no other method is executing.                                        *)
TellWorker_mutant == UNCHANGED to_worker
TellWorker == to_worker' = Append(to_worker, DESTROY)

DisposePush ==
    /\ dispose = "no"
    /\ \A t \in Threads : call[t] = Idle
    /\ TellWorker
    /\ dispose' = "pushed"
    /\ UNCHANGED <<next_job_id, job, td, from_worker, pipe, unread, call, wpc, cur, hist>>

\* thread_data_remove_jobs_func() and thread_data_free() for every ThreadData,
\* under the queue's lock: jobs the worker has not taken are cancelled and
\* their argument destroyed, results are freed.
DisposeClean ==
    LET stopped == {i \in UNION {td[t].jobs : t \in Threads} : ~job[i].processed}
        results == UNION {td[t].results : t \in Threads} IN
    /\ dispose = "pushed"
    /\ job' = [i \in JobIds |-> IF i \in stopped
                                THEN Stopped(job[i])
                                ELSE job[i]]
    /\ hist' = [i \in JobIds |->
                  IF i \in stopped \cup results
                  THEN [hist[i] EXCEPT !.destroyed = @ + Times(job[i].arg),
                                       !.freed = @ + Times(i \in results)]
                  ELSE hist[i]]
    /\ td' = [t \in Threads |-> NoData]
    /\ dispose' = "done"
    /\ UNCHANGED <<next_job_id, to_worker, from_worker, pipe, unread, call, wpc, cur>>

-----------------------------------------------------------------------------
ClientCall(t) ==
    \/ \E void, arg \in BOOLEAN : ExecuteBegin(t, void, arg)
    \/ \E id \in JobIds : Cancel(t, id)
    \/ \E block \in BOOLEAN : IterateBegin(t, block)
    \/ \E id \in JobIds, block \in BOOLEAN : FetchBegin(t, id, block)
    \/ GetIoChannel(t)
    \/ UnsetIoChannel(t)

\* The steps that bring a call to its end.
ClientStep(t) ==
    \/ ExecutePush(t)
    \/ PopNothing(t)
    \/ PopVoid(t)
    \/ PopResult(t)
    \/ PopNotificationError(t)
    \/ FetchFound(t)
    \/ FetchNotFound(t)

WorkerStep ==
    \/ WorkerPop
    \/ WorkerExit
    \/ WorkerNotify
    \/ WorkerNotifyFails
    \/ WorkerReport

Next ==
    \/ \E t \in Threads : ClientCall(t) \/ ClientStep(t) \/ ReadNotification(t)
    \/ \E void, arg \in BOOLEAN : ExecuteInline(void, arg)
    \/ WorkerStep
    \/ WorkerFinish
    \/ DisposePush
    \/ DisposeClean

Spec == Init /\ [][Next]_vars

\* A thread inside a method goes on executing it; the worker's loop goes on;
\* functions given to the wrapper return, whatever calls they make first.
Fairness ==
    /\ \A t \in Threads : WF_vars(ClientStep(t))
    /\ WF_vars(WorkerStep)
    /\ SF_vars(WorkerFinish)

FairSpec == Spec /\ Fairness

-----------------------------------------------------------------------------
(* Properties                                                              *)

Created == 1 .. (next_job_id - 1)

TypeOK ==
    /\ next_job_id \in 1 .. (MaxJobs + 1)
    /\ job \in [JobIds -> Job]
    /\ td \in [Threads -> ThreadData]
    /\ to_worker \in Seq(JobIds \cup {DESTROY})
    /\ from_worker \in [Threads -> Seq(JobIds \cup {NOTIFICATION_ERROR})]
    /\ pipe \in [Threads -> [known : BOOLEAN, fd : {"none", "open", "closed"}]]
    /\ unread \in [Threads -> 0 .. PipeCapacity]
    /\ call \in [Threads -> Call]
    /\ wpc \in {"pop", "run", "notify", "report", "exited", "crashed"}
    /\ cur \in JobIds \cup {0}
    /\ dispose \in {"no", "pushed", "done"}
    /\ hist \in [JobIds -> Fate]

\* A job that was cancelled (cancel() returned TRUE, or dispose stopped it) is
\* not being executed and never was: the test of `processed' in cancel() and
\* the worker's pop are atomic with respect to each other.
CancelExcludesExecution ==
    \A i \in JobIds :
       job[i].cancelled => hist[i].ran = 0 /\ ~(wpc = "run" /\ cur = i)

\* The argument of a job is destroyed at most once, and never while the
\* function that was given it runs: cancel(), dispose and job_free() destroy it.
ArgumentDestroyedOnce ==
    /\ \A i \in JobIds : hist[i].destroyed <= 1
    /\ wpc = "run" => hist[cur].destroyed = 0

\* The jobs some thread can still reach through a queue, a list or a local
\* variable it goes on using.
Reachable ==
    {i \in JobIds :
        \/ \E k \in DOMAIN to_worker : to_worker[k] = i
        \/ \E t \in Threads :
              \/ \E k \in DOMAIN from_worker[t] : from_worker[t][k] = i
              \/ i \in td[t].jobs \cup td[t].results
              \/ call[t].at = "push" /\ call[t].id = i
        \/ wpc = "run" /\ cur = i}

\* A job is freed at most once and nothing still leads to it then: it is freed
\* by three different functions, in client threads and in the worker.
NoDanglingJob ==
    /\ \A i \in JobIds : hist[i].freed <= 1
    /\ \A i \in Reachable : hist[i].freed = 0

\* A job on its way is where its submitter will look for it: the ThreadData of
\* the owner exists as long as a reply is due (fetch_result removes it), and
\* the job is in exactly one place.
OnTheWay(i) ==
    LET o == job[i].owner IN
    Cardinality({k \in DOMAIN to_worker : to_worker[k] = i})
      + Cardinality({k \in DOMAIN from_worker[o] : from_worker[o][k] = i})
      + (IF call[o].at = "push" /\ call[o].id = i THEN 1 ELSE 0)
      + (IF wpc = "run" /\ cur = i THEN 1 ELSE 0)

NoLostReply ==
    dispose # "done" =>
      \A i \in Created :
        hist[i].freed = 0 /\ ~job[i].cancelled =>
          LET d == td[job[i].owner] IN
          /\ d.present
          /\ OnTheWay(i) = IF i \in d.jobs THEN 1 ELSE 0
          /\ (i \in d.results) = (i \notin d.jobs)

\* The functions of one thread are executed in the order it submitted them,
\* however its submissions interleave with those of other threads.
ExecutedInOrder ==
    \A i, k \in Created :
       /\ job[i].owner = job[k].owner
       /\ i < k
       /\ hist[k].ran > 0
       => hist[i].ran > 0 \/ job[i].cancelled

\* What stops the worker's loop: a write on a pipe nobody reads, and the undefined
\* read after a failed write.
Held == (\E u \in Threads : unread[u] = PipeCapacity) \/ wpc = "crashed"

\* Every queued job is executed or cancelled, whatever its submitter does, unless
\* some client (possibly another one) leaves its pipe full.
JobsSettle ==
    \A i \in JobIds :
       (\E k \in DOMAIN to_worker : to_worker[k] = i)
         ~> (hist[i].ran > 0 \/ job[i].cancelled \/ Held)

\* "may_lock: TRUE if this funct must lock the caller untill a result is
\* available": fetch_result() returns, the result does become available, unless
\* a pipe stays full.
FetchReturns ==
    \A t \in Threads :
       (call[t].at \in {"look", "fetch"}) ~> (call[t] = Idle \/ Held)

\* After dispose the worker finishes what it was doing and exits.
WorkerTerminates == (dispose = "done") ~> (wpc = "exited" \/ Held)

-----------------------------------------------------------------------------
(* ThreadWrapper implements JobService                                     *)

StatusOf(i) ==
    IF wpc = "run" /\ cur = i THEN "running"
    ELSE IF hist[i].ran > 0 THEN IF hist[i].freed = 0 THEN "done" ELSE "collected"
    ELSE IF job[i].cancelled THEN "cancelled"
    ELSE IF \E k \in DOMAIN to_worker : to_worker[k] = i THEN "waiting"
    ELSE "none"

JobStatus == [i \in JobIds |-> StatusOf(i)]

\* The places of to_worker where a job waits.
WaitingAt == {a \in DOMAIN to_worker : to_worker[a] # DESTROY /\ ~job[to_worker[a]].cancelled}

PairsAt(s, W) == {<<s[q[1]], s[q[2]]>> : q \in {q \in W \X W : q[1] < q[2]}}

QueuedBefore == PairsAt(to_worker, WaitingAt)

Service == INSTANCE JobService WITH
    Jobs   <- JobIds,
    status <- JobStatus,
    before <- QueuedBefore,
    closed <- dispose = "done"

\* Every behaviour of the wrapper is one of the job service: the visible fate
\* of a job changes in one step of the code each time.
ImplementsJobService == Service!SSpec
=============================================================================
