------------------------------ MODULE AsyncExec ------------------------------
(***************************************************************************)
(* Asynchronous execution of statements by a GdaConnection opened in a     *)
(* separate thread (libgda/gda-connection.c: waiting_tasks,                *)
(* completed_tasks; libgda/thread-wrapper/gda-thread-provider.c:           *)
(* async_tasks).  The connection launches one task at a time; the others   *)
(* are launched by the callback that completes the previous one, which     *)
(* runs when some thread calls gda_connection_async_fetch_result().        *)
(*                                                                         *)
(* The jobs are those of ThreadWrapper: executed in order by the worker,   *)
(* their result visible to the submitting thread only.                     *)
(*                                                                         *)
(* A name that ends in _mutant is a wrong version of the definition after  *)
(* it, used to confirm that the properties notice such a mistake.          *)
(***************************************************************************)
EXTENDS Naturals, Sequences, SequencesExt

CONSTANTS
    Users,       \* threads that share the connection
    Opener,      \* the one that opened it: it receives the wrapper's signals
    NoUser,
    MaxTasks,    \* bound: statements submitted
    Polling,     \* threads that fetch their tasks regularly, in FairSpec
    Usage        \* what happens besides submissions and fetches

Usages == {"cancel waiting",   \* cancel of a task that was not launched
           "cancel running",   \* cancel of any task
           "reset",            \* a statement is modified after its submission
           "close",            \* gda_connection_close() and _open()
           "drop"}             \* the server ends the sub-connection

ASSUME AsyncAssumption == /\ Opener \in Users /\ NoUser \notin Users /\ Polling \subseteq Users
                          /\ MaxTasks \in Nat \ {0} /\ Usage \subseteq Usages

Tasks == 1 .. MaxTasks      \* a task is launched at most once: it names its job too
NoTask == 0

VARIABLES
    submitted,     \* next_task_id - 1
    waiting,       \* priv->waiting_tasks
    completed,     \* priv->completed_tasks
    task,          \* the CncTask structures
    async_tasks,   \* cdata->async_tasks: jobs whose callback is due
    job,           \* the wrapper's job of each launched task
    jobs,          \* jobs the worker has not started
    running,       \* the job the worker executes
    open,          \* priv->provider_data # NULL
    sub,           \* the sub-connection is open
    closed_signal, \* its "conn-closed" waits in the queue of Opener
    has_closed,    \* cdata->sub_connection_has_closed
    lock,          \* the connection's lock and what its holder is doing
    started        \* history: tasks in the order the worker executed them

vars == <<submitted, waiting, completed, task, async_tasks, job, jobs, running,
          open, sub, closed_signal, has_closed, lock, started>>

cnc  == <<submitted, waiting, completed, task>>
prov == <<async_tasks, job, jobs>>
link == <<open, sub, closed_signal, has_closed>>

Unlocked == [by |-> NoUser, at |-> "none", id |-> NoTask]
NewTask  == [by |-> NoUser, being_processed |-> FALSE, stmt |-> TRUE,
             state |-> "live", outcome |-> "none",
             refused |-> FALSE]      \* history: a cancellation was refused

IdsIn(seq) == {seq[k] : k \in DOMAIN seq}

\* g_array_remove_index() of the place where i was found
Without(seq, i) == RemoveAt(seq, CHOOSE k \in DOMAIN seq : seq[k] = i)

Init ==
    /\ submitted = 0 /\ waiting = << >> /\ completed = << >>
    /\ task = [i \in Tasks |-> NewTask]
    /\ async_tasks = << >>
    /\ job = [i \in Tasks |-> [by |-> NoUser, state |-> "none", outcome |-> "none"]]
    /\ jobs = << >> /\ running = NoTask
    /\ open = TRUE /\ sub = TRUE /\ closed_signal = FALSE /\ has_closed = FALSE
    /\ lock = Unlocked
    /\ started = << >>

-----------------------------------------------------------------------------
(* gda_thread_provider_statement_execute() on task i for thread t, as the  *)
(* three kinds of outcome its callers tell apart.                          *)

\* gda_connection_close_no_warning(), up to the call of the thread provider's
\* close_connection(), which waits for the worker to have nothing else to do.
CloseNow(t) ==
    /\ jobs = << >> /\ running = NoTask
    /\ open' = FALSE /\ sub' = FALSE
    /\ closed_signal' = (closed_signal /\ t # Opener)
    /\ has_closed' = (has_closed \/ (closed_signal /\ t = Opener))

\* The connection is closed, or check_cnc_closed() closes it.
LaunchFails(t, i) ==
    /\ task[i].stmt
    /\ \/ ~open /\ UNCHANGED link
       \/ open /\ has_closed /\ CloseNow(t)

\* The statement was modified: task->stmt is NULL, g_return_val_if_fail() returns
\* without an error and without a job.
LaunchIgnored(i) == ~task[i].stmt /\ UNCHANGED <<prov, link>>

LaunchAccepted(t, i) ==
    /\ open /\ ~has_closed /\ task[i].stmt
    /\ job' = [job EXCEPT ![i].by = t, ![i].state = "queued"]
    /\ jobs' = Append(jobs, i)
    /\ async_tasks' = Append(async_tasks, i)
    /\ UNCHANGED link

-----------------------------------------------------------------------------
(* gda_connection_async_statement_execute(): trylock fails for the other   *)
(* threads while one is inside.                                            *)
Enter(t) == lock = Unlocked

NextId == submitted + 1

Processed_mutant(r) == r
Processed(r) == [r EXCEPT !.being_processed = TRUE]

Submit(t) ==
    LET i == NextId IN
    /\ Enter(t) /\ open /\ submitted < MaxTasks
    /\ submitted' = i
    /\ \/ /\ waiting # << >>
          /\ waiting' = Append(waiting, i)
          /\ task' = [task EXCEPT ![i].by = t]
          /\ UNCHANGED <<completed, prov, link>>
       \/ /\ waiting = << >>
          /\ LaunchAccepted(t, i)
          /\ waiting' = <<i>>
          /\ task' = [task EXCEPT ![i] = Processed([@ EXCEPT !.by = t])]
          /\ UNCHANGED completed
       \/ /\ waiting = << >>
          /\ LaunchFails(t, i)
          /\ completed' = Append(completed, i)
          /\ task' = [task EXCEPT ![i].by = t, ![i].outcome = "error"]
          /\ UNCHANGED <<waiting, prov>>
    /\ UNCHANGED <<running, lock, started>>

-----------------------------------------------------------------------------
(* gda_connection_async_fetch_result(): handle_async(), the callback it    *)
(* may call, and the search of the task, under the connection's lock.      *)
FetchBegin(t, i) ==
    /\ Enter(t) /\ open /\ i <= submitted
    /\ lock' = [by |-> t, at |-> "handle", id |-> i]
    /\ UNCHANGED <<cnc, prov, link, running, started>>

At(where) == lock.at = where
Then(where) == lock' = [lock EXCEPT !.at = where]

\* gda_thread_provider_handle_async() when there is nothing to wait for.
HandleClosed ==
    /\ At("handle") /\ has_closed
    /\ CloseNow(lock.by)
    /\ Then("lookup")
    /\ UNCHANGED <<cnc, prov, running, started>>

HandleNothing ==
    /\ At("handle") /\ ~has_closed
    /\ async_tasks = << >>
    /\ Then("lookup")
    /\ UNCHANGED <<cnc, prov, link, running, started>>

\* gda_thread_wrapper_fetch_result(): signals of this thread are handled first
\* (sub_cnc_closed_cb), then the result is there if this thread submitted the job.
Notice == /\ has_closed' = (has_closed \/ (closed_signal /\ lock.by = Opener))
          /\ closed_signal' = (closed_signal /\ lock.by # Opener)
          /\ UNCHANGED <<open, sub>>

\* A thread without a job of its own and without a handler has no ThreadData.
Ready(i) == job[i].by = lock.by /\ job[i].state = "done"

HandleNotReady ==
    /\ At("handle") /\ ~has_closed
    /\ async_tasks # << >> /\ ~Ready(Head(async_tasks))
    /\ Notice
    /\ Then("lookup")
    /\ UNCHANGED <<cnc, prov, running, started>>

\* async_stmt_exec_cb(): the task, if it still exists, is completed.
Outcome_mutant(i) == "result"
Outcome(i) == job[i].outcome

AfterCompletion_mutant == Then("lookup")
AfterCompletion == Then("launch")

HandleReady ==
    LET i == Head(async_tasks) IN
    /\ At("handle") /\ ~has_closed
    /\ async_tasks # << >> /\ Ready(i)
    /\ Notice
    /\ job' = [job EXCEPT ![i].state = "taken"]
    /\ async_tasks' = Tail(async_tasks)
    /\ IF i \in IdsIn(waiting)
       THEN /\ waiting' = Without(waiting, i)
            /\ completed' = Append(completed, i)
            /\ task' = [task EXCEPT ![i].being_processed = FALSE, ![i].stmt = FALSE,
                                    ![i].outcome = Outcome(i)]
            /\ AfterCompletion
       ELSE UNCHANGED <<waiting, completed, task>> /\ Then("lookup")
    /\ UNCHANGED <<submitted, jobs, running, started>>

\* Its loop: the next waiting task is launched; one that fails at once is
\* completed and the following one tried.
NextWaiting_mutant == waiting[Len(waiting)]
NextWaiting == Head(waiting)

AfterFailure_mutant == Then("lookup")
AfterFailure == UNCHANGED lock

LaunchNext ==
    LET i == NextWaiting IN
    /\ At("launch")
    /\ \/ /\ waiting = << >>
          /\ Then("lookup")
          /\ UNCHANGED <<waiting, completed, task, prov, link>>
       \/ /\ waiting # << >>
          /\ (LaunchAccepted(lock.by, i) \/ LaunchIgnored(i))
          /\ task' = [task EXCEPT ![i] = Processed(@)]
          /\ Then("lookup")
          /\ UNCHANGED <<waiting, completed>>
       \/ /\ waiting # << >>
          /\ LaunchFails(lock.by, i)
          /\ waiting' = Without(waiting, i)
          /\ completed' = Append(completed, i)
          /\ task' = [task EXCEPT ![i].outcome = "error"]
          /\ AfterFailure /\ UNCHANGED prov
    /\ UNCHANGED <<submitted, running, started>>

\* A completed task is delivered and freed, any other left.
FetchEnd ==
    /\ At("lookup")
    /\ IF lock.id \in IdsIn(completed)
       THEN /\ completed' = Without(completed, lock.id)
            /\ task' = [task EXCEPT ![lock.id].state = "delivered"]
       ELSE UNCHANGED <<completed, task>>
    /\ lock' = Unlocked
    /\ UNCHANGED <<submitted, waiting, prov, link, running, started>>

-----------------------------------------------------------------------------
(* gda_connection_async_cancel(): the thread provider has no cancel()      *)
(* method, so a task being processed is refused, and marked as not being   *)
(* processed all the same.                                                 *)
Cancel(t, i) ==
    /\ Enter(t) /\ i \in IdsIn(waiting)
    /\ \/ "cancel running" \in Usage
       \/ "cancel waiting" \in Usage /\ ~task[i].being_processed
    /\ IF task[i].being_processed
       THEN /\ task' = [task EXCEPT ![i].being_processed = FALSE, ![i].refused = TRUE]
            /\ UNCHANGED waiting
       ELSE /\ waiting' = Without(waiting, i)
            /\ task' = [task EXCEPT ![i].state = "cancelled"]
    /\ UNCHANGED <<submitted, completed, prov, link, running, lock, started>>

-----------------------------------------------------------------------------
\* task_stmt_reset_cb(): the user modified the statement of a task.
StatementReset(i) ==
    /\ "reset" \in Usage
    /\ i \in IdsIn(waiting) /\ task[i].stmt
    /\ task' = [task EXCEPT ![i].stmt = FALSE]
    /\ UNCHANGED <<submitted, waiting, completed, prov, link, running, lock, started>>

\* gda_connection_close(), gda_connection_open(): tasks and jobs stay.
Close(t) ==
    /\ "close" \in Usage
    /\ Enter(t) /\ open
    /\ CloseNow(t)
    /\ UNCHANGED <<cnc, prov, running, lock, started>>

Open(t) ==
    /\ "close" \in Usage
    /\ Enter(t) /\ ~open
    /\ open' = TRUE /\ sub' = TRUE
    /\ closed_signal' = (closed_signal /\ t # Opener)
    /\ has_closed' = (has_closed \/ (closed_signal /\ t = Opener))
    /\ UNCHANGED <<cnc, prov, running, lock, started>>

-----------------------------------------------------------------------------
(* The worker: sub_thread_execute_statement().                             *)
JobStart ==
    /\ running = NoTask /\ jobs # << >>
    /\ running' = Head(jobs)
    /\ jobs' = Tail(jobs)
    /\ job' = [job EXCEPT ![Head(jobs)].state = "running"]
    /\ started' = Append(started, Head(jobs))
    /\ UNCHANGED <<cnc, async_tasks, link, lock>>

\* The statement fails when the sub-connection is not open; the server may end
\* it during the execution, which emits "conn-closed" in the worker.
JobEnd ==
    /\ running # NoTask
    /\ \E result \in {"result", "error"} :
         /\ ~sub => result = "error"
         /\ job' = [job EXCEPT ![running].state = "done", ![running].outcome = result]
         /\ \/ UNCHANGED link
            \/ /\ "drop" \in Usage /\ sub /\ result = "error"
               /\ sub' = FALSE /\ closed_signal' = TRUE
               /\ UNCHANGED <<open, has_closed>>
    /\ running' = NoTask
    /\ UNCHANGED <<cnc, async_tasks, jobs, lock, started>>

-----------------------------------------------------------------------------
FetchStep == HandleClosed \/ HandleNothing \/ HandleNotReady \/ HandleReady
                \/ LaunchNext \/ FetchEnd
WorkerStep == JobStart \/ JobEnd

Next == \/ \E t \in Users : \/ Submit(t) \/ Close(t) \/ Open(t)
                            \/ \E i \in Tasks : FetchBegin(t, i) \/ Cancel(t, i)
        \/ \E i \in Tasks : StatementReset(i)
        \/ FetchStep
        \/ WorkerStep

Spec == Init /\ [][Next]_vars

\* Calls come to their end, the server answers; and each thread in `Polling'
\* keeps fetching each task of its own that it has not obtained ("It's up to the
\* caller to use gda_connection_async_fetch_result() regularly").
FairSpec ==
    /\ Spec
    /\ WF_vars(FetchStep)
    /\ WF_vars(WorkerStep)
    /\ \A t \in Polling, i \in Tasks :
          SF_vars(task[i].by = t /\ task[i].state = "live" /\ FetchBegin(t, i))

-----------------------------------------------------------------------------
(* Properties                                                              *)

TypeOK ==
    /\ submitted \in 0 .. MaxTasks
    /\ waiting \in Seq(Tasks) /\ completed \in Seq(Tasks)
    /\ async_tasks \in Seq(Tasks) /\ jobs \in Seq(Tasks) /\ started \in Seq(Tasks)
    /\ task \in [Tasks -> [by : Users \cup {NoUser}, being_processed : BOOLEAN, stmt : BOOLEAN,
                           state : {"live", "delivered", "cancelled"},
                           outcome : {"none", "result", "error"}, refused : BOOLEAN]]
    /\ job \in [Tasks -> [by : Users \cup {NoUser},
                          state : {"none", "queued", "running", "done", "taken"},
                          outcome : {"none", "result", "error"}]]
    /\ running \in Tasks \cup {NoTask}
    /\ {open, sub, closed_signal, has_closed} \subseteq BOOLEAN
    /\ lock \in [by : Users \cup {NoUser}, at : {"none", "handle", "launch", "lookup"},
                 id : Tasks \cup {NoTask}]

\* "the statements will be executed in the order in which they were requested",
\* one at a time and once each, whichever threads submit, fetch and cancel, and
\* across a close and a reopening.
ExecutedInOrder ==
    \A k, l \in DOMAIN started : k < l => started[k] < started[l]

\* What is delivered for a task is the outcome of its own execution, or an error
\* reported without one: provider job numbers and task numbers are not mixed up.
OwnOutcome ==
    \A i \in Tasks :
       task[i].outcome # "none" =>
          IF job[i].state = "none" THEN task[i].outcome = "error"
          ELSE job[i].state = "taken" /\ task[i].outcome = job[i].outcome

\* A task whose cancellation was refused was cancelled again, which frees it, or the
\* statement of a task that was not launched was modified: the code does not
\* recover from either.
Disturbed == \E i \in Tasks : \/ task[i].state = "cancelled" /\ task[i].refused
                              \/ ~task[i].stmt /\ job[i].state = "none"

\* The worker uses the statement, the parameters and the place for the inserted
\* row of a task that still exists: it is not freed before its callback.
NoFreedTaskInUse ==
    running # NoTask /\ ~Disturbed => running \in IdsIn(waiting) /\ task[running].state = "live"

\* The queue does not stop: while tasks wait, the first one has been launched and
\* its callback, which launches the next one, is due.
NeverStalled ==
    (lock = Unlocked /\ waiting # << >> /\ ~Disturbed) => async_tasks = <<Head(waiting)>>

\* "even if it returns TRUE. If it returns FALSE, then the task has not been
\* cancelled": a cancelled task, and no other, is not executed afterwards.
CancelledNotExecuted ==
    [][\A i \in Tasks : JobStart /\ running' = i /\ ~Disturbed => task[i].state # "cancelled"]_vars

\* Every task that is not cancelled ends up delivered to the thread that asks
\* for it regularly.
EveryTaskDelivered ==
    \A i \in Tasks :
       (i <= submitted /\ task[i].by \in Polling)
         ~> (task[i].state # "live" \/ (~task[i].stmt /\ job[i].state = "none"))
=============================================================================
