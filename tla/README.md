# A TLA+ development for libgda

libgda (GNOME Data Access, version 5) gives C programs one interface to many database
engines. Much of it is sequential code over data structures; what is hard to get right and hard to
test is what keeps several parties in agreement: threads that share a connection or a *thread wrapper*,
a connection and what its server made of a transaction, several servers in a *distributed transaction*, and a
*data proxy* with the table it shows. This directory models that machinery, checks it with TLC and
proves theorems about it with TLAPS.

All paths below are relative to `src/`. Abbreviations: `w.c` is
`libgda/thread-wrapper/gda-thread-wrapper.c`, `p.c` `libgda/thread-wrapper/gda-thread-provider.c`,
`c.c` `libgda/gda-connection.c`, `xa.c` `libgda/gda-xa-transaction.c`,
`ts.c` `libgda/gda-transaction-status.c`, `dp.c` `libgda/gda-data-proxy.c`,
`sqlite.c` `libgda/sqlite/gda-sqlite-provider.c` and
`pg.c` `providers/postgres/gda-postgres-provider.c`.

## 1. Inventory

| component | state | operations | interacts with | what makes it correct |
|---|---|---|---|---|
| Thread wrapper, jobs (`w.c`) | the Jobs, a queue to the worker, one reply queue and lists of jobs and results per thread, pipes | execute, execute_void, cancel, iterate, fetch_result, waiting size, I/O channels, dispose; the worker's loop | called by the thread provider; worker and clients share queues | a job is executed once or cancelled, in order; arguments and jobs are released once; replies are not lost |
| Thread wrapper, signals (`w.c`) | SignalSpecs with a mutex and a reference count, the recursive mutex of the object, the reply queues | connect_raw, disconnect, steal_signal, the closure marshallers, iterate | GObject emits in any thread; callbacks run in iterate | no callback after disconnect; specs live as long as a queued signal; no stuck lock |
| Thread provider (`p.c`) | per connection data: wrapper, sub-connection, asynchronous tasks | every provider method as a job; handle_async; noticing a closed sub-connection | between the connection and the wrapper | a job's result reaches its task |
| Asynchronous execution (`c.c`) | waiting and completed tasks, next identifier | async_statement_execute, async_fetch_result, async_cancel, the completion callback | the thread provider; statements that may change | order, one outcome per task, no stall |
| Connection life cycle and lock (`c.c`) | provider data, a recursive mutex, a second mutex with a condition, the owner thread | open, close, lock, trylock, unlock, the property thread-owner | every other component | the owner alone is in the connection; a lock is obtained and released; one session |
| Connection events (`c.c`) | a ring of event objects, the list made of it | add_event, get_events, clear, resize, batch_execute | providers, statements of the status | the last events, oldest first, none freed in use |
| Transaction status (`ts.c`, `c.c`) | a tree of transactions, savepoints and statements | the `internal_*` functions of the connection | providers | mirrors the server's nesting |
| Meta store | a dictionary in an SQL database; the contexts updated since BEGIN | update, automatic update after a statement | connections | agrees with the tables after commit and rollback |
| Distributed transactions (`xa.c`) | list of connections, the one without XA, identifiers | register, unregister, begin, commit, rollback, commit_recovered | XA methods of the providers, servers | all or nothing, whatever fails in between |
| Data model proxy (`dp.c`) | RowModifs in a list and two indexes, two chunks of displayed rows, the state of a synchronisation, a cache | edits, apply, cancel, sample, null entry, deferred synchronisation, callbacks of the proxied model | the proxied model, the main loop, who follows its signals | a change stays with its row; rows shown exist; signals tell the truth |
| Data selects, other models, iterators | cached, modified and deleted rows; positions | access, modifications, notifications | connections, the proxy, widgets | row mapping stays consistent |
| Holders and sets | values, validity, bindings | set, bind, validate | statements, iterators | bound holders agree; an invalid set is refused |
| Config, quark lists, attributes, trees | named sources, shared attributes, nodes | define, remove, update | the rest | sequential |
| SQL parser, statements, builder, operations, values, handlers | data | parse, render, convert | the rest | sequential |
| SQLite provider, virtual connections, other providers | sub-connections, virtual tables | provider methods | engines | mostly a binding |
| libgda-ui, report, xslt, tools, control centre, samples | widgets, programs | - | library users | out of scope |

Hard behaviours: threads that share the wrapper, an emission that overtakes a disconnection, a pipe
that is full or fails, dispose while the worker is busy, a callback chain that must not break, a
cancellation that comes too late, the end of a sub-connection seen late, two mutexes taken in two orders, a broadcast
nobody waits for, a status kept from what a provider says rather than from what the server did, failures between two
exchanges of a commit, rows that come and go below pending changes and in the middle of a
synchronisation. `PROJECT.json` ("hazards") lists them at their line.

Met while modelling, without a property of their own: an emission that locks a SignalSpec another thread is freeing (`w.c:1313`);
the reference of a task to a statement that is modified meanwhile (`c.c:1038`); a provider that returns neither a job nor an error
(`c.c:3178`); identifiers compared over a length that is never set (`xa.c:679`). The models have these steps, with the outcomes
of section 3, but what could be said of each is a fact about one line.

## 2. Modules

| module | models | state and actions |
|---|---|---|
| `JobService` | what the wrapper promises | status of each job and which waiting job was queued before which (`before`): queued, cancelled, started one at a time in order, finished, collected |
| `ThreadWrapper` | jobs, pipes, worker, dispose of `w.c` | a step is one critical section; calls that have several (execute, iterate, fetch_result) keep their position in `call`, the worker in `wpc`; `hist` counts executions, destructions and frees |
| `ThreadWrapper_proofs` | theorems about it, in four parts, each on top of the one before | types and cancellation; where a job can be; order and replies; the steps of `JobService` |
| `ThreadSignals` | signals of `w.c` | explicit locks (`rmutex`, `slock`), reference counts; jobs are reduced to who the worker works for; `Usage` says which legal but unusual things clients do; theorems in `ThreadSignals_proofs` |
| `AsyncExec` | tasks of `c.c` over `async_tasks` of `p.c` | one client call per step except fetch, split at the calls it makes (handle, launch next, look up); the wrapper is reduced to what `ThreadWrapper` establishes: jobs run in order, results are seen by their submitter; theorems in `AsyncExec_proofs` |
| `ConnectionLife` | open, close, lock, trylock, unlock, thread-owner, the two mutexes of `c.c` | a call is a sequence of operations on mutexes and provider data (`todo`), the position inside gda_connection_lock() is in `at`; one action per operation; theorems in `ConnectionLife_proofs` |
| `ConnectionEvents` | ring of events of `c.c` | operators from a record to a record: add, clear, list, resize; objects with reference counts |
| `TransactionStatus` | `ts.c`, and the `internal_*` functions of `c.c` | operators on a tree: started, ended, savepoints, statements, the two searches |
| `StatementExecution` | composes the two with the server and the automatic update of the meta store | one action per method (begin, commit, rollback, savepoints, DDL, select, batch, list of events, close and open); a statement is one step because the connection is locked, and does all that follows it |
| `StatementParts_proofs`, `StatementExecution_proofs` | lemmas about the two parts, theorems about their composition | the ring and the references to its objects; the path of transactions and what each `internal_*` function does to it; types, events, status, meta store, pending statements |
| `XaTransaction` | `xa.c` with the PostgreSQL methods | a step is one exchange with a server; `faults` bounds the failures; servers keep `prepared` transactions by identifier; theorems in `XaTransaction_proofs` |
| `EditedTable` | what a proxy promises | rows known by an identity, a pending change for some of them |
| `DataProxy` | `dp.c` | one record `proxy` with the fields of the private data; a method maps it to another; the proxied model is part of it, and gives the callbacks; theorems in `DataProxy_proofs` |
| `MC...` | instances for TLC | symmetry, server layouts |

Composition. `StatementExecution` EXTENDS `ConnectionEvents` and `TransactionStatus`; their operators work on records so that one
statement can post two events, begin a transaction and record itself in one step, in the order of the code. `ThreadSignals` and
`AsyncExec` use what `ThreadWrapper` shows about jobs instead of its steps.

Refinement. `ThreadWrapper` implements `JobService` (`StatusOf`: the status of a job from its flags, its place and its history).
`DataProxy` implements `EditedTable`: the mapping (`Table`) gives each RowModif to the row it was made for, known by an identity that
the model has and the program does not; `KeepsEdits` says that every step is one of the table's, or replaces the model.

The server in `StatementExecution` is external. It answers for three engines: SQLite and PostgreSQL as their providers
use them, and one with nested transactions, as some servers behind JDBC have. Two history variables mark what the code cannot be expected to follow:
`regular` is false once the application or the server did what the status functions do not handle (a transaction begun twice, a
name out of order), `exact` once a change came about that the meta store cannot notice (a rollback to a savepoint).

A `DataProxy` that went wrong stops: `proxy.faults` names what happened ("lost entry", "no row", "moved while syncing", "new rows not
announced", "crash"), section 3 explains each, and no call is made afterwards.

An operator `X_mutant` is a wrong version of the definition `X` that follows it, used to confirm that
the properties would notice such a mistake.

Correspondence of names: variables and fields keep the names of the code (`next_job_id`, `to_worker`,
`waiting`, `completed`, `async_tasks`, `cnc_list`, `non_xa_cnc`, `trans_meta_context`, `all_modifs`, `modify_rows`, `chunk_sep`, ...);
actions are named after the function and the part of it they stand for (`ExecuteBegin`/`ExecutePush`,
`DisconnectBegin`/`DisconnectEnd`, `CommitPrepare`/`CommitUndoPrepare`, `LockTest`/`LockRetest`, ...). `PROJECT.json` ("map") gives
the lines of each.

## 3. Runs

| run | question | bounds | distinct states |
|---|---|---|---|
| `ThreadWrapper_safety` | safety of jobs and refinement of `JobService` | 2 clients (symmetric) and the worker itself submit 3 jobs, no pipe | 1.5 million |
| `ThreadWrapper_live` | types, no dangling job, no lost reply, liveness, with pipes | 2 clients, 2 jobs, a pipe that holds 1 notification and may fail | 280 thousand |
| `ThreadSignals_plain` | handlers used by their own thread, connections that are refused | 2 clients, 2 handlers, 2 signals under way | 810 thousand |
| `ThreadSignals_steal` | stealing, foreign and nested disconnection, liveness | 2 clients, 1 handler, 2 signals under way, a pipe | 146 thousand |
| `AsyncExec_order` | order, outcome and the callback chain under any usage | 2 threads, 3 statements, close, dropped sub-connection, cancellations, modified statements | 4.4 million |
| `AsyncExec_live` | every task is delivered | 1 thread that polls, 3 statements | 2 thousand |
| `ConnectionLife_lock` | exclusion, what a return leaves locked, liveness of the lock | 2 threads, 2 sessions | 22 thousand |
| `StatementExecution_status` | status, events, meta store against three servers | 5 calls, 2 names, 2 tables, 3 transaction objects, a ring of 4 to 6 | 640 thousand |
| `XaTransaction_outcome` | atomicity under failures | 4 connections, 2 servers, 2 faults | 147 thousand |
| `XaTransaction_writes` | *violation*: a commit that commits nothing | no fault | - |
| `DataProxy_edits` | changes stay with their rows; refinement of `EditedTable` | 2 columns, 2 rows at start of 3 ever, 2 RowModifs, cache on and off (identities and columns symmetric) | 78 thousand |
| `DataProxy_sample` | rows shown, signals, synchronisation and its liveness | 1 column, samples of 0 (all rows) and 2 rows, null entry, deferred or not, 1 RowModif | 130 thousand |

Why the bounds are enough. Two clients and the worker are the three kinds of thread the code
distinguishes; three jobs let one be a result, one a reply and one still queued for the same thread
while another thread cancels. A pipe of capacity one is full after one write. Two signals under way let
one be queued while the next is marshalled. Three statements are one executed, one next, one behind it.
Two faults let a failure hit during the handling of another. Two threads make an inversion and a missed wake-up, and two sessions a
connection opened twice. Five calls are a transaction in a transaction, a statement, a savepoint and the end of one of them, and
post enough events to fill a ring of four, which loses its oldest event after three; resizing goes both ways. Two rows and a
third that comes are what it takes for two modified rows next to each other to be renumbered; a value and NULL differ; two columns
let one of them be cancelled. A sample of two rows is smaller than, as large as and larger than the rows left when one to three of them exist (the fault
"no row" below takes a sample of one row, which these runs do not have), and with
one row synchronised per turn (`IDLE_STEP`) a synchronisation takes several turns.
The models stop when their bounds are used up, so TLC's deadlock check is off everywhere; that a *call* never hangs is what the
liveness properties say.

Type invariants. Each module states the types of its variables in `TypeOK`. That of `ThreadWrapper` is a property of a run and a
theorem, those of `StatementExecution` and `DataProxy` are theorems; those of `ConnectionLife`, `XaTransaction`, `AsyncExec` and `ThreadSignals` are proved as
parts of the inductive invariants of section 4.

Fairness. A thread that entered a method goes on executing it (weak fairness of its steps; strong where a
mutex is contended, as in `ConnectionLife`: mutexes are not first come first served, but one that is free again and again is not
refused to the same thread for ever); the worker's loop
goes on, and functions given to it return. In `AsyncExec` a thread of `Polling` fetches regularly, as the
documentation of `gda_connection_async_statement_execute()` requires. In `DataProxy` the main loop runs the idle callback that is
installed. No client is supposed to start anything, nor
to read its pipe: hence the disjuncts `Held` and `PipeFull`, which say that one client that leaves its
pipe full stops the worker for all of them.

Conditions in the properties. Where the code has a flaw that a property would run into, the property says what is left: `NeverStalled`,
`NoFreedTaskInUse` and `CancelledNotExecuted` hold as long as no refused cancellation was repeated and no waiting statement modified
(`Disturbed`), `LockIsObtained` but for the inversion and the missed broadcast (`Inverted`, `missed`), `OpennessAgrees` counts
sessions but after a double opening (`raced`), the data proxy until it stops. TLC shows that each of them is needed.

### Disagreement shown by a run

* `CommitWritesData`: `commit()` compares `cnc`, still NULL, with `non_xa_cnc`; without a non-XA connection every
  iteration is skipped (`xa.c:475`, 510, 540, 564).

### Other disagreements the models contain

They are in the actions, so every run goes through them, but have no run of their own.

Thread wrapper (`ThreadWrapper`, `ThreadSignals`):

* `get_waiting_size()` counts jobs that were executed (`w.c:1272`);
* `iterate()` tests and calls `spec->callback` without the lock `disconnect()` holds, so a callback may run after `disconnect()`
  returned to another thread (`w.c:1129`; usage "foreign");
* after a failed notification the worker reads `job->reply_queue` of a job that was handed back (`w.c:562`;
  `WorkerReport`, whose outcomes include a crash);
* the argument of a job the worker had taken when the wrapper is disposed is never destroyed (`w.c:609`), and
  the worker frees cancelled jobs, which the comment at `w.c:188` reserves to the clients;
* `connect_raw()` returns with `rmutex` locked when it refuses a signal (`w.c:1448`, 1458; `ConnectRefused`);
* an emission that started before `disconnect()` may lock a freed spec (`w.c:1313`; `MarshalRef`), or push on a NULL
  queue and lose its reference;
* a callback that disconnects its handler frees the ThreadData of the `iterate()` that called it (`w.c:1567`; `IteratePop`);
* signals queued before `steal_signal()` are handled by the first thread (`w.c:1617`).

Asynchronous execution (`AsyncExec`):

* a refused `async_cancel()` clears `being_processed`, a second one frees the task, and its callback returns before it
  launches the next (`c.c:3473`);
* a statement modified while its task waits stops the queue behind it (`c.c:3178`; `LaunchIgnored`);
* two polling threads: the result is visible to the one that launched the task only (`p.c:1798`; `Ready`);
* `sub_connection_has_closed` is not cleared by a new opening (`p.c:298`; `Open`).

Lock, opening and closing (`ConnectionLife`), against "any other thread blocked gets the opportunity to lock the connection" (`c.c:6694-6696`):

* the setter of thread-owner takes `object_mutex`, then `rmutex` (`c.c:714-715`), and `gda_connection_lock()` tries `rmutex`
  with `object_mutex` held (6652-6668), while `gda_connection_update_meta_store()` and the opening of an SQLite connection
  (`sqlite.c:1062`) take `object_mutex` with `rmutex` held: two threads may wait for each other;
* past its first deadline of five seconds the inner loop (6662) waits again without a look at the owner, and misses a broadcast that came
  in between;
* `open()` and `close()` test the provider data before they lock (1554-1556, 1708): two threads that open leave a session on the server,
  and `close_no_warning()` returns early for the second of two that close, dropping its reference before it unlocks (1762).

Connection events, transaction status, meta store (`ConnectionEvents`, `TransactionStatus`, `StatementExecution`):

* the name given to a transaction becomes a parameter of SQLite's BEGIN (`BEGIN TRANSACTION ##name`), which the grammar
  does not know: the statement's type is unknown and the status not kept (`sqlite.c:430-439`; `Typed`);
* PostgreSQL's provider passes no error to `gda_connection_internal_statement_executed()` although the statement failed (`pg.c:2445`; `Told`);
* a BEGIN inside a transaction is tracked as a sub-transaction where PostgreSQL ignores it, and fails the assertion of `c.c:6900`; a
  COMMIT or ROLLBACK outside of one is accepted there, and fails those of 6911 and 6931 (`MetaAsserts`);
* a rollback to a savepoint does not refresh the meta store, which `gda-connection.h:149-151` says follows;
* closing keeps the status, and reads the contexts again before the server undoes the transaction (`CloseAndOpen`);
* below the second level, `gda_transaction_status_find()` designates the event of the outer sub-transaction, which is freed with what it holds
  (`ts.c:286`); a savepoint of a sub-transaction is not found; a savepoint rolled back to is removed, though the server keeps it (`c.c:6180`);
* an event object that the application holds by `gda_connection_get_events()` may describe another event later (`c.c:2604`); the list survives
  `gda_connection_clear_events_list()`; a ring made smaller loses events;
* `gda_connection_internal_change_transaction_state()` returns with the lock held when the state is the same (`c.c:6349`); the providers test it
  before they call.

Distributed transactions (`XaTransaction`):

* `unregister_connection()` leaves `non_xa_cnc` (`xa.c:356`), and a registered connection without XA has its NULL
  `xa_funcs` dereferenced by `commit()` (`xa.c:482`; `Stop`);
* `rollback()` sends ROLLBACK PREPARED for transactions that were only started (`xa.c:606`);
* `commit_recovered()` recognises no identifier: the last `sprintf()` of `id_to_string()` writes over the rest (`xa.c:750`).

Because `commit()` skips every iteration or none (`Skipped`), prepared transactions appear in `XaTransaction` only after a
connection without XA was registered and unregistered again. `AtomicOutcome` and its companion speak of those
behaviours, of begin and rollback, and of the failures in them.

Data proxy (`DataProxy`), by the name of the fault after which it stops:

* "lost entry": when a row is inserted or removed, the RowModifs of the rows after it are renumbered in the order of the list,
  each possibly over the entry of its neighbour (`dp.c:1158-1176`, 1268-1285), against the comment on `modify_rows` (`dp.c:222`);
* "no row": a sample of one row of an empty model shows row -1;
* "moved while syncing": a row that comes or goes during a synchronisation leaves `chunk_sep` off by one; `inserted_cb` moves only rows after the
  new one, and decrements entries of `chunk_to` (1151-1154);
* "new rows not announced": switching from a sample to all rows announces new rows as removed although they are shown;
* "crash": NULL dereferences in the callbacks while `chunk` is NULL and `chunk_to` pending, or `chunk_to` has no mapping (1147, 1238,
  378-429), the assertions in `removed_cb` that a row is in a mapping once (1230, 1248), which is not so between two turns, and the assertion of
  `find_or_create_row_modif()` (about 1413) for a row number taken before `ensure_chunk_sync()` and used after it. `CrashNeedsPendingSync` says that only calls made during a synchronisation fail.

Without a fault: cancelling the only modified value of a row emits no row-updated; a reset ends the sample and
drops changes even with cache-changes; sample-size set as a property loses a chunk; applying returns before the sample is adjusted when a
validation fails; `gda_data_model_array_append_values()` returns 0 on error, which is taken for row 0; `get_n_rows()` returns with the mutex
locked when the number of rows is unknown (about 3433).

## 4. Proofs

The theorems hold for every value of the constants that satisfies the assumptions of the module: any number of threads, jobs,
statements, connections, handlers and faults, not only the small ones of the runs. The bounds of the models (`MaxJobs`, `MaxTasks`,
`MaxSessions`, `MaxCalls`, `MaxTrans`, `MaxFaults`, `SignalsBound`) are arbitrary naturals there. The assumptions say that the thread, connection
or name that stands for "none" is not a real one, that sets of pipe users and usages are among those that exist, that bounds are numbers, that the
names of transactions are not the numbers that stand for statements, where references are counted, that there is a finite number of threads, and
of a proxied model that it has a column and finitely many rows. (`Columns # {}`: with no column a new row has no
values, and `gda_data_proxy_undelete()` would free it while it is in `new_rows`; a model without columns has nothing to edit.)

Each proof has the same shape: an invariant that includes the property, the initial states satisfy it, each action preserves it (one
lemma or step per action), temporal logic gives `Spec => []Inv`. Every invariant was first checked with TLC on small
instances; the parts named below are what the properties lack to be inductive.

### Jobs of the thread wrapper

All of it is in `ThreadWrapper_proofs`. Types and cancellation:

* `TypeCorrect == Spec => []TypeOK`. `TypeOK` is not inductive: the reply queue the worker pushes on is that of
  `job[cur]`, so one has to know that the worker holds a job while it works (`WorkerHoldsJob`).
* `CancelledNeverExecuted == Spec => []CancelExcludesExecution`. The inductive invariant `CancelInv` adds to the types:
  identifiers not given out yet have neither run nor been cancelled (`NoneRanYet`); a job that ran is marked
  processed (`RanIsProcessed`); so is the one the worker holds, which is not cancelled (`RunningIsProcessed`); what is
  in `to_worker` or about to be pushed was created (`QueuedIsCreated`). The argument: `cancel()` and dispose only
  stop jobs that are not processed, the worker sets `processed` in the step that pops and executes only what is not
  cancelled, and a job does not become unprocessed.

Places: `JobsFreedOnce` (`NoDanglingJob`) and `ArgumentsDestroyedOnce` (`ArgumentDestroyedOnce`). That nothing leads to a
freed job is not inductive: a step that frees one must know that no other list or queue has it. `PlaceInv` says that a job is in one place at a
time and which marks it has there: in `to_worker` once and not processed (`InWorkerQueue`), in the hands of the thread that pushes it
(`BeingPushed`), with the worker (`BeingExecuted`), in one reply queue, that of its submitter, once and executed (`InReplyQueue`), among the
jobs or the results of its ThreadData, not both (`InThreadData`); and that an argument is destroyed by whoever cancels, with
`arg` cleared, or by whoever frees (`Accounts`).

Order: `RunInOrder` (`ExecutedInOrder`) and `RepliesNotLost` (`NoLostReply`). Between a submission and its execution the order is
only in the queue, so `OrderInv` says that the jobs of one thread are in `to_worker` in increasing order (`QueueInOrder`), the one being pushed is
younger than all of them (`PushIsLatest`), a job neither run nor cancelled is somewhere (`NoneForgotten`), and what is processed has all before
it settled (`TakenInOrder`). `ReplyInv` adds that the submitter's ThreadData, which `fetch_result()` removes when it looks unused, exists and
knows the job until its result is fetched (`KnownToOwner`).

Refinement: `Implements` is the property `ImplementsJobService`, that is `Spec => Service!SSpec`: the initial states map to the initial state, and each
action to a step of the service or to a stutter; which one is the statement of each lemma. The mapping takes the queue to the relation `before`
between waiting jobs, so that a cancelled job, which stays in `to_worker` until the worker drops it, has left the abstract queue. It needs
`MapInv`: `ReplyInv`, that nobody is in a call when the wrapper is disposed, and that a job is not cancelled before it is queued.

### Connection life cycle

`ConnectionLife_proofs`: `UserOwns` (`UserIsOwner`), `CallsUnlock` (`NothingLeftLocked`), `OpennessTold` (`OpennessAgrees`). What a call leaves
locked depends on all the operations it has still to execute. `LifeInv` relates them to the state: `Balanced(t, todo[t], d, u)` says that the rest of the
call, from depth `d` of the recursive mutex with the signal `u` due, locks and unlocks in pairs, ends with nothing locked, and sends the
signal that is due before its last unlock. With it come where a thread is inside `gda_connection_lock()` and what it then holds
(`InPlace`: a thread that has the connection locked is one that `thread-owner` admits), that a connection whose state was not told yet has somebody
on the way to tell it (`WillBeTold`), and the count of sessions (`SessionsCounted`, which stops to count after a race of two openings).

### Distributed transactions

`XaTransaction_proofs`: `XaInvariant`, and from it `AtomicCommitment` (`AtomicOutcome`) and `PreparedIsListed` (`NothingPreparedIsForgotten`). `XaInv` says for each loop
of begin, commit and rollback, and for the loops that undo them, what the connections behind the position of the loop are and what those ahead are:
active behind the one of begin; neither active nor committed, but possibly prepared, behind the one that prepares, and all active ahead of it; in the second phase
none aborted, and what is prepared is ahead or listed for recovery (`InBegin`, `InPrepare`, `InCommit`). A connection is in the list once (`ListedOnce`) and the
members are those of the list (`MembersListed`), without which a loop would not reach all of them.

### Asynchronous execution

`AsyncExec_proofs`: `SubmissionOrder` (`ExecutedInOrder`), `OutcomesNotMixed` (`OwnOutcome`), `TaskOutlivesJob` (`NoFreedTaskInUse`), `QueueGoesOn`
(`NeverStalled`), `CancelledStaysUnexecuted` (the action property `CancelledNotExecuted`). `AsyncInv`: a job is where its state says and the lists
are in the order of launching (`JobInv`); of the waiting tasks only the first may have a job, and the others are younger than every job (`WaitingInv`); a
completed task has an outcome and was not cancelled (`TaskInv`); unless disturbed, one job at a time, that of the first waiting task (`OneJob`). The last three
theorems have the condition of the properties (`Disturbed`), the first two hold under any usage.

### Signals of the thread wrapper

`ThreadSignals_proofs`. `SignalsInvariant == Spec => []SignalsInv` holds for every `Usage`: what a thread has at hand was connected and is still in a list when
it is being disconnected (`PcInv`); the list a spec is in is that of the thread its signals go to, and it is used as long as it has
references (`SpecInv`); nothing is disconnected during its own emission when `Usage` excludes it (`QuietInv`); queues respect the
bound (`BoundInv`), so that the count sees every signal; and `CountInv`: a spec has at least as many references as there are queued signals, threads
that handle one and lists that lead to it, exactly as many unless it may be disconnected while it is emitted. `Occurrences` is a sum of cardinalities; lemmas
say by how much a push, a pop and a move of one thread change each of them. From the invariant:

* `FreedWhenUnused` (`NoDanglingSpec`), whatever the clients do;
* `ThreadDataKept` (`SignalsHaveThreadData`), whatever they do;
* `ReferencesExact` (`ReferencesCounted`) when `Usage` excludes "while emitting": a signal emitted during the
  disconnection of its handler is pushed on a NULL queue and its reference is lost (`w.c:1329`), so that the count is only a lower bound then;
* `SilentAfterDisconnect` (the action property `NoCallbackAfterDisconnect`) when handlers are neither stolen nor disconnected by other
  threads: `iterate()` does not lock what it tests, and the promise rests on the test and the disconnection being in one thread. `OwnInv` says that
  the specs in the queue and in the hands of a thread are its own;
* `PrivateStaysPrivate` (the action property `PrivateSignalsOnly`) when handlers are not stolen: an emission by the worker looks at
  whom it works for before it marshals, and `steal_signal()` in between would change to whom the signal is pushed. `PrivateInv` says that a private
  signal that is being marshalled goes to the thread the worker works for.

The hypotheses on `Usage` are those of the runs that check the properties, or weaker.

### Statements: events, status, meta store

The five invariants of `StatementExecution` are theorems, for any set of names and tables and any size of the ring. A method is a
chain of operators on the ring and on the tree, so the work is in lemmas about these operators, and the theorems follow in layers, each
invariant on top of those before it.

`StatementParts_proofs`, about the ring. `EventsInv(ev, held)`: an object is in one slot of the ring or in the list, not in both (`Distinct`, `Apart`); the
slots in use, taken by their age, describe the last events in order (`InRing`), or the list does and the ring is empty (`InList`);
and an object has a reference for each place it is in and for each of the `held` ones, which are those of the tree (`Counted`). Adding an event
overwrites the oldest slot or takes a new object (`Taken`, `Posted1`), the list visits the slots in their order (`Visits`,
`ListedInOrder`), resizing keeps the order (`Resized`).

The same module, about the tree. `Path(t, d, N, E)`: the objects of a tree are `1 .. d`, one within the other, the last event of each but the innermost
is the sub-transaction, and nowhere else is one. From it, what each operation returns: the innermost transaction (`FindCurrentIs`), where
`gda_transaction_status_find()` stops (`FindIs`), the path one longer (`StartedIs`), shorter (`EndedIs`), cut behind a savepoint or without
it (`RolledbackIs`, `ReleasedIs`), and with an event more (`AddedIs`, `RecordedIs`). The searches go down the tree by a recursive
function; on a path it is found to be equal to an explicit one by an argument on the smallest depth at which they would differ.

`StatementExecution_proofs`:

* `TypeCorrect` (`TypeOK`), `EventsAreInOrder` (`EventsInOrder`) and `NoEventIsFreed` (`NoFreedEvent`) by `CoreInv`: the types, the tree is a path whose
  events refer to objects that exist, and `EventsInv` with the references of the tree. That no object is freed in use needs all of it: an event
  that leaves the tree gives back the reference it had, and the object may then be the one that the next event of the connection takes.
* `StatusIsTheServers` (`StatusMatchesServer`). The invariant does not follow from itself: the property compares names, but the next COMMIT ends the
  transaction that a name is *found* at. `StatusInv` says that, as long as the session is `regular`, the names of the path are those of the
  transactions among the frames of the server (`Mirrors`), that the second of them has a name the first does not know (`Distinguished`), that only
  an engine with nested transactions has more than one, and that only PostgreSQL has a failed transaction, inside of one (`FailedOK`).
* `MetaIsTheTables` (`MetaFollowsTables`). `MetaInv` adds what makes a ROLLBACK refresh enough: contexts are kept if and only if the server is in a
  transaction, and a table that is in none of them is what it was at BEGIN (`Since`).
* `PendingIsTheServers` (`PendingIsTracked`). That the status lists the statements the server would undo is not inductive, because ROLLBACK TO
  goes back to a state that the property does not mention. `Pends` says that each savepoint of the server which is recorded has before it, in
  the list of the status, just the statements that were done when it was made (`Marks`), that statements are recorded in order, and that a savepoint has a name
  nothing else in the list has (`Tidy`). Once the server's transaction failed, the list says nothing of what is done until a rollback
  repairs it.

The first three hold in every session. The others have the conditions of the properties: `regular` sessions, for `MetaIsTheTables` also
`exact` ones, for `PendingIsTheServers` engines without nested transactions.

### Data proxy: changes and rows shown

`DataProxy_proofs`, for any rows, columns and values, samples of any size, any number of changes and of rows synchronised per turn. The inductive invariant is
`Inv` (theorem `InvHolds`). In all states, also after a fault:

* `Edits`: each RowModif is in one list, once, and the lists hold no others (`Lists`); `new_rows` are those of `all_modifs` without a
  row (`News`); an entry of the hash table leads to the RowModif of that row (`Keyed`); a RowModif has the identity and the original values of its row
  and shares it with no other (`OfTheirRow`); a new row has values and is not marked as deleted (`Marked`);
* `ShowType`: the types of the mappings and counters.

While the proxy runs, besides, and these are what the properties lack:

* `Whole`: every RowModif with a row is found under it in the hash table. Without it `find_or_create_row_modif()` would make a second one. `Rekey` may
  lose it, which is the fault "lost entry"; it does not lose `Keyed` and `OfTheirRow`, so that `ChangesStay` holds even then;
* `Shape`: the mapping shown maps to distinct rows of the model followed by all new rows (`Mapped`), or, during a synchronisation, that is
  so of the mapping it goes to, and `chunk_sep` is within both (`Under`); `chunk_proxy_nb_rows` is used, or not yet set, as
  the end of the mapping that is missing (`Begun`, `Fresh`);
* `Told`: the rows that were announced are those of the mapping shown or, while one of them is missing, what the turns so far make of them (`Count`);
* `NoMinus`: row -1 is not shown.

A turn keeps `Shape` and `Told` and brings the end nearer (`Ahead`, `Left`), so that `MaxSteps` turns finish a synchronisation (`EnsureSyncIs`). A method
finishes what is under way, changes the lists (`Edits` before and after), computes the mapping anew (`AdjustIs`), and starts or finishes a synchronisation.
From the invariant: `TypeCorrect` (`TypeOK`), `ModifsAreAlive` (`NoDanglingModif`), `ChangesStay` (`EditsStayWithTheirRow`), `RowsShownExist`
(`ShownRowsExist`), `ListenersKnow` (`ListenersInSync`). The action property `CrashesOnlyWhilePending` (`CrashNeedsPendingSync`) needs for each
method that a settled proxy stays without a crash (`StepIsGood`): its row numbers are those of rows, no row is there twice, and no mapping is NULL that a callback follows.

### Only model-checked

* Liveness and what rests on fairness, which the prover does not handle: `JobsSettle`, `FetchReturns`, `WorkerTerminates`, `CallsGoOn`,
  `EveryTaskDelivered`, `LockIsObtained`, `SyncFinishes`.
* The refinement of `EditedTable` by `DataProxy` (`KeepsEdits`). Its mapping chooses the RowModif of a row and the row of an identity, and an application
  of several changes is one step of the table, which takes a witness computed along the loop; the invariants `NoDanglingModif` and
  `EditsStayWithTheirRow`, which make the mapping a function, are proved.
* What a recursive definition computes for every input, by induction over data with an operator as parameter, is out of the prover's reach.
  The loops about which something is proved are recursive functions with a named step (`Moved`, `SyncStep`, `Uncovered`, `CommitFirst`,
  `Cached`, `Taken`), and an argument on the smallest number of turns at which a fact would fail takes the place of induction.

No module written for proofs has a RECURSIVE operator: `TransactionStatus` and `DataProxy` use recursive functions.

## 5. Not modelled

In the modelled components: dispose of connected signals; the list of a distributed transaction's connections; the synchronous
methods of the connection; the memory of statements shared with the worker; the limiting thread of a provider, which
`gda_connection_open()` makes the owner of a new connection and whose absence it refuses (`c.c:1600-1616`, 1688-1690), so that
`ConnectionLife` is about providers that leave it free; the reference count of a connection; the state and isolation level of a transaction;
of the data proxy the filter and ordering, attributes of values, models that are read-only or of unknown size, and notification switched
off. Of PostgreSQL only what the XA methods show and what it reports of a statement is modelled; of the meta store, when it is read again
and for which tables, not what it reads.

Outside of them: the components of section 1 without a module, for the reasons given in `PROJECT.json` ("components"): grammars,
renderings and conversions are sequential computations over data; widgets and tools are users of the library; providers bind client
libraries. These make up most of the lines of the repository, which is why the map covers a small share of them.

## 6. Plan

Modelled, in this order: `ThreadWrapper` with `JobService` (the base of every threaded connection), `ThreadSignals`, `AsyncExec`, `XaTransaction`, `ConnectionLife`, `ConnectionEvents` and `TransactionStatus` composed in
`StatementExecution`, `DataProxy` with `EditedTable`. Proved, in this order: the safety properties of `ThreadWrapper` and its
refinement of `JobService`, then those of `ConnectionLife`, `XaTransaction`, `AsyncExec`, `ThreadSignals`, `StatementExecution` and `DataProxy`.

Next theorem: the refinement of `EditedTable`, from the invariants of `DataProxy`, one lemma per method.

Next modules: `DataSelect` below `DataProxy` (deleted and modified rows of a result), `HolderSet` and `DataModelIter` above it.
