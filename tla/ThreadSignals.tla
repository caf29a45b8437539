---------------------------- MODULE ThreadSignals ----------------------------
(***************************************************************************)
(* GdaThreadWrapper, signals: callbacks connected by client threads to     *)
(* signals an object emits while the worker uses it                        *)
(* (libgda/thread-wrapper/gda-thread-wrapper.c).  An emission is turned    *)
(* by a closure marshaller into a SIGNAL job on the reply queue of the     *)
(* connecting thread, which calls the callback from iterate().             *)
(*                                                                         *)
(* The execution of jobs, modelled in ThreadWrapper, is reduced here to    *)
(* what signals depend on: the thread the worker works for (`current') and *)
(* whether a thread has a job (`busy'), which keeps its ThreadData.        *)
(*                                                                         *)
(* Locks are explicit: `rmutex' of the wrapper and the mutex of each       *)
(* SignalSpec, which the marshaller keeps while it writes to a pipe.       *)
(*                                                                         *)
(* A name that ends in _mutant is a wrong version of the definition after  *)
(* it, used to confirm that the properties notice such a mistake.          *)
(***************************************************************************)
EXTENDS Naturals, Sequences, FiniteSets

CONSTANTS
    Clients,        \* threads that connect signals and iterate
    Worker,         \* the private sub thread
    Specs,          \* the SignalSpec structures that can be allocated
    NoThread,
    SignalsBound,   \* bound: SIGNAL jobs queued or being queued at a time
    PipeCapacity,   \* notifications a pipe holds before write() blocks
    PipeUsers,      \* clients with an I/O channel, asked for before any use
    Usage           \* what clients do besides the plain use of the object

Usages == {"steal",              \* gda_thread_wrapper_steal_signal()
           "foreign",            \* disconnect() by another thread
           "in callback",        \* disconnect() from the callback itself
           "while emitting",     \* disconnect() during an emission
           "bad signal"}         \* connect_raw() with a signal it refuses

ASSUME SignalsAssumption == /\ Worker \notin Clients
                            /\ NoThread \notin Clients \cup {Worker}
                            /\ PipeUsers \subseteq Clients
                            /\ Usage \subseteq Usages
                            /\ IsFiniteSet(Clients)
                            /\ SignalsBound \in Nat \ {0} /\ PipeCapacity \in Nat \ {0}

Threads == Clients \cup {Worker}

VARIABLES
    spec,      \* the SignalSpec structures
    slock,     \* holder of each SignalSpec's mutex
    rmutex,    \* priv->rmutex: its holder, once per recursive lock
    td,        \* priv->threads_hash: the threads that have a ThreadData
    busy,      \* what is left of td->jobs and td->results
    current,   \* the thread whose job the worker executes
    queue,     \* td->from_worker_thread: SIGNAL jobs, by SignalSpec
    unread,    \* notifications in each pipe
    pc,        \* where each thread is, and the SignalSpec it has at hand
    ended,     \* history: the specs for which disconnect() has returned
    fault      \* an access to memory that was freed or a NULL function called

vars == <<spec, slock, rmutex, td, busy, current, queue, unread, pc, ended, fault>>

-----------------------------------------------------------------------------
\* holder: whose signals_list the spec is in.  target: reply_queue.  notif: the
\* thread whose pipe it notifies.  callback: callback (and instance) not NULL.
Unborn == [state |-> "unborn", holder |-> NoThread, target |-> NoThread, notif |-> NoThread,
           callback |-> FALSE, ref |-> 0, anythread |-> FALSE, private |-> FALSE]

Idle == [at |-> "idle", spec |-> NoThread]

Go(t, where) == pc' = [pc EXCEPT ![t].at = where]
Done(t)      == pc' = [pc EXCEPT ![t] = Idle]
SignalsOf(t) == {s \in Specs : spec[s].holder = t}

CanLock(t) == \A k \in DOMAIN rmutex : rmutex[k] = t

\* A method may be called: the thread is in none (the worker's job functions
\* are considered as emitters only), nothing went wrong so far.
CanCall(t) == t \in Clients /\ pc[t] = Idle /\ CanLock(t) /\ fault = "none"

Init ==
    /\ spec = [s \in Specs |-> Unborn]
    /\ slock = [s \in Specs |-> NoThread]
    /\ rmutex = << >>
    /\ td = {}
    /\ busy = [t \in Clients |-> "no"]
    /\ current = NoThread
    /\ queue = [t \in Clients |-> << >>]
    /\ unread = [t \in Clients |-> 0]
    /\ pc = [t \in Threads |-> Idle]
    /\ ended = {}
    /\ fault = "none"

-----------------------------------------------------------------------------
(* gda_thread_wrapper_connect_raw(): `private' (private_job) is only read  *)
(* by the marshaller of the signals of the private thread.                 *)
Connect(t, s, anythread, private) ==
    /\ CanCall(t)
    /\ spec[s].state = "unborn"
    /\ spec' = [spec EXCEPT ![s] =
                  [state |-> "used", holder |-> t, target |-> t,
                   notif |-> IF t \in PipeUsers THEN t ELSE NoThread,
                   callback |-> TRUE, ref |-> 1, anythread |-> anythread,
                   private |-> private /\ ~anythread]]
    /\ td' = td \cup {t}
    /\ UNCHANGED <<slock, rmutex, busy, current, queue, unread, pc, ended, fault>>

\* "Signal does not exist", "Signal to connect to must not have a return
\* value": both return without unlocking rmutex.
ConnectRefused(t) ==
    /\ "bad signal" \in Usage
    /\ CanCall(t)
    /\ rmutex = << >>      \* bound: once
    /\ rmutex' = <<t>>
    /\ td' = td \cup {t}
    /\ UNCHANGED <<spec, slock, busy, current, queue, unread, pc, ended, fault>>

-----------------------------------------------------------------------------
(* gda_thread_wrapper_steal_signal(): the spec changes list and reply      *)
(* queue, its mutex is not taken and its pipe stays.                       *)
Stolen_mutant(t, r) == [r EXCEPT !.holder = t, !.target = t, !.ref = @ + 1]
Stolen(t, r) == [r EXCEPT !.holder = t, !.target = t]

StealSignal(t, s) ==
    /\ "steal" \in Usage
    /\ CanCall(t)
    /\ spec[s].holder \notin {NoThread, t}
    /\ td' = td \cup {t}
    /\ spec' = [spec EXCEPT ![s] = Stolen(t, @)]
    /\ UNCHANGED <<slock, rmutex, busy, current, queue, unread, pc, ended, fault>>

-----------------------------------------------------------------------------
(* gda_thread_wrapper_disconnect(): rmutex is held while the spec's mutex  *)
(* is waited for.  A thread that has a ThreadData finds its own signals    *)
(* only, another one finds those of every thread.                          *)
Emitting(s) == \E t \in Threads : pc[t].spec = s /\ pc[t].at \in {"marshal", "push", "notify"}

DisconnectBegin(t, s) ==
    /\ \/ CanCall(t) /\ pc' = [pc EXCEPT ![t] = [at |-> "disconnect", spec |-> s]]
       \/ /\ "in callback" \in Usage
          /\ pc[t].at = "callback" /\ pc[t].spec = s
          /\ CanLock(t) /\ fault = "none"
          /\ Go(t, "disconnect in callback")
    /\ \/ spec[s].holder = t
       \/ "foreign" \in Usage /\ spec[s].holder # NoThread /\ t \notin td
    /\ "while emitting" \in Usage \/ ~Emitting(s)
    /\ rmutex' = Append(rmutex, t)
    /\ UNCHANGED <<spec, slock, td, busy, current, queue, unread, ended, fault>>

\* signal_spec_unref(), with the spec's mutex held.
Unref(r) == [r EXCEPT !.ref = @ - 1, !.state = IF r.ref = 1 THEN "freed" ELSE @]

Cleared_mutant(r) == [r EXCEPT !.holder = NoThread, !.target = NoThread]
Cleared(r) == [r EXCEPT !.holder = NoThread, !.target = NoThread, !.callback = FALSE]

\* The ThreadData of t when its signals_list shrinks to `left': removed when it
\* holds nothing at all.
AfterRemoval_mutant(t, left) ==
    IF t \in td /\ left = {} /\ busy[t] = "no" THEN td \ {t} ELSE td

AfterRemoval(t, left) ==
    IF t \in td /\ left = {} /\ busy[t] = "no" /\ queue[t] = << >> THEN td \ {t} ELSE td

DisconnectEnd(t) ==
    LET s == pc[t].spec IN
    /\ pc[t].at \in {"disconnect", "disconnect in callback"}
    /\ fault = "none"
    /\ slock[s] = NoThread
    /\ spec' = [spec EXCEPT ![s] = Unref(Cleared(@))]
    /\ td' = AfterRemoval(t, SignalsOf(t) \ {s})
    /\ ended' = ended \cup {s}
    /\ rmutex' = Tail(rmutex)
    /\ IF pc[t].at = "disconnect" THEN Done(t) ELSE Go(t, "release")
    /\ UNCHANGED <<slock, busy, current, queue, unread, fault>>

-----------------------------------------------------------------------------
(* Emission: worker_thread_closure_marshal() and                           *)
(* worker_thread_closure_marshal_anythread(), called by GObject for each   *)
(* connected handler in the thread that emits.                             *)

\* The two tests of the first one: emitted in the worker thread, and during a
\* job of the thread the reply queue belongs to.
Propagated_mutant(e, s) == spec[s].anythread \/ e = Worker

Propagated(e, s) ==
    \/ spec[s].anythread
    \/ e = Worker /\ (spec[s].private => current = spec[s].target)

\* The places in the queues q of the SIGNAL jobs for a spec of A.
Slots(q, A) ==
    {p \in Clients \X (1 .. SignalsBound) : p[2] \in DOMAIN q[p[1]] /\ q[p[1]][p[2]] \in A}

Underway ==
      Cardinality({e \in Threads : pc[e].at \in {"marshal", "push"}})
    + Cardinality(Slots(queue, Specs))

Emit(e, s) ==
    /\ pc[e] = Idle /\ fault = "none"
    /\ e = Worker => current # NoThread
    /\ spec[s].holder # NoThread
    /\ ~\E t \in Threads : pc[t].spec = s /\ pc[t].at \in {"disconnect", "disconnect in callback"}
          /\ "while emitting" \notin Usage
    /\ Underway < SignalsBound
    /\ Propagated(e, s)
    /\ pc' = [pc EXCEPT ![e] = [at |-> "marshal", spec |-> s]]
    /\ UNCHANGED <<spec, slock, rmutex, td, busy, current, queue, unread, ended, fault>>

\* signal_spec_ref(): takes the mutex; the spec may be gone by now.
Ref_mutant(r) == r
Ref(r) == [r EXCEPT !.ref = @ + 1]

MarshalRef(e) ==
    LET s == pc[e].spec IN
    /\ pc[e].at = "marshal" /\ fault = "none"
    /\ IF spec[s].state = "freed"
       THEN fault' = "spec" /\ UNCHANGED <<spec, slock, pc>>
       ELSE /\ slock[s] = NoThread
            /\ slock' = [slock EXCEPT ![s] = e]
            /\ spec' = [spec EXCEPT ![s] = Ref(@)]
            /\ Go(e, "push")
            /\ UNCHANGED fault
    /\ UNCHANGED <<rmutex, td, busy, current, queue, unread, ended>>

\* g_async_queue_push(): refused with a critical message when reply_queue is
\* NULL, the job (and its reference to the spec) is then lost.
MarshalPush(e) ==
    LET s == pc[e].spec IN
    /\ pc[e].at = "push" /\ fault = "none"
    /\ queue' = IF spec[s].target = NoThread THEN queue
                ELSE [queue EXCEPT ![spec[s].target] = Append(@, s)]
    /\ Go(e, "notify")
    /\ UNCHANGED <<spec, slock, rmutex, td, busy, current, unread, ended, fault>>

\* write_notification(), which blocks while the pipe is full, then the unlock.
Unlock_mutant(s) == UNCHANGED slock
Unlock(s) == slock' = [slock EXCEPT ![s] = NoThread]

MarshalNotify(e) ==
    LET s == pc[e].spec IN
    /\ pc[e].at = "notify" /\ fault = "none"
    /\ IF spec[s].notif = NoThread THEN UNCHANGED unread
       ELSE /\ unread[spec[s].notif] < PipeCapacity
            /\ unread' = [unread EXCEPT ![spec[s].notif] = @ + 1]
    /\ Unlock(s)
    /\ Done(e)
    /\ UNCHANGED <<spec, rmutex, td, busy, current, queue, ended, fault>>

-----------------------------------------------------------------------------
(* gda_thread_wrapper_iterate(), not blocking, also called in a loop by    *)
(* gda_thread_wrapper_fetch_result(): every signal in the queue is handled.*)
IterateBegin(t) ==
    /\ CanCall(t)
    /\ t \in td
    /\ Go(t, "pop")
    /\ UNCHANGED <<spec, slock, rmutex, td, busy, current, queue, unread, ended, fault>>

IteratePop(t) ==
    /\ pc[t].at = "pop" /\ fault = "none"
    /\ \/ /\ t \notin td               \* td was freed meanwhile
          /\ fault' = "td"
          /\ UNCHANGED <<queue, pc>>
       \/ /\ t \in td /\ queue[t] = << >>
          /\ Done(t)
          /\ UNCHANGED <<queue, fault>>
       \/ /\ t \in td /\ queue[t] # << >>
          /\ queue' = [queue EXCEPT ![t] = Tail(@)]
          /\ pc' = [pc EXCEPT ![t] = [at |-> "test", spec |-> Head(queue[t])]]
          /\ UNCHANGED fault
    /\ UNCHANGED <<spec, slock, rmutex, td, busy, current, unread, ended>>

\* if (spec->callback)
IterateTest(t) ==
    /\ pc[t].at = "test" /\ fault = "none"
    /\ Go(t, IF spec[pc[t].spec].callback THEN "call" ELSE "release")
    /\ UNCHANGED <<spec, slock, rmutex, td, busy, current, queue, unread, ended, fault>>

\* spec->callback (..., spec->instance, ...): no lock was held since the test,
\* so the build may use the value it has, or read NULL and call that.
IterateCall(t) ==
    /\ pc[t].at = "call" /\ fault = "none"
    /\ \/ Go(t, "callback") /\ UNCHANGED fault
       \/ ~spec[pc[t].spec].callback /\ fault' = "callback" /\ UNCHANGED pc
    /\ UNCHANGED <<spec, slock, rmutex, td, busy, current, queue, unread, ended>>

CallbackReturns(t) ==
    /\ pc[t].at = "callback" /\ fault = "none"
    /\ Go(t, "release")
    /\ UNCHANGED <<spec, slock, rmutex, td, busy, current, queue, unread, ended, fault>>

\* signal_spec_lock(), signal_spec_unref(), goto again.
IterateRelease(t) ==
    LET s == pc[t].spec IN
    /\ pc[t].at = "release" /\ fault = "none"
    /\ slock[s] = NoThread
    /\ spec' = [spec EXCEPT ![s] = Unref(@)]
    /\ pc' = [pc EXCEPT ![t] = [at |-> "pop", spec |-> NoThread]]
    /\ UNCHANGED <<slock, rmutex, td, busy, current, queue, unread, ended, fault>>

\* The user's main loop reads a notification.
ReadNotification(t) ==
    /\ pc[t] = Idle /\ fault = "none"
    /\ unread[t] > 0
    /\ unread' = [unread EXCEPT ![t] = @ - 1]
    /\ UNCHANGED <<spec, slock, rmutex, td, busy, current, queue, pc, ended, fault>>

-----------------------------------------------------------------------------
(* Jobs, as seen from the signals.                                         *)

\* gda_thread_wrapper_execute()
Execute(t) ==
    /\ CanCall(t)
    /\ busy[t] = "no"
    /\ busy' = [busy EXCEPT ![t] = "waiting"]
    /\ td' = td \cup {t}
    /\ UNCHANGED <<spec, slock, rmutex, current, queue, unread, pc, ended, fault>>

\* worker_thread_entry_point(): worker_thread_current_queue is the queue of the
\* job's submitter while its function runs.
JobStarts(t) ==
    /\ current = NoThread /\ pc[Worker] = Idle /\ fault = "none"
    /\ busy[t] = "waiting"
    /\ busy' = [busy EXCEPT ![t] = "running"]
    /\ current' = t
    /\ UNCHANGED <<spec, slock, rmutex, td, queue, unread, pc, ended, fault>>

JobEnds ==
    /\ current # NoThread /\ pc[Worker] = Idle /\ fault = "none"
    /\ busy' = [busy EXCEPT ![current] = "done"]
    /\ current' = NoThread
    /\ UNCHANGED <<spec, slock, rmutex, td, queue, unread, pc, ended, fault>>

\* gda_thread_wrapper_fetch_result() finds the result.
FetchResult(t) ==
    /\ CanCall(t)
    /\ busy[t] = "done"
    /\ busy' = [busy EXCEPT ![t] = "no"]
    /\ td' = IF SignalsOf(t) = {} /\ queue[t] = << >> THEN td \ {t} ELSE td
    /\ UNCHANGED <<spec, slock, rmutex, current, queue, unread, pc, ended, fault>>

-----------------------------------------------------------------------------
\* The steps that carry an operation begun by t to its end.
Step(t) ==
    \/ DisconnectEnd(t)
    \/ MarshalRef(t) \/ MarshalPush(t) \/ MarshalNotify(t)
    \/ IteratePop(t) \/ IterateTest(t) \/ IterateCall(t) \/ IterateRelease(t)
    \/ CallbackReturns(t)

ClientCall(t) ==
    \/ \E s \in Specs :
         \/ \E anythread, private \in BOOLEAN : Connect(t, s, anythread, private)
         \/ StealSignal(t, s)
         \/ DisconnectBegin(t, s)
    \/ ConnectRefused(t)
    \/ IterateBegin(t)
    \/ ReadNotification(t)
    \/ Execute(t)
    \/ JobStarts(t)
    \/ FetchResult(t)

Next == \/ \E t \in Clients : ClientCall(t)
        \/ \E t \in Threads : Step(t) \/ \E s \in Specs : Emit(t, s)
        \/ JobEnds

Spec == Init /\ [][Next]_vars

\* A thread inside a method goes on executing it; mutexes are granted to a
\* thread that keeps asking.
FairSpec == Spec /\ \A t \in Threads : SF_vars(Step(t))
-----------------------------------------------------------------------------
(* Properties                                                              *)

TypeOK ==
    /\ spec \in [Specs -> [state : {"unborn", "used", "freed"}, holder : Clients \cup {NoThread},
                           target : Clients \cup {NoThread}, notif : Clients \cup {NoThread},
                           callback : BOOLEAN, ref : Nat, anythread : BOOLEAN, private : BOOLEAN]]
    /\ slock \in [Specs -> Threads \cup {NoThread}]
    /\ rmutex \in Seq(Clients)
    /\ td \subseteq Clients
    /\ busy \in [Clients -> {"no", "waiting", "running", "done"}]
    /\ current \in Clients \cup {NoThread}
    /\ queue \in [Clients -> Seq(Specs)]
    /\ unread \in [Clients -> 0 .. PipeCapacity]
    /\ pc \in [Threads -> [at : {"idle", "disconnect", "disconnect in callback", "marshal", "push",
                                 "notify", "pop", "test", "call", "callback", "release"},
                           spec : Specs \cup {NoThread}]]
    /\ ended \subseteq Specs
    /\ fault \in {"none", "spec", "td", "callback"}

\* The references a spec must have: its signals_list, the SIGNAL jobs in a
\* queue, the emission that is pushing one, the thread that popped one.
Occurrences(s) ==
      Cardinality(Slots(queue, {s}))
    + Cardinality({t \in Threads : pc[t].spec = s /\
                      pc[t].at \in {"push", "test", "call", "callback", "release",
                                   "disconnect in callback"}})
    + (IF spec[s].holder = NoThread THEN 0 ELSE 1)

\* Nothing that is still going to be used refers to a freed SignalSpec: a
\* signal that waits in a queue survives the disconnection of its handler.
NoDanglingSpec ==
    \A s \in Specs : spec[s].state = "freed" => Occurrences(s) = 0

\* References are neither lost nor taken twice when emissions, iterate(),
\* disconnect() and steal_signal() interleave: a spec without one is freed.
ReferencesCounted ==
    \A s \in Specs : /\ spec[s].ref = Occurrences(s)
                     /\ spec[s].state = "used" <=> spec[s].ref > 0

\* As long as a thread has a handler or a signal to handle its ThreadData is
\* known: fetch_result() and disconnect() remove the ThreadData.
SignalsHaveThreadData ==
    \A t \in Clients : SignalsOf(t) # {} \/ queue[t] # << >> => t \in td

\* "As soon as this method returns, the callback function [...] will not be
\* called anymore (even if the object has emitted the signal [...])".
NoCallbackAfterDisconnect ==
    [][\A t \in Clients : IterateCall(t) /\ fault' = "none" => pc[t].spec \notin ended]_vars

\* "@private_job: TRUE if @callback is to be invoked only if the signal has been
\* emitted when a job created for the calling thread is being executed".
PrivateSignalsOnly ==
    [][\A e \in Threads :
         MarshalPush(e) /\ spec[pc[e].spec].private /\ ~spec[pc[e].spec].anythread
           => spec[pc[e].spec].target \in {current, NoThread}]_vars

PipeFull == \E t \in Clients : unread[t] = PipeCapacity

\* No method and no emission is ever stuck: iterate() and disconnect() wait for
\* the mutex an emission holds while it writes to a pipe, and go on unless that
\* pipe is full.  (iterate() itself may go on for ever, one signal after another.)
CallsGoOn ==
    \A t \in Threads :
       (pc[t].at \notin {"idle", "pop"})
         ~> (pc[t].at \in {"idle", "pop"} \/ PipeFull \/ fault # "none")
=============================================================================
