-------------------------- MODULE StatementExecution --------------------------
(***************************************************************************)
(* The execution of statements in a connection (libgda/gda-connection.c),  *)
(* with what follows each of them: the connection's events, the status of  *)
(* its transactions and the automatic update of the meta store.            *)
(*                                                                         *)
(* It composes ConnectionEvents and TransactionStatus with the server, of  *)
(* which it models the transaction, its savepoints and its tables.  Three  *)
(* engines are distinguished by what their providers and servers do:       *)
(* SQLite, PostgreSQL, and one with nested transactions (through JDBC).    *)
(* A statement is executed with the connection locked: it is one step.     *)
(*                                                                         *)
(* A name that ends in _mutant is a wrong version of the definition after  *)
(* it, used to confirm that the properties notice such a mistake.          *)
(***************************************************************************)
EXTENDS ConnectionEvents, TransactionStatus

CONSTANTS
    Names,         \* names of transactions and savepoints
    Tables,
    MaxCalls       \* bound: calls of the connection's methods in a behaviour

ASSUME NamesAssumption == /\ NULL \notin Names /\ NULL \notin Tables /\ MaxCalls \in Nat
                          /\ Names \cap Nat = {}   \* numbers stand for statements
                          /\ \A tables \in SUBSET Tables : tables # NULL

VARIABLES
    engine,      \* the provider and its server, chosen once
    auto_meta,   \* is there a meta store, with GDA_CONNECTION_OPTIONS_AUTO_META_DATA
    server,      \* the session at the server and what it sees of the database
    trans,       \* priv->trans_status and the tree below it
    events,      \* the events of the connection
    batch,       \* statements left of the batch being executed
    trans_meta_context, \* the contexts updated since BEGIN, or NULL
    meta,        \* the tables the meta store knows of
    aborted,     \* an assertion failed: the program has stopped
    regular,     \* history: used and answered as the status functions expect
    exact,       \* history: nothing happened that the meta store cannot notice
    ncall        \* history: calls made

vars == <<engine, auto_meta, server, trans, events, batch, trans_meta_context, meta,
          aborted, regular, exact, ncall>>

Engines == {"sqlite", "postgres", "nesting"}
NoSession == << >>

Init ==
    /\ engine \in Engines /\ auto_meta \in BOOLEAN
    /\ server = [session |-> NoSession, tables |-> {}, done |-> << >>, failed |-> FALSE]
    /\ trans = NoTree /\ events = NoEvents /\ batch = 0
    /\ trans_meta_context = NULL /\ meta = {}
    /\ aborted = FALSE /\ regular = TRUE /\ exact = TRUE /\ ncall = 0

-----------------------------------------------------------------------------
(* The server.  A session is a stack of transactions and savepoints, each  *)
(* with the data to return to; `done' are the statements that are pending. *)
(* An answer is: was the statement run, did it succeed, the new state.     *)

Session == server.session
InTransaction == Session # NoSession
Frame(kind, name) == [kind |-> kind, name |-> name, tables |-> server.tables, done |-> server.done]
Transactions == {i \in DOMAIN Session : Session[i].kind = "transaction"}
Innermost == CHOOSE i \in Transactions : \A j \in Transactions : j <= i
\* The savepoints a statement can name: the latest with that name.
Reachable(name) == {i \in DOMAIN Session : /\ Session[i].kind = "savepoint" /\ Session[i].name = name
                                           /\ \A j \in Transactions : j < i}
Latest(name) == CHOOSE i \in Reachable(name) : \A j \in Reachable(name) : j <= i

With(session) == [server EXCEPT !.session = session,
                                !.done = IF session = NoSession THEN << >> ELSE @]
Restored(n, frame) == [server EXCEPT !.session = SubSeq(Session, 1, n), !.failed = FALSE,
                                     !.tables = frame.tables, !.done = frame.done]

Done(s)      == [run |-> TRUE, ok |-> TRUE, server |-> s]
Refused      == [run |-> TRUE, ok |-> FALSE,
                 server |-> [server EXCEPT !.failed = engine = "postgres" /\ InTransaction]]
\* In a transaction that failed PostgreSQL refuses to prepare statements.
Unprepared   == [run |-> FALSE, ok |-> FALSE, server |-> server]

BeginAnswers(name) ==
    IF server.failed THEN {Unprepared}
    ELSE IF InTransaction /\ engine = "sqlite" THEN {Refused}
    ELSE IF InTransaction /\ engine = "postgres" THEN {Done(server)}
    ELSE {Done(With(Append(Session, Frame("transaction", name))))}

\* The position a COMMIT or a ROLLBACK returns to.
Outer(name) ==
    IF engine = "nesting" /\ InTransaction
    THEN IF name = NULL THEN {Innermost - 1}
         ELSE {i - 1 : i \in {j \in Transactions : j = Innermost /\ Session[j].name = name}}
    ELSE IF InTransaction THEN {0} ELSE {}
NothingToEnd == IF engine = "postgres" THEN {Done(server)} ELSE {Refused}

\* COMMIT may be refused: SQLite keeps the transaction, PostgreSQL undoes it.
CommitAnswers(name) ==
    IF ~InTransaction THEN NothingToEnd
    ELSE IF Outer(name) = {} THEN {Refused}
    ELSE IF server.failed THEN {Done(Restored(0, Session[1]))}
    ELSE {Done(With(SubSeq(Session, 1, n))) : n \in Outer(name)}
           \cup (IF engine = "postgres"
                 THEN {[Refused EXCEPT !.server = Restored(0, Session[1])]} ELSE {Refused})

RollbackAnswers(name) ==
    IF ~InTransaction THEN NothingToEnd
    ELSE IF Outer(name) = {} THEN {Refused}
    ELSE {Done(Restored(n, Session[n + 1])) : n \in Outer(name)}

SavepointAnswers(name) ==
    IF server.failed THEN {Unprepared}
    ELSE IF InTransaction \/ engine = "sqlite"
    THEN {Done(With(Append(Session, Frame("savepoint", name))))} ELSE {Refused}

RollbackToAnswers(name) ==
    IF Reachable(name) = {} THEN {Refused}
    ELSE {Done(Restored(Latest(name), Session[Latest(name)]))}

ReleaseAnswers(name) ==
    IF server.failed THEN {Unprepared}
    ELSE IF Reachable(name) = {} THEN {Refused}
    ELSE {Done(With(SubSeq(Session, 1, Latest(name) - 1)))}

\* Any other statement; some errors make SQLite undo the whole transaction.
SqlAnswers(able, tables) ==
    IF server.failed THEN {Unprepared}
    ELSE {Refused}
      \cup (IF able THEN {Done([server EXCEPT !.tables = tables,
                                   !.done = IF InTransaction THEN Append(@, ncall + 1) ELSE @])}
            ELSE {})
      \cup (IF engine = "sqlite" /\ InTransaction
            THEN {[Refused EXCEPT !.server = Restored(0, Session[1])]} ELSE {})

-----------------------------------------------------------------------------
(* What the connection does                                                *)

\* gda_connection_internal_statement_executed().  A statement the parser did
\* not recognise (`typed' is FALSE) is an SQL statement like any other.
Track(t, kind, name, typed, id, about) ==
    CASE typed /\ kind = "begin"       -> TransactionStarted(t, name)
      [] typed /\ kind = "commit"      -> TransactionEnded(t, name)
      [] typed /\ kind = "rollback"    -> TransactionEnded(t, name)
      [] typed /\ kind = "savepoint"   -> SavepointAdded(t, name)
      [] typed /\ kind = "rollback to" -> SavepointRolledback(t, name)
      [] typed /\ kind = "release"     -> SavepointRemoved(t, name)
      [] OTHER                         -> SqlExecuted(t, id, about)

\* Is that function told of a success?  PostgreSQL's provider does not give it
\* the error of a statement that failed.
Told(answer) == answer.ok \/ (engine = "postgres" /\ answer.run)

\* The events of one execution: the command, then its notice or its error.
\* A SELECT has no notice, and SQLite's provider forgets to add its error.
CommandEvent == 2 * ncall + 1
ResultEvent  == 2 * ncall + 2
Began == IF batch = 0 THEN ClearEvents(events) ELSE events
Posted(kind, answer) ==
    LET command == PostEvent(Began, CommandEvent)
    IN  IF ~answer.run THEN Began
        ELSE IF kind # "select" THEN PostEvent(command, ResultEvent)
        ELSE IF answer.ok THEN command
        ELSE IF engine = "sqlite" THEN TakeEvent(command, ResultEvent)
        ELSE PostEvent(command, ResultEvent)

\* The event recorded with a statement.
AboutStatement(kind) ==
    IF kind = "select" \/ engine = "postgres" THEN NULL
    ELSE AvailableEvent(PostEvent(Began, CommandEvent))

\* References from the tree to events.
Rebound(ev, old, new) ==
    [ev EXCEPT !.refs = [o \in EventObjects |->
        @[o] + References(new, o) - References(old, o)]]

\* gda_connection_update_meta_store() with the context of each table: it reads
\* the server's tables.  Its queries are statements of the connection too.
Refresh(known, changed, tables) == (known \ changed) \cup (changed \cap tables)
Queried(t, changed) == IF changed = {} THEN t ELSE SqlExecuted(t, 0, NULL)
QueryEvents(ev, changed) ==
    IF changed = {} THEN ev
    ELSE PostEvent(IF batch = 0 THEN ClearEvents(ev) ELSE ev, CommandEvent)

\* update_meta_store_after_statement_exec(), called after a success only.
Contexts(kind, typed, changed) ==
    IF kind = "rollback" /\ typed THEN trans_meta_context ELSE changed
AfterContexts_mutant(kind, typed, changed) ==
    IF typed /\ kind = "begin" THEN {}
    ELSE IF typed /\ kind \in {"commit", "rollback"} THEN NULL
    ELSE trans_meta_context
AfterContexts(kind, typed, changed) ==
    IF typed /\ kind = "begin" THEN {}
    ELSE IF typed /\ kind \in {"commit", "rollback"} THEN NULL
    ELSE IF trans_meta_context = NULL THEN NULL ELSE trans_meta_context \cup changed
MetaAsserts(kind, typed) ==
    typed => CASE kind = "begin" -> trans_meta_context = NULL
               [] kind \in {"commit", "rollback"} -> trans_meta_context # NULL
               [] OTHER -> TRUE

UpdateMeta(kind, typed, changed, answer, t) ==
    LET called  == auto_meta /\ answer.ok
        updates == called /\ MetaAsserts(kind, typed)
        stale   == IF updates THEN Contexts(kind, typed, changed) ELSE {}
        after   == Queried(t, stale)
    IN  /\ aborted' = (called /\ ~updates)
        /\ trans_meta_context' = IF updates THEN AfterContexts(kind, typed, changed) ELSE trans_meta_context
        /\ meta' = Refresh(meta, stale, answer.server.tables)
        /\ trans' = after
        /\ events' = QueryEvents(Rebound(Posted(kind, answer), trans, after), stale)

\* gda_connection_statement_execute_v().  A failure ends a batch.
Execute(kind, name, typed, changed, answer) ==
    /\ server' = answer.server
    /\ LET id == ncall + 1
           t  == IF Told(answer)
                 THEN Track(trans, kind, name, typed, id, AboutStatement(kind)) ELSE trans
       IN  UpdateMeta(kind, typed, changed, answer, t)
    /\ batch' = IF batch = 0 \/ ~answer.ok THEN 0 ELSE batch - 1
    /\ ncall' = ncall + 1
    /\ UNCHANGED <<engine, auto_meta>>

\* Bounds on the objects the model has.
CanExecute == /\ ~aborted /\ ncall < MaxCalls
              /\ Cardinality(FreeObjects(events)) >= 3
CanBegin == Unused(trans) # {}

-----------------------------------------------------------------------------
(* The statements.  A name given to a method of the connection is not      *)
(* recognised by SQLite's provider, whose statement has a parameter there. *)
Typed(name) == IF engine = "sqlite" /\ name # NULL THEN BOOLEAN ELSE {TRUE}

Known == ToSet(Nesting(trans)) \cup TrackedSavepoints(trans)
OneTransaction == Len(Nesting(trans)) = 1
Irregular(use) == regular' = (regular /\ ~use)
Unnoticed(answer, is) == exact' = (exact /\ ~(is /\ answer.server.tables # server.tables))

Begin(name) ==
    /\ CanExecute /\ CanBegin
    /\ \E typed \in Typed(name), answer \in BeginAnswers(name) :
         /\ Execute("begin", name, typed, {}, answer)
         /\ Irregular(\/ answer.ok /\ ~typed
                      \/ answer.ok /\ InTransaction /\ engine = "postgres"
                      \/ name \in Known /\ name # NULL)
    /\ exact' = (exact /\ ~(auto_meta /\ InTransaction))

End(kind, name, answers) ==
    /\ CanExecute
    /\ \E typed \in Typed(name), answer \in answers :
         /\ Execute(kind, name, typed, {}, answer)
         /\ Irregular(\/ answer.ok /\ ~typed
                      \/ answer.ok /\ ~InTransaction
                      \/ /\ name # NULL
                         /\ trans.root = NULL \/ Last(Nesting(trans)) # name
                              \/ Len(Nesting(trans)) > 2)
         /\ exact' = (exact /\ \/ kind = "rollback" /\ answer.ok
                               \/ answer.server.tables = server.tables
                                     /\ (answer.ok \/ answer.server.session = Session))

Commit(name)   == End("commit", name, CommitAnswers(name))
Rollback(name) == End("rollback", name, RollbackAnswers(name))

AddSavepoint(name) ==
    /\ CanExecute
    /\ \E typed \in Typed(name), answer \in SavepointAnswers(name) :
         /\ Execute("savepoint", name, typed, {}, answer)
         /\ Irregular(answer.ok /\ (~typed \/ ~OneTransaction \/ name \in Known
                                      \/ Reachable(name) # {}))
    /\ UNCHANGED exact

RollbackSavepoint(name) ==
    /\ CanExecute
    /\ \E typed \in Typed(name), answer \in RollbackToAnswers(name) :
         /\ Execute("rollback to", name, typed, {}, answer)
         /\ Irregular(IF answer.ok THEN ~typed \/ ~OneTransaction \/ name \notin TrackedSavepoints(trans)
                      ELSE Told(answer) /\ name \in Known)
         /\ Unnoticed(answer, TRUE)

DeleteSavepoint(name) ==
    /\ CanExecute
    /\ \E typed \in Typed(name), answer \in ReleaseAnswers(name) :
         /\ Execute("release", name, typed, {}, answer)
         /\ Irregular(Told(answer) /\ (~typed \/ ~OneTransaction))
    /\ UNCHANGED exact

\* A statement that changes tables: meta_data_context_from_statement() names
\* the one created or dropped, or both names of one that is renamed.
Ddl(changed, able, tables) ==
    /\ CanExecute
    /\ \E answer \in SqlAnswers(able, tables) :
         /\ Execute("sql", NULL, TRUE, changed, answer)
         /\ Irregular(InTransaction /\ answer.server.session = NoSession)
         /\ Unnoticed(answer, ~answer.ok)

Create(t)    == Ddl({t}, t \notin server.tables, server.tables \cup {t})
Drop(t)      == Ddl({t}, t \in server.tables, server.tables \ {t})
Rename(t, u) == Ddl({t, u}, t \in server.tables /\ u \notin server.tables,
                    (server.tables \ {t}) \cup {u})

Select ==
    /\ CanExecute
    /\ \E answer \in SqlAnswers(TRUE, server.tables) :
         /\ Execute("select", NULL, TRUE, {}, answer)
         /\ Irregular(InTransaction /\ answer.server.session = NoSession)
         /\ Unnoticed(answer, TRUE)

-----------------------------------------------------------------------------
(* Other operations                                                        *)
other == <<engine, auto_meta, server, trans, trans_meta_context, meta, regular, exact>>
CanCall == ~aborted /\ batch = 0 /\ ncall < MaxCalls
Called  == ncall' = ncall + 1

\* gda_connection_get_events(), gda_connection_clear_events_list(), and the
\* property events-history-size.
ListEvents == /\ CanCall /\ Called
              /\ IF GetEventsAsserts(events) THEN events' = GetEvents(events) /\ UNCHANGED aborted
                 ELSE aborted' = TRUE /\ UNCHANGED events
              /\ UNCHANGED <<other, batch>>
ClearList == /\ CanCall /\ Called
             /\ events' = ClearEvents(events)
             /\ UNCHANGED <<other, batch, aborted>>
SetHistorySize == /\ CanCall /\ Called
                  /\ \E n \in EVENTS_ARRAY_SIZE .. MaxArraySize - 1 : events' = Resize(events, n)
                  /\ UNCHANGED <<other, batch, aborted>>

\* gda_connection_batch_execute() makes room for its events, keeps them all.
BatchExecute ==
    /\ CanCall /\ Called
    /\ \E n \in 1 .. (MaxArraySize - 1) \div 2 :
         /\ batch' = n
         /\ events' = Resize(events, n * 2)
    /\ UNCHANGED <<other, aborted>>

\* gda_connection_close(), then gda_connection_open(): the server undoes the
\* transaction after the contexts have been read again; the status is kept.
CloseAndOpen ==
    /\ CanCall /\ Called
    /\ LET again == trans_meta_context # NULL /\ trans.root # NULL
       IN  /\ meta' = IF again THEN Refresh(meta, trans_meta_context, server.tables) ELSE meta
           /\ trans_meta_context' = IF again THEN NULL ELSE trans_meta_context
    /\ server' = IF InTransaction THEN Restored(0, Session[1]) ELSE server
    /\ Irregular(trans.root # NULL \/ InTransaction)
    /\ exact' = (exact /\ ~InTransaction)
    /\ UNCHANGED <<engine, auto_meta, trans, events, batch, aborted>>

Next ==
    \/ \E name \in Names \cup {NULL} : Begin(name) \/ Commit(name) \/ Rollback(name)
    \/ \E name \in Names : AddSavepoint(name) \/ RollbackSavepoint(name) \/ DeleteSavepoint(name)
    \/ \E t \in Tables : Create(t) \/ Drop(t) \/ \E u \in Tables \ {t} : Rename(t, u)
    \/ Select
    \/ ListEvents \/ ClearList \/ SetHistorySize \/ BatchExecute
    \/ CloseAndOpen

Spec == Init /\ [][Next]_vars

-----------------------------------------------------------------------------
(* Properties                                                              *)

TypeOK ==
    /\ engine \in Engines /\ auto_meta \in BOOLEAN
    /\ server \in [session : Seq([kind : {"transaction", "savepoint"}, name : Names \cup {NULL},
                                  tables : SUBSET Tables, done : Seq(Nat)]),
                   tables : SUBSET Tables, done : Seq(Nat), failed : BOOLEAN]
    /\ trans.root \in DOMAIN trans.node \cup {NULL}
    /\ EventsType(events)
    /\ trans_meta_context = NULL \/ trans_meta_context \subseteq Tables
    /\ meta \subseteq Tables /\ batch \in Nat /\ ncall \in Nat
    /\ aborted \in BOOLEAN /\ regular \in BOOLEAN /\ exact \in BOOLEAN

\* gda_connection_get_transaction_status(): the connection has a transaction
\* when the server has one, with the same nesting and names.
StatusMatchesServer ==
    regular => Nesting(trans) = [k \in 1 .. Cardinality(Transactions) |->
                  Session[CHOOSE i \in Transactions :
                            Cardinality({j \in Transactions : j < i}) = k - 1].name]

\* The statements of the status are those the server would undo: none that a
\* ROLLBACK TO undid, and, in a transaction of one level, all of them in order.
\* (Those with the number 0 are queries of the meta store.)
Statements == {p \in OfType(trans, "sql") : EventAt(trans, p).str # 0}
PendingIsTracked ==
    regular /\ ~server.failed /\ Cardinality(Transactions) <= 1 /\ engine # "nesting" =>
       /\ {EventAt(trans, p).str : p \in Statements} = ToSet(server.done)
       /\ \A p, q \in Statements :
             p[1] = q[1] /\ p[2] < q[2] => EventAt(trans, p).str < EventAt(trans, q).str

\* gda_connection_get_events() gives the latest events, oldest first, and its
\* assertions hold, after any sequence of executions, batches and changes of size.
EventsInOrder == LatestInOrder(events)

\* An event the array, the list or a recorded statement refers to is not freed.
NoFreedEvent ==
    \A o \in EventObjects : events.refs[o] >= HeldBy(events, o) + References(trans, o)

\* GDA_CONNECTION_OPTIONS_AUTO_META_DATA: the meta store follows the tables, also
\* when a transaction with several changes is rolled back, and the assertions that
\* update_meta_store_after_statement_exec() makes of the contexts it keeps hold.
MetaFollowsTables ==
    exact /\ regular => ~aborted /\ (auto_meta => meta = server.tables)
=============================================================================
