------------------------ MODULE StatementExecution_proofs ------------------------
(***************************************************************************)
(* Proofs about the execution of statements, from the lemmas about its two *)
(* parts: the ring of events and the tree of the transactions.             *)
(***************************************************************************)
EXTENDS StatementExecution, StatementParts_proofs

-----------------------------------------------------------------------------
(* The tree: a path of objects, whose events refer to some of the objects  *)
(* that describe events of the connection.                                 *)

TransNames == Names \cup {NULL}
TreeEvents(cited) ==
    {e \in [type : {"savepoint", "sql", "sub"}, str : Names \cup Nat \cup {NULL},
            sub : Nat \cup {NULL}, conn_event : cited \cup {NULL}] :
        CASE e.type = "sql" -> e.str \in Nat
          [] e.type = "savepoint" -> e.str \in Names
          [] OTHER -> e.str = NULL}
Tree(t, cited) == \E d \in Nat : Path(t, d, TransNames, TreeEvents(cited))

\* References from the tree, as a function.
Held(t) == [o \in EventObjects |-> References(t, o)]

\* The events that the operations record.
LEMMA Recordable ==
    ASSUME NEW cited
    PROVE  /\ \A name \in Names : SavepointEvent(name) \in TreeEvents(cited)
           /\ \A id \in Nat, about \in cited \cup {NULL} : SqlEvent(id, about) \in TreeEvents(cited)
           /\ \A n \in Nat : SubEvent(n) \in TreeEvents(cited)
BY DEF SavepointEvent, SqlEvent, SubEvent, TreeEvents

\* References are counted in a tree.
LEMMA HeldIs ==
    ASSUME NEW t, NEW cited, Tree(t, cited)
    PROVE  /\ Held(t) \in [EventObjects -> Nat]
           /\ \A o : References(t, o) \in Nat
           /\ \A o : o \notin cited /\ o # NULL => References(t, o) = 0
<1>1. PICK d \in Nat : Path(t, d, TransNames, TreeEvents(cited))
  BY DEF Tree
<1>2. \A o : References(t, o) \in Nat
  BY <1>1, ReferencesAre
<1>3. ASSUME NEW o, o \notin cited, o # NULL PROVE References(t, o) = 0
  <2>1. \A n \in 1 .. d : \A k \in DOMAIN Ev(t, n) : Ev(t, n)[k].conn_event # o
    <3> SUFFICES ASSUME NEW n \in 1 .. d, NEW k \in DOMAIN Ev(t, n)
                 PROVE  Ev(t, n)[k].conn_event # o
      OBVIOUS
    <3>1. Ev(t, n) \in Seq(TreeEvents(cited)) /\ DOMAIN Ev(t, n) = 1 .. Len(Ev(t, n))
      BY <1>1, SubOf
    <3>2. Ev(t, n)[k] \in TreeEvents(cited)
      BY <3>1
    <3> QED BY <1>3, <3>2 DEF TreeEvents
  <2> QED BY <1>1, <2>1, ReferencesAre
<1> QED BY <1>2, <1>3 DEF Held

\* A tree is one of the events that it cites.
LEMMA TreeCites ==
    ASSUME NEW t, NEW all, Tree(t, all), NULL \notin all
    PROVE  Tree(t, {o \in all : References(t, o) # 0})
<1> DEFINE cited == {o \in all : References(t, o) # 0}
<1>1. PICK d \in Nat : Path(t, d, TransNames, TreeEvents(all))
  BY DEF Tree
<1>2. \A n \in 1 .. d : \A k \in DOMAIN Ev(t, n) : Ev(t, n)[k] \in TreeEvents(cited)
  <2> SUFFICES ASSUME NEW n \in 1 .. d, NEW k \in DOMAIN Ev(t, n)
               PROVE  Ev(t, n)[k] \in TreeEvents(cited)
    OBVIOUS
  <2> DEFINE e == Ev(t, n)[k]
  <2>1. Ev(t, n) \in Seq(TreeEvents(all)) /\ DOMAIN Ev(t, n) = 1 .. Len(Ev(t, n))
    BY <1>1, SubOf
  <2>2. e \in TreeEvents(all)
    BY <2>1
  <2>3. e.conn_event \in all \cup {NULL}
    BY <2>2 DEF TreeEvents
  <2>4. References(t, e.conn_event) # 0
    BY <1>1, ReferencesAre
  <2>5. e.conn_event \in cited \cup {NULL}
    BY <2>3, <2>4
  <2> HIDE DEF e, cited
  <2>6. e \in TreeEvents(cited)
    BY <2>2, <2>5 DEF TreeEvents
  <2> QED BY <2>6 DEF e
<1>3. Path(t, d, TransNames, TreeEvents(cited))
  <2> HIDE DEF cited
  <2> QED BY <1>1, <1>2, Narrowed
<1> QED BY <1>3 DEF Tree

\* A tree whose events are among some has its events among more.
LEMMA TreeWidens ==
    ASSUME NEW t, NEW a, NEW b, Tree(t, a), a \subseteq b
    PROVE  Tree(t, b)
<1>1. TreeEvents(a) \subseteq TreeEvents(b)
  BY DEF TreeEvents
<1> QED BY <1>1, Widened DEF Tree

\* Depths are numbers.
LEMMA Depths == \A d \in Nat : d + 1 \in Nat /\ \A dd \in 0 .. d : dd \in Nat
OBVIOUS

\* Facts about numbers that the steps below need one at a time.
LEMMA Numbers == /\ \A n \in Nat : 2 * n + 1 \in Nat
                 /\ \A n : ~(n >= 1 /\ n = 0)
                 /\ \A n \in Nat : n # 0 => n - 1 \in Nat
                 /\ \A n \in Nat : n <= 1 => n \in 0 .. 1
OBVIOUS

\* gda_connection_internal_statement_executed() keeps a tree, that cites what it
\* cited and the event of the statement.
Kinds == {"begin", "commit", "rollback", "savepoint", "rollback to", "release", "sql", "select"}

\* gda_connection_internal_statement_executed() makes a tree of a tree.
LEMMA TrackKeepsTree ==
    ASSUME NEW t, NEW cited, Tree(t, cited), NEW kind \in Kinds, NEW name \in TransNames,
           kind \in {"savepoint", "rollback to", "release"} => name \in Names,
           NEW typed \in BOOLEAN, NEW id \in Nat, NEW about \in cited \cup {NULL},
           kind = "begin" => Unused(t) # {}
    PROVE  Tree(Track(t, kind, name, typed, id, about), cited)
<1> DEFINE r == Track(t, kind, name, typed, id, about)
           E == TreeEvents(cited)
<1>1. PICK d \in Nat : Path(t, d, TransNames, E)
  BY DEF Tree
<1>0. d \in Nat /\ d + 1 \in Nat /\ \A dd \in 0 .. d : dd \in Nat
  BY Depths
<1>2. /\ SqlEvent(id, about) \in E /\ SubEvent(d + 1) \in E
      /\ \A n \in Names : SavepointEvent(n) \in E
  <2>1. d + 1 \in Nat
    BY <1>0
  <2> QED BY <2>1, Recordable
<1>3. name \in Names => name # NULL
  BY NamesAssumption
<1> HIDE DEF E
<1>4. CASE typed /\ kind = "begin"
  <2>1. r = TransactionStarted(t, name)
    BY <1>4 DEF Track
  <2> HIDE DEF r
  <2>2. Path(r, d + 1, TransNames, E)
    BY <1>1, <1>2, <1>4, <2>1, StartedIs
  <2>3. d + 1 \in Nat
    BY <1>0
  <2>4. Tree(r, cited)
    BY <2>2, <2>3 DEF Tree, E
  <2> QED BY <2>4 DEF r
<1>5. CASE typed /\ kind \in {"commit", "rollback"}
  <2>1. r = TransactionEnded(t, name)
    BY <1>5 DEF Track
  <2> HIDE DEF r
  <2>2. \E dd \in 0 .. d : Path(r, dd, TransNames, E)
    BY <1>1, <2>1, EndedIs
  <2>3. \A dd \in 0 .. d : dd \in Nat
    BY <1>0
  <2>4. Tree(r, cited)
    BY <2>2, <2>3 DEF Tree, E
  <2> QED BY <2>4 DEF r
<1>6. CASE typed /\ kind = "savepoint"
  <2>1. r = SavepointAdded(t, name) /\ SavepointEvent(name) \in E
    BY <1>2, <1>6 DEF Track
  <2> HIDE DEF r
  <2>2. Path(r, d, TransNames, E)
    BY <1>1, <2>1, AddedIs
  <2>3. Tree(r, cited)
    BY <2>2 DEF Tree, E
  <2> QED BY <2>3 DEF r
<1>7. CASE typed /\ kind = "rollback to"
  <2>1. r = SavepointRolledback(t, name) /\ name # NULL
    BY <1>3, <1>7 DEF Track
  <2> HIDE DEF r
  <2>2. Path(r, d, TransNames, E) \/ Path(r, 1, TransNames, E)
    BY <1>1, <2>1, RolledbackIs DEF Rolledback
  <2>3. Tree(r, cited)
    BY <2>2 DEF Tree, E
  <2> QED BY <2>3 DEF r
<1>8. CASE typed /\ kind = "release"
  <2>1. r = SavepointRemoved(t, name) /\ name # NULL
    BY <1>3, <1>8 DEF Track
  <2> HIDE DEF r
  <2>2. Path(r, d, TransNames, E)
    BY <1>1, <2>1, ReleasedIs DEF Released
  <2>3. Tree(r, cited)
    BY <2>2 DEF Tree, E
  <2> QED BY <2>3 DEF r
<1>9. CASE ~typed \/ kind \in {"sql", "select"}
  <2>1. r = SqlExecuted(t, id, about)
    BY <1>9 DEF Track
  <2> HIDE DEF r
  <2>2. Path(r, d, TransNames, E)
    BY <1>1, <1>2, <2>1, ExecutedIs
  <2>3. Tree(r, cited)
    BY <2>2 DEF Tree, E
  <2> QED BY <2>3 DEF r
<1> QED BY <1>4, <1>5, <1>6, <1>7, <1>8, <1>9 DEF Kinds

\* The queries of gda_connection_update_meta_store() cite no event.
LEMMA QueriedKeepsTree ==
    ASSUME NEW t, NEW cited, Tree(t, cited), NEW changed
    PROVE  Tree(Queried(t, changed), cited)
<1>1. PICK d \in Nat : Path(t, d, TransNames, TreeEvents(cited))
  BY DEF Tree
<1>2. SqlEvent(0, NULL) \in TreeEvents(cited)
  BY Recordable
<1>3. Path(SqlExecuted(t, 0, NULL), d, TransNames, TreeEvents(cited))
  BY <1>1, <1>2, ExecutedIs
<1> QED BY <1>1, <1>3 DEF Queried, Tree

-----------------------------------------------------------------------------
(* The events of one execution.                                            *)

\* Objects that cannot be used for a new event, at most.
Spent(ev, after, used) == FreeObjects(ev) \ used \subseteq FreeObjects(after)

\* References that come and go with the tree leave the ring as it is.
LEMMA ReboundKeeps ==
    ASSUME NEW ev, NEW old, NEW new, NEW a, NEW b, Tree(old, a), Tree(new, b),
           EventsInv(ev, Held(old))
    PROVE  /\ EventsInv(Rebound(ev, old, new), Held(new))
           /\ Spent(ev, Rebound(ev, old, new), {o \in EventObjects : References(new, o) # 0})
<1> DEFINE refs == [o \in EventObjects |-> ev.refs[o] + References(new, o) - References(old, o)]
           r == Rebound(ev, old, new)
<1>1. RingInv(ev) /\ Counted(ev, Held(old))
  BY DEF EventsInv
<1>2. ev \in EvRec /\ ev.refs \in [EventObjects -> Nat]
  BY <1>1, RingFields
<1>3. r = [ev EXCEPT !.refs = refs]
  BY DEF Rebound
<1>4. ASSUME NEW o \in EventObjects
      PROVE  /\ refs[o] \in Nat /\ refs[o] >= HeldBy(ev, o) + References(new, o)
             /\ HeldBy(ev, o) \in Nat
             /\ ev.refs[o] = 0 => References(old, o) = 0
  <2>1. /\ ev.refs[o] \in Nat /\ References(old, o) \in Nat /\ References(new, o) \in Nat
    BY <1>2, HeldIs
  <2>2. HeldBy(ev, o) \in Nat
    <3>1. Distinct(ev)
      BY <1>1 DEF RingInv
    <3>2. /\ HeldBy(ev, o) = Shown(ev, o) + Occurrences(ev.list, o)
          /\ Shown(ev, o) \in 0 .. 1 /\ Occurrences(ev.list, o) \in Nat
      BY <1>2, <3>1, HeldByRing
    <3> QED BY <3>2
  <2>3. ev.refs[o] >= HeldBy(ev, o) + References(old, o)
    BY <1>1 DEF Counted, Held
  <2>4. refs[o] = ev.refs[o] + References(new, o) - References(old, o)
    OBVIOUS
  <2> HIDE DEF refs
  <2> QED BY <2>1, <2>2, <2>3, <2>4
<1>5. refs \in [EventObjects -> Nat]
  BY <1>4
<1>6. r \in EvRec
  <2> HIDE DEF refs, r
  <2> QED BY <1>2, <1>3, <1>5 DEF EvRec
<1>7. /\ r.array = ev.array /\ r.size = ev.size /\ r.full = ev.full /\ r.next = ev.next
      /\ r.list = ev.list /\ r.about = ev.about /\ r.log = ev.log /\ r.refs = refs
  <2> HIDE DEF refs, r
  <2> QED BY <1>2, <1>3 DEF EvRec
<1> HIDE DEF r
<1>8. RingInv(r)
  <2>1. EventsType(r)
    BY <1>1, <1>6, <1>7 DEF EventsType, RingInv, EvRec, Slots
  <2>2. Distinct(r) /\ Apart(r)
    BY <1>1, <1>7 DEF RingInv, Distinct, Apart
  <2>3. Recent(r) = Recent(ev) /\ \A j : Age(r, j) = Age(ev, j)
    BY <1>7 DEF Recent, Age
  <2>4. InRing(ev) => InRing(r)
    BY <1>7, <2>3 DEF InRing
  <2>5. InList(ev) => InList(r)
    BY <1>7 DEF InList, Described
  <2> QED BY <1>1, <1>7, <2>1, <2>2, <2>4, <2>5 DEF RingInv
<1>9. Counted(r, Held(new))
  <2> SUFFICES ASSUME NEW o \in EventObjects PROVE r.refs[o] >= HeldBy(r, o) + Held(new)[o]
    BY DEF Counted
  <2>1. HeldBy(r, o) = HeldBy(ev, o) /\ Held(new)[o] = References(new, o)
    BY <1>7 DEF HeldBy, Held
  <2> HIDE DEF refs
  <2> QED BY <1>4, <1>7, <2>1
<1>10. Spent(ev, r, {o \in EventObjects : References(new, o) # 0})
  <2> SUFFICES ASSUME NEW o \in FreeObjects(ev), References(new, o) = 0 PROVE o \in FreeObjects(r)
    BY DEF Spent, FreeObjects
  <2>1. o \in EventObjects /\ ev.refs[o] = 0
    BY DEF FreeObjects
  <2>2. References(old, o) = 0
    BY <1>4, <2>1
  <2>3. refs[o] = 0
    BY <2>1, <2>2
  <2> QED BY <1>7, <2>1, <2>3 DEF FreeObjects
<1> QED BY <1>8, <1>9, <1>10 DEF EventsInv, r

\* An object is left when two are used of the three that CanExecute asks for.
LEMMA OneLeft ==
    ASSUME NEW S, IsFiniteSet(S), Cardinality(S) >= 3, NEW x, NEW y
    PROVE  S \ {x, y} # {}
<1>1. /\ IsFiniteSet(S \ {x}) /\ Cardinality(S \ {x}) >= 2 /\ Cardinality(S \ {x}) \in Nat
  BY FS_RemoveElement, FS_CardinalityType
<1>2. IsFiniteSet((S \ {x}) \ {y}) /\ Cardinality((S \ {x}) \ {y}) >= 1
  BY <1>1, FS_RemoveElement
<1>3. (S \ {x}) \ {y} = S \ {x, y}
  OBVIOUS
<1> QED BY <1>2, <1>3, FS_EmptySet

\* The objects there are to begin with, of which the execution takes two.
Enough(ev) == Cardinality(FreeObjects(ev)) >= 3

\* After the command and its result there is an object left for a query.
LEMMA FreeLeft ==
    ASSUME NEW ev, Enough(ev), NEW x, NEW y
    PROVE  FreeObjects(ev) \ {x, y} # {}
<1>1. IsFiniteSet(FreeObjects(ev))
  BY Objects, FS_Subset DEF FreeObjects
<1> QED BY <1>1, OneLeft DEF Enough

Answers(servers) == {a \in [run : BOOLEAN, ok : BOOLEAN, server : servers] : a.ok => a.run}

\* The events posted keep the invariant; two objects are used, one of them for the
\* event that is recorded with the statement.
LEMMA PostedKeeps ==
    ASSUME NEW held \in [EventObjects -> Nat], EventsInv(events, held), Enough(events),
           ncall \in Nat, NEW kind, NEW answer
    PROVE  LET r == Posted(kind, answer)
               about == AvailableEvent(PostEvent(Began, CommandEvent))
           IN  /\ EventsInv(r, held)
               /\ \E x, y : Spent(events, r, {x, y})
               /\ about \in EventObjects
               /\ answer.run /\ kind # "select" => r.refs[about] >= 1
<1> DEFINE command == PostEvent(Began, CommandEvent)
           result == PostEvent(command, ResultEvent)
           taken == TakeEvent(command, ResultEvent)
           x == AvailableEvent(Began)
           y == AvailableEvent(command)
           r == Posted(kind, answer)
<1>1. EventsInv(Began, held) /\ FreeObjects(Began) = FreeObjects(events)
  BY Cleared DEF Began
<1>2. CommandEvent \in Nat /\ ResultEvent \in Nat
  BY DEF CommandEvent, ResultEvent
<1>3. FreeObjects(Began) # {} /\ FreeObjects(Began) \ {x} # {}
  <2>1. FreeObjects(events) \ {x, x} # {}
    BY FreeLeft
  <2> QED BY <1>1, <2>1
<1>4. /\ EventsInv(command, held) /\ x \in EventObjects /\ command.list = << >>
      /\ FreeObjects(Began) \ {x} \subseteq FreeObjects(command)
  BY <1>1, <1>2, <1>3, Posted1
<1> HIDE DEF command, x
<1>5. FreeObjects(command) # {}
  BY <1>3, <1>4
<1>6. /\ EventsInv(result, held) /\ y \in EventObjects /\ result.refs[y] >= 1
      /\ FreeObjects(command) \ {y} \subseteq FreeObjects(result)
  BY <1>2, <1>4, <1>5, Posted1
<1>7. /\ EventsInv(taken, held) /\ FreeObjects(command) \ {y} \subseteq FreeObjects(taken)
  BY <1>2, <1>4, <1>5, Took
<1>8. r \in {Began, command, result, taken} /\ (answer.run /\ kind # "select" => r = result)
  BY DEF Posted, command
<1> HIDE DEF result, taken, y, r
<1>9. EventsInv(r, held)
  BY <1>1, <1>4, <1>6, <1>7, <1>8
<1>10. Spent(events, r, {x, y})
  BY <1>1, <1>4, <1>6, <1>7, <1>8 DEF Spent
<1>11. \E u, v : Spent(events, r, {u, v})
  BY <1>10
<1> QED BY <1>6, <1>8, <1>9, <1>11 DEF r, y, command

-----------------------------------------------------------------------------
(* The server.                                                             *)

FrameSet == [kind : {"transaction", "savepoint"}, name : TransNames,
             tables : SUBSET Tables, done : Seq(Nat)]
ServerSet == [session : Seq(FrameSet), tables : SUBSET Tables, done : Seq(Nat), failed : BOOLEAN]

\* A session begins with a transaction; with SQLite it may be a savepoint.
Begun(session) == session # NoSession /\ engine # "sqlite" => session[1].kind = "transaction"
Servers == {s \in ServerSet : Begun(s.session)}
ServerOK == server \in Servers /\ engine \in Engines /\ ncall \in Nat

\* A part of the session.
LEMMA PartOf ==
    ASSUME server \in Servers, NEW n \in Nat, n <= Len(Session)
    PROVE  /\ SubSeq(Session, 1, n) \in Seq(FrameSet) /\ Len(SubSeq(Session, 1, n)) = n
           /\ \A i \in 1 .. n : SubSeq(Session, 1, n)[i] = Session[i]
           /\ (SubSeq(Session, 1, n) = NoSession <=> n = 0)
           /\ Begun(SubSeq(Session, 1, n))
<1>1. Session \in Seq(FrameSet) /\ Len(Session) \in Nat /\ DOMAIN Session = 1 .. Len(Session)
      /\ Begun(Session)
  BY DEF Servers, ServerSet, Session
<1> DEFINE s == Session
           r == SubSeq(s, 1, n)
<1>2. /\ r \in Seq(FrameSet) /\ Len(r) = (IF 1 <= n THEN n - 1 + 1 ELSE 0)
      /\ \A i \in 1 .. n - 1 + 1 : r[i] = s[1 + i - 1]
  <2>1. 1 \in Int /\ n \in Int /\ \A i \in 1 .. n : s[i] \in FrameSet
    BY <1>1
  <2> HIDE DEF s
  <2> QED BY <2>1, SubSeqProperties
<1>3. (IF 1 <= n THEN n - 1 + 1 ELSE 0) = n /\ n - 1 + 1 = n /\ \A i \in 1 .. n : 1 + i - 1 = i
  OBVIOUS
<1>4. r \in Seq(FrameSet) /\ Len(r) = n /\ \A i \in 1 .. n : r[i] = s[i]
  BY <1>2, <1>3
<1> HIDE DEF r
<1>5. r = << >> <=> n = 0
  BY <1>4, EmptySeq
<1>6. Begun(r)
  <2> SUFFICES ASSUME r # NoSession, engine # "sqlite" PROVE r[1].kind = "transaction"
    BY DEF Begun
  <2>1. 1 \in 1 .. n /\ s # NoSession
    <3>1. n # 0
      BY <1>5 DEF NoSession
    <3>2. Len(s) # 0
      BY <1>1, <3>1
    <3> QED BY <1>1, <3>1, <3>2, EmptySeq DEF NoSession
  <2> QED BY <1>1, <1>4, <2>1 DEF Begun
<1> QED BY <1>4, <1>5, <1>6 DEF r, NoSession

\* The states an answer can leave the server in are states of the server.
LEMMA ServerStates ==
    ASSUME ServerOK
    PROVE  /\ \A frame \in FrameSet : \A n \in Nat : n <= Len(Session) => Restored(n, frame) \in Servers
           /\ \A session \in Seq(FrameSet) : Begun(session) => With(session) \in Servers
           /\ Refused \in Answers(Servers) /\ Unprepared \in Answers(Servers)
           /\ \A s \in Servers : Done(s) \in Answers(Servers)
           /\ \A a \in Answers(Servers), s \in Servers : [a EXCEPT !.server = s] \in Answers(Servers)
<1>0. server \in Servers /\ server \in ServerSet /\ Begun(server.session)
  BY DEF ServerOK, Servers
<1>1. ASSUME NEW frame \in FrameSet, NEW n \in Nat, n <= Len(Session)
      PROVE  Restored(n, frame) \in Servers
  <2> DEFINE part == SubSeq(Session, 1, n)
  <2>1. part \in Seq(FrameSet) /\ Begun(part)
    BY <1>0, <1>1, PartOf
  <2> HIDE DEF part
  <2>2. Restored(n, frame) = [server EXCEPT !.session = part, !.failed = FALSE,
                                            !.tables = frame.tables, !.done = frame.done]
    BY DEF Restored, part
  <2>3. Restored(n, frame) \in ServerSet /\ Restored(n, frame).session = part
    BY <1>0, <2>1, <2>2 DEF ServerSet, FrameSet
  <2> QED BY <2>1, <2>3 DEF Servers
<1>2. ASSUME NEW session \in Seq(FrameSet), Begun(session)
      PROVE  With(session) \in Servers
  <2> DEFINE done == IF session = NoSession THEN << >> ELSE server.done
  <2>1. done \in Seq(Nat)
    <3>1. << >> \in Seq(Nat)
      BY EmptySeq
    <3> QED BY <1>0, <3>1 DEF ServerSet
  <2>2. With(session) = [server EXCEPT !.session = session, !.done = done]
    BY DEF With
  <2> HIDE DEF done
  <2>3. With(session) \in ServerSet /\ With(session).session = session
    BY <1>0, <2>1, <2>2 DEF ServerSet
  <2> QED BY <1>2, <2>3 DEF Servers
<1>3. Refused \in Answers(Servers)
  <2> DEFINE failed == (engine = "postgres" /\ InTransaction)
             s == [server EXCEPT !.failed = failed]
  <2>1. failed \in BOOLEAN
    OBVIOUS
  <2>2. Refused = [run |-> TRUE, ok |-> FALSE, server |-> s]
    BY DEF Refused
  <2> HIDE DEF failed
  <2>3. s \in ServerSet /\ s.session = server.session
    BY <1>0, <2>1 DEF ServerSet
  <2>4. s \in Servers
    BY <1>0, <2>3 DEF Servers
  <2> HIDE DEF s
  <2> QED BY <2>2, <2>4 DEF Answers
<1>4. Unprepared \in Answers(Servers)
  BY <1>0 DEF Unprepared, Answers
<1>5. \A s \in Servers : Done(s) \in Answers(Servers)
  BY DEF Done, Answers
<1>6. ASSUME NEW a \in Answers(Servers), NEW s \in Servers
      PROVE  [a EXCEPT !.server = s] \in Answers(Servers)
  BY DEF Answers
<1> QED BY <1>1, <1>2, <1>3, <1>4, <1>5, <1>6

\* The last of some positions.
LEMMA LastOne ==
    ASSUME NEW d \in Nat, NEW S, S \subseteq 1 .. d, S # {}
    PROVE  \E i \in S : \A j \in S : j <= i
<1> DEFINE D == {d - i : i \in S}
<1>0. \A i \in 1 .. d : i \in Nat /\ d - i \in Nat
  OBVIOUS
<1>1. D \subseteq Nat /\ D # {}
  BY <1>0, Zenon
<1>2. Earliest(D) \in D /\ \A j \in D : Earliest(D) <= j
  <2> HIDE DEF D
  <2> QED BY <1>1, EarliestIs
<1>3. PICK i \in S : Earliest(D) = d - i
  BY <1>2
<1>4. ASSUME NEW j \in S PROVE j <= i
  <2>1. d - j \in D
    OBVIOUS
  <2>2. d - i <= d - j
    BY <1>2, <1>3, <2>1
  <2>3. i \in Nat /\ j \in Nat
    OBVIOUS
  <2> QED BY <2>2, <2>3
<1> QED BY <1>4

\* The innermost transaction of a session, the positions that can be returned to.
LEMMA InnermostIs ==
    ASSUME ServerOK, Transactions # {}
    PROVE  /\ Innermost \in Transactions /\ \A j \in Transactions : j <= Innermost
           /\ Transactions \subseteq 1 .. Len(Session)
<1>1. Session \in Seq(FrameSet) /\ DOMAIN Session = 1 .. Len(Session) /\ Len(Session) \in Nat
  BY DEF ServerOK, Servers, ServerSet, Session
<1>2. Transactions \subseteq 1 .. Len(Session)
  BY <1>1 DEF Transactions
<1>3. \E i \in Transactions : \A j \in Transactions : j <= i
  BY <1>1, <1>2, LastOne
<1> QED BY <1>2, <1>3 DEF Innermost

\* The savepoint that a name denotes comes after all transactions.
LEMMA LatestIs ==
    ASSUME ServerOK, NEW name, Reachable(name) # {}
    PROVE  /\ Latest(name) \in Reachable(name) /\ \A j \in Reachable(name) : j <= Latest(name)
           /\ Latest(name) \in 1 .. Len(Session) /\ \A j \in Transactions : j < Latest(name)
           /\ Session[Latest(name)].kind = "savepoint" /\ Session[Latest(name)].name = name
<1>1. Session \in Seq(FrameSet) /\ DOMAIN Session = 1 .. Len(Session) /\ Len(Session) \in Nat
  BY DEF ServerOK, Servers, ServerSet, Session
<1>2. Reachable(name) \subseteq 1 .. Len(Session)
  BY <1>1 DEF Reachable
<1>3. \E i \in Reachable(name) : \A j \in Reachable(name) : j <= i
  BY <1>1, <1>2, LastOne
<1>4. Latest(name) \in Reachable(name) /\ \A j \in Reachable(name) : j <= Latest(name)
  BY <1>3 DEF Latest
<1> QED BY <1>2, <1>4 DEF Reachable

\* A frame for the state the server is in.
LEMMA Framed ==
    ASSUME server \in Servers, NEW kind \in {"transaction", "savepoint"}, NEW name \in TransNames,
           Session = NoSession /\ engine # "sqlite" => kind = "transaction"
    PROVE  /\ Frame(kind, name) \in FrameSet
           /\ Append(Session, Frame(kind, name)) \in Seq(FrameSet)
           /\ Begun(Append(Session, Frame(kind, name)))
<1>1. server \in ServerSet /\ Begun(Session)
  BY DEF Servers, Session
<1>2. Frame(kind, name) \in FrameSet /\ Frame(kind, name).kind = kind
  BY <1>1 DEF Frame, FrameSet, ServerSet
<1> DEFINE s == Session
           f == Frame(kind, name)
<1>3. s \in Seq(FrameSet)
  BY <1>1 DEF ServerSet, Session
<1> HIDE DEF s, f
<1>4. /\ Append(s, f) \in Seq(FrameSet)
      /\ Append(s, f)[1] = IF Len(s) = 0 THEN f ELSE s[1]
      /\ Len(s) = 0 <=> s = << >>
  BY <1>2, <1>3, EmptySeq DEF f
<1>5. Begun(Append(s, f))
  BY <1>1, <1>2, <1>4 DEF Begun, s, f, NoSession
<1> QED BY <1>2, <1>4, <1>5 DEF s, f

\* The session is a sequence of frames; the first is there when there is one.
LEMMA SessionIs ==
    ASSUME server \in Servers
    PROVE  /\ Session \in Seq(FrameSet) /\ Len(Session) \in Nat /\ DOMAIN Session = 1 .. Len(Session)
           /\ \A i \in 1 .. Len(Session) : Session[i] \in FrameSet
           /\ InTransaction <=> Len(Session) # 0
           /\ InTransaction => 1 \in 1 .. Len(Session) /\ Session[1] \in FrameSet
           /\ Begun(Session)
<1>1. Session \in Seq(FrameSet) /\ Len(Session) \in Nat /\ DOMAIN Session = 1 .. Len(Session)
  BY DEF Servers, ServerSet, Session
<1>2. InTransaction <=> Len(Session) # 0
  BY <1>1, EmptySeq DEF InTransaction, NoSession
<1>3. \A i \in 1 .. Len(Session) : Session[i] \in FrameSet
  BY <1>1
<1>4. InTransaction => 1 \in 1 .. Len(Session)
  BY <1>1, <1>2
<1> QED BY <1>1, <1>2, <1>3, <1>4 DEF Servers, Session

\* The positions that the end of a transaction returns to.
LEMMA OuterIs ==
    ASSUME ServerOK, NEW name, InTransaction, NEW n \in Outer(name)
    PROVE  /\ n \in Nat /\ n < Len(Session) /\ n + 1 \in 1 .. Len(Session)
           /\ Session[n + 1] \in FrameSet
           /\ engine # "nesting" => n = 0
           /\ engine = "nesting" => /\ n = Innermost - 1 /\ Innermost \in Transactions
                                    /\ name # NULL => Session[Innermost].name = name
<1>1. /\ Len(Session) \in Nat /\ 1 \in 1 .. Len(Session) /\ DOMAIN Session = 1 .. Len(Session)
      /\ \A i \in 1 .. Len(Session) : Session[i] \in FrameSet
      /\ Begun(Session)
  BY SessionIs DEF ServerOK
<1>2. CASE engine # "nesting"
  BY <1>1, <1>2 DEF Outer
<1>3. CASE engine = "nesting"
  <2>1. 1 \in Transactions
    BY <1>1, <1>3 DEF Transactions, Begun, InTransaction
  <2>2. Innermost \in Transactions /\ Transactions \subseteq 1 .. Len(Session)
    BY <2>1, InnermostIs
  <2>3. n = Innermost - 1 /\ (name # NULL => Session[Innermost].name = name)
    BY <1>3 DEF Outer
  <2>4. n \in Nat /\ n < Len(Session) /\ n + 1 = Innermost
    BY <1>1, <2>2, <2>3
  <2> QED BY <1>1, <1>3, <2>2, <2>3, <2>4
<1> QED BY <1>2, <1>3

\* What the server answers to a BEGIN, and the state it leaves.
LEMMA BeginAnswersAre ==
    ASSUME ServerOK, NEW name \in TransNames
    PROVE  BeginAnswers(name) \subseteq Answers(Servers)
<1>1. server \in Servers
  BY DEF ServerOK
<1>2. With(Append(Session, Frame("transaction", name))) \in Servers
  BY <1>1, Framed, ServerStates
<1> QED BY <1>1, <1>2, ServerStates DEF BeginAnswers

\* ... to a SAVEPOINT.
LEMMA SavepointAnswersAre ==
    ASSUME ServerOK, NEW name \in TransNames
    PROVE  SavepointAnswers(name) \subseteq Answers(Servers)
<1>1. server \in Servers
  BY DEF ServerOK
<1>2. InTransaction \/ engine = "sqlite" => With(Append(Session, Frame("savepoint", name))) \in Servers
  BY <1>1, Framed, ServerStates DEF InTransaction
<1> QED BY <1>1, <1>2, ServerStates DEF SavepointAnswers

\* ... when it undoes all of the transaction.
LEMMA UndoneAll ==
    ASSUME ServerOK, InTransaction
    PROVE  Restored(0, Session[1]) \in Servers
<1>1. server \in Servers /\ Session[1] \in FrameSet /\ 0 <= Len(Session)
  BY SessionIs DEF ServerOK
<1> QED BY <1>1, ServerStates

\* ... to a COMMIT.
LEMMA CommitAnswersAre ==
    ASSUME ServerOK, NEW name \in TransNames
    PROVE  CommitAnswers(name) \subseteq Answers(Servers)
<1>1. server \in Servers
  BY DEF ServerOK
<1>2. \A s \in Servers : Done(s) \in Answers(Servers) /\ [Refused EXCEPT !.server = s] \in Answers(Servers)
  BY ServerStates
<1>3. InTransaction => Restored(0, Session[1]) \in Servers
  BY UndoneAll
<1>4. ASSUME InTransaction, NEW n \in Outer(name)
      PROVE  Done(With(SubSeq(Session, 1, n))) \in Answers(Servers)
  <2>1. n \in Nat /\ n <= Len(Session)
    BY <1>1, <1>4, OuterIs, SessionIs
  <2>2. SubSeq(Session, 1, n) \in Seq(FrameSet) /\ Begun(SubSeq(Session, 1, n))
    BY <1>1, <2>1, PartOf
  <2>3. With(SubSeq(Session, 1, n)) \in Servers
    BY <2>2, ServerStates
  <2> QED BY <1>2, <2>3
<1> QED BY <1>1, <1>2, <1>3, <1>4, ServerStates DEF CommitAnswers, NothingToEnd

\* ... to a ROLLBACK.
LEMMA RollbackAnswersAre ==
    ASSUME ServerOK, NEW name \in TransNames
    PROVE  RollbackAnswers(name) \subseteq Answers(Servers)
<1>1. server \in Servers
  BY DEF ServerOK
<1>2. \A s \in Servers : Done(s) \in Answers(Servers)
  BY ServerStates
<1>3. ASSUME InTransaction, NEW n \in Outer(name)
      PROVE  Done(Restored(n, Session[n + 1])) \in Answers(Servers)
  <2>1. n \in Nat /\ n <= Len(Session) /\ Session[n + 1] \in FrameSet
    BY <1>1, <1>3, OuterIs, SessionIs
  <2>2. Restored(n, Session[n + 1]) \in Servers
    BY <2>1, ServerStates
  <2> QED BY <1>2, <2>2
<1> QED BY <1>1, <1>2, <1>3, ServerStates DEF RollbackAnswers, NothingToEnd

\* ... to a ROLLBACK TO.
LEMMA RollbackToAnswersAre ==
    ASSUME ServerOK, NEW name \in TransNames
    PROVE  RollbackToAnswers(name) \subseteq Answers(Servers)
<1>1. server \in Servers
  BY DEF ServerOK
<1>2. CASE Reachable(name) # {}
  <2> DEFINE n == Latest(name)
  <2>1. n \in 1 .. Len(Session)
    BY <1>2, LatestIs
  <2>2. n \in Nat /\ n <= Len(Session) /\ Session[n] \in FrameSet
    BY <1>1, <2>1, SessionIs
  <2> HIDE DEF n
  <2>3. Restored(n, Session[n]) \in Servers
    BY <2>2, ServerStates
  <2>4. Done(Restored(n, Session[n])) \in Answers(Servers)
    BY <2>3, ServerStates
  <2> QED BY <1>2, <2>4 DEF RollbackToAnswers, n
<1> QED BY <1>2, ServerStates DEF RollbackToAnswers

\* ... to a RELEASE.
LEMMA ReleaseAnswersAre ==
    ASSUME ServerOK, NEW name \in TransNames
    PROVE  ReleaseAnswers(name) \subseteq Answers(Servers)
<1>1. server \in Servers
  BY DEF ServerOK
<1>2. CASE Reachable(name) # {}
  <2> DEFINE n == Latest(name) - 1
  <2>1. Latest(name) \in 1 .. Len(Session)
    BY <1>2, LatestIs
  <2>2. n \in Nat /\ n <= Len(Session)
    BY <1>1, <2>1, SessionIs
  <2> HIDE DEF n
  <2>3. With(SubSeq(Session, 1, n)) \in Servers
    BY <1>1, <2>2, PartOf, ServerStates
  <2>4. Done(With(SubSeq(Session, 1, n))) \in Answers(Servers)
    BY <2>3, ServerStates
  <2> QED BY <1>2, <2>4, ServerStates DEF ReleaseAnswers, n
<1> QED BY <1>2, ServerStates DEF ReleaseAnswers

\* ... to any other statement.
LEMMA SqlAnswersAre ==
    ASSUME ServerOK, NEW able, NEW tables \in SUBSET Tables
    PROVE  SqlAnswers(able, tables) \subseteq Answers(Servers)
<1>1. server \in Servers /\ ncall + 1 \in Nat
  BY DEF ServerOK
<1> DEFINE done == IF InTransaction THEN Append(server.done, ncall + 1) ELSE server.done
           s == [server EXCEPT !.tables = tables, !.done = done]
<1>2. server \in ServerSet /\ Begun(server.session)
  BY <1>1 DEF Servers
<1>3. done \in Seq(Nat)
  <2>1. server.done \in Seq(Nat)
    BY <1>2 DEF ServerSet
  <2> DEFINE d == server.done
             n == ncall + 1
  <2> HIDE DEF d, n
  <2>2. Append(d, n) \in Seq(Nat)
    BY <1>1, <2>1 DEF d, n
  <2> QED BY <2>1, <2>2 DEF d, n
<1>4. s \in Servers
  <2> HIDE DEF done
  <2>1. s \in ServerSet /\ s.session = server.session
    BY <1>2, <1>3 DEF ServerSet
  <2> QED BY <1>2, <2>1 DEF Servers
<1>5. InTransaction => [Refused EXCEPT !.server = Restored(0, Session[1])] \in Answers(Servers)
  BY UndoneAll, ServerStates
<1>6. Done(s) \in Answers(Servers)
  <2> HIDE DEF s
  <2> QED BY <1>4, ServerStates
<1> QED BY <1>5, <1>6, ServerStates DEF SqlAnswers

-----------------------------------------------------------------------------
(* Type correctness, the events and their references.                      *)

\* The events of the connection and the tree that refers to them, with the types of
\* the other variables.
CoreInv == /\ TypeOK /\ Begun(Session)
           /\ Tree(trans, EventObjects) /\ EventsInv(events, Held(trans))

\* An object that is free is neither held nor referred to.
LEMMA FreeIsUncited ==
    ASSUME NEW ev, NEW held \in [EventObjects -> Nat], EventsInv(ev, held), NEW o \in FreeObjects(ev)
    PROVE  o \in EventObjects /\ ev.refs[o] = 0 /\ held[o] = 0
<1>1. o \in EventObjects /\ ev.refs[o] = 0 /\ held[o] \in Nat
  BY DEF FreeObjects
<1>2. RingInv(ev) /\ ev.refs[o] >= HeldBy(ev, o) + held[o]
  BY <1>1 DEF EventsInv, Counted
<1>3. ev \in EvRec /\ Distinct(ev)
  BY <1>2, RingFields DEF RingInv
<1>4. /\ HeldBy(ev, o) = Shown(ev, o) + Occurrences(ev.list, o)
      /\ Shown(ev, o) \in 0 .. 1 /\ Occurrences(ev.list, o) \in Nat
  BY <1>1, <1>3, HeldByRing
<1> QED BY <1>1, <1>2, <1>4

\* What one execution does to the tree and the events.
LEMMA ExecutionKeeps ==
    ASSUME CoreInv, Enough(events), NEW kind \in Kinds, NEW name \in TransNames,
           kind \in {"savepoint", "rollback to", "release"} => name \in Names,
           NEW typed \in BOOLEAN, NEW answer \in Answers(Servers),
           kind = "begin" => Unused(trans) # {},
           NEW changed
    PROVE  LET t == IF Told(answer)
                    THEN Track(trans, kind, name, typed, ncall + 1, AboutStatement(kind)) ELSE trans
               after == Queried(t, changed)
           IN  /\ Tree(t, EventObjects) /\ Tree(after, EventObjects)
               /\ EventsInv(QueryEvents(Rebound(Posted(kind, answer), trans, after), changed), Held(after))
<1> DEFINE about == AvailableEvent(PostEvent(Began, CommandEvent))
           a == AboutStatement(kind)
           cited == {o \in EventObjects : References(trans, o) # 0}
           used == IF Told(answer) /\ a # NULL THEN cited \cup {a} ELSE cited
           t == IF Told(answer) THEN Track(trans, kind, name, typed, ncall + 1, a) ELSE trans
           after == Queried(t, changed)
           p == Posted(kind, answer)
           r == Rebound(p, trans, after)
           q == QueryEvents(r, changed)
<1>1. /\ Tree(trans, EventObjects) /\ EventsInv(events, Held(trans)) /\ ncall \in Nat
  BY DEF CoreInv, TypeOK
<1>2. Held(trans) \in [EventObjects -> Nat] /\ NULL \notin EventObjects /\ EventObjects \subseteq Nat
  BY <1>1, HeldIs, Objects, TransAssumption
<1>3. /\ EventsInv(p, Held(trans)) /\ about \in EventObjects
      /\ \E x, y : Spent(events, p, {x, y})
      /\ answer.run /\ kind # "select" => p.refs[about] >= 1
  <2> HIDE DEF p, about
  <2> QED BY <1>1, <1>2, PostedKeeps DEF p, about
<1>4. (a = NULL \/ (a = about /\ kind # "select")) /\ (Told(answer) => answer.run)
  BY DEF AboutStatement, Told, Answers
<1> HIDE DEF about, p
<1>5. cited \subseteq EventObjects /\ used \subseteq EventObjects
  BY <1>3, <1>4
<1>6. Tree(trans, cited)
  BY <1>1, <1>2, TreeCites
<1>7. Tree(t, used)
  <2>1. CASE Told(answer)
    <3>1. Tree(trans, used)
      <4>1. cited \subseteq used
        OBVIOUS
      <4> HIDE DEF cited, used
      <4> QED BY <1>6, <4>1, TreeWidens
    <3>2. ncall + 1 \in Nat
      BY <1>1, Depths
    <3>3. a \in used \cup {NULL}
      BY <2>1
    <3> HIDE DEF a, used
    <3>4. Tree(Track(trans, kind, name, typed, ncall + 1, a), used)
      BY <3>1, <3>2, <3>3, TrackKeepsTree
    <3> QED BY <2>1, <3>4
  <2>2. CASE ~Told(answer)
    BY <1>6, <2>2
  <2> QED BY <2>1, <2>2
<1> HIDE DEF t
<1>8. Tree(after, used)
  <2> HIDE DEF used
  <2> QED BY <1>7, QueriedKeepsTree
<1> HIDE DEF after
<1>9. /\ EventsInv(r, Held(after))
      /\ Spent(p, r, {o \in EventObjects : References(after, o) # 0})
  <2> HIDE DEF used
  <2> QED BY <1>1, <1>3, <1>8, ReboundKeeps
<1>10. FreeObjects(r) # {}
  <2>1. PICK x, y : Spent(events, p, {x, y})
    BY <1>3
  <2>2. PICK o \in FreeObjects(events) : o \notin {x, y}
    <3>1. FreeObjects(events) \ {x, y} # {}
      BY FreeLeft
    <3> QED BY <3>1
  <2>3. o \in FreeObjects(p)
    BY <2>1, <2>2 DEF Spent
  <2>4. o \in EventObjects /\ Held(trans)[o] = 0 /\ p.refs[o] = 0
    BY <1>1, <1>2, <1>3, <2>2, <2>3, FreeIsUncited
  <2>5. o \notin used
    <3>1. o \notin cited
      BY <2>4 DEF Held
    <3>2. ASSUME Told(answer), a # NULL, o = a PROVE FALSE
      <4>1. p.refs[about] >= 1 /\ p.refs[about] = 0
        BY <1>3, <1>4, <2>4, <3>2
      <4> QED BY <4>1, Numbers
    <3> QED BY <3>1, <3>2
  <2>6. References(after, o) = 0
    <3>1. o # NULL
      BY <1>2, <2>4
    <3> HIDE DEF used
    <3> QED BY <1>8, <2>5, <3>1, HeldIs
  <2> QED BY <1>9, <2>3, <2>6 DEF Spent
<1>11. Held(after) \in [EventObjects -> Nat]
  <2> HIDE DEF used
  <2> QED BY <1>8, HeldIs
<1> HIDE DEF r
<1>12. EventsInv(q, Held(after))
  <2>1. CommandEvent \in Nat
    BY <1>1, Numbers DEF CommandEvent
  <2> DEFINE c == IF batch = 0 THEN ClearEvents(r) ELSE r
  <2>2. EventsInv(c, Held(after)) /\ FreeObjects(c) # {}
    BY <1>9, <1>10, Cleared
  <2> HIDE DEF c
  <2>3. EventsInv(PostEvent(c, CommandEvent), Held(after))
    BY <1>11, <2>1, <2>2, Posted1
  <2> QED BY <1>9, <2>3 DEF QueryEvents, c
<1>13. Tree(t, EventObjects) /\ Tree(after, EventObjects)
  BY <1>5, <1>7, <1>8, TreeWidens
<1> HIDE DEF q
<1> QED BY <1>12, <1>13 DEF q, r, p, after, t

\* The root is in the tree.
LEMMA RootIn ==
    ASSUME NEW t, NEW cited, Tree(t, cited)
    PROVE  t.root \in DOMAIN t.node \cup {NULL}
<1>1. PICK d \in Nat : Path(t, d, TransNames, TreeEvents(cited))
  BY DEF Tree
<1>2. t.root = (IF d = 0 THEN NULL ELSE 1) /\ DOMAIN t.node = 1 .. d
  BY <1>1, PathOf
<1>3. d # 0 => 1 \in 1 .. d
  BY Depths
<1> QED BY <1>2, <1>3

\* gda_connection_statement_execute_v() with all that follows it.
LEMMA ExecuteKeeps ==
    ASSUME CoreInv, Enough(events), NEW kind \in Kinds, NEW name \in TransNames,
           kind \in {"savepoint", "rollback to", "release"} => name \in Names,
           NEW typed \in BOOLEAN, NEW answer \in Answers(Servers), NEW changed \in SUBSET Tables,
           kind = "begin" => Unused(trans) # {},
           Execute(kind, name, typed, changed, answer), regular' \in BOOLEAN, exact' \in BOOLEAN
    PROVE  CoreInv'
<1> DEFINE t == IF Told(answer)
                THEN Track(trans, kind, name, typed, ncall + 1, AboutStatement(kind)) ELSE trans
           called  == auto_meta /\ answer.ok
           updates == called /\ MetaAsserts(kind, typed)
           stale   == IF updates THEN Contexts(kind, typed, changed) ELSE {}
           after   == Queried(t, stale)
<1>1. TypeOK /\ Begun(Session)
  BY DEF CoreInv
<1>2. /\ server' = answer.server
      /\ aborted' = (called /\ ~updates)
      /\ trans_meta_context' = IF updates THEN AfterContexts(kind, typed, changed) ELSE trans_meta_context
      /\ meta' = Refresh(meta, stale, answer.server.tables)
      /\ trans' = after
      /\ events' = QueryEvents(Rebound(Posted(kind, answer), trans, after), stale)
      /\ batch' = IF batch = 0 \/ ~answer.ok THEN 0 ELSE batch - 1
      /\ ncall' = ncall + 1 /\ engine' = engine /\ auto_meta' = auto_meta
  BY DEF Execute, UpdateMeta
<1>3. /\ Tree(after, EventObjects)
      /\ EventsInv(QueryEvents(Rebound(Posted(kind, answer), trans, after), stale), Held(after))
  <2> HIDE DEF stale
  <2> QED BY ExecutionKeeps
<1> HIDE DEF after
<1>4. Tree(trans', EventObjects) /\ EventsInv(events', Held(trans'))
  BY <1>2, <1>3
<1>5. trans'.root \in DOMAIN trans'.node \cup {NULL}
  BY <1>4, RootIn
<1>6. EventsType(events')
  BY <1>4 DEF EventsInv, RingInv
<1>7. server' \in ServerSet /\ Begun(server'.session) /\ server'.tables \subseteq Tables
  BY <1>2 DEF Answers, Servers, ServerSet
<1>8. ncall' \in Nat /\ batch' \in Nat
  <2>1. ncall' \in Nat
    BY <1>1, <1>2, Depths DEF TypeOK
  <2>2. \A n \in Nat : n # 0 => n - 1 \in Nat
    BY Numbers
  <2>3. batch \in Nat
    BY <1>1 DEF TypeOK
  <2> QED BY <1>2, <2>1, <2>2, <2>3
<1>9. trans_meta_context' = NULL \/ trans_meta_context' \subseteq Tables
  <2>1. trans_meta_context = NULL \/ trans_meta_context \subseteq Tables
    BY <1>1 DEF TypeOK
  <2>2. \/ AfterContexts(kind, typed, changed) \in {{}, NULL}
        \/ /\ trans_meta_context # NULL
           /\ AfterContexts(kind, typed, changed) = trans_meta_context \cup changed
    BY DEF AfterContexts
  <2> HIDE DEF updates
  <2> QED BY <1>2, <2>1, <2>2
<1>10. meta' \subseteq Tables
  <2>1. meta \subseteq Tables /\ answer.server.tables \subseteq Tables
    BY <1>1, <1>2, <1>7 DEF TypeOK
  <2> HIDE DEF stale
  <2>2. Refresh(meta, stale, answer.server.tables) \subseteq Tables
    BY <2>1 DEF Refresh
  <2> QED BY <1>2, <2>2
<1>11. aborted' \in BOOLEAN
  BY <1>2
<1>12. TypeOK'
  <2>1. engine' \in Engines /\ auto_meta' \in BOOLEAN
    BY <1>1, <1>2 DEF TypeOK
  <2> HIDE DEF called, updates, stale
  <2> QED BY <1>5, <1>6, <1>7, <1>8, <1>9, <1>10, <1>11, <2>1 DEF TypeOK, ServerSet, FrameSet, TransNames
<1>13. Begun(Session)'
  BY <1>2, <1>7 DEF Begun, Session
<1> QED BY <1>4, <1>12, <1>13 DEF CoreInv

\* An execution is of one of the kinds, with its name, and an answer of the server.
LEMMA ServerIs ==
    ASSUME CoreInv
    PROVE  /\ ServerOK /\ server.tables \in SUBSET Tables
           /\ server \in Servers /\ regular \in BOOLEAN /\ exact \in BOOLEAN
<1>1. TypeOK /\ Begun(server.session)
  BY DEF CoreInv, Session
<1>2. server \in ServerSet
  BY <1>1 DEF TypeOK, ServerSet, FrameSet, TransNames
<1>3. server \in Servers /\ server.tables \in SUBSET Tables
  BY <1>1, <1>2 DEF Servers, ServerSet
<1> QED BY <1>1, <1>3 DEF ServerOK, TypeOK

\* The statements of Next, as executions.
Executions(kind, name, changed, answers) ==
    /\ Enough(events)
    /\ \E typed \in BOOLEAN, answer \in answers : Execute(kind, name, typed, changed, answer)
    /\ regular' \in BOOLEAN /\ exact' \in BOOLEAN

\* A statement is recognised or it is not.
LEMMA TypedIs == \A name : Typed(name) \subseteq BOOLEAN
BY DEF Typed

\* Each statement of Next is an execution: BEGIN,
LEMMA BeginExecutes ==
    ASSUME CoreInv, NEW name \in TransNames, Begin(name)
    PROVE  Executions("begin", name, {}, BeginAnswers(name)) /\ Unused(trans) # {}
<1>1. PICK typed \in Typed(name), answer \in BeginAnswers(name) :
         /\ Execute("begin", name, typed, {}, answer)
         /\ Irregular(\/ answer.ok /\ ~typed
                      \/ answer.ok /\ InTransaction /\ engine = "postgres"
                      \/ name \in Known /\ name # NULL)
  BY DEF Begin
<1>2. regular' \in BOOLEAN
  BY <1>1 DEF Irregular
<1>3. exact' \in BOOLEAN
  BY DEF Begin
<1>4. Enough(events) /\ Unused(trans) # {}
  BY DEF Begin, CanExecute, CanBegin, Enough
<1>5. \E ty \in BOOLEAN, a \in BeginAnswers(name) : Execute("begin", name, ty, {}, a)
  BY <1>1, TypedIs
<1> QED BY <1>2, <1>3, <1>4, <1>5 DEF Executions

\* COMMIT and ROLLBACK,
LEMMA EndExecutes ==
    ASSUME CoreInv, NEW kind, NEW name, NEW answers, End(kind, name, answers)
    PROVE  Executions(kind, name, {}, answers)
<1>1. PICK typed \in Typed(name), answer \in answers :
         /\ Execute(kind, name, typed, {}, answer)
         /\ Irregular(\/ answer.ok /\ ~typed
                      \/ answer.ok /\ ~InTransaction
                      \/ /\ name # NULL
                         /\ trans.root = NULL \/ Last(Nesting(trans)) # name
                              \/ Len(Nesting(trans)) > 2)
         /\ exact' = (exact /\ \/ kind = "rollback" /\ answer.ok
                               \/ answer.server.tables = server.tables
                                     /\ (answer.ok \/ answer.server.session = Session))
  BY DEF End
<1>2. regular' \in BOOLEAN
  BY <1>1 DEF Irregular
<1>3. exact' \in BOOLEAN
  BY <1>1
<1>4. Enough(events)
  BY DEF End, CanExecute, Enough
<1>5. \E ty \in BOOLEAN, a \in answers : Execute(kind, name, ty, {}, a)
  BY <1>1, TypedIs
<1> QED BY <1>2, <1>3, <1>4, <1>5 DEF Executions

\* SAVEPOINT,
LEMMA AddSavepointExecutes ==
    ASSUME CoreInv, NEW name \in Names, AddSavepoint(name)
    PROVE  Executions("savepoint", name, {}, SavepointAnswers(name))
<1>1. PICK typed \in Typed(name), answer \in SavepointAnswers(name) :
         /\ Execute("savepoint", name, typed, {}, answer)
         /\ Irregular(answer.ok /\ (~typed \/ ~OneTransaction \/ name \in Known
                                      \/ Reachable(name) # {}))
  BY DEF AddSavepoint
<1>2. regular' \in BOOLEAN
  BY <1>1 DEF Irregular
<1>3. exact' \in BOOLEAN
  BY ServerIs DEF AddSavepoint
<1>4. Enough(events)
  BY DEF AddSavepoint, CanExecute, Enough
<1>5. \E ty \in BOOLEAN, a \in SavepointAnswers(name) : Execute("savepoint", name, ty, {}, a)
  BY <1>1, TypedIs
<1> QED BY <1>2, <1>3, <1>4, <1>5 DEF Executions

\* ROLLBACK TO,
LEMMA RollbackSavepointExecutes ==
    ASSUME CoreInv, NEW name \in Names, RollbackSavepoint(name)
    PROVE  Executions("rollback to", name, {}, RollbackToAnswers(name))
<1>1. PICK typed \in Typed(name), answer \in RollbackToAnswers(name) :
         /\ Execute("rollback to", name, typed, {}, answer)
         /\ Irregular(IF answer.ok THEN ~typed \/ ~OneTransaction \/ name \notin TrackedSavepoints(trans)
                      ELSE Told(answer) /\ name \in Known)
         /\ Unnoticed(answer, TRUE)
  BY DEF RollbackSavepoint
<1>2. regular' \in BOOLEAN
  BY <1>1 DEF Irregular
<1>3. exact' \in BOOLEAN
  BY <1>1 DEF Unnoticed
<1>4. Enough(events)
  BY DEF RollbackSavepoint, CanExecute, Enough
<1>5. \E ty \in BOOLEAN, a \in RollbackToAnswers(name) : Execute("rollback to", name, ty, {}, a)
  BY <1>1, TypedIs
<1> QED BY <1>2, <1>3, <1>4, <1>5 DEF Executions

\* RELEASE,
LEMMA DeleteSavepointExecutes ==
    ASSUME CoreInv, NEW name \in Names, DeleteSavepoint(name)
    PROVE  Executions("release", name, {}, ReleaseAnswers(name))
<1>1. PICK typed \in Typed(name), answer \in ReleaseAnswers(name) :
         /\ Execute("release", name, typed, {}, answer)
         /\ Irregular(Told(answer) /\ (~typed \/ ~OneTransaction))
  BY DEF DeleteSavepoint
<1>2. regular' \in BOOLEAN
  BY <1>1 DEF Irregular
<1>3. exact' \in BOOLEAN
  BY ServerIs DEF DeleteSavepoint
<1>4. Enough(events)
  BY DEF DeleteSavepoint, CanExecute, Enough
<1>5. \E ty \in BOOLEAN, a \in ReleaseAnswers(name) : Execute("release", name, ty, {}, a)
  BY <1>1, TypedIs
<1> QED BY <1>2, <1>3, <1>4, <1>5 DEF Executions

\* a statement that changes tables,
LEMMA DdlExecutes ==
    ASSUME CoreInv, NEW changed, NEW able, NEW tables, Ddl(changed, able, tables)
    PROVE  Executions("sql", NULL, changed, SqlAnswers(able, tables))
<1>1. PICK answer \in SqlAnswers(able, tables) :
         /\ Execute("sql", NULL, TRUE, changed, answer)
         /\ Irregular(InTransaction /\ answer.server.session = NoSession)
         /\ Unnoticed(answer, ~answer.ok)
  BY DEF Ddl
<1>2. regular' \in BOOLEAN
  BY <1>1 DEF Irregular
<1>3. exact' \in BOOLEAN
  BY <1>1 DEF Unnoticed
<1>4. Enough(events)
  BY DEF Ddl, CanExecute, Enough
<1>5. \E ty \in BOOLEAN, a \in SqlAnswers(able, tables) : Execute("sql", NULL, ty, changed, a)
  BY <1>1
<1> QED BY <1>2, <1>3, <1>4, <1>5 DEF Executions

\* and a SELECT.
LEMMA SelectExecutes ==
    ASSUME CoreInv, Select
    PROVE  Executions("select", NULL, {}, SqlAnswers(TRUE, server.tables))
<1>1. PICK answer \in SqlAnswers(TRUE, server.tables) :
         /\ Execute("select", NULL, TRUE, {}, answer)
         /\ Irregular(InTransaction /\ answer.server.session = NoSession)
         /\ Unnoticed(answer, TRUE)
  BY DEF Select
<1>2. regular' \in BOOLEAN
  BY <1>1 DEF Irregular
<1>3. exact' \in BOOLEAN
  BY <1>1 DEF Unnoticed
<1>4. Enough(events)
  BY DEF Select, CanExecute, Enough
<1>5. \E ty \in BOOLEAN, a \in SqlAnswers(TRUE, server.tables) : Execute("select", NULL, ty, {}, a)
  BY <1>1
<1> QED BY <1>2, <1>3, <1>4, <1>5 DEF Executions

\* Executions keep the invariant.
LEMMA ExecutionsKeep ==
    ASSUME CoreInv, NEW kind \in Kinds, NEW name \in TransNames,
           kind \in {"savepoint", "rollback to", "release"} => name \in Names,
           NEW changed \in SUBSET Tables, NEW answers, answers \subseteq Answers(Servers),
           kind = "begin" => Unused(trans) # {}, Executions(kind, name, changed, answers)
    PROVE  CoreInv'
<1>1. PICK typed \in BOOLEAN, answer \in answers : Execute(kind, name, typed, changed, answer)
  BY DEF Executions
<1>2. Enough(events) /\ regular' \in BOOLEAN /\ exact' \in BOOLEAN
  BY DEF Executions
<1>3. answer \in Answers(Servers)
  OBVIOUS
<1> QED BY <1>1, <1>2, <1>3, ExecuteKeeps

\* Init has no events and no transaction.
LEMMA CoreAtFirst == Init => CoreInv
<1> SUFFICES ASSUME Init PROVE CoreInv
  OBVIOUS
<1>1. Tree(trans, EventObjects) /\ trans = NoTree
  <2>1. Path(NoTree, 0, TransNames, TreeEvents(EventObjects)) /\ 0 \in Nat
    BY EmptyPath
  <2> QED BY <2>1 DEF Init, Tree
<1>2. Held(trans) = [o \in EventObjects |-> 0]
  <2>1. Recorded(NoTree) = {}
    BY DEF Recorded, NoTree
  <2>2. \A o : References(NoTree, o) = 0
    BY <2>1, FS_EmptySet DEF References
  <2> QED BY <1>1, <2>2 DEF Held
<1>3. EventsInv(events, Held(trans))
  BY <1>2, AtFirst DEF Init
<1>4. EventsType(events)
  BY <1>3 DEF EventsInv, RingInv
<1>5. trans.root \in DOMAIN trans.node \cup {NULL}
  BY <1>1, RootIn
<1>6. server \in ServerSet /\ Begun(Session)
  <2>1. << >> \in Seq(FrameSet) /\ << >> \in Seq(Nat)
    BY EmptySeq
  <2> QED BY <2>1 DEF Init, ServerSet, NoSession, Begun, Session
<1>7. TypeOK
  BY <1>4, <1>5, <1>6 DEF TypeOK, Init, ServerSet, FrameSet, TransNames
<1> QED BY <1>1, <1>3, <1>6, <1>7 DEF CoreInv

\* What leaves the tree, the server and the contexts, with other events.
LEMMA OtherKeeps ==
    ASSUME CoreInv, EventsInv(events', Held(trans)), batch' \in Nat, aborted' \in BOOLEAN,
           Called, UNCHANGED other
    PROVE  CoreInv'
<1>1. ncall' \in Nat
  BY Depths DEF Called, CoreInv, TypeOK
<1>2. EventsType(events')
  BY DEF EventsInv, RingInv
<1>3. TypeOK'
  BY <1>1, <1>2 DEF CoreInv, TypeOK, other
<1> QED BY <1>3 DEF CoreInv, Begun, Session, other

\* Sizes that are asked for.
LEMMA Sizes ==
    ASSUME EVENTS_ARRAY_SIZE \in Nat, MaxArraySize \in Nat
    PROVE  /\ \A n \in EVENTS_ARRAY_SIZE .. MaxArraySize - 1 : n \in Nat /\ n + 1 <= MaxArraySize
           /\ \A n \in 1 .. (MaxArraySize - 1) \div 2 :
                 n \in Nat /\ n * 2 \in Nat /\ n * 2 + 1 <= MaxArraySize
OBVIOUS

\* The operations on the list and the array keep the invariant.
LEMMA ListsKeep ==
    ASSUME CoreInv, ListEvents \/ ClearList \/ SetHistorySize \/ BatchExecute
    PROVE  CoreInv'
<1>1. /\ EventsInv(events, Held(trans)) /\ Held(trans) \in [EventObjects -> Nat]
      /\ batch \in Nat /\ aborted \in BOOLEAN
  BY HeldIs DEF CoreInv, TypeOK
<1>2. CASE ListEvents
  <2>1. events' \in {GetEvents(events), events} /\ batch' = batch /\ aborted' \in {TRUE, aborted}
        /\ Called /\ UNCHANGED other
    BY <1>2 DEF ListEvents
  <2>2. EventsInv(events', Held(trans))
    BY <1>1, <2>1, Gotten
  <2> QED BY <1>1, <2>1, <2>2, OtherKeeps
<1>3. CASE ClearList
  <2>1. events' = ClearEvents(events) /\ batch' = batch /\ aborted' = aborted /\ Called /\ UNCHANGED other
    BY <1>3 DEF ClearList
  <2>2. EventsInv(events', Held(trans))
    BY <1>1, <2>1, Cleared
  <2> QED BY <1>1, <2>1, <2>2, OtherKeeps
<1>4. CASE SetHistorySize
  <2>1. PICK n \in EVENTS_ARRAY_SIZE .. MaxArraySize - 1 : events' = Resize(events, n)
    BY <1>4 DEF SetHistorySize
  <2>2. n \in Nat /\ n + 1 <= MaxArraySize
    BY Objects, Sizes
  <2>3. EventsInv(events', Held(trans))
    BY <1>1, <2>1, <2>2, Resized
  <2>4. batch' = batch /\ aborted' = aborted /\ Called /\ UNCHANGED other
    BY <1>4 DEF SetHistorySize
  <2> QED BY <1>1, <2>3, <2>4, OtherKeeps
<1>5. CASE BatchExecute
  <2>1. PICK n \in 1 .. (MaxArraySize - 1) \div 2 : batch' = n /\ events' = Resize(events, n * 2)
    BY <1>5 DEF BatchExecute
  <2>2. n \in Nat /\ n * 2 \in Nat /\ n * 2 + 1 <= MaxArraySize
    BY Objects, Sizes
  <2>3. EventsInv(events', Held(trans))
    BY <1>1, <2>1, <2>2, Resized
  <2>4. batch' \in Nat /\ aborted' = aborted /\ Called /\ UNCHANGED other
    BY <1>5, <2>1, <2>2 DEF BatchExecute
  <2> QED BY <1>1, <2>3, <2>4, OtherKeeps
<1> QED BY <1>2, <1>3, <1>4, <1>5

\* gda_connection_close() and gda_connection_open() leave the events and the tree.
LEMMA CloseKeeps ==
    ASSUME CoreInv, CloseAndOpen
    PROVE  CoreInv'
<1> DEFINE again == trans_meta_context # NULL /\ trans.root # NULL
<1>1. /\ meta' = IF again THEN Refresh(meta, trans_meta_context, server.tables) ELSE meta
      /\ trans_meta_context' = IF again THEN NULL ELSE trans_meta_context
      /\ server' = IF InTransaction THEN Restored(0, Session[1]) ELSE server
      /\ regular' = (regular /\ ~(trans.root # NULL \/ InTransaction))
      /\ exact' = (exact /\ ~InTransaction) /\ Called
      /\ UNCHANGED <<engine, auto_meta, trans, events, batch, aborted>>
  BY DEF CloseAndOpen, Irregular
<1>2. ncall' \in Nat
  BY <1>1, Depths DEF Called, CoreInv, TypeOK
<1>3. server' \in Servers
  BY <1>1, UndoneAll, ServerIs
<1>4. meta' \subseteq Tables
  <2>1. meta \subseteq Tables /\ server.tables \subseteq Tables
    BY ServerIs DEF CoreInv, TypeOK
  <2> HIDE DEF again
  <2> QED BY <1>1, <2>1 DEF Refresh
<1>5. trans_meta_context' = NULL \/ trans_meta_context' \subseteq Tables
  <2> HIDE DEF again
  <2> QED BY <1>1 DEF CoreInv, TypeOK
<1>6. regular' \in BOOLEAN /\ exact' \in BOOLEAN
  BY <1>1
<1> HIDE DEF again
<1>7. TypeOK'
  BY <1>1, <1>2, <1>3, <1>4, <1>5, <1>6 DEF CoreInv, TypeOK, Servers, ServerSet, FrameSet, TransNames
<1>8. Begun(Session)'
  BY <1>1, <1>3 DEF Servers, Begun, Session
<1> QED BY <1>1, <1>7, <1>8 DEF CoreInv, Held

\* Every action keeps the invariant.
LEMMA CoreKept == CoreInv /\ [Next]_vars => CoreInv'
<1> SUFFICES ASSUME CoreInv, [Next]_vars PROVE CoreInv'
  OBVIOUS
<1>0. /\ ServerOK /\ server.tables \in SUBSET Tables /\ NULL \in TransNames /\ {} \in SUBSET Tables
      /\ \A name \in Names : name \in TransNames
  BY ServerIs DEF TransNames
<1>1. ASSUME NEW name \in TransNames, Begin(name) PROVE CoreInv'
  <2>1. Executions("begin", name, {}, BeginAnswers(name)) /\ Unused(trans) # {} /\ "begin" \in Kinds
    BY <1>1, BeginExecutes DEF Kinds
  <2>2. BeginAnswers(name) \subseteq Answers(Servers)
    BY <1>0, BeginAnswersAre
  <2> QED BY <1>0, <2>1, <2>2, ExecutionsKeep
<1>2. ASSUME NEW name \in TransNames, Commit(name) PROVE CoreInv'
  <2>1. Executions("commit", name, {}, CommitAnswers(name)) /\ "commit" \in Kinds
    BY <1>2, EndExecutes DEF Kinds, Commit
  <2>2. CommitAnswers(name) \subseteq Answers(Servers)
    BY <1>0, CommitAnswersAre
  <2> QED BY <1>0, <2>1, <2>2, ExecutionsKeep
<1>3. ASSUME NEW name \in TransNames, Rollback(name) PROVE CoreInv'
  <2>1. Executions("rollback", name, {}, RollbackAnswers(name)) /\ "rollback" \in Kinds
    BY <1>3, EndExecutes DEF Kinds, Rollback
  <2>2. RollbackAnswers(name) \subseteq Answers(Servers)
    BY <1>0, RollbackAnswersAre
  <2> QED BY <1>0, <2>1, <2>2, ExecutionsKeep
<1>4. ASSUME NEW name \in Names, AddSavepoint(name) PROVE CoreInv'
  <2>1. Executions("savepoint", name, {}, SavepointAnswers(name)) /\ "savepoint" \in Kinds
    BY <1>4, AddSavepointExecutes DEF Kinds
  <2>2. SavepointAnswers(name) \subseteq Answers(Servers)
    BY <1>0, SavepointAnswersAre
  <2> QED BY <1>0, <2>1, <2>2, ExecutionsKeep
<1>5. ASSUME NEW name \in Names, RollbackSavepoint(name) PROVE CoreInv'
  <2>1. Executions("rollback to", name, {}, RollbackToAnswers(name)) /\ "rollback to" \in Kinds
    BY <1>5, RollbackSavepointExecutes DEF Kinds
  <2>2. RollbackToAnswers(name) \subseteq Answers(Servers)
    BY <1>0, RollbackToAnswersAre
  <2> QED BY <1>0, <2>1, <2>2, ExecutionsKeep
<1>6. ASSUME NEW name \in Names, DeleteSavepoint(name) PROVE CoreInv'
  <2>1. Executions("release", name, {}, ReleaseAnswers(name)) /\ "release" \in Kinds
    BY <1>6, DeleteSavepointExecutes DEF Kinds
  <2>2. ReleaseAnswers(name) \subseteq Answers(Servers)
    BY <1>0, ReleaseAnswersAre
  <2> QED BY <1>0, <2>1, <2>2, ExecutionsKeep
<1>7. ASSUME NEW changed \in SUBSET Tables, NEW able, NEW tables \in SUBSET Tables,
             Ddl(changed, able, tables)
      PROVE  CoreInv'
  <2>1. Executions("sql", NULL, changed, SqlAnswers(able, tables)) /\ "sql" \in Kinds
    BY <1>7, DdlExecutes DEF Kinds
  <2>2. SqlAnswers(able, tables) \subseteq Answers(Servers)
    BY <1>0, SqlAnswersAre
  <2> QED BY <1>0, <2>1, <2>2, ExecutionsKeep
<1>8. ASSUME Select PROVE CoreInv'
  <2>1. Executions("select", NULL, {}, SqlAnswers(TRUE, server.tables)) /\ "select" \in Kinds
    BY <1>8, SelectExecutes DEF Kinds
  <2>2. SqlAnswers(TRUE, server.tables) \subseteq Answers(Servers)
    BY <1>0, SqlAnswersAre
  <2> QED BY <1>0, <2>1, <2>2, ExecutionsKeep
<1>9. ASSUME NEW t \in Tables, Create(t) PROVE CoreInv'
  BY <1>0, <1>7, <1>9 DEF Create
<1>10. ASSUME NEW t \in Tables, Drop(t) PROVE CoreInv'
  BY <1>0, <1>7, <1>10 DEF Drop
<1>11. ASSUME NEW t \in Tables, NEW u \in Tables, Rename(t, u) PROVE CoreInv'
  <2>1. {t, u} \in SUBSET Tables /\ (server.tables \ {t}) \cup {u} \in SUBSET Tables
    BY <1>0
  <2> QED BY <1>7, <1>11, <2>1 DEF Rename
<1>12. CASE UNCHANGED vars
  <2>1. TypeOK'
    BY <1>12 DEF CoreInv, TypeOK, vars
  <2> QED BY <1>12, <2>1 DEF CoreInv, Begun, Session, Held, vars
<1>13. CASE Next
  BY <1>1, <1>2, <1>3, <1>4, <1>5, <1>6, <1>8, <1>9, <1>10, <1>11, <1>13, ListsKeep, CloseKeeps
  DEF Next, TransNames
<1> QED BY <1>12, <1>13

\* The invariant holds in every state.
LEMMA CoreAlways == Spec => []CoreInv
BY CoreAtFirst, CoreKept, PTL DEF Spec

\* The types of the variables, of the tree and of the events included.
THEOREM TypeCorrect == Spec => []TypeOK
<1>1. CoreInv => TypeOK
  BY DEF CoreInv
<1> QED BY <1>1, CoreAlways, PTL

\* gda_connection_get_events() gives the latest events, oldest first, and its
\* assertions hold.
THEOREM EventsAreInOrder == Spec => []EventsInOrder
<1>1. CoreInv => EventsInOrder
  BY RingInOrder DEF CoreInv, EventsInv, EventsInOrder
<1> QED BY <1>1, CoreAlways, PTL

\* An event that the array, the list or a recorded statement refers to is alive.
THEOREM NoEventIsFreed == Spec => []NoFreedEvent
<1>1. CoreInv => NoFreedEvent
  BY DEF CoreInv, EventsInv, Counted, Held, NoFreedEvent
<1> QED BY <1>1, CoreAlways, PTL

-----------------------------------------------------------------------------
(* The status and the session.                                             *)

\* How many transactions the tree has.
Depth(t) == Len(Nesting(t))

\* The depth is the number of objects of the path, the nesting their names.
LEMMA DepthIs ==
    ASSUME NEW t, NEW d, NEW cited, Path(t, d, TransNames, TreeEvents(cited))
    PROVE  /\ Depth(t) = d /\ d \in Nat
           /\ Nesting(t) = [n \in 1 .. d |-> t.node[n].name]
           /\ ToSet(Nesting(t)) = {t.node[n].name : n \in 1 .. d}
           /\ d # 0 => Last(Nesting(t)) = t.node[d].name
<1>1. Nesting(t) = [n \in 1 .. d |-> t.node[n].name] /\ d \in Nat
  BY NestingIs, PathOf
<1>2. Len(Nesting(t)) = d /\ DOMAIN Nesting(t) = 1 .. d
  BY <1>1
<1>3. ToSet(Nesting(t)) = {t.node[n].name : n \in 1 .. d}
  BY <1>1, <1>2 DEF ToSet
<1>4. d # 0 => Last(Nesting(t)) = t.node[d].name
  <2>1. d # 0 => d \in 1 .. d
    BY <1>1
  <2> QED BY <1>1, <1>2, <2>1 DEF Last
<1> QED BY <1>1, <1>2, <1>3, <1>4 DEF Depth

\* A tree is a path of its depth.
LEMMA TreeIs ==
    ASSUME NEW t, NEW cited, Tree(t, cited)
    PROVE  Path(t, Depth(t), TransNames, TreeEvents(cited)) /\ Depth(t) \in Nat
BY DepthIs DEF Tree

\* The transactions of a session; they mirror a tree when an increasing sequence of
\* positions has the names of its objects.
Trans(s) == {i \in DOMAIN s : s[i].kind = "transaction"}
Matched(pos, t, s) ==
    /\ pos \in [1 .. Depth(t) -> Trans(s)]
    /\ \A i \in Trans(s) : \E k \in 1 .. Depth(t) : pos[k] = i
    /\ \A j, k \in 1 .. Depth(t) : j < k => pos[j] < pos[k]
    /\ \A k \in 1 .. Depth(t) : s[pos[k]].name = t.node[k].name
Mirrors(t, s) ==
    /\ \E pos : Matched(pos, t, s)
    /\ s # NoSession <=> Depth(t) # 0
    /\ s # NoSession => s[1].kind = "transaction"

\* A second transaction has a name of its own.
Distinguished(t) ==
    Depth(t) >= 2 /\ t.node[2].name # NULL =>
       t.node[1].name # t.node[2].name /\ Own(t, 1, t.node[2].name) = {}

\* Two trees with the same objects, of which only the innermost one may differ in
\* its events.
SameNames(r, t) ==
    /\ Depth(r) = Depth(t)
    /\ \A n \in 1 .. Depth(t) : r.node[n].name = t.node[n].name
    /\ Depth(t) >= 2 => Ev(r, 1) = Ev(t, 1)

\* What is said of the objects of a tree holds of one with the same objects.
LEMMA SameNamesKeep ==
    ASSUME NEW r, NEW t, SameNames(r, t), Depth(t) \in Nat, Distinguished(t),
           NEW s, Mirrors(t, s)
    PROVE  Mirrors(r, s) /\ Distinguished(r)
<1>1. Mirrors(r, s)
  BY DEF Mirrors, Matched, SameNames
<1>2. Distinguished(r)
  <2> SUFFICES ASSUME Depth(r) >= 2, r.node[2].name # NULL
               PROVE  r.node[1].name # r.node[2].name /\ Own(r, 1, r.node[2].name) = {}
    BY DEF Distinguished
  <2>1. Depth(t) >= 2 /\ 1 \in 1 .. Depth(t) /\ 2 \in 1 .. Depth(t)
    BY DEF SameNames
  <2>2. r.node[1].name = t.node[1].name /\ r.node[2].name = t.node[2].name /\ Ev(r, 1) = Ev(t, 1)
    BY <2>1 DEF SameNames
  <2>3. t.node[1].name # t.node[2].name /\ Own(t, 1, t.node[2].name) = {}
    BY <2>1, <2>2 DEF Distinguished
  <2> QED BY <2>2, <2>3 DEF Own
<1> QED BY <1>1, <1>2

\* Trees with the same objects as a third one.
LEMMA SameNamesChain ==
    ASSUME NEW q, NEW r, NEW t, SameNames(q, r), SameNames(r, t)
    PROVE  SameNames(q, t)
BY DEF SameNames

\* An event added to the innermost object changes no name.
LEMMA AppendedSame ==
    ASSUME NEW r, NEW t, NEW d, NEW cited, NEW e, Path(t, d, TransNames, TreeEvents(cited)),
           Path(r, d, TransNames, TreeEvents(cited)), Appended(r, t, d, e)
    PROVE  SameNames(r, t)
<1>1. Depth(r) = d /\ Depth(t) = d /\ d \in Nat
  BY DepthIs
<1>2. d >= 2 => 1 \in 1 .. d /\ 1 # d
  BY <1>1
<1> QED BY <1>1, <1>2 DEF Appended, SameNames

\* What the queries of gda_connection_update_meta_store() add.
LEMMA QueriedIs ==
    ASSUME NEW t, NEW cited, Tree(t, cited), NEW changed
    PROVE  LET r == Queried(t, changed)
           IN  /\ SameNames(r, t)
               /\ r = t \/ (Depth(t) # 0 /\ Appended(r, t, Depth(t), SqlEvent(0, NULL)))
<1> DEFINE d == Depth(t)
           r == SqlExecuted(t, 0, NULL)
<1>1. Path(t, d, TransNames, TreeEvents(cited))
  BY TreeIs
<1>2. SameNames(t, t)
  BY DEF SameNames
<1>3. SqlEvent(0, NULL) \in TreeEvents(cited)
  BY Recordable
<1> HIDE DEF r, d
<1>4. IF d = 0 THEN r = t
      ELSE /\ Path(r, d, TransNames, TreeEvents(cited))
           /\ Appended(r, t, d, SqlEvent(0, NULL))
  BY <1>1, <1>3, ExecutedIs DEF r
<1>5. d # 0 => SameNames(r, t)
  BY <1>1, <1>4, AppendedSame
<1> QED BY <1>2, <1>4, <1>5 DEF Queried, r, d

\* The sessions the server can have after a statement, and the transactions in them.

\* One more transaction.
LEMMA PushedMirrors ==
    ASSUME NEW t, NEW r, Depth(t) \in Nat, NEW s \in Seq(FrameSet), Mirrors(t, s),
           Depth(r) = Depth(t) + 1, NEW f \in FrameSet, f.kind = "transaction",
           \A n \in 1 .. Depth(t) : r.node[n].name = t.node[n].name,
           r.node[Depth(t) + 1].name = f.name
    PROVE  Mirrors(r, Append(s, f))
<1> DEFINE d == Depth(t)
           u == Append(s, f)
           len == Len(s)
<1>1. /\ len \in Nat /\ DOMAIN s = 1 .. len /\ DOMAIN u = 1 .. len + 1 /\ u # << >>
      /\ u[len + 1] = f /\ \A i \in 1 .. len : u[i] = s[i]
  <2>1. /\ u \in Seq(FrameSet) /\ Len(u) = len + 1 /\ len \in Nat /\ DOMAIN s = 1 .. len
        /\ u[len + 1] = f /\ \A i \in 1 .. len : u[i] = s[i]
    OBVIOUS
  <2> HIDE DEF u, len
  <2>2. DOMAIN u = 1 .. len + 1 /\ Len(u) # 0
    BY <2>1
  <2> QED BY <2>1, <2>2, EmptySeq
<1> HIDE DEF u
<1>2. Trans(s) \subseteq 1 .. len
  BY <1>1 DEF Trans
<1>3. Trans(u) = Trans(s) \cup {len + 1}
  BY <1>1 DEF Trans
<1>4. PICK pos : Matched(pos, t, s)
  BY DEF Mirrors
<1> DEFINE p == [k \in 1 .. d + 1 |-> IF k = d + 1 THEN len + 1 ELSE pos[k]]
<1>5. /\ 1 .. d + 1 = (1 .. d) \cup {d + 1} /\ \A k \in 1 .. d : k # d + 1 /\ k \in 1 .. d + 1
      /\ d + 1 \in 1 .. d + 1 /\ d + 1 # 0
  OBVIOUS
<1> HIDE DEF d
<1>6. \A k \in 1 .. d : p[k] = pos[k] /\ pos[k] \in Trans(s) /\ pos[k] \in 1 .. len
  BY <1>2, <1>4, <1>5 DEF Matched, d
<1>7. p[d + 1] = len + 1
  BY <1>5
<1>8. p \in [1 .. d + 1 -> Trans(u)]
  BY <1>3, <1>5, <1>6
<1> HIDE DEF p
<1>9. \A i \in Trans(u) : \E k \in 1 .. d + 1 : p[k] = i
  <2> SUFFICES ASSUME NEW i \in Trans(u) PROVE \E k \in 1 .. d + 1 : p[k] = i
    OBVIOUS
  <2>1. CASE i = len + 1
    BY <1>5, <1>7, <2>1
  <2>2. CASE i \in Trans(s)
    <3>1. PICK k \in 1 .. d : pos[k] = i
      BY <1>4, <2>2 DEF Matched, d
    <3> QED BY <1>5, <1>6, <3>1
  <2> QED BY <1>3, <2>1, <2>2
<1>10. \A j, k \in 1 .. d + 1 : j < k => p[j] < p[k]
  <2> SUFFICES ASSUME NEW j \in 1 .. d + 1, NEW k \in 1 .. d + 1, j < k PROVE p[j] < p[k]
    OBVIOUS
  <2>1. d \in Nat
    BY DEF d
  <2>2. j \in 1 .. d
    BY <2>1
  <2>3. CASE k = d + 1
    <3>1. p[j] \in 1 .. len
      BY <1>6, <2>2
    <3> QED BY <1>1, <1>7, <2>3, <3>1
  <2>4. CASE k \in 1 .. d
    BY <1>4, <1>6, <2>2, <2>4 DEF Matched, d
  <2> QED BY <1>5, <2>3, <2>4
<1>11. \A k \in 1 .. d + 1 : u[p[k]].name = r.node[k].name
  <2> SUFFICES ASSUME NEW k \in 1 .. d + 1 PROVE u[p[k]].name = r.node[k].name
    OBVIOUS
  <2>1. CASE k = d + 1
    BY <1>1, <1>7, <2>1 DEF d
  <2>2. CASE k \in 1 .. d
    BY <1>1, <1>4, <1>6, <2>2 DEF Matched, d
  <2> QED BY <1>5, <2>1, <2>2
<1>12. Matched(p, r, u)
  BY <1>8, <1>9, <1>10, <1>11 DEF Matched, d
<1>13. u[1].kind = "transaction"
  <2>1. CASE s = NoSession
    <3>1. len = 0
      BY <2>1 DEF NoSession
    <3> QED BY <1>1, <3>1
  <2>2. CASE s # NoSession
    <3>1. s[1].kind = "transaction" /\ len # 0
      BY <2>2, EmptySeq DEF Mirrors, NoSession
    <3>2. 1 \in 1 .. len
      BY <1>1, <3>1
    <3> QED BY <1>1, <3>1, <3>2
  <2> QED BY <2>1, <2>2
<1> QED BY <1>1, <1>5, <1>12, <1>13 DEF Mirrors, NoSession, u, d

\* The innermost transaction ends: the session goes back to what precedes it.
LEMMA PoppedMirrors ==
    ASSUME NEW t, NEW r, Depth(t) \in Nat, Depth(t) # 0, NEW s \in Seq(FrameSet), Mirrors(t, s),
           Depth(r) = Depth(t) - 1,
           \A n \in 1 .. Depth(r) : r.node[n].name = t.node[n].name,
           NEW u \in Seq(FrameSet), NEW m \in Trans(s), \A i \in Trans(s) : i <= m,
           Len(u) = m - 1, \A i \in 1 .. m - 1 : u[i] = s[i]
    PROVE  Mirrors(r, u)
<1> DEFINE d == Depth(t)
           e == Depth(r)
<1>1. /\ Len(s) \in Nat /\ DOMAIN s = 1 .. Len(s) /\ DOMAIN u = 1 .. m - 1
  OBVIOUS
<1>2. /\ Trans(s) \subseteq 1 .. Len(s) /\ m \in 1 .. Len(s) /\ m \in Nat
  BY <1>1 DEF Trans
<1>3. PICK pos : Matched(pos, t, s)
  BY DEF Mirrors
<1>4. /\ d \in Nat /\ d # 0 /\ e \in Nat /\ d = e + 1 /\ d \in 1 .. d
      /\ \A k \in 1 .. e : k \in 1 .. d /\ k < d
      /\ \A k \in 1 .. d : k = d \/ k \in 1 .. e
  OBVIOUS
<1>5. /\ pos \in [1 .. d -> Trans(s)]
      /\ \A i \in Trans(s) : \E k \in 1 .. d : pos[k] = i
      /\ \A j, k \in 1 .. d : j < k => pos[j] < pos[k]
      /\ \A k \in 1 .. d : s[pos[k]].name = t.node[k].name
  BY <1>3 DEF Matched
<1> HIDE DEF d, e
<1>6. \A k \in 1 .. d : pos[k] \in Trans(s) /\ pos[k] \in Nat /\ pos[k] <= m
  BY <1>1, <1>2, <1>5
<1>7. pos[d] = m
  <2>1. PICK k \in 1 .. d : pos[k] = m
    BY <1>5
  <2>2. k = d \/ k < d
    BY <1>4
  <2>3. k < d => m < pos[d]
    BY <1>4, <1>5, <2>1
  <2>4. ~(m < pos[d])
    BY <1>2, <1>4, <1>6
  <2> QED BY <2>1, <2>2, <2>3, <2>4
<1>8. Trans(u) = {i \in Trans(s) : i < m}
  <2>1. \A i \in Trans(s) : i < m <=> i \in 1 .. m - 1
    BY <1>1, <1>2
  <2>2. \A i \in 1 .. m - 1 : i \in DOMAIN s
    BY <1>1, <1>2
  <2> QED BY <1>1, <2>1, <2>2 DEF Trans
<1> DEFINE p == [k \in 1 .. e |-> pos[k]]
<1>9. \A k \in 1 .. e : p[k] = pos[k] /\ p[k] \in Trans(u) /\ p[k] < m
  <2> SUFFICES ASSUME NEW k \in 1 .. e PROVE pos[k] \in Trans(u) /\ pos[k] < m
    OBVIOUS
  <2>1. pos[k] < pos[d]
    BY <1>4, <1>5
  <2> QED BY <1>4, <1>6, <1>7, <1>8, <2>1
<1>10. p \in [1 .. e -> Trans(u)]
  BY <1>9
<1> HIDE DEF p
<1>11. \A i \in Trans(u) : \E k \in 1 .. e : p[k] = i
  <2> SUFFICES ASSUME NEW i \in Trans(u) PROVE \E k \in 1 .. e : p[k] = i
    OBVIOUS
  <2>1. i \in Trans(s) /\ i < m
    BY <1>8
  <2>2. PICK k \in 1 .. d : pos[k] = i
    BY <1>5, <2>1
  <2>3. i # m
    BY <1>2, <2>1
  <2>4. k \in 1 .. e
    BY <1>4, <1>7, <2>2, <2>3
  <2> QED BY <1>9, <2>2, <2>4
<1>12. \A j, k \in 1 .. e : j < k => p[j] < p[k]
  BY <1>4, <1>5, <1>9
<1>13. \A k \in 1 .. e : u[p[k]].name = r.node[k].name
  <2> SUFFICES ASSUME NEW k \in 1 .. e PROVE u[p[k]].name = r.node[k].name
    OBVIOUS
  <2>1. p[k] = pos[k] /\ p[k] \in 1 .. m - 1
    BY <1>1, <1>9 DEF Trans
  <2>2. u[p[k]] = s[pos[k]]
    BY <2>1
  <2>3. k \in 1 .. d
    BY <1>4
  <2> QED BY <1>5, <2>2, <2>3 DEF e
<1>14. Matched(p, r, u)
  BY <1>10, <1>11, <1>12, <1>13 DEF Matched, e
<1>15. u # << >> <=> m # 1
  <2>1. u = << >> <=> Len(u) = 0
    BY EmptySeq
  <2> QED BY <1>2, <2>1
<1>16. m = 1 <=> e = 0
  <2>1. CASE e = 0
    <3>1. s # << >>
      BY <1>1, <1>2
    <3>2. 1 \in Trans(s)
      BY <1>1, <1>2, <3>1 DEF Mirrors, NoSession, Trans
    <3>3. PICK k \in 1 .. d : pos[k] = 1
      BY <1>5, <3>2
    <3>4. k = d
      BY <1>4, <2>1
    <3> QED BY <1>7, <2>1, <3>3, <3>4
  <2>2. CASE e # 0
    <3>1. 1 \in 1 .. e
      BY <1>4, <2>2
    <3>2. p[1] < m /\ p[1] \in 1 .. m - 1
      BY <1>1, <1>9, <3>1 DEF Trans
    <3> QED BY <1>2, <2>2, <3>2
  <2> QED BY <2>1, <2>2
<1>17. u # << >> => u[1].kind = "transaction"
  <2> SUFFICES ASSUME u # << >> PROVE u[1].kind = "transaction"
    OBVIOUS
  <2>1. 1 \in 1 .. m - 1 /\ s # << >>
    BY <1>1, <1>2, <1>15
  <2> QED BY <2>1 DEF Mirrors, NoSession
<1> QED BY <1>14, <1>15, <1>16, <1>17 DEF Mirrors, NoSession, e

\* Savepoints come and go without a change.
LEMMA SameTransMirror ==
    ASSUME NEW t, NEW s, NEW u, Mirrors(t, s), Trans(u) = Trans(s),
           \A i \in Trans(s) : u[i] = s[i],
           s # NoSession, u # NoSession, 1 \in Trans(s)
    PROVE  Mirrors(t, u)
<1>1. u[1].kind = "transaction"
  BY DEF Trans
<1>2. ASSUME NEW pos, Matched(pos, t, s) PROVE Matched(pos, t, u)
  <2>1. \A k \in 1 .. Depth(t) : pos[k] \in Trans(s)
    BY <1>2 DEF Matched
  <2> QED BY <1>2, <2>1 DEF Matched
<1> QED BY <1>1, <1>2 DEF Mirrors

\* A bijection between two sets, given as a function.
Counts(S, T, f) == /\ f \in [S -> T]
                   /\ \A i \in T : \E k \in S : f[k] = i
                   /\ \A j, k \in S : f[j] = f[k] => j = k

\* A set counted by another one has as many elements.
LEMMA CountsAlike ==
    ASSUME NEW S, NEW T, NEW f, Counts(S, T, f), IsFiniteSet(S)
    PROVE  IsFiniteSet(T) /\ Cardinality(T) = Cardinality(S)
<1>1. f \in Bijection(S, T)
  BY DEF Counts, Bijection, Injection, Surjection, IsInjective
<1>2. ExistsBijection(S, T)
  BY <1>1 DEF ExistsBijection
<1> QED BY <1>2, FS_Bijection

\* What gda_connection_get_transaction_status() says is what the session is.
LEMMA MirrorsSay ==
    ASSUME NEW t, NEW d, NEW cited, Path(t, d, TransNames, TreeEvents(cited)),
           NEW s \in Seq(FrameSet), Mirrors(t, s)
    PROVE  Nesting(t) = [k \in 1 .. Cardinality(Trans(s)) |->
                  s[CHOOSE i \in Trans(s) : Cardinality({j \in Trans(s) : j < i}) = k - 1].name]
<1>1. /\ Depth(t) = d /\ d \in Nat /\ Nesting(t) = [n \in 1 .. d |-> t.node[n].name]
  BY DepthIs
<1>2. PICK pos : Matched(pos, t, s)
  BY DEF Mirrors
<1>3. /\ pos \in [1 .. d -> Trans(s)]
      /\ \A i \in Trans(s) : \E k \in 1 .. d : pos[k] = i
      /\ \A j, k \in 1 .. d : j < k => pos[j] < pos[k]
      /\ \A k \in 1 .. d : s[pos[k]].name = t.node[k].name
  BY <1>1, <1>2 DEF Matched
<1>4. /\ Len(s) \in Nat /\ DOMAIN s = 1 .. Len(s)
  OBVIOUS
<1>5. Trans(s) \subseteq Nat /\ \A k \in 1 .. d : pos[k] \in Nat /\ pos[k] \in Trans(s)
  BY <1>3, <1>4 DEF Trans
<1>6. \A j, k \in 1 .. d : pos[j] < pos[k] <=> j < k
  <2> SUFFICES ASSUME NEW j \in 1 .. d, NEW k \in 1 .. d PROVE pos[j] < pos[k] <=> j < k
    OBVIOUS
  <2>1. j < k \/ j = k \/ k < j
    BY <1>1
  <2>2. j < k => pos[j] < pos[k]
    BY <1>3
  <2>3. k < j => pos[k] < pos[j]
    BY <1>3
  <2>4. /\ pos[j] \in Nat /\ pos[k] \in Nat /\ j \in Nat /\ k \in Nat
    BY <1>1, <1>5
  <2> QED BY <2>1, <2>2, <2>3, <2>4
<1>7. Counts(1 .. d, Trans(s), pos)
  <2>1. \A j, k \in 1 .. d : pos[j] = pos[k] => j = k
    <3> SUFFICES ASSUME NEW j \in 1 .. d, NEW k \in 1 .. d, pos[j] = pos[k] PROVE j = k
      OBVIOUS
    <3>1. ~(pos[j] < pos[k]) /\ ~(pos[k] < pos[j])
      BY <1>5
    <3>2. ~(j < k) /\ ~(k < j)
      BY <1>6, <3>1
    <3> QED BY <1>1, <3>2
  <2> QED BY <1>3, <2>1 DEF Counts
<1>8. Cardinality(Trans(s)) = d
  <2>1. IsFiniteSet(1 .. d) /\ Cardinality(1 .. d) = d
    BY <1>1, FS_Interval
  <2> QED BY <1>7, <2>1, CountsAlike
<1>9. ASSUME NEW k \in 1 .. d
      PROVE  Cardinality({j \in Trans(s) : j < pos[k]}) = k - 1
  <2> DEFINE before == {j \in Trans(s) : j < pos[k]}
             p == [n \in 1 .. k - 1 |-> pos[n]]
  <2>1. \A n \in 1 .. k - 1 : n \in 1 .. d /\ n < k
    BY <1>1
  <2>2. \A n \in 1 .. k - 1 : p[n] = pos[n] /\ pos[n] \in before
    BY <1>3, <2>1
  <2>3. Counts(1 .. k - 1, before, p)
    <3>1. p \in [1 .. k - 1 -> before]
      BY <2>2
    <3>2. \A i, n \in 1 .. k - 1 : p[i] = p[n] => i = n
      BY <1>7, <2>1, <2>2 DEF Counts
    <3>3. \A i \in before : \E n \in 1 .. k - 1 : p[n] = i
      <4> SUFFICES ASSUME NEW i \in before PROVE \E n \in 1 .. k - 1 : p[n] = i
        OBVIOUS
      <4>1. PICK n \in 1 .. d : pos[n] = i
        BY <1>3
      <4>2. n < k
        BY <1>6, <4>1
      <4>3. n \in 1 .. k - 1
        BY <1>1, <4>2
      <4> QED BY <2>2, <4>1, <4>3
    <3> HIDE DEF p, before
    <3> QED BY <3>1, <3>2, <3>3 DEF Counts
  <2>4. IsFiniteSet(1 .. k - 1) /\ Cardinality(1 .. k - 1) = k - 1
    <3>1. k \in Nat /\ k >= 1 /\ k - 1 \in Int /\ 1 \in Int
      BY <1>1
    <3>2. IsFiniteSet(1 .. k - 1) /\ Cardinality(1 .. k - 1) = IF 1 > k - 1 THEN 0 ELSE k - 1 - 1 + 1
      BY <3>1, FS_Interval
    <3> QED BY <3>1, <3>2
  <2> HIDE DEF before, p
  <2>5. Cardinality(before) = k - 1
    BY <2>3, <2>4, CountsAlike
  <2> QED BY <2>5 DEF before
<1>10. ASSUME NEW k \in 1 .. d
       PROVE  (CHOOSE i \in Trans(s) : Cardinality({j \in Trans(s) : j < i}) = k - 1) = pos[k]
  <2>1. pos[k] \in Trans(s) /\ Cardinality({j \in Trans(s) : j < pos[k]}) = k - 1
    BY <1>5, <1>9
  <2>2. ASSUME NEW i \in Trans(s), Cardinality({j \in Trans(s) : j < i}) = k - 1 PROVE i = pos[k]
    <3>1. PICK n \in 1 .. d : pos[n] = i
      BY <1>3
    <3>2. Cardinality({j \in Trans(s) : j < i}) = n - 1
      BY <1>9, <3>1
    <3>3. n - 1 = k - 1
      BY <2>2, <3>2
    <3>4. n = k
      BY <1>1, <3>3
    <3> QED BY <3>1, <3>4
  <2> QED BY <2>1, <2>2
<1>11. [n \in 1 .. d |-> t.node[n].name]
         = [k \in 1 .. d |->
              s[CHOOSE i \in Trans(s) : Cardinality({j \in Trans(s) : j < i}) = k - 1].name]
  BY <1>3, <1>10
<1> QED BY <1>1, <1>8, <1>11

\* Only PostgreSQL has transactions that failed.
FailedOK(s) == s.failed => engine = "postgres" /\ s.session # NoSession

\* What the server's operations do to each part of its state.
LEMMA RestoredIs ==
    ASSUME server \in Servers, NEW n, NEW frame
    PROVE  /\ Restored(n, frame).session = SubSeq(Session, 1, n) /\ Restored(n, frame).failed = FALSE
           /\ Restored(n, frame).tables = frame.tables /\ Restored(n, frame).done = frame.done
<1>1. server \in ServerSet
  BY DEF Servers
<1> DEFINE part == SubSeq(Session, 1, n)
           tables == frame.tables
           done == frame.done
<1>2. Restored(n, frame) = [server EXCEPT !.session = part, !.failed = FALSE,
                                          !.tables = tables, !.done = done]
  BY DEF Restored
<1> HIDE DEF part, tables, done
<1>3. /\ Restored(n, frame).session = part /\ Restored(n, frame).failed = FALSE
      /\ Restored(n, frame).tables = tables /\ Restored(n, frame).done = done
  BY <1>1, <1>2 DEF ServerSet
<1> QED BY <1>3 DEF part, tables, done

\* A session that replaces another, with the rest of the state.
LEMMA WithIs ==
    ASSUME server \in Servers, NEW session
    PROVE  /\ With(session).session = session /\ With(session).failed = server.failed
           /\ With(session).tables = server.tables
           /\ With(session).done = IF session = NoSession THEN << >> ELSE server.done
<1>1. server \in ServerSet
  BY DEF Servers
<1> DEFINE done == IF session = NoSession THEN << >> ELSE server.done
<1>2. With(session) = [server EXCEPT !.session = session, !.done = done]
  BY DEF With
<1> HIDE DEF done
<1>3. /\ With(session).session = session /\ With(session).failed = server.failed
      /\ With(session).tables = server.tables /\ With(session).done = done
  BY <1>1, <1>2 DEF ServerSet
<1> QED BY <1>3 DEF done

\* A statement that failed only marks the transaction of PostgreSQL.
LEMMA RefusedIs ==
    ASSUME server \in Servers, FailedOK(server)
    PROVE  /\ Refused.run = TRUE /\ Refused.ok = FALSE
           /\ Refused.server.session = Session /\ Refused.server.tables = server.tables
           /\ Refused.server.done = server.done
           /\ Refused.server.failed <=> engine = "postgres" /\ InTransaction
           /\ engine # "postgres" \/ ~InTransaction => Refused.server = server
<1>1. server \in ServerSet
  BY DEF Servers
<1> DEFINE failed == (engine = "postgres" /\ InTransaction)
           s == [server EXCEPT !.failed = failed]
<1>2. Refused = [run |-> TRUE, ok |-> FALSE, server |-> s]
  BY DEF Refused
<1>3. failed \in BOOLEAN
  OBVIOUS
<1>4. engine # "postgres" \/ ~InTransaction => failed = FALSE /\ server.failed = FALSE
  BY <1>1 DEF FailedOK, ServerSet, InTransaction, Session
<1> HIDE DEF failed
<1>5. /\ s.session = Session /\ s.tables = server.tables /\ s.done = server.done /\ s.failed = failed
      /\ server.failed = failed => s = server
  BY <1>1, <1>3 DEF ServerSet, Session
<1> HIDE DEF s
<1> QED BY <1>2, <1>4, <1>5 DEF failed

\* What an answer tells: nothing was done, or what was.
Quiet(a) == a.server = server /\ ~a.ok /\ ~Told(a)

\* A statement that could not be prepared was not run.
LEMMA UnpreparedIs == Quiet(Unprepared) /\ Unprepared.run = FALSE
BY DEF Quiet, Unprepared, Told

\* A statement that was done succeeded.
LEMMA DoneIs == \A s : Done(s).run /\ Done(s).ok /\ Done(s).server = s /\ Told(Done(s))
BY DEF Done, Told

\* The other providers do not tell of a failure.
LEMMA RefusedQuiet ==
    ASSUME server \in Servers, FailedOK(server), engine # "postgres"
    PROVE  Quiet(Refused)
BY RefusedIs DEF Quiet, Told

\* What a BEGIN comes to: nothing, what PostgreSQL ignores, or a transaction.
LEMMA BeginCases ==
    ASSUME server \in Servers, FailedOK(server), engine \in Engines, NEW name \in TransNames,
           NEW a \in BeginAnswers(name)
    PROVE  \/ Quiet(a)
           \/ a.ok /\ InTransaction /\ engine = "postgres" /\ a.server = server
           \/ /\ a.ok /\ Told(a) /\ ~server.failed /\ (InTransaction => engine = "nesting")
              /\ a.server = With(Append(Session, Frame("transaction", name)))
<1>1. CASE server.failed
  BY <1>1, UnpreparedIs DEF BeginAnswers
<1>2. CASE ~server.failed /\ InTransaction /\ engine = "sqlite"
  BY <1>2, RefusedQuiet DEF BeginAnswers
<1>3. CASE ~server.failed /\ InTransaction /\ engine = "postgres"
  BY <1>3, DoneIs DEF BeginAnswers
<1>4. CASE ~server.failed /\ (InTransaction => engine = "nesting")
  <2>1. a = Done(With(Append(Session, Frame("transaction", name))))
    BY <1>4 DEF BeginAnswers
  <2> QED BY <1>4, <2>1, DoneIs
<1> QED BY <1>1, <1>2, <1>3, <1>4 DEF Engines

\* A COMMIT or a ROLLBACK that ends a transaction goes back to what precedes it.
EndedAt(a, name, n) ==
    /\ InTransaction /\ Told(a) /\ n \in Outer(name)
    /\ a.server.session = SubSeq(Session, 1, n) /\ ~a.server.failed
    /\ \/ a.ok /\ a.server = With(SubSeq(Session, 1, n))
       \/ n = 0 /\ engine = "postgres" /\ a.server = Restored(0, Session[1])

\* What a COMMIT comes to.
LEMMA CommitCases ==
    ASSUME server \in Servers, FailedOK(server), engine \in Engines, NEW name \in TransNames,
           NEW a \in CommitAnswers(name)
    PROVE  Quiet(a) \/ (a.ok /\ ~InTransaction /\ a.server = server) \/ \E n \in Outer(name) : EndedAt(a, name, n)
<1>1. CASE ~InTransaction
  <2>1. CASE engine = "postgres"
    BY <1>1, <2>1, DoneIs DEF CommitAnswers, NothingToEnd
  <2>2. CASE engine # "postgres"
    BY <1>1, <2>2, RefusedQuiet DEF CommitAnswers, NothingToEnd
  <2> QED BY <2>1, <2>2
<1>2. CASE InTransaction /\ Outer(name) = {}
  <2>1. engine # "postgres"
    BY <1>2 DEF Outer
  <2> QED BY <1>2, <2>1, RefusedQuiet DEF CommitAnswers
<1>3. CASE InTransaction /\ Outer(name) # {} /\ server.failed
  <2>1. engine = "postgres" /\ 0 \in Outer(name)
    BY <1>3 DEF FailedOK, Outer
  <2>2. a = Done(Restored(0, Session[1]))
    BY <1>3 DEF CommitAnswers
  <2> DEFINE s == Restored(0, Session[1])
  <2>3. s.session = SubSeq(Session, 1, 0) /\ ~s.failed
    BY RestoredIs
  <2> HIDE DEF s
  <2>4. a.server = s /\ a.ok /\ Told(a)
    BY <2>2, DoneIs DEF s
  <2>5. EndedAt(a, name, 0)
    BY <1>3, <2>1, <2>3, <2>4 DEF EndedAt, s
  <2> QED BY <2>1, <2>5
<1>4. CASE InTransaction /\ Outer(name) # {} /\ ~server.failed
  <2>1. CASE \E n \in Outer(name) : a = Done(With(SubSeq(Session, 1, n)))
    <3>1. PICK n \in Outer(name) : a = Done(With(SubSeq(Session, 1, n)))
      BY <2>1
    <3> DEFINE part == SubSeq(Session, 1, n)
    <3>2. a.ok /\ Told(a) /\ a.server = With(part)
      BY <3>1, DoneIs
    <3> HIDE DEF part
    <3>3. a.server.session = part /\ ~a.server.failed
      BY <1>4, <3>2, WithIs
    <3>4. EndedAt(a, name, n)
      BY <1>4, <3>2, <3>3 DEF EndedAt, part
    <3> QED BY <3>4
  <2>2. CASE engine = "postgres" /\ a = [Refused EXCEPT !.server = Restored(0, Session[1])]
    <3> DEFINE s == Restored(0, Session[1])
    <3>1. 0 \in Outer(name)
      BY <1>4, <2>2 DEF Outer
    <3>2. s.session = SubSeq(Session, 1, 0) /\ ~s.failed
      BY RestoredIs
    <3> HIDE DEF s
    <3>3. a.server = s /\ a.run
      BY <2>2 DEF Refused, s
    <3>4. EndedAt(a, name, 0)
      BY <1>4, <2>2, <3>1, <3>2, <3>3 DEF EndedAt, Told, s
    <3> QED BY <3>1, <3>4
  <2>3. CASE engine # "postgres" /\ a = Refused
    BY <2>3, RefusedQuiet
  <2> QED BY <1>4, <2>1, <2>2, <2>3 DEF CommitAnswers
<1> QED BY <1>1, <1>2, <1>3, <1>4

UndoneTo(a, name, n) ==
    /\ InTransaction /\ Told(a) /\ a.ok /\ n \in Outer(name)
    /\ a.server.session = SubSeq(Session, 1, n) /\ ~a.server.failed
    /\ a.server = Restored(n, Session[n + 1])

\* What a ROLLBACK comes to.
LEMMA RollbackCases ==
    ASSUME server \in Servers, FailedOK(server), engine \in Engines, NEW name \in TransNames,
           NEW a \in RollbackAnswers(name)
    PROVE  Quiet(a) \/ (a.ok /\ ~InTransaction /\ a.server = server) \/ \E n \in Outer(name) : UndoneTo(a, name, n)
<1>1. CASE ~InTransaction
  <2>1. CASE engine = "postgres"
    BY <1>1, <2>1, DoneIs DEF RollbackAnswers, NothingToEnd
  <2>2. CASE engine # "postgres"
    BY <1>1, <2>2, RefusedQuiet DEF RollbackAnswers, NothingToEnd
  <2> QED BY <2>1, <2>2
<1>2. CASE InTransaction /\ Outer(name) = {}
  <2>1. engine # "postgres"
    BY <1>2 DEF Outer
  <2> QED BY <1>2, <2>1, RefusedQuiet DEF RollbackAnswers
<1>3. CASE InTransaction /\ Outer(name) # {}
  <2>1. PICK n \in Outer(name) : a = Done(Restored(n, Session[n + 1]))
    BY <1>3 DEF RollbackAnswers
  <2> DEFINE s == Restored(n, Session[n + 1])
  <2>2. s.session = SubSeq(Session, 1, n) /\ ~s.failed
    BY RestoredIs
  <2> HIDE DEF s
  <2>3. a.server = s /\ a.ok /\ Told(a)
    BY <2>1, DoneIs DEF s
  <2>4. UndoneTo(a, name, n)
    BY <1>3, <2>2, <2>3 DEF UndoneTo, s
  <2> QED BY <2>4
<1> QED BY <1>1, <1>2, <1>3

\* What a SAVEPOINT comes to.
LEMMA SavepointCases ==
    ASSUME server \in Servers, FailedOK(server), engine \in Engines, NEW name \in TransNames,
           NEW a \in SavepointAnswers(name)
    PROVE  \/ Quiet(a)
           \/ ~a.ok /\ ~InTransaction /\ a.server = server
           \/ /\ a.ok /\ Told(a) /\ ~server.failed
              /\ a.server = With(Append(Session, Frame("savepoint", name)))
<1>1. CASE server.failed
  BY <1>1, UnpreparedIs DEF SavepointAnswers
<1>2. CASE ~server.failed /\ (InTransaction \/ engine = "sqlite")
  <2>1. a = Done(With(Append(Session, Frame("savepoint", name))))
    BY <1>2 DEF SavepointAnswers
  <2> QED BY <1>2, <2>1, DoneIs
<1>3. CASE ~server.failed /\ ~InTransaction /\ engine # "sqlite"
  BY <1>3, RefusedIs DEF SavepointAnswers
<1> QED BY <1>1, <1>2, <1>3

\* What a ROLLBACK TO comes to.
LEMMA RollbackToCases ==
    ASSUME server \in Servers, FailedOK(server), NEW name, NEW a \in RollbackToAnswers(name)
    PROVE  \/ a = Refused /\ ~a.ok /\ Reachable(name) = {}
           \/ /\ a.ok /\ Told(a) /\ Reachable(name) # {}
              /\ a.server = Restored(Latest(name), Session[Latest(name)])
BY DoneIs, RefusedIs DEF RollbackToAnswers

\* What a RELEASE comes to.
LEMMA ReleaseCases ==
    ASSUME server \in Servers, FailedOK(server), NEW name, NEW a \in ReleaseAnswers(name)
    PROVE  \/ Quiet(a)
           \/ a = Refused /\ ~a.ok /\ Reachable(name) = {}
           \/ /\ a.ok /\ Told(a) /\ ~server.failed /\ Reachable(name) # {}
              /\ a.server = With(SubSeq(Session, 1, Latest(name) - 1))
<1>1. CASE server.failed
  BY <1>1, UnpreparedIs DEF ReleaseAnswers
<1>2. CASE ~server.failed
  BY <1>2, DoneIs, RefusedIs DEF ReleaseAnswers
<1> QED BY <1>1, <1>2

\* A statement that changed what it may change.
Ran(a, tables) ==
    /\ a.ok /\ Told(a) /\ ~server.failed /\ a.server.session = Session /\ ~a.server.failed
    /\ a.server.tables = tables
    /\ a.server.done = IF InTransaction THEN Append(server.done, ncall + 1) ELSE server.done

\* What any other statement comes to.
LEMMA SqlCases ==
    ASSUME server \in Servers, FailedOK(server), NEW able, NEW tables,
           NEW a \in SqlAnswers(able, tables)
    PROVE  \/ Quiet(a)
           \/ a = Refused /\ ~a.ok
           \/ Ran(a, tables) /\ able
           \/ /\ engine = "sqlite" /\ InTransaction /\ ~a.ok /\ ~Told(a)
              /\ a.server = Restored(0, Session[1])
<1> DEFINE done == IF InTransaction THEN Append(server.done, ncall + 1) ELSE server.done
           s == [server EXCEPT !.tables = tables, !.done = done]
<1>1. CASE server.failed
  BY <1>1, UnpreparedIs DEF SqlAnswers
<1>2. CASE ~server.failed /\ a = Refused
  BY <1>2, RefusedIs
<1>3. CASE ~server.failed /\ able /\ a = Done(s)
  <2>1. a.ok /\ Told(a) /\ a.server = s
    BY <1>3, DoneIs
  <2>2. /\ s.session = Session /\ s.tables = tables /\ s.done = done /\ s.failed = server.failed
    <3> HIDE DEF done
    <3> QED BY DEF Servers, ServerSet, Session
  <2> HIDE DEF s
  <2> QED BY <1>3, <2>1, <2>2 DEF Ran
<1>4. CASE /\ ~server.failed /\ engine = "sqlite" /\ InTransaction
           /\ a = [Refused EXCEPT !.server = Restored(0, Session[1])]
  <2> DEFINE r == Restored(0, Session[1])
  <2> HIDE DEF r
  <2>1. a = [Refused EXCEPT !.server = r]
    BY <1>4 DEF r
  <2>2. a.server = r /\ ~a.ok
    BY <2>1 DEF Refused
  <2> QED BY <1>4, <2>2 DEF Told, r
<1> QED BY <1>1, <1>2, <1>3, <1>4 DEF SqlAnswers

-----------------------------------------------------------------------------
(* The status follows the session.                                         *)

Chain(t, d) == Path(t, d, TransNames, TreeEvents(EventObjects))

\* The tree after gda_connection_internal_statement_executed().
Tracked(kind, name, typed, answer) ==
    IF Told(answer) THEN Track(trans, kind, name, typed, ncall + 1, AboutStatement(kind)) ELSE trans
Queries(r, t) == \/ r = t
                 \/ Depth(t) # 0 /\ Appended(r, t, Depth(t), SqlEvent(0, NULL))

\* An execution answers, records and reads the tables again.
LEMMA Executed ==
    ASSUME CoreInv, Enough(events), NEW kind \in Kinds, NEW name \in TransNames,
           kind \in {"savepoint", "rollback to", "release"} => name \in Names,
           NEW typed \in BOOLEAN, NEW answer \in Answers(Servers),
           kind = "begin" => Unused(trans) # {}, NEW changed,
           Execute(kind, name, typed, changed, answer)
    PROVE  /\ server' = answer.server /\ engine' = engine /\ ncall' = ncall + 1
           /\ Tree(Tracked(kind, name, typed, answer), EventObjects)
           /\ SameNames(trans', Tracked(kind, name, typed, answer))
           /\ Queries(trans', Tracked(kind, name, typed, answer))
<1> DEFINE t == Tracked(kind, name, typed, answer)
           updates == auto_meta /\ answer.ok /\ MetaAsserts(kind, typed)
           stale == IF updates THEN Contexts(kind, typed, changed) ELSE {}
<1>1. /\ server' = answer.server /\ engine' = engine /\ ncall' = ncall + 1
      /\ trans' = Queried(t, stale)
  BY DEF Execute, UpdateMeta, Tracked
<1> HIDE DEF stale
<1>2. Tree(t, EventObjects)
  BY ExecutionKeeps DEF Tracked
<1> HIDE DEF t
<1>3. /\ SameNames(trans', t)
      /\ trans' = t \/ (Depth(t) # 0 /\ Appended(trans', t, Depth(t), SqlEvent(0, NULL)))
  BY <1>1, <1>2, QueriedIs
<1> QED BY <1>1, <1>2, <1>3 DEF t, Queries

\* The event recorded with a statement is one of the connection's.
LEMMA AboutIs ==
    ASSUME CoreInv, Enough(events), NEW kind
    PROVE  AboutStatement(kind) \in EventObjects \cup {NULL}
<1>1. Held(trans) \in [EventObjects -> Nat] /\ EventsInv(events, Held(trans)) /\ ncall \in Nat
  BY HeldIs DEF CoreInv, TypeOK
<1>2. AvailableEvent(PostEvent(Began, CommandEvent)) \in EventObjects
  BY <1>1, PostedKeeps
<1> QED BY <1>2 DEF AboutStatement

\* A statement is recorded in the innermost transaction, if there is one.
Recording(r, t, id) ==
    \E about : IF Depth(t) = 0 THEN r = t ELSE Appended(r, t, Depth(t), SqlEvent(id, about))

\* A statement that is recorded leaves the objects of the tree and their names.
LEMMA SqlRecords ==
    ASSUME CoreInv, Enough(events), NEW kind
    PROVE  LET r == SqlExecuted(trans, ncall + 1, AboutStatement(kind))
           IN  SameNames(r, trans) /\ Recording(r, trans, ncall + 1)
<1> DEFINE id == ncall + 1
           about == AboutStatement(kind)
           r == SqlExecuted(trans, id, about)
           d == Depth(trans)
<1>1. Chain(trans, d) /\ d \in Nat
  BY TreeIs DEF CoreInv, Chain
<1>2. id \in Nat
  BY Depths DEF CoreInv, TypeOK
<1>3. about \in EventObjects \cup {NULL}
  BY AboutIs
<1>4. SqlEvent(id, about) \in TreeEvents(EventObjects)
  <2> HIDE DEF id, about
  <2> QED BY <1>2, <1>3, Recordable
<1> HIDE DEF id, about, d
<1>5. IF d = 0 THEN r = trans
      ELSE Chain(r, d) /\ Appended(r, trans, d, SqlEvent(id, about))
  BY <1>1, <1>4, ExecutedIs DEF Chain
<1> HIDE DEF r
<1>6. CASE d = 0
  <2>1. r = trans
    BY <1>5, <1>6
  <2>2. SameNames(r, trans)
    BY <2>1 DEF SameNames
  <2>3. Recording(r, trans, id)
    BY <1>6, <2>1 DEF Recording, d
  <2> QED BY <2>2, <2>3 DEF r, id, about
<1>7. CASE d # 0
  <2>1. Chain(r, d) /\ Appended(r, trans, d, SqlEvent(id, about))
    BY <1>5, <1>7
  <2>2. SameNames(r, trans)
    BY <1>1, <2>1, AppendedSame DEF Chain
  <2>3. Recording(r, trans, id)
    BY <1>7, <2>1 DEF Recording, d
  <2> QED BY <2>2, <2>3 DEF r, id, about
<1> QED BY <1>6, <1>7

\* A name that the tree does not know is nowhere in it.
LEMMA NotKnown ==
    ASSUME NEW t, NEW d, Chain(t, d), NEW name \in Names,
           name \notin ToSet(Nesting(t)) \cup TrackedSavepoints(t), NEW n \in 1 .. d
    PROVE  t.node[n].name # name /\ Own(t, n, name) = {}
<1>1. ToSet(Nesting(t)) = {t.node[m].name : m \in 1 .. d}
  BY DepthIs DEF Chain
<1>2. ASSUME NEW k \in DOMAIN Ev(t, n), Ev(t, n)[k].type # "sub" PROVE Ev(t, n)[k].str # name
  <2>1. <<n, k>> \in Recorded(t) /\ EventAt(t, <<n, k>>) = Ev(t, n)[k]
    BY RecordedIs DEF Chain
  <2>2. Ev(t, n) \in Seq(TreeEvents(EventObjects)) /\ DOMAIN Ev(t, n) = 1 .. Len(Ev(t, n))
    BY SubOf DEF Chain
  <2>3. Ev(t, n)[k] \in TreeEvents(EventObjects)
    BY <2>2
  <2>4. CASE Ev(t, n)[k].type = "savepoint"
    <3>1. <<n, k>> \in OfType(t, "savepoint")
      BY <2>1, <2>4 DEF OfType
    <3>2. EventAt(t, <<n, k>>).str \in TrackedSavepoints(t)
      BY <3>1 DEF TrackedSavepoints
    <3> QED BY <2>1, <3>2
  <2>5. CASE Ev(t, n)[k].type = "sql"
    BY <2>3, <2>5, NamesAssumption DEF TreeEvents
  <2> QED BY <1>2, <2>3, <2>4, <2>5 DEF TreeEvents
<1>3. Own(t, n, name) = {}
  BY <1>2 DEF Own, Ev
<1> QED BY <1>1, <1>3

\* One transaction is the first frame of the session.
LEMMA OneTrans ==
    ASSUME NEW t, NEW s \in Seq(FrameSet), Mirrors(t, s), s # NoSession, Depth(t) \in Nat, Depth(t) <= 1
    PROVE  Trans(s) = {1} /\ Depth(t) = 1
<1>1. PICK pos : Matched(pos, t, s)
  BY DEF Mirrors
<1>2. s[1].kind = "transaction" /\ Depth(t) = 1
  BY DEF Mirrors
<1>3. Len(s) \in Nat /\ DOMAIN s = 1 .. Len(s) /\ (s = << >> <=> Len(s) = 0)
  BY EmptySeq
<1>4. 1 \in Trans(s)
  BY <1>2, <1>3 DEF Trans, NoSession
<1>5. \A i \in Trans(s) : i = pos[1]
  BY <1>1, <1>2 DEF Matched
<1> QED BY <1>2, <1>4, <1>5

\* The status is that of a session.
Matches(t, session) == /\ Mirrors(t, session) /\ Distinguished(t)
                       /\ engine # "nesting" => Depth(t) <= 1
StatusInv == FailedOK(server) /\ (regular => Matches(trans, Session))

\* The status of a session stays one as long as the objects are the same.
LEMMA SameMatches ==
    ASSUME NEW r, NEW t, SameNames(r, t), Depth(t) \in Nat, NEW session, Matches(t, session)
    PROVE  Matches(r, session)
<1>1. Mirrors(r, session) /\ Distinguished(r)
  BY SameNamesKeep DEF Matches
<1> QED BY <1>1 DEF Matches, SameNames

\* What is known before a statement is executed.
StatusBefore == /\ CoreInv /\ Enough(events)
                /\ FailedOK(server) /\ Matches(trans, Session)

\* Facts about the state before a statement.
LEMMA BeforeIs ==
    ASSUME StatusBefore
    PROVE  /\ server \in Servers /\ engine \in Engines /\ FailedOK(server) /\ ServerOK
           /\ Chain(trans, Depth(trans)) /\ Depth(trans) \in Nat
           /\ Session \in Seq(FrameSet) /\ Mirrors(trans, Session) /\ Distinguished(trans)
           /\ InTransaction <=> Depth(trans) # 0
           /\ engine # "nesting" => Depth(trans) <= 1
           /\ \A typed : typed \in Typed(NULL) => typed = TRUE
           /\ engine # "sqlite" => \A name : Typed(name) = {TRUE}
           /\ Trans(Session) = Transactions
<1>1. ServerOK /\ server \in Servers
  BY ServerIs DEF StatusBefore
<1>2. Session \in Seq(FrameSet)
  BY <1>1, SessionIs
<1>3. Chain(trans, Depth(trans)) /\ Depth(trans) \in Nat
  BY TreeIs DEF StatusBefore, CoreInv, Chain
<1>4. InTransaction <=> Depth(trans) # 0
  BY DEF StatusBefore, Matches, Mirrors, InTransaction
<1>5. Trans(Session) = Transactions
  BY DEF Trans, Transactions
<1>6. /\ \A typed : typed \in Typed(NULL) => typed = TRUE
      /\ engine # "sqlite" => \A name : Typed(name) = {TRUE}
  BY DEF Typed
<1> QED BY <1>1, <1>2, <1>3, <1>4, <1>5, <1>6 DEF StatusBefore, Matches, ServerOK

\* A transaction that begins is the last of both.
LEMMA BeginMatches ==
    ASSUME StatusBefore, NEW name \in TransNames, NEW a, ~server.failed,
           InTransaction => engine = "nesting", name \in Known => name = NULL,
           a.ok, Told(a), a.server = With(Append(Session, Frame("transaction", name))),
           Unused(trans) # {}
    PROVE  Matches(Tracked("begin", name, TRUE, a), a.server.session)
<1> DEFINE r == TransactionStarted(trans, name)
           d == Depth(trans)
           f == Frame("transaction", name)
           s == Append(Session, f)
<1>1. /\ server \in Servers /\ Chain(trans, d) /\ d \in Nat /\ Session \in Seq(FrameSet)
      /\ Mirrors(trans, Session) /\ Distinguished(trans)
      /\ InTransaction <=> d # 0
  BY BeforeIs
<1>2. Tracked("begin", name, TRUE, a) = r
  BY DEF Tracked, Track
<1>3. /\ f \in FrameSet /\ f.kind = "transaction" /\ f.name = name
  BY <1>1, Framed DEF Frame
<1> HIDE DEF f
<1>4. a.server.session = s
  BY <1>1, WithIs DEF f
<1> HIDE DEF r, s
<1>5. d + 1 \in Nat /\ SubEvent(d + 1) \in TreeEvents(EventObjects)
  <2>1. d + 1 \in Nat
    BY <1>1, Depths
  <2> QED BY <2>1, Recordable
<1>6. Chain(r, d + 1) /\ Started(r, trans, d, name)
  BY <1>1, <1>5, StartedIs DEF Chain, r
<1>7. Depth(r) = d + 1
  BY <1>6, DepthIs DEF Chain
<1>8. /\ \A n \in 1 .. d : r.node[n].name = trans.node[n].name
      /\ r.node[d + 1].name = name
      /\ \A n \in 1 .. d : Ev(r, n) = IF n = d THEN Append(Ev(trans, d), SubEvent(d + 1)) ELSE Ev(trans, n)
  <2>1. \A m \in 1 .. d + 1 : /\ r.node[m].name = IF m = d + 1 THEN name ELSE trans.node[m].name
                              /\ Ev(r, m) = IF m = d + 1 THEN << >>
                                     ELSE IF m = d THEN Append(Ev(trans, d), SubEvent(d + 1)) ELSE Ev(trans, m)
    BY <1>6 DEF Started
  <2>2. \A n \in 1 .. d : n \in 1 .. d + 1 /\ n # d + 1
    BY <1>1
  <2>3. d + 1 \in 1 .. d + 1
    BY <1>1
  <2> QED BY <2>1, <2>2, <2>3
<1>9. Mirrors(r, s)
  <2>1. d = Depth(trans)
    OBVIOUS
  <2> HIDE DEF d
  <2> QED BY <1>1, <1>3, <1>7, <1>8, <2>1, PushedMirrors DEF s
<1>10. Distinguished(r)
  <2> SUFFICES ASSUME Depth(r) >= 2, r.node[2].name # NULL
               PROVE  r.node[1].name # r.node[2].name /\ Own(r, 1, r.node[2].name) = {}
    BY DEF Distinguished
  <2>1. CASE d >= 2
    <3>1. 1 \in 1 .. d /\ 2 \in 1 .. d /\ 1 # d
      BY <1>1, <2>1
    <3>2. Ev(r, 1) = Ev(trans, 1) /\ r.node[1].name = trans.node[1].name /\ r.node[2].name = trans.node[2].name
      BY <1>8, <3>1
    <3>3. trans.node[1].name # trans.node[2].name /\ Own(trans, 1, trans.node[2].name) = {}
      BY <1>1, <2>1, <3>2 DEF Distinguished
    <3>4. Own(r, 1, r.node[2].name) = Own(trans, 1, trans.node[2].name)
      BY <3>2 DEF Own
    <3> QED BY <3>2, <3>3, <3>4
  <2>2. CASE d = 1
    <3>1. 1 \in 1 .. d /\ d + 1 = 2 /\ r.node[2].name = name
      BY <1>8, <2>2
    <3>2. r.node[1].name = trans.node[1].name /\ Ev(r, 1) = Append(Ev(trans, 1), SubEvent(2))
      BY <1>8, <2>2, <3>1
    <3>3. name \in Names /\ name \notin ToSet(Nesting(trans)) \cup TrackedSavepoints(trans)
      BY <3>1 DEF Known, TransNames
    <3>4. trans.node[1].name # name /\ Own(trans, 1, name) = {}
      BY <1>1, <3>1, <3>3, NotKnown
    <3>5. Own(r, 1, name) = {}
      <4>1. Ev(trans, 1) \in Seq(TreeEvents(EventObjects))
        BY <1>1, <3>1, SubOf DEF Chain
      <4>2. \A k \in DOMAIN Ev(r, 1) : k \in DOMAIN Ev(trans, 1) \/ Ev(r, 1)[k] = SubEvent(2)
        BY <3>2, <4>1
      <4>3. \A k \in DOMAIN Ev(trans, 1) : Ev(r, 1)[k] = Ev(trans, 1)[k]
        BY <3>2, <4>1
      <4>4. SubEvent(2).type = "sub"
        BY DEF SubEvent
      <4> QED BY <3>4, <4>2, <4>3, <4>4 DEF Own
    <3> QED BY <3>1, <3>2, <3>4, <3>5
  <2>3. d >= 2 \/ d = 1
    <3>1. d + 1 >= 2
      BY <1>7
    <3> QED BY <1>1, <3>1
  <2> QED BY <2>1, <2>2, <2>3
<1>11. engine # "nesting" => Depth(r) <= 1
  BY <1>1, <1>7
<1> QED BY <1>2, <1>4, <1>9, <1>10, <1>11 DEF Matches

\* A transaction that ends was the innermost of both.
LEMMA EndMatches ==
    ASSUME StatusBefore, NEW kind \in {"commit", "rollback"}, NEW name \in TransNames, NEW a,
           InTransaction, Told(a), NEW n \in Outer(name),
           a.server.session = SubSeq(Session, 1, n), ~a.server.failed,
           name # NULL => ~(trans.root = NULL \/ Last(Nesting(trans)) # name \/ Len(Nesting(trans)) > 2)
    PROVE  Matches(Tracked(kind, name, TRUE, a), a.server.session)
<1> DEFINE r == TransactionEnded(trans, name)
           d == Depth(trans)
           s == SubSeq(Session, 1, n)
           m == n + 1
<1>1. /\ server \in Servers /\ Chain(trans, d) /\ d \in Nat /\ Session \in Seq(FrameSet)
      /\ Mirrors(trans, Session) /\ Distinguished(trans) /\ ServerOK
      /\ d # 0 /\ (engine # "nesting" => d <= 1) /\ Trans(Session) = Transactions
  BY BeforeIs
<1>2. Tracked(kind, name, TRUE, a) = r
  BY DEF Tracked, Track
<1>3. PICK dd \in 0 .. d :
        /\ Chain(r, dd) /\ Shrunk(r, dd, trans)
        /\ d # 0 /\ name = NULL => dd = d - 1
        /\ /\ name # NULL /\ d \in 1 .. 2 /\ trans.node[d].name = name
           /\ d = 2 => trans.node[1].name # name /\ Own(trans, 1, name) = {}
           => dd = d - 1
  BY <1>1, EndedIs DEF Chain
<1> HIDE DEF r
<1>4. dd = d - 1
  <2>1. CASE name = NULL
    BY <1>1, <1>3, <2>1
  <2>2. CASE name # NULL
    <3>1. Last(Nesting(trans)) = name /\ ~(d > 2)
      BY <2>2 DEF Depth
    <3>2. Last(Nesting(trans)) = trans.node[d].name
      BY <1>1, DepthIs DEF Chain
    <3>3. d \in 1 .. 2
      BY <1>1, <3>1
    <3>4. d = 2 => trans.node[1].name # name /\ Own(trans, 1, name) = {}
      BY <1>1, <2>2, <3>1, <3>2 DEF Distinguished
    <3> QED BY <1>3, <2>2, <3>1, <3>2, <3>3, <3>4
  <2> QED BY <2>1, <2>2
<1>5. Depth(r) = d - 1 /\ d - 1 \in Nat
  BY <1>1, <1>3, <1>4, DepthIs DEF Chain
<1>6. /\ n \in Nat /\ n < Len(Session) /\ m \in 1 .. Len(Session)
      /\ engine # "nesting" => n = 0
      /\ engine = "nesting" => n = Innermost - 1 /\ Innermost \in Transactions
  BY <1>1, OuterIs
<1>7. m \in Trans(Session) /\ \A i \in Trans(Session) : i <= m
  <2>1. CASE engine = "nesting"
    <3>1. Transactions # {}
      BY <1>6, <2>1
    <3>2. \A j \in Transactions : j <= Innermost
      BY <1>1, <3>1, InnermostIs
    <3>3. Innermost \in Nat
      BY <1>1, <3>1, InnermostIs, SessionIs
    <3>4. m = Innermost
      BY <1>6, <2>1, <3>3
    <3> HIDE DEF m
    <3> QED BY <1>1, <1>6, <2>1, <3>2, <3>4
  <2>2. CASE engine # "nesting"
    <3>1. Trans(Session) = {1}
      BY <1>1, <2>2, OneTrans DEF InTransaction
    <3>2. m = 1
      BY <1>6, <2>2
    <3> QED BY <3>1, <3>2
  <2> QED BY <2>1, <2>2
<1>8. /\ s \in Seq(FrameSet) /\ Len(s) = n /\ \A i \in 1 .. n : s[i] = Session[i]
  <2>1. n <= Len(Session)
    BY <1>1, <1>6, SessionIs
  <2> QED BY <1>1, <1>6, <2>1, PartOf
<1>9. /\ \A i \in 1 .. Depth(r) : r.node[i].name = trans.node[i].name
      /\ \A i \in 1 .. Depth(r) : \A k \in DOMAIN Ev(r, i) :
            \E j \in DOMAIN Ev(trans, i) : Ev(r, i)[k] = Ev(trans, i)[j]
  BY <1>3, <1>4, <1>5 DEF Shrunk
<1>10. Mirrors(r, s)
  <2>1. d = Depth(trans) /\ n = m - 1
    BY <1>6
  <2> HIDE DEF d, s, m
  <2> QED BY <1>1, <1>5, <1>7, <1>8, <1>9, <2>1, PoppedMirrors
<1>11. Distinguished(r)
  <2> SUFFICES ASSUME Depth(r) >= 2, r.node[2].name # NULL
               PROVE  r.node[1].name # r.node[2].name /\ Own(r, 1, r.node[2].name) = {}
    BY DEF Distinguished
  <2>1. 1 \in 1 .. Depth(r) /\ 2 \in 1 .. Depth(r) /\ d >= 2
    BY <1>1, <1>5
  <2>2. r.node[1].name = trans.node[1].name /\ r.node[2].name = trans.node[2].name
    BY <1>9, <2>1
  <2>3. trans.node[1].name # trans.node[2].name /\ Own(trans, 1, trans.node[2].name) = {}
    BY <1>1, <2>1, <2>2 DEF Distinguished
  <2>4. \A k \in DOMAIN Ev(r, 1) : \E j \in DOMAIN Ev(trans, 1) : Ev(r, 1)[k] = Ev(trans, 1)[j]
    BY <1>9, <2>1
  <2>5. Own(r, 1, r.node[2].name) = {}
    BY <2>2, <2>3, <2>4 DEF Own
  <2> QED BY <2>2, <2>3, <2>5
<1>12. engine # "nesting" => Depth(r) <= 1
  BY <1>1, <1>5
<1> QED BY <1>2, <1>10, <1>11, <1>12 DEF Matches

\* The savepoints of the only transaction come after it.
LEMMA SavepointsFollow ==
    ASSUME StatusBefore, Depth(trans) = 1, NEW session \in Seq(FrameSet),
           Trans(session) = Trans(Session), \A i \in Trans(Session) : session[i] = Session[i],
           session # NoSession
    PROVE  Matches(trans, session)
<1>1. /\ Mirrors(trans, Session) /\ Distinguished(trans) /\ Session \in Seq(FrameSet) /\ InTransaction
  BY BeforeIs
<1>2. 1 \in Trans(Session)
  BY <1>1, OneTrans DEF InTransaction
<1>3. Mirrors(trans, session)
  BY <1>1, <1>2, SameTransMirror DEF InTransaction
<1> QED BY <1>1, <1>3 DEF Matches

\* A savepoint of the only transaction leaves the nesting.
LEMMA SavepointMatches ==
    ASSUME StatusBefore, NEW name \in Names, NEW a, ~server.failed, a.ok, Told(a), Depth(trans) = 1,
           a.server = With(Append(Session, Frame("savepoint", name)))
    PROVE  Matches(Tracked("savepoint", name, TRUE, a), a.server.session)
<1> DEFINE r == SavepointAdded(trans, name)
           f == Frame("savepoint", name)
           s == Append(Session, f)
<1>1. /\ server \in Servers /\ Chain(trans, 1) /\ Session \in Seq(FrameSet) /\ InTransaction
  BY BeforeIs
<1>2. Tracked("savepoint", name, TRUE, a) = r
  BY DEF Tracked, Track
<1>3. /\ f \in FrameSet /\ f.kind = "savepoint"
  BY <1>1, Framed DEF Frame, TransNames, InTransaction
<1> HIDE DEF f
<1>4. a.server.session = s
  BY <1>1, WithIs DEF f
<1>5. SavepointEvent(name) \in TreeEvents(EventObjects)
  BY Recordable
<1> HIDE DEF r
<1>6. Chain(r, 1) /\ Appended(r, trans, 1, SavepointEvent(name))
  BY <1>1, <1>5, AddedIs DEF Chain, r
<1>7. SameNames(r, trans)
  BY <1>1, <1>6, AppendedSame DEF Chain
<1>8. /\ s \in Seq(FrameSet) /\ s # NoSession /\ Trans(s) = Trans(Session)
      /\ \A i \in Trans(Session) : s[i] = Session[i]
  <2>1. /\ s \in Seq(FrameSet) /\ Len(s) = Len(Session) + 1 /\ Len(Session) \in Nat
        /\ DOMAIN s = 1 .. Len(Session) + 1 /\ DOMAIN Session = 1 .. Len(Session)
        /\ \A i \in 1 .. Len(Session) : s[i] = Session[i]
        /\ s[Len(Session) + 1] = f
    BY <1>1, <1>3
  <2> HIDE DEF s
  <2>2. s # NoSession
    BY <2>1 DEF NoSession
  <2>3. \A i : i \in DOMAIN s <=> i \in DOMAIN Session \/ i = Len(Session) + 1
    BY <2>1
  <2>4. Trans(s) = Trans(Session)
    BY <1>3, <2>1, <2>3 DEF Trans
  <2> QED BY <2>1, <2>2, <2>4 DEF Trans
<1> HIDE DEF s
<1>9. Matches(trans, s)
  BY <1>8, SavepointsFollow
<1>10. Matches(r, s)
  BY <1>7, <1>9, SameMatches
<1> QED BY <1>2, <1>4, <1>10

\* The part of the session up to a savepoint that a statement can name.
LEMMA PartMatches ==
    ASSUME StatusBefore, Depth(trans) = 1, NEW name, Reachable(name) # {},
           NEW n \in {Latest(name), Latest(name) - 1}
    PROVE  Matches(trans, SubSeq(Session, 1, n)) /\ n \in Nat /\ n <= Len(Session) /\ n >= 1
<1>1. server \in Servers /\ ServerOK /\ Session \in Seq(FrameSet) /\ InTransaction /\ Trans(Session) = Transactions
      /\ Mirrors(trans, Session)
  BY BeforeIs
<1>2. Latest(name) \in 1 .. Len(Session) /\ \A j \in Transactions : j < Latest(name)
  BY <1>1, LatestIs
<1>3. 1 \in Transactions
  BY <1>1, OneTrans DEF InTransaction
<1>4. Len(Session) \in Nat /\ DOMAIN Session = 1 .. Len(Session)
  BY <1>1
<1>5. n \in Nat /\ n <= Len(Session) /\ n >= 1
  BY <1>2, <1>3, <1>4
<1>6. \A j \in Transactions : j \in 1 .. n
  <2> SUFFICES ASSUME NEW j \in Transactions PROVE j \in 1 .. n
    OBVIOUS
  <2>1. j \in 1 .. Len(Session) /\ j < Latest(name)
    BY <1>2, <1>4 DEF Transactions
  <2> QED BY <1>2, <1>4, <2>1
<1> DEFINE s == SubSeq(Session, 1, n)
<1>7. s \in Seq(FrameSet) /\ Len(s) = n /\ (\A i \in 1 .. n : s[i] = Session[i]) /\ (s = NoSession <=> n = 0)
  BY <1>1, <1>5, PartOf
<1> HIDE DEF s
<1>8. DOMAIN s = 1 .. n
  BY <1>7
<1>9. \A i \in 1 .. n : i \in DOMAIN Session
  BY <1>4, <1>5
<1>10. Trans(s) = Transactions
  BY <1>6, <1>7, <1>8, <1>9 DEF Trans, Transactions
<1>11. s # NoSession
  BY <1>5, <1>7
<1>12. \A i \in Trans(Session) : s[i] = Session[i]
  BY <1>1, <1>6, <1>7
<1>13. Matches(trans, s)
  BY <1>1, <1>7, <1>10, <1>11, <1>12, SavepointsFollow
<1> QED BY <1>5, <1>13 DEF s

\* ROLLBACK TO leaves the nesting.
LEMMA RollbackToMatches ==
    ASSUME StatusBefore, NEW name \in Names, NEW a, a.ok, Told(a), Depth(trans) = 1,
           Reachable(name) # {}, a.server = Restored(Latest(name), Session[Latest(name)])
    PROVE  Matches(Tracked("rollback to", name, TRUE, a), a.server.session)
<1> DEFINE r == SavepointRolledback(trans, name)
           n == Latest(name)
           s == SubSeq(Session, 1, n)
           k == Earliest(Own(trans, 1, name))
<1>1. /\ server \in Servers /\ Chain(trans, 1)
  BY BeforeIs
<1>2. Tracked("rollback to", name, TRUE, a) = r
  BY DEF Tracked, Track
<1>3. a.server.session = s
  <2> DEFINE x == Restored(n, Session[n])
  <2>1. x.session = s
    BY <1>1, RestoredIs
  <2> HIDE DEF x
  <2> QED BY <2>1 DEF x
<1> HIDE DEF r, s, k
<1>4. Matches(trans, s)
  BY PartMatches DEF s
<1>5. name # NULL
  BY NamesAssumption
<1>6. r = trans \/ (Chain(r, 1) /\ Cut(r, trans, 1, k))
  BY <1>1, <1>5, RolledbackIs DEF Chain, Rolledback, r, k
<1>7. SameNames(r, trans)
  <2>1. CASE r = trans
    BY <2>1 DEF SameNames
  <2>2. CASE Chain(r, 1) /\ Cut(r, trans, 1, k)
    <3>1. Depth(r) = 1
      BY <2>2, DepthIs DEF Chain
    <3>2. \A i \in 1 .. 1 : r.node[i].name = trans.node[i].name
      BY <2>2 DEF Cut
    <3> QED BY <3>1, <3>2 DEF SameNames
  <2> QED BY <1>6, <2>1, <2>2
<1>8. Matches(r, s)
  BY <1>4, <1>7, SameMatches
<1> QED BY <1>2, <1>3, <1>8

\* RELEASE, whether the server accepts it or not.
LEMMA RemovedSame ==
    ASSUME StatusBefore, NEW name \in Names, Depth(trans) = 1
    PROVE  SameNames(SavepointRemoved(trans, name), trans)
<1> DEFINE r == SavepointRemoved(trans, name)
           k == Earliest(Own(trans, 1, name))
<1>1. Chain(trans, 1)
  BY BeforeIs
<1>2. name # NULL
  BY NamesAssumption
<1> HIDE DEF r, k
<1>3. r = trans \/ (Chain(r, 1) /\ Without(r, trans, 1, k))
  BY <1>1, <1>2, ReleasedIs DEF Chain, Released, r, k
<1>4. CASE r = trans
  BY <1>4 DEF SameNames, r
<1>5. CASE Chain(r, 1) /\ Without(r, trans, 1, k)
  <2>1. Depth(r) = 1
    BY <1>5, DepthIs DEF Chain
  <2>2. \A i \in 1 .. 1 : r.node[i].name = trans.node[i].name
    BY <1>5 DEF Without
  <2>3. SameNames(r, trans)
    BY <2>1, <2>2 DEF SameNames
  <2> QED BY <2>3 DEF r
<1> QED BY <1>3, <1>4, <1>5

\* RELEASE leaves the nesting.
LEMMA ReleaseMatches ==
    ASSUME StatusBefore, NEW name \in Names, NEW a, a.ok, Told(a), ~server.failed, Depth(trans) = 1,
           Reachable(name) # {}, a.server = With(SubSeq(Session, 1, Latest(name) - 1))
    PROVE  Matches(Tracked("release", name, TRUE, a), a.server.session)
<1> DEFINE r == SavepointRemoved(trans, name)
           s == SubSeq(Session, 1, Latest(name) - 1)
<1>1. Tracked("release", name, TRUE, a) = r
  BY DEF Tracked, Track
<1>2. a.server.session = s
  BY BeforeIs, WithIs
<1> HIDE DEF r, s
<1>3. Matches(trans, s)
  BY PartMatches DEF s
<1>4. Matches(r, s)
  BY <1>3, RemovedSame, SameMatches DEF r
<1> QED BY <1>1, <1>2, <1>4

\* Any other statement leaves the transactions as they are.
LEMMA SqlMatches ==
    ASSUME StatusBefore, NEW kind, NEW name, NEW typed,
           ~typed \/ kind \in {"sql", "select"}, NEW a, a.server.session = Session
    PROVE  Matches(Tracked(kind, name, typed, a), a.server.session)
<1>1. SameNames(trans, trans)
  BY DEF SameNames
<1>2. Tracked(kind, name, typed, a) \in {trans, SqlExecuted(trans, ncall + 1, AboutStatement(kind))}
  BY DEF Tracked, Track
<1>3. SameNames(SqlExecuted(trans, ncall + 1, AboutStatement(kind)), trans)
  BY SqlRecords DEF StatusBefore
<1>4. SameNames(Tracked(kind, name, typed, a), trans)
  BY <1>1, <1>2, <1>3
<1> QED BY <1>4, SameMatches, BeforeIs DEF StatusBefore

\* A statement that nothing was done for.
LEMMA QuietMatches ==
    ASSUME StatusBefore, NEW kind, NEW name, NEW typed, NEW a, Quiet(a)
    PROVE  Matches(Tracked(kind, name, typed, a), a.server.session)
BY DEF StatusBefore, Quiet, Tracked, Session

\* No answer leaves a failed transaction where there is none.
LEMMA FailedKept ==
    ASSUME server \in Servers, engine \in Engines, FailedOK(server)
    PROVE  /\ \A name \in TransNames : \A a \in BeginAnswers(name) \cup CommitAnswers(name)
                 \cup RollbackAnswers(name) \cup SavepointAnswers(name) : FailedOK(a.server)
           /\ \A name : \A a \in RollbackToAnswers(name) \cup ReleaseAnswers(name) : FailedOK(a.server)
           /\ \A able, tables : \A a \in SqlAnswers(able, tables) : FailedOK(a.server)
<1>1. \A a : Quiet(a) => FailedOK(a.server)
  BY DEF Quiet
<1>2. FailedOK(Refused.server)
  BY RefusedIs DEF FailedOK, InTransaction
<1>3. \A session : ~server.failed => FailedOK(With(session))
  BY WithIs DEF FailedOK
<1>4. \A n, frame : FailedOK(Restored(n, frame))
  BY RestoredIs DEF FailedOK
<1>5. ASSUME NEW name \in TransNames, NEW a \in BeginAnswers(name) PROVE FailedOK(a.server)
  <2>1. Quiet(a) \/ a.server = server \/ (~server.failed /\ \E session : a.server = With(session))
    BY <1>5, BeginCases
  <2> QED BY <1>1, <1>3, <2>1
<1>6. ASSUME NEW name \in TransNames, NEW a \in CommitAnswers(name) PROVE FailedOK(a.server)
  <2>1. Quiet(a) \/ a.server = server \/ \E n \in Outer(name) : EndedAt(a, name, n)
    BY <1>6, CommitCases
  <2>2. Quiet(a) \/ a.server = server \/ ~a.server.failed
    BY <2>1 DEF EndedAt
  <2> QED BY <1>1, <2>2 DEF FailedOK
<1>7. ASSUME NEW name \in TransNames, NEW a \in RollbackAnswers(name) PROVE FailedOK(a.server)
  <2>1. Quiet(a) \/ a.server = server \/ \E n \in Outer(name) : UndoneTo(a, name, n)
    BY <1>7, RollbackCases
  <2>2. Quiet(a) \/ a.server = server \/ ~a.server.failed
    BY <2>1 DEF UndoneTo
  <2> QED BY <1>1, <2>2 DEF FailedOK
<1>8. ASSUME NEW name \in TransNames, NEW a \in SavepointAnswers(name) PROVE FailedOK(a.server)
  <2>1. Quiet(a) \/ a.server = server \/ (~server.failed /\ \E session : a.server = With(session))
    BY <1>8, SavepointCases
  <2> QED BY <1>1, <1>3, <2>1
<1>9. ASSUME NEW name, NEW a \in RollbackToAnswers(name) PROVE FailedOK(a.server)
  <2>1. a = Refused \/ \E n, frame : a.server = Restored(n, frame)
    BY <1>9, RollbackToCases
  <2> QED BY <1>2, <1>4, <2>1
<1>10. ASSUME NEW name, NEW a \in ReleaseAnswers(name) PROVE FailedOK(a.server)
  <2>1. Quiet(a) \/ a = Refused \/ (~server.failed /\ \E session : a.server = With(session))
    BY <1>10, ReleaseCases
  <2> QED BY <1>1, <1>2, <1>3, <2>1
<1>11. ASSUME NEW able, NEW tables, NEW a \in SqlAnswers(able, tables) PROVE FailedOK(a.server)
  <2>1. \/ Quiet(a) \/ a = Refused \/ Ran(a, tables)
        \/ \E n, frame : a.server = Restored(n, frame)
    BY <1>11, SqlCases
  <2>2. Ran(a, tables) => FailedOK(a.server)
    BY DEF Ran, FailedOK
  <2> QED BY <1>1, <1>2, <1>4, <2>1, <2>2
<1> QED BY <1>5, <1>6, <1>7, <1>8, <1>9, <1>10, <1>11

\* An execution keeps the status when what it records does.
LEMMA StatusFrom ==
    ASSUME CoreInv, Enough(events), NEW kind \in Kinds, NEW name \in TransNames,
           kind \in {"savepoint", "rollback to", "release"} => name \in Names,
           NEW typed \in BOOLEAN, NEW answer \in Answers(Servers),
           kind = "begin" => Unused(trans) # {}, NEW changed,
           Execute(kind, name, typed, changed, answer), FailedOK(answer.server),
           regular' => Matches(Tracked(kind, name, typed, answer), answer.server.session)
    PROVE  StatusInv'
<1> DEFINE t == Tracked(kind, name, typed, answer)
<1>1. /\ server' = answer.server /\ engine' = engine
      /\ Tree(t, EventObjects) /\ SameNames(trans', t)
  BY Executed
<1> HIDE DEF t
<1>2. Depth(t) \in Nat
  BY <1>1, TreeIs
<1>3. ASSUME regular' PROVE Matches(trans', answer.server.session)
  <2>1. Matches(t, answer.server.session)
    BY <1>3 DEF t
  <2> QED BY <1>1, <1>2, <2>1, SameMatches
<1>4. regular' => Matches(trans, Session)'
  BY <1>1, <1>3 DEF Matches, Session
<1>5. FailedOK(server)'
  BY <1>1 DEF FailedOK
<1> QED BY <1>4, <1>5 DEF StatusInv

\* BEGIN: what is recorded, unless it is irregular, is what the server did.
LEMMA BeginKeeps ==
    ASSUME CoreInv, StatusInv, NEW name \in TransNames, Begin(name)
    PROVE  StatusInv'
<1>1. PICK typed \in Typed(name), answer \in BeginAnswers(name) :
         /\ Execute("begin", name, typed, {}, answer)
         /\ Irregular(\/ answer.ok /\ ~typed
                      \/ answer.ok /\ InTransaction /\ engine = "postgres"
                      \/ name \in Known /\ name # NULL)
  BY DEF Begin
<1>2. /\ Enough(events) /\ Unused(trans) # {} /\ typed \in BOOLEAN /\ "begin" \in Kinds
      /\ ServerOK /\ server \in Servers /\ engine \in Engines /\ FailedOK(server)
  BY ServerIs, TypedIs DEF Begin, CanExecute, CanBegin, Enough, Kinds, ServerOK, StatusInv
<1>3. answer \in Answers(Servers) /\ FailedOK(answer.server)
  BY <1>2, BeginAnswersAre, FailedKept
<1>4. ASSUME regular' PROVE Matches(Tracked("begin", name, typed, answer), answer.server.session)
  <2>1. /\ regular /\ ~(answer.ok /\ ~typed) /\ ~(answer.ok /\ InTransaction /\ engine = "postgres")
        /\ name \in Known => name = NULL
    BY <1>1, <1>4 DEF Irregular
  <2>2. StatusBefore
    BY <1>2, <2>1 DEF StatusBefore, StatusInv
  <2>3. CASE Quiet(answer)
    BY <2>2, <2>3, QuietMatches
  <2>4. CASE /\ answer.ok /\ Told(answer) /\ ~server.failed /\ (InTransaction => engine = "nesting")
             /\ answer.server = With(Append(Session, Frame("transaction", name)))
    <3>1. typed = TRUE
      BY <1>2, <2>1, <2>4
    <3> QED BY <1>2, <2>1, <2>2, <2>4, <3>1, BeginMatches
  <2> QED BY <1>2, <2>1, <2>3, <2>4, BeginCases
<1> QED BY <1>1, <1>2, <1>3, <1>4, StatusFrom

\* COMMIT and ROLLBACK
LEMMA EndKeeps ==
    ASSUME CoreInv, StatusInv, NEW kind \in {"commit", "rollback"}, NEW name \in TransNames,
           NEW answers \in {CommitAnswers(name), RollbackAnswers(name)}, End(kind, name, answers)
    PROVE  StatusInv'
<1>1. PICK typed \in Typed(name), answer \in answers :
         /\ Execute(kind, name, typed, {}, answer)
         /\ Irregular(\/ answer.ok /\ ~typed
                      \/ answer.ok /\ ~InTransaction
                      \/ /\ name # NULL
                         /\ trans.root = NULL \/ Last(Nesting(trans)) # name
                              \/ Len(Nesting(trans)) > 2)
         /\ exact' = (exact /\ \/ kind = "rollback" /\ answer.ok
                               \/ answer.server.tables = server.tables
                                     /\ (answer.ok \/ answer.server.session = Session))
  BY DEF End
<1>2. /\ Enough(events) /\ typed \in BOOLEAN /\ kind \in Kinds
      /\ ServerOK /\ server \in Servers /\ engine \in Engines /\ FailedOK(server)
  BY ServerIs, TypedIs DEF End, CanExecute, Enough, Kinds, ServerOK, StatusInv
<1>3. answer \in Answers(Servers) /\ FailedOK(answer.server)
  BY <1>2, CommitAnswersAre, RollbackAnswersAre, FailedKept
<1>4. ASSUME regular' PROVE Matches(Tracked(kind, name, typed, answer), answer.server.session)
  <2>1. /\ regular /\ ~(answer.ok /\ ~typed) /\ ~(answer.ok /\ ~InTransaction)
        /\ name # NULL => ~(trans.root = NULL \/ Last(Nesting(trans)) # name \/ Len(Nesting(trans)) > 2)
    BY <1>1, <1>4 DEF Irregular
  <2>2. StatusBefore
    BY <1>2, <2>1 DEF StatusBefore, StatusInv
  <2>3. CASE Quiet(answer)
    BY <2>2, <2>3, QuietMatches
  <2>4. ASSUME NEW n \in Outer(name), InTransaction, Told(answer),
               answer.server.session = SubSeq(Session, 1, n), ~answer.server.failed,
               answer.ok \/ engine = "postgres"
        PROVE  Matches(Tracked(kind, name, typed, answer), answer.server.session)
    <3>1. typed = TRUE
      <4>1. engine = "postgres" => Typed(name) = {TRUE}
        BY <2>2, BeforeIs
      <4> QED BY <1>2, <2>1, <2>4, <4>1
    <3> QED BY <2>1, <2>2, <2>4, <3>1, EndMatches
  <2>5. \/ Quiet(answer)
        \/ \E n \in Outer(name) : EndedAt(answer, name, n) \/ UndoneTo(answer, name, n)
    BY <1>2, <2>1, CommitCases, RollbackCases
  <2> QED BY <2>3, <2>4, <2>5 DEF EndedAt, UndoneTo
<1> QED BY <1>1, <1>2, <1>3, <1>4, StatusFrom

\* SAVEPOINT
LEMMA AddSavepointKeeps ==
    ASSUME CoreInv, StatusInv, NEW name \in Names, AddSavepoint(name)
    PROVE  StatusInv'
<1>1. PICK typed \in Typed(name), answer \in SavepointAnswers(name) :
         /\ Execute("savepoint", name, typed, {}, answer)
         /\ Irregular(answer.ok /\ (~typed \/ ~OneTransaction \/ name \in Known
                                      \/ Reachable(name) # {}))
  BY DEF AddSavepoint
<1>2. /\ Enough(events) /\ typed \in BOOLEAN /\ "savepoint" \in Kinds /\ name \in TransNames
      /\ ServerOK /\ server \in Servers /\ engine \in Engines /\ FailedOK(server)
  BY ServerIs, TypedIs DEF AddSavepoint, CanExecute, Enough, Kinds, ServerOK, StatusInv, TransNames
<1>3. answer \in Answers(Servers) /\ FailedOK(answer.server)
  BY <1>2, SavepointAnswersAre, FailedKept
<1>4. ASSUME regular'
      PROVE  Matches(Tracked("savepoint", name, typed, answer), answer.server.session)
  <2>1. regular /\ (answer.ok => typed /\ OneTransaction)
    BY <1>1, <1>4 DEF Irregular
  <2>2. StatusBefore
    BY <1>2, <2>1 DEF StatusBefore, StatusInv
  <2>3. CASE Quiet(answer)
    BY <2>2, <2>3, QuietMatches
  <2>4. CASE ~answer.ok /\ ~InTransaction /\ answer.server = server
    <3> DEFINE t == Tracked("savepoint", name, typed, answer)
    <3>1. CASE ~typed
      BY <2>2, <2>4, <3>1, SqlMatches DEF Session
    <3>2. CASE typed
      <4>1. Chain(trans, 0)
        BY <2>2, <2>4, BeforeIs
      <4>2. SavepointAdded(trans, name) = trans
        BY <4>1, AddedIs DEF Chain
      <4>3. t = trans
        BY <3>2, <4>2 DEF Tracked, Track
      <4> QED BY <2>2, <2>4, <4>3 DEF StatusBefore, Session
    <3> QED BY <1>2, <3>1, <3>2
  <2>5. CASE /\ answer.ok /\ Told(answer) /\ ~server.failed
             /\ answer.server = With(Append(Session, Frame("savepoint", name)))
    <3>1. typed = TRUE /\ Depth(trans) = 1
      BY <1>2, <2>1, <2>5 DEF OneTransaction, Depth
    <3> QED BY <2>2, <2>5, <3>1, SavepointMatches
  <2> QED BY <1>2, <2>3, <2>4, <2>5, SavepointCases
<1> QED BY <1>1, <1>2, <1>3, <1>4, StatusFrom

\* ROLLBACK TO; one that PostgreSQL refused is told, but names nothing recorded.
LEMMA RollbackSavepointKeeps ==
    ASSUME CoreInv, StatusInv, NEW name \in Names, RollbackSavepoint(name)
    PROVE  StatusInv'
<1>1. PICK typed \in Typed(name), answer \in RollbackToAnswers(name) :
         /\ Execute("rollback to", name, typed, {}, answer)
         /\ Irregular(IF answer.ok THEN ~typed \/ ~OneTransaction \/ name \notin TrackedSavepoints(trans)
                      ELSE Told(answer) /\ name \in Known)
         /\ Unnoticed(answer, TRUE)
  BY DEF RollbackSavepoint
<1>2. /\ Enough(events) /\ typed \in BOOLEAN /\ "rollback to" \in Kinds /\ name \in TransNames
      /\ ServerOK /\ server \in Servers /\ engine \in Engines /\ FailedOK(server) /\ name # NULL
  BY ServerIs, TypedIs, NamesAssumption
  DEF RollbackSavepoint, CanExecute, Enough, Kinds, ServerOK, StatusInv, TransNames
<1>3. answer \in Answers(Servers) /\ FailedOK(answer.server)
  BY <1>2, RollbackToAnswersAre, FailedKept
<1>4. ASSUME regular'
      PROVE  Matches(Tracked("rollback to", name, typed, answer), answer.server.session)
  <2>1. /\ regular
        /\ answer.ok => typed /\ OneTransaction /\ name \in TrackedSavepoints(trans)
        /\ ~answer.ok => (Told(answer) => name \notin Known)
    BY <1>1, <1>4 DEF Irregular
  <2>2. StatusBefore
    BY <1>2, <2>1 DEF StatusBefore, StatusInv
  <2>3. CASE answer = Refused /\ ~answer.ok
    <3>1. answer.server.session = Session
      BY <1>2, <2>3, RefusedIs
    <3>2. CASE ~typed
      BY <2>2, <3>1, <3>2, SqlMatches
    <3>3. CASE typed
      <4>1. CASE ~Told(answer)
        BY <2>2, <3>1, <4>1 DEF Tracked, StatusBefore
      <4>2. CASE Told(answer)
        <5>1. name \notin ToSet(Nesting(trans)) \cup TrackedSavepoints(trans)
          BY <2>1, <2>3, <4>2 DEF Known
        <5>2. Chain(trans, Depth(trans))
          BY <2>2, BeforeIs
        <5>3. ~Holds(trans, Depth(trans), name)
          <6>1. ASSUME Depth(trans) # 0 PROVE 1 \in 1 .. Depth(trans)
            BY <2>2, <6>1, BeforeIs
          <6> QED BY <5>1, <5>2, <6>1, NotKnown DEF Holds
        <5>4. SavepointRolledback(trans, name) = trans
          BY <1>2, <5>2, <5>3, RolledbackIs DEF Chain, Rolledback
        <5>5. Tracked("rollback to", name, typed, answer) = trans
          BY <3>3, <4>2, <5>4 DEF Tracked, Track
        <5> QED BY <2>2, <3>1, <5>5 DEF StatusBefore
      <4> QED BY <4>1, <4>2
    <3> QED BY <1>2, <3>2, <3>3
  <2>4. CASE /\ answer.ok /\ Told(answer) /\ Reachable(name) # {}
             /\ answer.server = Restored(Latest(name), Session[Latest(name)])
    <3>1. typed = TRUE /\ Depth(trans) = 1
      BY <1>2, <2>1, <2>4 DEF OneTransaction, Depth
    <3> QED BY <2>2, <2>4, <3>1, RollbackToMatches
  <2> QED BY <1>2, <2>3, <2>4, RollbackToCases
<1> QED BY <1>1, <1>2, <1>3, <1>4, StatusFrom

\* RELEASE
LEMMA DeleteSavepointKeeps ==
    ASSUME CoreInv, StatusInv, NEW name \in Names, DeleteSavepoint(name)
    PROVE  StatusInv'
<1>1. PICK typed \in Typed(name), answer \in ReleaseAnswers(name) :
         /\ Execute("release", name, typed, {}, answer)
         /\ Irregular(Told(answer) /\ (~typed \/ ~OneTransaction))
  BY DEF DeleteSavepoint
<1>2. /\ Enough(events) /\ typed \in BOOLEAN /\ "release" \in Kinds /\ name \in TransNames
      /\ ServerOK /\ server \in Servers /\ engine \in Engines /\ FailedOK(server)
  BY ServerIs, TypedIs DEF DeleteSavepoint, CanExecute, Enough, Kinds, ServerOK, StatusInv, TransNames
<1>3. answer \in Answers(Servers) /\ FailedOK(answer.server)
  BY <1>2, ReleaseAnswersAre, FailedKept
<1>4. ASSUME regular'
      PROVE  Matches(Tracked("release", name, typed, answer), answer.server.session)
  <2>1. regular /\ (Told(answer) => typed /\ OneTransaction)
    BY <1>1, <1>4 DEF Irregular
  <2>2. StatusBefore
    BY <1>2, <2>1 DEF StatusBefore, StatusInv
  <2>3. Told(answer) => typed = TRUE /\ Depth(trans) = 1
    BY <1>2, <2>1 DEF OneTransaction, Depth
  <2>4. CASE Quiet(answer)
    BY <2>2, <2>4, QuietMatches
  <2>5. CASE answer = Refused
    <3>1. answer.server.session = Session
      BY <1>2, <2>5, RefusedIs
    <3>2. CASE ~Told(answer)
      BY <2>2, <3>1, <3>2 DEF Tracked, StatusBefore
    <3>3. CASE Told(answer)
      <4>1. Tracked("release", name, typed, answer) = SavepointRemoved(trans, name)
        BY <2>3, <3>3 DEF Tracked, Track
      <4>2. SameNames(SavepointRemoved(trans, name), trans)
        BY <2>2, <2>3, <3>3, RemovedSame
      <4> QED BY <2>2, <3>1, <4>1, <4>2, SameMatches, BeforeIs DEF StatusBefore
    <3> QED BY <3>2, <3>3
  <2>6. CASE /\ answer.ok /\ Told(answer) /\ ~server.failed /\ Reachable(name) # {}
             /\ answer.server = With(SubSeq(Session, 1, Latest(name) - 1))
    BY <2>2, <2>3, <2>6, ReleaseMatches
  <2> QED BY <1>2, <2>4, <2>5, <2>6, ReleaseCases
<1> QED BY <1>1, <1>2, <1>3, <1>4, StatusFrom

\* Any other statement, of a kind that is recorded as one.
LEMMA SqlKeeps ==
    ASSUME CoreInv, StatusInv, Enough(events), NEW kind \in {"sql", "select"},
           NEW changed, NEW able, NEW tables \in SUBSET Tables,
           NEW answer \in SqlAnswers(able, tables),
           Execute(kind, NULL, TRUE, changed, answer),
           Irregular(InTransaction /\ answer.server.session = NoSession)
    PROVE  StatusInv'
<1>1. /\ kind \in Kinds /\ NULL \in TransNames /\ TRUE \in BOOLEAN
      /\ ServerOK /\ server \in Servers /\ engine \in Engines /\ FailedOK(server)
  BY ServerIs DEF Kinds, ServerOK, StatusInv, TransNames
<1>2. answer \in Answers(Servers) /\ FailedOK(answer.server)
  BY <1>1, SqlAnswersAre, FailedKept
<1>3. ASSUME regular' PROVE Matches(Tracked(kind, NULL, TRUE, answer), answer.server.session)
  <2>1. regular /\ ~(InTransaction /\ answer.server.session = NoSession)
    BY <1>3 DEF Irregular
  <2>2. StatusBefore
    BY <1>1, <2>1 DEF StatusBefore, StatusInv
  <2>3. answer.server.session = Session \/ (InTransaction /\ answer.server = Restored(0, Session[1]))
    <3>1. Refused.server.session = Session
      BY <1>1, RefusedIs
    <3> QED BY <1>1, <3>1, SqlCases DEF Quiet, Ran, Session
  <2>4. answer.server # Restored(0, Session[1]) \/ ~InTransaction
    <3>1. InTransaction => SubSeq(Session, 1, 0) = NoSession
      <4>1. ASSUME InTransaction PROVE SubSeq(Session, 1, 0) = NoSession
        BY <1>1, <4>1, SessionIs, PartOf
      <4> QED BY <4>1
    <3>2. Restored(0, Session[1]).session = SubSeq(Session, 1, 0)
      BY <1>1, RestoredIs
    <3> QED BY <2>1, <3>1, <3>2
  <2> QED BY <2>2, <2>3, <2>4, SqlMatches
<1> QED BY <1>1, <1>2, <1>3, StatusFrom

\* The other operations change neither, or are not what the functions expect.
LEMMA OthersKeep ==
    ASSUME CoreInv, StatusInv, ListEvents \/ ClearList \/ SetHistorySize \/ BatchExecute \/ CloseAndOpen
    PROVE  StatusInv'
<1>1. CASE ListEvents \/ ClearList \/ SetHistorySize \/ BatchExecute
  <2>1. UNCHANGED other
    BY <1>1 DEF ListEvents, ClearList, SetHistorySize, BatchExecute
  <2> QED BY <2>1 DEF other, StatusInv, FailedOK, Matches, Session
<1>2. CASE CloseAndOpen
  <2>1. /\ server' = IF InTransaction THEN Restored(0, Session[1]) ELSE server
        /\ engine' = engine /\ trans' = trans
        /\ regular' = (regular /\ ~(trans.root # NULL \/ InTransaction))
    BY <1>2 DEF CloseAndOpen, Irregular
  <2>2. FailedOK(server')
    BY <2>1, RestoredIs, ServerIs DEF FailedOK, StatusInv
  <2>3. FailedOK(server)'
    BY <2>1, <2>2 DEF FailedOK
  <2>4. regular' => server' = server /\ regular
    BY <2>1
  <2> QED BY <2>1, <2>3, <2>4 DEF StatusInv, Matches, Session
<1> QED BY <1>1, <1>2

\* There is no transaction at first.
LEMMA StatusAtFirst == Init => StatusInv
<1> SUFFICES ASSUME Init PROVE StatusInv
  OBVIOUS
<1>1. /\ trans = NoTree /\ server.session = NoSession /\ server.failed = FALSE
  BY DEF Init
<1>2. Chain(trans, 0)
  BY <1>1, EmptyPath DEF Chain
<1>3. Depth(trans) = 0
  BY <1>2, DepthIs DEF Chain
<1>4. Trans(NoSession) = {}
  BY DEF Trans, NoSession
<1>5. Matched(<< >>, trans, NoSession)
  <2>1. << >> \in [1 .. 0 -> {}]
    OBVIOUS
  <2> QED BY <1>3, <1>4, <2>1 DEF Matched
<1>6. Mirrors(trans, NoSession)
  BY <1>3, <1>5 DEF Mirrors
<1>7. Matches(trans, Session)
  BY <1>1, <1>3, <1>6 DEF Matches, Distinguished, Session
<1> QED BY <1>1, <1>7 DEF StatusInv, FailedOK

\* A statement that changes tables.
LEMMA DdlKeeps ==
    ASSUME CoreInv, StatusInv, NEW changed, NEW able, NEW tables \in SUBSET Tables,
           Ddl(changed, able, tables)
    PROVE  StatusInv'
<1>1. PICK answer \in SqlAnswers(able, tables) :
         /\ Execute("sql", NULL, TRUE, changed, answer)
         /\ Irregular(InTransaction /\ answer.server.session = NoSession)
  BY DEF Ddl
<1>2. Enough(events)
  BY DEF Ddl, CanExecute, Enough
<1> QED BY <1>1, <1>2, SqlKeeps

\* A SELECT
LEMMA SelectKeeps ==
    ASSUME CoreInv, StatusInv, Select
    PROVE  StatusInv'
<1>1. PICK answer \in SqlAnswers(TRUE, server.tables) :
         /\ Execute("select", NULL, TRUE, {}, answer)
         /\ Irregular(InTransaction /\ answer.server.session = NoSession)
  BY DEF Select
<1>2. Enough(events) /\ server.tables \in SUBSET Tables
  BY ServerIs DEF Select, CanExecute, Enough
<1> QED BY <1>1, <1>2, SqlKeeps

\* Every step keeps the status.
LEMMA StatusKept == CoreInv /\ StatusInv /\ [Next]_vars => StatusInv'
<1> SUFFICES ASSUME CoreInv, StatusInv, [Next]_vars PROVE StatusInv'
  OBVIOUS
<1>0. server.tables \in SUBSET Tables
  BY ServerIs
<1>1. ASSUME NEW name \in TransNames, Begin(name) \/ Commit(name) \/ Rollback(name) PROVE StatusInv'
  BY <1>1, BeginKeeps, EndKeeps DEF Commit, Rollback
<1>2. ASSUME NEW name \in Names, AddSavepoint(name) \/ RollbackSavepoint(name) \/ DeleteSavepoint(name)
      PROVE  StatusInv'
  BY <1>2, AddSavepointKeeps, RollbackSavepointKeeps, DeleteSavepointKeeps
<1>3. ASSUME NEW t \in Tables, NEW u \in Tables, Create(t) \/ Drop(t) \/ Rename(t, u) PROVE StatusInv'
  <2>1. /\ server.tables \cup {t} \in SUBSET Tables /\ server.tables \ {t} \in SUBSET Tables
        /\ (server.tables \ {t}) \cup {u} \in SUBSET Tables
    BY <1>0
  <2> QED BY <1>3, <2>1, DdlKeeps DEF Create, Drop, Rename
<1>4. CASE UNCHANGED vars
  BY <1>4 DEF vars, StatusInv, FailedOK, Matches, Session
<1>5. CASE Next
  BY <1>1, <1>2, <1>3, <1>5, SelectKeeps, OthersKeep DEF Next, TransNames
<1> QED BY <1>4, <1>5

\* The status is the invariant of the next two sections as well.
LEMMA StatusAlways == Spec => [](CoreInv /\ StatusInv)
BY CoreAtFirst, CoreKept, StatusAtFirst, StatusKept, PTL DEF Spec

\* gda_connection_get_transaction_status() has the transactions of the server's
\* session, outermost first, with their names.
THEOREM StatusIsTheServers == Spec => []StatusMatchesServer
<1>1. CoreInv /\ StatusInv => StatusMatchesServer
  <2> SUFFICES ASSUME CoreInv, StatusInv, regular PROVE StatusMatchesServer
    BY DEF StatusMatchesServer
  <2>1. Mirrors(trans, Session) /\ Session \in Seq(FrameSet) /\ Transactions = Trans(Session)
    BY ServerIs, SessionIs DEF StatusInv, Matches, Transactions, Trans
  <2>2. Chain(trans, Depth(trans))
    BY TreeIs DEF CoreInv, Chain
  <2>3. Nesting(trans) = [k \in 1 .. Cardinality(Trans(Session)) |->
           Session[CHOOSE i \in Trans(Session) : Cardinality({j \in Trans(Session) : j < i}) = k - 1].name]
    BY <2>1, <2>2, MirrorsSay DEF Chain
  <2> QED BY <2>3 DEF StatusMatchesServer, Transactions, Trans
<1> QED BY <1>1, StatusAlways, PTL

-----------------------------------------------------------------------------
(* The meta store follows the tables.                                      *)

\* Outside of the contexts kept since BEGIN the tables are what they were then.
Since(contexts, s) == \A t \in Tables \ contexts : t \in s.tables <=> t \in s.session[1].tables
MetaOK(known, contexts, s) ==
    /\ known = s.tables
    /\ contexts # NULL <=> s.session # NoSession
    /\ Trans(s.session) \subseteq {1}
    /\ s.session # NoSession => Since(contexts, s)
MetaInv == exact /\ regular => ~aborted /\ (auto_meta => MetaOK(meta, trans_meta_context, server))

\* What update_meta_store_after_statement_exec() leaves.
MetaAfter(kind, typed, changed, a) ==
    IF a.ok
    THEN /\ MetaAsserts(kind, typed)
         /\ MetaOK(Refresh(meta, Contexts(kind, typed, changed), a.server.tables),
                   AfterContexts(kind, typed, changed), a.server)
    ELSE MetaOK(meta, trans_meta_context, a.server)

\* An execution keeps the meta store when its update does.
LEMMA MetaFrom ==
    ASSUME NEW kind, NEW name, NEW typed, NEW changed, NEW a, Execute(kind, name, typed, changed, a),
           regular' /\ exact' /\ auto_meta => MetaAfter(kind, typed, changed, a)
    PROVE  MetaInv'
<1> DEFINE called == auto_meta /\ a.ok
           updates == called /\ MetaAsserts(kind, typed)
           stale == IF updates THEN Contexts(kind, typed, changed) ELSE {}
<1>1. /\ server' = a.server /\ auto_meta' = auto_meta
      /\ aborted' = (called /\ ~updates)
      /\ trans_meta_context' = IF updates THEN AfterContexts(kind, typed, changed) ELSE trans_meta_context
      /\ meta' = Refresh(meta, stale, a.server.tables)
  BY DEF Execute, UpdateMeta
<1>2. SUFFICES ASSUME regular', exact'
               PROVE  ~aborted' /\ (auto_meta => MetaOK(meta', trans_meta_context', server'))
  BY <1>1 DEF MetaInv, MetaOK, Since
<1>3. Refresh(meta, {}, a.server.tables) = meta
  BY DEF Refresh
<1>4. CASE ~auto_meta
  BY <1>1, <1>4
<1>5. CASE auto_meta /\ ~a.ok
  <2>1. ~called /\ ~updates /\ stale = {}
    BY <1>5
  <2>2. MetaOK(meta, trans_meta_context, a.server)
    BY <1>2, <1>5 DEF MetaAfter
  <2> HIDE DEF called, updates, stale
  <2> QED BY <1>1, <1>3, <2>1, <2>2
<1>6. CASE auto_meta /\ a.ok
  <2>1. /\ MetaAsserts(kind, typed)
        /\ MetaOK(Refresh(meta, Contexts(kind, typed, changed), a.server.tables),
                  AfterContexts(kind, typed, changed), a.server)
    BY <1>2, <1>6 DEF MetaAfter
  <2>2. updates /\ stale = Contexts(kind, typed, changed)
    BY <1>6, <2>1
  <2> HIDE DEF called, updates, stale
  <2> QED BY <1>1, <2>1, <2>2
<1> QED BY <1>4, <1>5, <1>6

\* What is known before a statement is executed.
MetaBefore == StatusBefore /\ MetaOK(meta, trans_meta_context, server)

\* The same tables, in a session with the same beginning.
LEMMA SameMeta ==
    ASSUME NEW known, NEW contexts, NEW r, NEW s, MetaOK(known, contexts, s), r.tables = s.tables,
           Trans(r.session) \subseteq {1}, r.session # NoSession <=> s.session # NoSession,
           s.session # NoSession => r.session[1].tables = s.session[1].tables
    PROVE  MetaOK(known, contexts, r)
BY DEF MetaOK, Since

\* Nothing changed at the server, but that a transaction failed.
LEMMA UnchangedMeta ==
    ASSUME MetaBefore, NEW s, s.session = Session, s.tables = server.tables
    PROVE  MetaOK(meta, trans_meta_context, s)
BY DEF MetaBefore, MetaOK, Since, Session

\* A statement that succeeded and has no context.
LEMMA NoContext ==
    ASSUME MetaBefore, NEW kind, kind \in {"savepoint", "rollback to", "release", "select"}, NEW typed,
           NEW a, MetaOK(meta, trans_meta_context, a.server)
    PROVE  MetaAfter(kind, typed, {}, a)
<1>1. MetaAsserts(kind, typed)
  BY DEF MetaAsserts
<1>2. Contexts(kind, typed, {}) = {} /\ Refresh(meta, {}, a.server.tables) = meta
  BY DEF Contexts, Refresh
<1>3. AfterContexts(kind, typed, {}) = trans_meta_context
  <2>1. trans_meta_context = NULL \/ trans_meta_context \subseteq Tables
    BY DEF MetaBefore, StatusBefore, CoreInv, TypeOK
  <2> QED BY <2>1 DEF AfterContexts
<1> QED BY <1>1, <1>2, <1>3 DEF MetaAfter

\* BEGIN starts the contexts of a transaction when the meta store has the tables.
LEMMA BeginMeta ==
    ASSUME MetaBefore, NEW name \in TransNames, NEW a, ~InTransaction, a.ok,
           a.server = With(Append(Session, Frame("transaction", name)))
    PROVE  MetaAfter("begin", TRUE, {}, a)
<1> DEFINE f == Frame("transaction", name)
<1>1. server \in Servers /\ Session = NoSession
  BY BeforeIs DEF MetaBefore, InTransaction
<1>2. f \in FrameSet /\ f.tables = server.tables
  BY <1>1, Framed DEF Frame
<1> HIDE DEF f
<1>3. Append(Session, f) = <<f>>
  BY <1>1 DEF NoSession
<1>4. a.server.session = <<f>> /\ a.server.tables = server.tables
  BY <1>1, <1>3, WithIs, ZenonT(40) DEF f
<1>5. trans_meta_context = NULL /\ meta = server.tables
  BY <1>1 DEF MetaBefore, MetaOK, Session
<1>6. MetaAsserts("begin", TRUE) /\ Contexts("begin", TRUE, {}) = {} /\ AfterContexts("begin", TRUE, {}) = {}
  BY <1>5 DEF MetaAsserts, Contexts, AfterContexts
<1>7. Refresh(meta, {}, a.server.tables) = meta
  BY DEF Refresh
<1>8. {} # NULL
  BY NamesAssumption
<1>9. <<f>> # NoSession /\ <<f>>[1] = f /\ Trans(<<f>>) \subseteq {1}
  BY DEF NoSession, Trans
<1>10. MetaOK(meta, {}, a.server)
  BY <1>2, <1>4, <1>5, <1>8, <1>9 DEF MetaOK, Since
<1> QED BY <1>6, <1>7, <1>10 DEF MetaAfter

\* COMMIT and ROLLBACK end the only transaction.
LEMMA EndsAll ==
    ASSUME MetaBefore, InTransaction, NEW name, NEW n \in Outer(name)
    PROVE  n = 0 /\ SubSeq(Session, 1, n) = NoSession
<1>1. /\ server \in Servers /\ ServerOK /\ Transactions = Trans(Session)
  BY BeforeIs DEF MetaBefore
<1>2. /\ n \in Nat /\ n < Len(Session)
      /\ engine # "nesting" => n = 0
      /\ engine = "nesting" => n = Innermost - 1 /\ Innermost \in Transactions
  BY <1>1, OuterIs
<1>3. Transactions \subseteq {1}
  BY <1>1 DEF MetaBefore, MetaOK, Session
<1>4. n = 0
  <2>1. ASSUME engine = "nesting" PROVE n = 0
    <3>1. Innermost = 1
      BY <1>2, <1>3, <2>1
    <3>2. n = 1 - 1
      BY <1>2, <2>1, <3>1
    <3> QED BY <3>2
  <2> QED BY <1>2, <2>1
<1>5. n <= Len(Session)
  BY <1>1, <1>2, SessionIs
<1> QED BY <1>1, <1>2, <1>4, <1>5, PartOf

\* COMMIT ends the contexts; what they name has been read already.
LEMMA CommitMeta ==
    ASSUME MetaBefore, NEW a, a.ok, InTransaction,
           a.server.session = NoSession, a.server.tables = server.tables
    PROVE  MetaAfter("commit", TRUE, {}, a)
<1>1. trans_meta_context # NULL /\ meta = server.tables
  BY DEF MetaBefore, MetaOK, InTransaction, Session
<1>2. MetaAsserts("commit", TRUE) /\ Contexts("commit", TRUE, {}) = {} /\ AfterContexts("commit", TRUE, {}) = NULL
  BY <1>1 DEF MetaAsserts, Contexts, AfterContexts
<1>3. Refresh(meta, {}, a.server.tables) = meta
  BY DEF Refresh
<1>4. Trans(NoSession) \subseteq {1}
  BY DEF Trans, NoSession
<1>5. MetaOK(meta, NULL, a.server)
  BY <1>1, <1>4 DEF MetaOK
<1> QED BY <1>2, <1>3, <1>5 DEF MetaAfter

\* After a ROLLBACK the tables of all the contexts are read again.
LEMMA RollbackMeta ==
    ASSUME MetaBefore, NEW a, a.ok, InTransaction,
           a.server.session = NoSession, a.server.tables = Session[1].tables
    PROVE  MetaAfter("rollback", TRUE, {}, a)
<1>1. /\ trans_meta_context # NULL /\ meta = server.tables /\ Since(trans_meta_context, server)
  BY DEF MetaBefore, MetaOK, InTransaction, Session
<1>2. /\ MetaAsserts("rollback", TRUE) /\ Contexts("rollback", TRUE, {}) = trans_meta_context
      /\ AfterContexts("rollback", TRUE, {}) = NULL
  BY <1>1 DEF MetaAsserts, Contexts, AfterContexts
<1>3. server.tables \subseteq Tables /\ Session[1].tables \subseteq Tables
  BY BeforeIs, SessionIs DEF MetaBefore, Servers, ServerSet, FrameSet
<1>4. Refresh(meta, trans_meta_context, a.server.tables) = a.server.tables
  BY <1>1, <1>3 DEF Refresh, Since, Session
<1>5. Trans(NoSession) \subseteq {1}
  BY DEF Trans, NoSession
<1>6. MetaOK(a.server.tables, NULL, a.server)
  BY <1>5 DEF MetaOK
<1> QED BY <1>2, <1>4, <1>6 DEF MetaAfter

\* The tables that a statement changes are those of its contexts.
LEMMA RanMeta ==
    ASSUME MetaBefore, NEW kind \in {"sql", "select"}, NEW changed \in SUBSET Tables,
           NEW tables \in SUBSET Tables, \A t \in Tables \ changed : t \in tables <=> t \in server.tables,
           NEW a, Ran(a, tables)
    PROVE  MetaAfter(kind, TRUE, changed, a)
<1>1. a.ok /\ a.server.session = Session /\ a.server.tables = tables
  BY DEF Ran
<1>2. /\ MetaAsserts(kind, TRUE) /\ Contexts(kind, TRUE, changed) = changed
  BY DEF MetaAsserts, Contexts
<1>3. meta = server.tables /\ server.tables \subseteq Tables
  BY BeforeIs DEF MetaBefore, MetaOK, Servers, ServerSet
<1>4. Refresh(meta, changed, tables) = tables
  BY <1>3 DEF Refresh
<1>5. CASE ~InTransaction
  <2>1. trans_meta_context = NULL
    BY <1>5 DEF MetaBefore, MetaOK, InTransaction, Session
  <2>2. AfterContexts(kind, TRUE, changed) = NULL
    BY <2>1 DEF AfterContexts
  <2>3. Trans(NoSession) \subseteq {1}
    BY DEF Trans, NoSession
  <2>4. MetaOK(tables, NULL, a.server)
    BY <1>1, <1>5, <2>3 DEF MetaOK, InTransaction
  <2> QED BY <1>1, <1>2, <1>4, <2>2, <2>4 DEF MetaAfter
<1>6. CASE InTransaction
  <2> DEFINE c == trans_meta_context \cup changed
  <2>1. trans_meta_context # NULL /\ Since(trans_meta_context, server) /\ Trans(Session) \subseteq {1}
    BY <1>6 DEF MetaBefore, MetaOK, InTransaction, Session
  <2>2. AfterContexts(kind, TRUE, changed) = c
    BY <2>1 DEF AfterContexts
  <2>3. trans_meta_context \subseteq Tables
    BY <2>1 DEF MetaBefore, StatusBefore, CoreInv, TypeOK
  <2>4. c # NULL
    BY <2>3, NamesAssumption
  <2>5. Since(c, a.server)
    BY <1>1, <2>1 DEF Since, Session
  <2> HIDE DEF c
  <2>6. MetaOK(tables, c, a.server)
    BY <1>1, <1>6, <2>1, <2>4, <2>5 DEF MetaOK, InTransaction
  <2> QED BY <1>1, <1>2, <1>4, <2>2, <2>6 DEF MetaAfter
<1> QED BY <1>5, <1>6

\* A statement is executed when the meta store is right.
LEMMA MetaBeforeIs ==
    ASSUME CoreInv, Enough(events), StatusInv, MetaInv, regular, exact, auto_meta
    PROVE  MetaBefore
BY DEF MetaBefore, StatusBefore, StatusInv, MetaInv

\* A statement that failed and undid nothing.
LEMMA FailedMeta ==
    ASSUME MetaBefore, NEW kind, NEW typed, NEW changed, NEW a, ~a.ok,
           a.server.session = Session, a.server.tables = server.tables
    PROVE  MetaAfter(kind, typed, changed, a)
BY UnchangedMeta DEF MetaAfter

\* Each statement keeps the meta store: BEGIN,
LEMMA BeginKeepsMeta ==
    ASSUME CoreInv, StatusInv, MetaInv, NEW name \in TransNames, Begin(name)
    PROVE  MetaInv'
<1>1. PICK typed \in Typed(name), answer \in BeginAnswers(name) :
         /\ Execute("begin", name, typed, {}, answer)
         /\ Irregular(\/ answer.ok /\ ~typed
                      \/ answer.ok /\ InTransaction /\ engine = "postgres"
                      \/ name \in Known /\ name # NULL)
  BY DEF Begin
<1>2. exact' = (exact /\ ~(auto_meta /\ InTransaction)) /\ Enough(events) /\ typed \in BOOLEAN
  BY TypedIs DEF Begin, CanExecute, Enough
<1>3. ASSUME regular', exact', auto_meta PROVE MetaAfter("begin", typed, {}, answer)
  <2>1. MetaBefore /\ ~InTransaction /\ (answer.ok => typed)
    BY <1>1, <1>2, <1>3, MetaBeforeIs DEF Irregular
  <2>2. CASE Quiet(answer)
    BY <2>1, <2>2, FailedMeta DEF Quiet, Session
  <2>3. CASE answer.ok /\ answer.server = With(Append(Session, Frame("transaction", name)))
    <3>1. typed = TRUE
      BY <1>2, <2>1, <2>3
    <3> QED BY <2>1, <2>3, <3>1, BeginMeta
  <2>4. server \in Servers /\ FailedOK(server) /\ engine \in Engines
    BY <2>1, BeforeIs DEF MetaBefore
  <2> QED BY <2>1, <2>2, <2>3, <2>4, BeginCases
<1> QED BY <1>1, <1>3, MetaFrom

\* COMMIT and ROLLBACK,
LEMMA EndKeepsMeta ==
    ASSUME CoreInv, StatusInv, MetaInv, NEW name \in TransNames, Commit(name) \/ Rollback(name)
    PROVE  MetaInv'
<1>1. PICK kind \in {"commit", "rollback"}, answers \in {CommitAnswers(name), RollbackAnswers(name)} :
         /\ End(kind, name, answers)
         /\ answers = IF kind = "commit" THEN CommitAnswers(name) ELSE RollbackAnswers(name)
  BY DEF Commit, Rollback
<1>2. PICK typed \in Typed(name), answer \in answers :
         /\ Execute(kind, name, typed, {}, answer)
         /\ Irregular(\/ answer.ok /\ ~typed
                      \/ answer.ok /\ ~InTransaction
                      \/ /\ name # NULL
                         /\ trans.root = NULL \/ Last(Nesting(trans)) # name
                              \/ Len(Nesting(trans)) > 2)
         /\ exact' = (exact /\ \/ kind = "rollback" /\ answer.ok
                               \/ answer.server.tables = server.tables
                                     /\ (answer.ok \/ answer.server.session = Session))
  BY <1>1 DEF End
<1>3. Enough(events) /\ typed \in BOOLEAN
  BY <1>1, TypedIs DEF End, CanExecute, Enough
<1>4. ASSUME regular', exact', auto_meta PROVE MetaAfter(kind, typed, {}, answer)
  <2>1. /\ MetaBefore /\ (answer.ok => typed /\ InTransaction)
        /\ \/ kind = "rollback" /\ answer.ok
           \/ answer.server.tables = server.tables /\ (answer.ok \/ answer.server.session = Session)
    BY <1>2, <1>3, <1>4, MetaBeforeIs DEF Irregular
  <2>2. server \in Servers /\ FailedOK(server) /\ engine \in Engines
    BY <2>1, BeforeIs DEF MetaBefore
  <2>3. CASE ~answer.ok
    BY <2>1, <2>3, FailedMeta
  <2>4. CASE answer.ok
    <3>1. typed = TRUE /\ InTransaction /\ ~Quiet(answer)
      BY <1>3, <2>1, <2>4 DEF Quiet
    <3>2. CASE kind = "commit"
      <4>1. PICK n \in Outer(name) : EndedAt(answer, name, n)
        BY <1>1, <2>2, <3>1, <3>2, CommitCases
      <4>2. answer.server.session = NoSession
        BY <2>1, <3>1, <4>1, EndsAll DEF EndedAt
      <4>3. answer.server.tables = server.tables
        BY <2>1, <3>2
      <4> QED BY <2>1, <2>4, <3>1, <3>2, <4>2, <4>3, CommitMeta
    <3>3. CASE kind = "rollback"
      <4>1. PICK n \in Outer(name) : UndoneTo(answer, name, n)
        BY <1>1, <2>2, <3>1, <3>3, RollbackCases
      <4>2. n = 0 /\ answer.server.session = NoSession
        BY <2>1, <3>1, <4>1, EndsAll DEF UndoneTo
      <4>3. answer.server.tables = Session[1].tables
        <5>1. answer.server = Restored(0, Session[0 + 1])
          BY <4>1, <4>2 DEF UndoneTo
        <5>2. Session[0 + 1] = Session[1]
          OBVIOUS
        <5>3. Restored(0, Session[1]).tables = Session[1].tables
          BY <2>2, RestoredIs
        <5> QED BY <5>1, <5>2, <5>3
      <4> QED BY <2>1, <2>4, <3>1, <3>3, <4>2, <4>3, RollbackMeta
    <3> QED BY <3>2, <3>3
  <2> QED BY <2>3, <2>4
<1> QED BY <1>2, <1>4, MetaFrom

\* SAVEPOINT,
LEMMA AddSavepointKeepsMeta ==
    ASSUME CoreInv, StatusInv, MetaInv, NEW name \in Names, AddSavepoint(name)
    PROVE  MetaInv'
<1>1. PICK typed \in Typed(name), answer \in SavepointAnswers(name) :
         /\ Execute("savepoint", name, typed, {}, answer)
         /\ Irregular(answer.ok /\ (~typed \/ ~OneTransaction \/ name \in Known
                                      \/ Reachable(name) # {}))
  BY DEF AddSavepoint
<1>2. exact' = exact /\ Enough(events) /\ name \in TransNames
  BY DEF AddSavepoint, CanExecute, Enough, TransNames
<1>3. ASSUME regular', exact', auto_meta PROVE MetaAfter("savepoint", typed, {}, answer)
  <2>1. MetaBefore /\ (answer.ok => OneTransaction)
    BY <1>1, <1>2, <1>3, MetaBeforeIs DEF Irregular
  <2>2. server \in Servers /\ FailedOK(server) /\ engine \in Engines
    BY <2>1, BeforeIs DEF MetaBefore
  <2>3. CASE ~answer.ok /\ answer.server = server
    BY <2>1, <2>3, FailedMeta DEF Session
  <2>4. CASE answer.ok /\ answer.server = With(Append(Session, Frame("savepoint", name)))
    <3> DEFINE f == Frame("savepoint", name)
               s == Append(Session, f)
    <3>1. InTransaction /\ Session \in Seq(FrameSet) /\ Trans(Session) \subseteq {1}
      BY <2>1, <2>4, BeforeIs DEF MetaBefore, OneTransaction, Depth, MetaOK, Session
    <3>2. f \in FrameSet /\ f.kind = "savepoint"
      BY <1>2, <2>2, <3>1, Framed DEF Frame, InTransaction
    <3> HIDE DEF f
    <3>3. answer.server.session = s /\ answer.server.tables = server.tables
      BY <2>2, <2>4, WithIs DEF f
    <3>4. /\ Len(s) = Len(Session) + 1 /\ Len(Session) \in Nat /\ 1 \in 1 .. Len(Session)
          /\ DOMAIN s = 1 .. Len(Session) + 1 /\ DOMAIN Session = 1 .. Len(Session)
          /\ \A i \in 1 .. Len(Session) : s[i] = Session[i]
          /\ s[Len(Session) + 1] = f
      BY <2>2, <3>1, <3>2, SessionIs
    <3> HIDE DEF s
    <3>5. s # NoSession /\ s[1] = Session[1]
      BY <3>4 DEF NoSession
    <3>6. \A i \in DOMAIN s : i \in DOMAIN Session \/ i = Len(Session) + 1
      BY <3>4
    <3>7. Trans(s) \subseteq {1}
      BY <3>1, <3>2, <3>4, <3>6 DEF Trans
    <3>8. MetaOK(meta, trans_meta_context, answer.server)
      BY <2>1, <3>1, <3>3, <3>5, <3>7, SameMeta DEF MetaBefore, InTransaction, Session
    <3> QED BY <2>1, <3>8, NoContext
  <2> QED BY <1>2, <2>2, <2>3, <2>4, SavepointCases DEF Quiet
<1> QED BY <1>1, <1>3, MetaFrom

\* A part of the session has its beginning.
LEMMA PartMeta ==
    ASSUME MetaBefore, Depth(trans) = 1, NEW name, Reachable(name) # {},
           NEW n \in {Latest(name), Latest(name) - 1}, NEW s,
           s.session = SubSeq(Session, 1, n), s.tables = server.tables
    PROVE  MetaOK(meta, trans_meta_context, s)
<1>1. /\ server \in Servers /\ InTransaction /\ Session \in Seq(FrameSet)
      /\ Trans(Session) \subseteq {1}
  BY BeforeIs DEF MetaBefore, MetaOK, Session
<1>2. n \in Nat /\ n <= Len(Session) /\ n >= 1
  BY PartMatches DEF MetaBefore
<1> DEFINE p == SubSeq(Session, 1, n)
<1>3. Len(p) = n /\ (\A i \in 1 .. n : p[i] = Session[i]) /\ (p = NoSession <=> n = 0) /\ DOMAIN p = 1 .. n
  BY <1>1, <1>2, PartOf
<1> HIDE DEF p
<1>4. Trans(p) \subseteq {1}
  <2>1. \A i \in 1 .. n : i \in DOMAIN Session
    BY <1>1, <1>2
  <2> QED BY <1>1, <1>3, <2>1 DEF Trans
<1>5. p # NoSession /\ p[1] = Session[1]
  BY <1>2, <1>3
<1> QED BY <1>1, <1>4, <1>5, SameMeta DEF MetaBefore, InTransaction, Session, p

\* ROLLBACK TO, exact only when it restores the tables that are there,
LEMMA RollbackSavepointKeepsMeta ==
    ASSUME CoreInv, StatusInv, MetaInv, NEW name \in Names, RollbackSavepoint(name)
    PROVE  MetaInv'
<1>1. PICK typed \in Typed(name), answer \in RollbackToAnswers(name) :
         /\ Execute("rollback to", name, typed, {}, answer)
         /\ Irregular(IF answer.ok THEN ~typed \/ ~OneTransaction \/ name \notin TrackedSavepoints(trans)
                      ELSE Told(answer) /\ name \in Known)
         /\ Unnoticed(answer, TRUE)
  BY DEF RollbackSavepoint
<1>2. Enough(events)
  BY DEF RollbackSavepoint, CanExecute, Enough
<1>3. ASSUME regular', exact', auto_meta PROVE MetaAfter("rollback to", typed, {}, answer)
  <2>1. MetaBefore /\ (answer.ok => OneTransaction) /\ answer.server.tables = server.tables
    BY <1>1, <1>2, <1>3, MetaBeforeIs DEF Irregular, Unnoticed
  <2>2. server \in Servers /\ FailedOK(server)
    BY <2>1, BeforeIs DEF MetaBefore
  <2>3. CASE answer = Refused /\ ~answer.ok
    BY <2>1, <2>2, <2>3, RefusedIs, FailedMeta
  <2>4. CASE /\ answer.ok /\ Reachable(name) # {}
             /\ answer.server = Restored(Latest(name), Session[Latest(name)])
    <3>1. Depth(trans) = 1
      BY <2>1, <2>4 DEF OneTransaction, Depth
    <3>2. answer.server.session = SubSeq(Session, 1, Latest(name))
      <4> DEFINE n == Latest(name)
                 frame == Session[n]
      <4>1. answer.server = Restored(n, frame)
        BY <2>4
      <4> HIDE DEF n, frame
      <4> QED BY <2>2, <4>1, RestoredIs DEF n
    <3>3. MetaOK(meta, trans_meta_context, answer.server)
      BY <2>1, <2>4, <3>1, <3>2, PartMeta
    <3> QED BY <2>1, <3>3, NoContext
  <2> QED BY <2>2, <2>3, <2>4, RollbackToCases
<1> QED BY <1>1, <1>3, MetaFrom

\* RELEASE,
LEMMA DeleteSavepointKeepsMeta ==
    ASSUME CoreInv, StatusInv, MetaInv, NEW name \in Names, DeleteSavepoint(name)
    PROVE  MetaInv'
<1>1. PICK typed \in Typed(name), answer \in ReleaseAnswers(name) :
         /\ Execute("release", name, typed, {}, answer)
         /\ Irregular(Told(answer) /\ (~typed \/ ~OneTransaction))
  BY DEF DeleteSavepoint
<1>2. Enough(events) /\ exact' = exact
  BY DEF DeleteSavepoint, CanExecute, Enough
<1>3. ASSUME regular', exact', auto_meta PROVE MetaAfter("release", typed, {}, answer)
  <2>1. MetaBefore /\ (answer.ok => OneTransaction)
    BY <1>1, <1>2, <1>3, MetaBeforeIs DEF Irregular, Told
  <2>2. server \in Servers /\ FailedOK(server)
    BY <2>1, BeforeIs DEF MetaBefore
  <2>3. CASE Quiet(answer)
    BY <2>1, <2>3, FailedMeta DEF Quiet, Session
  <2>4. CASE answer = Refused /\ ~answer.ok
    BY <2>1, <2>2, <2>4, RefusedIs, FailedMeta
  <2>5. CASE /\ answer.ok /\ Reachable(name) # {}
             /\ answer.server = With(SubSeq(Session, 1, Latest(name) - 1))
    <3>1. Depth(trans) = 1
      BY <2>1, <2>5 DEF OneTransaction, Depth
    <3>2. /\ answer.server.session = SubSeq(Session, 1, Latest(name) - 1)
          /\ answer.server.tables = server.tables
      BY <2>2, <2>5, WithIs
    <3>3. MetaOK(meta, trans_meta_context, answer.server)
      BY <2>1, <2>5, <3>1, <3>2, PartMeta
    <3> QED BY <2>1, <3>3, NoContext
  <2> QED BY <2>2, <2>3, <2>4, <2>5, ReleaseCases
<1> QED BY <1>1, <1>3, MetaFrom

\* a statement that changes tables, which its context names,
LEMMA DdlKeepsMeta ==
    ASSUME CoreInv, StatusInv, MetaInv, NEW changed \in SUBSET Tables, NEW able, NEW tables \in SUBSET Tables,
           able => \A t \in Tables \ changed : t \in tables <=> t \in server.tables,
           Ddl(changed, able, tables)
    PROVE  MetaInv'
<1>1. PICK answer \in SqlAnswers(able, tables) :
         /\ Execute("sql", NULL, TRUE, changed, answer)
         /\ Irregular(InTransaction /\ answer.server.session = NoSession)
         /\ Unnoticed(answer, ~answer.ok)
  BY DEF Ddl
<1>2. Enough(events)
  BY DEF Ddl, CanExecute, Enough
<1>3. ASSUME regular', exact', auto_meta PROVE MetaAfter("sql", TRUE, changed, answer)
  <2>1. /\ MetaBefore /\ ~(InTransaction /\ answer.server.session = NoSession)
        /\ ~answer.ok => answer.server.tables = server.tables
    BY <1>1, <1>2, <1>3, MetaBeforeIs DEF Irregular, Unnoticed
  <2>2. server \in Servers /\ FailedOK(server)
    BY <2>1, BeforeIs DEF MetaBefore
  <2>3. CASE Quiet(answer)
    BY <2>1, <2>3, FailedMeta DEF Quiet, Session
  <2>4. CASE answer = Refused /\ ~answer.ok
    BY <2>1, <2>2, <2>4, RefusedIs, FailedMeta
  <2>5. CASE Ran(answer, tables) /\ able
    BY <2>1, <2>5, RanMeta
  <2>6. CASE InTransaction /\ answer.server = Restored(0, Session[1])
    <3>1. SubSeq(Session, 1, 0) = NoSession
      BY <2>2, SessionIs, PartOf
    <3> DEFINE s == Restored(0, Session[1])
    <3>2. s.session = NoSession
      BY <2>2, <3>1, RestoredIs
    <3> HIDE DEF s
    <3>3. answer.server = s
      BY <2>6 DEF s
    <3>4. answer.server.session = NoSession
      BY <3>2, <3>3
    <3>5. ~InTransaction
      BY <2>1, <3>4
    <3>6. InTransaction
      BY <2>6
    <3> QED BY <3>5, <3>6
  <2>7. \/ Quiet(answer)
        \/ answer = Refused /\ ~answer.ok
        \/ Ran(answer, tables) /\ able
        \/ InTransaction /\ answer.server = Restored(0, Session[1])
    BY <2>2, SqlCases
  <2> QED BY <2>3, <2>4, <2>5, <2>6, <2>7
<1> QED BY <1>1, <1>3, MetaFrom

\* a SELECT.
LEMMA SelectKeepsMeta ==
    ASSUME CoreInv, StatusInv, MetaInv, Select
    PROVE  MetaInv'
<1>1. PICK answer \in SqlAnswers(TRUE, server.tables) :
         /\ Execute("select", NULL, TRUE, {}, answer)
         /\ Irregular(InTransaction /\ answer.server.session = NoSession)
         /\ Unnoticed(answer, TRUE)
  BY DEF Select
<1>2. Enough(events)
  BY DEF Select, CanExecute, Enough
<1>3. ASSUME regular', exact', auto_meta PROVE MetaAfter("select", TRUE, {}, answer)
  <2>1. /\ MetaBefore /\ ~(InTransaction /\ answer.server.session = NoSession)
        /\ answer.server.tables = server.tables
    BY <1>1, <1>2, <1>3, MetaBeforeIs DEF Irregular, Unnoticed
  <2>2. server \in Servers /\ FailedOK(server) /\ server.tables \in SUBSET Tables
    BY <2>1, BeforeIs, ServerIs DEF MetaBefore
  <2>3. CASE Quiet(answer)
    BY <2>1, <2>3, FailedMeta DEF Quiet, Session
  <2>4. CASE answer = Refused /\ ~answer.ok
    BY <2>1, <2>2, <2>4, RefusedIs, FailedMeta
  <2>5. CASE Ran(answer, server.tables)
    BY <2>1, <2>2, <2>5, RanMeta
  <2>6. CASE InTransaction /\ answer.server = Restored(0, Session[1])
    <3>1. SubSeq(Session, 1, 0) = NoSession
      BY <2>2, SessionIs, PartOf
    <3> DEFINE s == Restored(0, Session[1])
    <3>2. s.session = NoSession
      BY <2>2, <3>1, RestoredIs
    <3> HIDE DEF s
    <3>3. answer.server = s
      BY <2>6 DEF s
    <3>4. answer.server.session = NoSession
      BY <3>2, <3>3
    <3>5. ~InTransaction
      BY <2>1, <3>4
    <3>6. InTransaction
      BY <2>6
    <3> QED BY <3>5, <3>6
  <2> QED BY <2>2, <2>3, <2>4, <2>5, <2>6, SqlCases
<1> QED BY <1>1, <1>3, MetaFrom

\* The other operations leave the tables, or are not exact.
LEMMA OthersKeepMeta ==
    ASSUME CoreInv, StatusInv, MetaInv,
           ListEvents \/ ClearList \/ SetHistorySize \/ BatchExecute \/ CloseAndOpen
    PROVE  MetaInv'
<1>1. CASE ListEvents \/ ClearList \/ SetHistorySize \/ BatchExecute
  <2>1. GetEventsAsserts(events)
    BY RingInOrder DEF CoreInv, EventsInv, LatestInOrder
  <2>2. aborted' = aborted /\ UNCHANGED other
    BY <1>1, <2>1 DEF ListEvents, ClearList, SetHistorySize, BatchExecute
  <2> QED BY <2>2 DEF other, MetaInv, MetaOK, Since
<1>2. CASE CloseAndOpen
  <2> DEFINE again == trans_meta_context # NULL /\ trans.root # NULL
  <2>1. /\ meta' = IF again THEN Refresh(meta, trans_meta_context, server.tables) ELSE meta
        /\ trans_meta_context' = IF again THEN NULL ELSE trans_meta_context
        /\ server' = IF InTransaction THEN Restored(0, Session[1]) ELSE server
        /\ regular' = (regular /\ ~(trans.root # NULL \/ InTransaction))
        /\ exact' = (exact /\ ~InTransaction)
        /\ auto_meta' = auto_meta /\ aborted' = aborted
    BY <1>2 DEF CloseAndOpen, Irregular
  <2>2. ASSUME regular', exact' PROVE /\ regular /\ exact /\ server' = server /\ meta' = meta
                                      /\ trans_meta_context' = trans_meta_context
    BY <2>1, <2>2
  <2> HIDE DEF again
  <2>3. CASE ~(regular' /\ exact')
    BY <2>3 DEF MetaInv
  <2>4. CASE regular' /\ exact'
    BY <2>1, <2>2, <2>4 DEF MetaInv, MetaOK, Since
  <2> QED BY <2>3, <2>4
<1> QED BY <1>1, <1>2

\* There is no table at first.
LEMMA MetaAtFirst == Init => MetaInv
<1> SUFFICES ASSUME Init PROVE MetaInv
  OBVIOUS
<1>1. /\ server.session = NoSession /\ server.tables = {} /\ meta = {} /\ trans_meta_context = NULL /\ ~aborted
  BY DEF Init
<1>2. Trans(NoSession) = {}
  BY DEF Trans, NoSession
<1> QED BY <1>1, <1>2 DEF MetaInv, MetaOK

\* Every step keeps the meta store.
LEMMA MetaKept == CoreInv /\ StatusInv /\ MetaInv /\ [Next]_vars => MetaInv'
<1> SUFFICES ASSUME CoreInv, StatusInv, MetaInv, [Next]_vars PROVE MetaInv'
  OBVIOUS
<1>0. server.tables \in SUBSET Tables
  BY ServerIs
<1>1. ASSUME NEW name \in TransNames, Begin(name) \/ Commit(name) \/ Rollback(name) PROVE MetaInv'
  BY <1>1, BeginKeepsMeta, EndKeepsMeta
<1>2. ASSUME NEW name \in Names, AddSavepoint(name) \/ RollbackSavepoint(name) \/ DeleteSavepoint(name)
      PROVE  MetaInv'
  BY <1>2, AddSavepointKeepsMeta, RollbackSavepointKeepsMeta, DeleteSavepointKeepsMeta
<1>3. ASSUME NEW t \in Tables, Create(t) \/ Drop(t) PROVE MetaInv'
  <2> DEFINE more == server.tables \cup {t}
             less == server.tables \ {t}
  <2>1. /\ {t} \in SUBSET Tables /\ more \in SUBSET Tables /\ less \in SUBSET Tables
        /\ \A x \in Tables \ {t} : (x \in more <=> x \in server.tables) /\ (x \in less <=> x \in server.tables)
    BY <1>0
  <2>2. Ddl({t}, t \notin server.tables, more) \/ Ddl({t}, t \in server.tables, less)
    BY <1>3 DEF Create, Drop
  <2> HIDE DEF more, less
  <2> QED BY <2>1, <2>2, DdlKeepsMeta
<1>4. ASSUME NEW t \in Tables, NEW u \in Tables, Rename(t, u) PROVE MetaInv'
  <2> DEFINE after == (server.tables \ {t}) \cup {u}
  <2>1. /\ {t, u} \in SUBSET Tables /\ after \in SUBSET Tables
        /\ \A x \in Tables \ {t, u} : x \in after <=> x \in server.tables
    BY <1>0
  <2>2. Ddl({t, u}, t \in server.tables /\ u \notin server.tables, after)
    BY <1>4 DEF Rename
  <2> HIDE DEF after
  <2> QED BY <2>1, <2>2, DdlKeepsMeta
<1>5. CASE UNCHANGED vars
  BY <1>5 DEF vars, MetaInv, MetaOK, Since
<1>6. CASE Next
  BY <1>1, <1>2, <1>3, <1>4, <1>6, SelectKeepsMeta, OthersKeepMeta DEF Next, TransNames
<1> QED BY <1>5, <1>6

\* The meta store follows the tables, and its assertions hold.
THEOREM MetaIsTheTables == Spec => []MetaFollowsTables
<1>1. MetaInv => MetaFollowsTables
  BY DEF MetaInv, MetaOK, MetaFollowsTables
<1> QED BY <1>1, MetaAtFirst, MetaKept, StatusAlways, PTL DEF Spec

-----------------------------------------------------------------------------
(* The statements that are pending, and what a savepoint remembers of them. *)

\* Is x the number of a statement among the first k - 1 events?
Listed(ev, k, x) == x # 0 /\ \E i \in DOMAIN ev : i < k /\ ev[i].type = "sql" /\ ev[i].str = x
Among(done, x) == \E i \in DOMAIN done : done[i] = x
Agrees(ev, k, done) == \A x : Listed(ev, k, x) <=> Among(done, x)

Numbered(e) == e.type = "sql" /\ e.str # 0

\* Statements are recorded in order, savepoints have names of their own.
Tidy(ev, name, n) ==
    /\ \A j, k \in DOMAIN ev : j < k /\ Numbered(ev[j]) /\ Numbered(ev[k]) => ev[j].str < ev[k].str
    /\ \A k \in DOMAIN ev : ev[k].type = "sql" => ev[k].str \in Nat /\ ev[k].str <= n
    /\ \A k \in DOMAIN ev : ev[k].type = "savepoint" => ev[k].str # name
    /\ \A j, k \in DOMAIN ev :
          ev[j].type = "savepoint" /\ ev[k].type = "savepoint" /\ ev[j].str = ev[k].str => j = k

\* A savepoint of the session that is recorded has the statements before it.
Marks(ev, session) ==
    \A i \in 2 .. Len(session) : \A k \in DOMAIN ev :
       ev[k].type = "savepoint" /\ ev[k].str = session[i].name => Agrees(ev, k, session[i].done)

Pends(t, session, done, failed, n) ==
    IF session = NoSession THEN done = << >>
    ELSE /\ session[1].done = << >>
         /\ Tidy(Ev(t, 1), t.node[1].name, n) /\ Marks(Ev(t, 1), session)
         /\ ~failed => Agrees(Ev(t, 1), Len(Ev(t, 1)) + 1, done)
PendingInv == regular /\ engine # "nesting" => Pends(trans, Session, server.done, server.failed, ncall)

\* An event recorded after the others.
LEMMA AppendedEvents ==
    ASSUME NEW S, NEW ev \in Seq(S), NEW e \in S
    PROVE  LET r == Append(ev, e)
           IN  /\ Len(r) = Len(ev) + 1 /\ Len(ev) \in Nat /\ DOMAIN ev = 1 .. Len(ev)
               /\ DOMAIN r = 1 .. Len(ev) + 1 /\ r[Len(ev) + 1] = e
               /\ \A i \in DOMAIN ev : r[i] = ev[i] /\ i \in DOMAIN r /\ i # Len(ev) + 1 /\ i < Len(ev) + 1
               /\ \A i \in DOMAIN r : i \in DOMAIN ev \/ i = Len(ev) + 1
OBVIOUS

\* One event more: the statements listed,
LEMMA AppendListed ==
    ASSUME NEW S, NEW ev \in Seq(S), NEW e \in S
    PROVE  LET r == Append(ev, e)
           IN  /\ \A k \in 1 .. Len(ev) + 1 : \A x : Listed(r, k, x) <=> Listed(ev, k, x)
               /\ \A x : Listed(r, Len(r) + 1, x) <=>
                            Listed(ev, Len(ev) + 1, x) \/ (x # 0 /\ e.type = "sql" /\ e.str = x)
<1> DEFINE r == Append(ev, e)
           m == Len(ev) + 1
<1>1. /\ Len(r) = m /\ Len(ev) \in Nat /\ DOMAIN ev = 1 .. Len(ev) /\ DOMAIN r = 1 .. m /\ r[m] = e
      /\ \A i \in DOMAIN ev : r[i] = ev[i] /\ i \in DOMAIN r /\ i # m /\ i < m
      /\ \A i \in DOMAIN r : i \in DOMAIN ev \/ i = m
  BY AppendedEvents
<1> HIDE DEF r
<1>2. ASSUME NEW k \in 1 .. m, NEW x PROVE Listed(r, k, x) <=> Listed(ev, k, x)
  <2>1. \A i \in DOMAIN r : i < k => i \in DOMAIN ev
    BY <1>1
  <2> QED BY <1>1, <2>1 DEF Listed
<1>3. ASSUME NEW x
      PROVE  Listed(r, Len(r) + 1, x) <=> Listed(ev, m, x) \/ (x # 0 /\ e.type = "sql" /\ e.str = x)
  <2>1. \A i \in DOMAIN r : i < Len(r) + 1
    BY <1>1
  <2>2. m \in DOMAIN r
    BY <1>1
  <2> QED BY <1>1, <2>1, <2>2 DEF Listed
<1> QED BY <1>2, <1>3 DEF r

\* their order,
LEMMA AppendTidy ==
    ASSUME NEW S, NEW ev \in Seq(S), NEW e \in S, NEW name, NEW n \in Nat, NEW p \in Nat, n <= p,
           Tidy(ev, name, n),
           e.type = "sql" => /\ e.str \in Nat /\ e.str <= p
                             /\ e.str # 0 => \A k \in DOMAIN ev : ev[k].type = "sql" => ev[k].str < e.str,
           e.type = "savepoint" => /\ e.str # name
                                   /\ \A k \in DOMAIN ev : ev[k].type = "savepoint" => ev[k].str # e.str
    PROVE  Tidy(Append(ev, e), name, p)
<1> DEFINE r == Append(ev, e)
           m == Len(ev) + 1
<1>1. /\ DOMAIN ev = 1 .. Len(ev) /\ Len(ev) \in Nat /\ r[m] = e
      /\ \A i \in DOMAIN ev : r[i] = ev[i] /\ i # m /\ i < m
      /\ \A i \in DOMAIN r : i \in DOMAIN ev \/ i = m
  BY AppendedEvents
<1> HIDE DEF r
<1>2. \A i \in DOMAIN ev : ~(m < i) /\ ~(m < m)
  BY <1>1
<1>3. \A j, k \in DOMAIN r : j < k /\ Numbered(r[j]) /\ Numbered(r[k]) => r[j].str < r[k].str
  <2> SUFFICES ASSUME NEW j \in DOMAIN r, NEW k \in DOMAIN r, j < k, Numbered(r[j]), Numbered(r[k])
               PROVE  r[j].str < r[k].str
    OBVIOUS
  <2>1. j \in DOMAIN ev /\ r[j] = ev[j]
    BY <1>1, <1>2
  <2>2. CASE k \in DOMAIN ev
    BY <1>1, <2>1, <2>2 DEF Tidy
  <2>3. CASE k = m
    BY <1>1, <2>1, <2>3 DEF Numbered
  <2> QED BY <1>1, <2>2, <2>3
<1>4. \A k \in DOMAIN r : r[k].type = "sql" => r[k].str \in Nat /\ r[k].str <= p
  <2> SUFFICES ASSUME NEW k \in DOMAIN r, r[k].type = "sql" PROVE r[k].str \in Nat /\ r[k].str <= p
    OBVIOUS
  <2>1. CASE k \in DOMAIN ev
    <3>1. ev[k].str \in Nat /\ ev[k].str <= n /\ r[k] = ev[k]
      BY <1>1, <2>1 DEF Tidy
    <3> QED BY <3>1
  <2>2. CASE k = m
    BY <1>1, <2>2
  <2> QED BY <1>1, <2>1, <2>2
<1>5. \A k \in DOMAIN r : r[k].type = "savepoint" => r[k].str # name
  BY <1>1 DEF Tidy
<1>6. \A j, k \in DOMAIN r :
         r[j].type = "savepoint" /\ r[k].type = "savepoint" /\ r[j].str = r[k].str => j = k
  BY <1>1 DEF Tidy
<1> QED BY <1>3, <1>4, <1>5, <1>6 DEF Tidy, r

\* and what the savepoints remember.
LEMMA AppendMarks ==
    ASSUME NEW S, NEW ev \in Seq(S), NEW e \in S, e.type # "savepoint", NEW session, Marks(ev, session)
    PROVE  Marks(Append(ev, e), session)
<1> DEFINE r == Append(ev, e)
           m == Len(ev) + 1
<1>1. /\ DOMAIN ev = 1 .. Len(ev) /\ Len(ev) \in Nat /\ r[m] = e
      /\ \A i \in DOMAIN ev : r[i] = ev[i] /\ i \in 1 .. m
      /\ \A i \in DOMAIN r : i \in DOMAIN ev \/ i = m
  BY AppendedEvents
<1>2. \A k \in 1 .. m : \A x : Listed(r, k, x) <=> Listed(ev, k, x)
  BY AppendListed
<1> HIDE DEF r
<1> SUFFICES ASSUME NEW i \in 2 .. Len(session), NEW k \in DOMAIN r,
                    r[k].type = "savepoint", r[k].str = session[i].name
             PROVE  Agrees(r, k, session[i].done)
  BY DEF Marks, r
<1>3. k \in DOMAIN ev /\ r[k] = ev[k] /\ k \in 1 .. m
  BY <1>1
<1>4. Agrees(ev, k, session[i].done)
  BY <1>3 DEF Marks
<1> QED BY <1>2, <1>3, <1>4 DEF Agrees

\* The events before one of them.
LEMMA CutEvents ==
    ASSUME NEW S, NEW ev \in Seq(S), NEW c \in DOMAIN ev
    PROVE  LET r == SubSeq(ev, 1, c - 1)
           IN  /\ Len(r) + 1 = c /\ r \in Seq(S)
               /\ \A k \in 1 .. c : \A x : Listed(r, k, x) <=> Listed(ev, k, x)
               /\ \A name, n : Tidy(ev, name, n) => Tidy(r, name, n)
               /\ \A session : Marks(ev, session) => Marks(r, session)
<1> DEFINE r == SubSeq(ev, 1, c - 1)
<1>1. /\ Len(r) = c - 1 /\ Len(r) + 1 = c /\ DOMAIN r = 1 .. c - 1 /\ c \in Nat /\ DOMAIN ev = 1 .. Len(ev)
      /\ Len(ev) \in Nat /\ \A i \in 1 .. c - 1 : r[i] = ev[i]
  OBVIOUS
<1>2. r \in Seq(S)
  OBVIOUS
<1> HIDE DEF r
<1>3. \A i \in DOMAIN r : i \in DOMAIN ev /\ i \in 1 .. c /\ r[i] = ev[i]
  BY <1>1
<1>4. \A k \in 1 .. c : \A x : Listed(r, k, x) <=> Listed(ev, k, x)
  <2> SUFFICES ASSUME NEW k \in 1 .. c, NEW x PROVE Listed(r, k, x) <=> Listed(ev, k, x)
    OBVIOUS
  <2>1. \A i \in DOMAIN ev : i < k => i \in DOMAIN r
    BY <1>1
  <2> QED BY <1>3, <2>1 DEF Listed
<1>5. \A name, n : Tidy(ev, name, n) => Tidy(r, name, n)
  BY <1>3 DEF Tidy
<1>6. ASSUME NEW session, Marks(ev, session) PROVE Marks(r, session)
  <2> SUFFICES ASSUME NEW i \in 2 .. Len(session), NEW k \in DOMAIN r,
                      r[k].type = "savepoint", r[k].str = session[i].name
               PROVE  Agrees(r, k, session[i].done)
    BY DEF Marks
  <2>1. Agrees(ev, k, session[i].done) /\ k \in 1 .. c
    BY <1>3, <1>6 DEF Marks
  <2> QED BY <1>4, <2>1 DEF Agrees
<1> QED BY <1>1, <1>2, <1>4, <1>5, <1>6 DEF r

\* The events without one that is not a statement.
LEMMA WithoutEvents ==
    ASSUME NEW S, NEW ev \in Seq(S), NEW c \in DOMAIN ev, ev[c].type # "sql",
           NEW r \in Seq(S), Len(r) = Len(ev) - 1,
           \A j \in 1 .. Len(r) : r[j] = IF j < c THEN ev[j] ELSE ev[j + 1]
    PROVE  /\ \A x : Listed(r, Len(r) + 1, x) <=> Listed(ev, Len(ev) + 1, x)
           /\ \A name, n : Tidy(ev, name, n) => Tidy(r, name, n)
           /\ \A session : Marks(ev, session) => Marks(r, session)
<1> DEFINE at(j) == IF j < c THEN j ELSE j + 1
<1>1. /\ Len(ev) \in Nat /\ DOMAIN ev = 1 .. Len(ev) /\ DOMAIN r = 1 .. Len(r) /\ Len(r) \in Nat /\ c \in Nat
      /\ c >= 1 /\ c <= Len(ev)
  OBVIOUS
<1>2. \A j \in DOMAIN r : at(j) \in DOMAIN ev /\ r[j] = ev[at(j)]
  BY <1>1
<1>3. \A i \in DOMAIN ev : i # c => \E j \in DOMAIN r : at(j) = i
  <2> SUFFICES ASSUME NEW i \in DOMAIN ev, i # c PROVE \E j \in DOMAIN r : at(j) = i
    OBVIOUS
  <2>1. CASE i < c
    <3>1. i \in DOMAIN r /\ at(i) = i
      BY <1>1, <2>1
    <3> QED BY <3>1
  <2>2. CASE i > c
    <3>1. i - 1 \in DOMAIN r /\ at(i - 1) = i
      BY <1>1, <2>2
    <3> QED BY <3>1
  <2> QED BY <1>1, <2>1, <2>2
<1>4. \A j, k \in DOMAIN r : (j < k <=> at(j) < at(k)) /\ (at(j) = at(k) => j = k)
  BY <1>1
<1>5. \A i \in DOMAIN ev : i < Len(ev) + 1
  BY <1>1
<1>6. \A j \in DOMAIN r : j < Len(r) + 1
  BY <1>1
<1> HIDE DEF at
<1>7. ASSUME NEW x PROVE Listed(r, Len(r) + 1, x) <=> Listed(ev, Len(ev) + 1, x)
  <2>1. ASSUME Listed(r, Len(r) + 1, x) PROVE Listed(ev, Len(ev) + 1, x)
    BY <1>2, <1>5, <2>1 DEF Listed
  <2>2. ASSUME Listed(ev, Len(ev) + 1, x) PROVE Listed(r, Len(r) + 1, x)
    <3>1. PICK i \in DOMAIN ev : ev[i].type = "sql" /\ ev[i].str = x /\ x # 0
      BY <2>2 DEF Listed
    <3>2. PICK j \in DOMAIN r : at(j) = i
      BY <1>3, <3>1
    <3> QED BY <1>2, <1>6, <3>1, <3>2 DEF Listed
  <2> QED BY <2>1, <2>2
<1>8. ASSUME NEW k \in DOMAIN r, NEW x PROVE Listed(r, k, x) <=> Listed(ev, at(k), x)
  <2>1. ASSUME Listed(r, k, x) PROVE Listed(ev, at(k), x)
    <3>1. PICK i \in DOMAIN r : i < k /\ r[i].type = "sql" /\ r[i].str = x /\ x # 0
      BY <2>1 DEF Listed
    <3>2. at(i) \in DOMAIN ev /\ r[i] = ev[at(i)] /\ at(i) < at(k)
      BY <1>2, <1>4, <3>1
    <3> QED BY <3>1, <3>2 DEF Listed
  <2>2. ASSUME Listed(ev, at(k), x) PROVE Listed(r, k, x)
    <3>1. PICK i \in DOMAIN ev : i < at(k) /\ ev[i].type = "sql" /\ ev[i].str = x /\ x # 0
      BY <2>2 DEF Listed
    <3>2. PICK j \in DOMAIN r : at(j) = i
      BY <1>3, <3>1
    <3>3. j < k /\ r[j] = ev[i]
      BY <1>2, <1>4, <3>1, <3>2
    <3> QED BY <3>1, <3>3 DEF Listed
  <2> QED BY <2>1, <2>2
<1>9. \A name, n : Tidy(ev, name, n) => Tidy(r, name, n)
  BY <1>2, <1>4 DEF Tidy
<1>10. ASSUME NEW session, Marks(ev, session) PROVE Marks(r, session)
  <2> SUFFICES ASSUME NEW i \in 2 .. Len(session), NEW k \in DOMAIN r,
                      r[k].type = "savepoint", r[k].str = session[i].name
               PROVE  Agrees(r, k, session[i].done)
    BY DEF Marks
  <2>1. Agrees(ev, at(k), session[i].done)
    BY <1>2, <1>10 DEF Marks
  <2> QED BY <1>8, <2>1 DEF Agrees
<1> QED BY <1>7, <1>9, <1>10

\* What is known before a statement is executed.
PendingBefore == /\ StatusBefore /\ engine # "nesting"
                 /\ Pends(trans, Session, server.done, server.failed, ncall)

\* Facts about that state.
LEMMA PendingBeforeIs ==
    ASSUME PendingBefore
    PROVE  /\ StatusBefore /\ ServerOK /\ server \in Servers /\ FailedOK(server) /\ engine \in Engines
           /\ engine # "nesting" /\ ncall \in Nat /\ ncall + 1 \in Nat /\ ncall <= ncall + 1
           /\ ncall + 1 # 0 /\ \A n \in Nat : n <= ncall => n < ncall + 1
           /\ ~InTransaction => server.done = << >> /\ Depth(trans) = 0
           /\ InTransaction =>
                /\ Chain(trans, 1) /\ Depth(trans) = 1 /\ Trans(Session) = {1}
                /\ Session[1].done = << >>
                /\ Ev(trans, 1) \in Seq(TreeEvents(EventObjects))
                /\ Tidy(Ev(trans, 1), trans.node[1].name, ncall) /\ Marks(Ev(trans, 1), Session)
                /\ ~server.failed => Agrees(Ev(trans, 1), Len(Ev(trans, 1)) + 1, server.done)
<1>1. /\ StatusBefore /\ engine # "nesting"
      /\ ServerOK /\ server \in Servers /\ FailedOK(server) /\ engine \in Engines
      /\ Session \in Seq(FrameSet) /\ Mirrors(trans, Session)
      /\ Chain(trans, Depth(trans)) /\ Depth(trans) \in Nat /\ Depth(trans) <= 1
      /\ InTransaction <=> Depth(trans) # 0
  BY BeforeIs DEF PendingBefore
<1>2. ncall \in Nat
  BY <1>1 DEF ServerOK
<1>3. /\ ncall + 1 \in Nat /\ ncall <= ncall + 1 /\ ncall + 1 # 0
      /\ \A n \in Nat : n <= ncall => n < ncall + 1
  BY <1>2
<1>4. ~InTransaction => server.done = << >> /\ Depth(trans) = 0
  BY <1>1 DEF PendingBefore, Pends, InTransaction
<1>5. ASSUME InTransaction
      PROVE  /\ Chain(trans, 1) /\ Depth(trans) = 1 /\ Trans(Session) = {1}
             /\ Ev(trans, 1) \in Seq(TreeEvents(EventObjects))
  <2>1. Trans(Session) = {1} /\ Depth(trans) = 1
    BY <1>1, <1>5, OneTrans DEF InTransaction
  <2>2. Chain(trans, 1)
    BY <1>1, <2>1
  <2>3. 1 \in 1 .. 1
    OBVIOUS
  <2>4. Ev(trans, 1) \in Seq(TreeEvents(EventObjects))
    BY <2>2, <2>3, SubOf DEF Chain
  <2> QED BY <2>1, <2>2, <2>4
<1>6. InTransaction =>
        /\ Session[1].done = << >>
        /\ Tidy(Ev(trans, 1), trans.node[1].name, ncall) /\ Marks(Ev(trans, 1), Session)
        /\ ~server.failed => Agrees(Ev(trans, 1), Len(Ev(trans, 1)) + 1, server.done)
  BY DEF PendingBefore, Pends, InTransaction
<1> QED BY <1>1, <1>2, <1>3, <1>4, <1>5, <1>6

\* More calls, and a query of the meta store, change nothing of it.
LEMMA TidyMore ==
    ASSUME NEW ev, NEW name, NEW n \in Nat, NEW p \in Nat, n <= p, Tidy(ev, name, n)
    PROVE  Tidy(ev, name, p)
<1>1. \A k \in DOMAIN ev : ev[k].type = "sql" => ev[k].str \in Nat /\ ev[k].str <= p
  <2> SUFFICES ASSUME NEW k \in DOMAIN ev, ev[k].type = "sql" PROVE ev[k].str \in Nat /\ ev[k].str <= p
    OBVIOUS
  <2>1. ev[k].str \in Nat /\ ev[k].str <= n
    BY DEF Tidy
  <2> QED BY <2>1
<1> QED BY <1>1 DEF Tidy

\* An event is recorded that is no savepoint.
LEMMA PendsAppended ==
    ASSUME NEW r, NEW t, NEW e \in TreeEvents(EventObjects), e.type # "savepoint", Appended(r, t, 1, e),
           Ev(t, 1) \in Seq(TreeEvents(EventObjects)),
           NEW session, session[1].done = << >>, NEW n \in Nat, NEW p \in Nat, n <= p,
           Tidy(Ev(t, 1), t.node[1].name, n), Marks(Ev(t, 1), session),
           e.type = "sql" => /\ e.str \in Nat /\ e.str <= p
                             /\ e.str # 0 => \A k \in DOMAIN Ev(t, 1) : Ev(t, 1)[k].type = "sql"
                                                 => Ev(t, 1)[k].str < e.str,
           NEW done, NEW failed,
           ~failed => \A x : Among(done, x) <=> Listed(Ev(t, 1), Len(Ev(t, 1)) + 1, x)
                                                  \/ (x # 0 /\ e.type = "sql" /\ e.str = x)
    PROVE  Pends(r, session, done, failed, p) \/ session = NoSession
<1> DEFINE ev == Ev(t, 1)
           after == Append(ev, e)
<1>1. Ev(r, 1) = after /\ r.node[1].name = t.node[1].name
  BY DEF Appended
<1>2. Tidy(after, t.node[1].name, p)
  BY AppendTidy
<1>3. Marks(after, session)
  BY AppendMarks
<1>4. \A x : Listed(after, Len(after) + 1, x) <=>
                Listed(ev, Len(ev) + 1, x) \/ (x # 0 /\ e.type = "sql" /\ e.str = x)
  BY AppendListed
<1> HIDE DEF after
<1>5. ~failed => Agrees(after, Len(after) + 1, done)
  BY <1>4 DEF Agrees
<1> QED BY <1>1, <1>2, <1>3, <1>5 DEF Pends

\* A query of the meta store.
LEMMA PendsQueried ==
    ASSUME NEW r, NEW t, Queries(r, t), Chain(t, Depth(t)), Depth(t) \in 0 .. 1,
           NEW session, session # NoSession <=> Depth(t) # 0,
           NEW done, NEW failed, NEW n \in Nat, Pends(t, session, done, failed, n)
    PROVE  Pends(r, session, done, failed, n)
<1>1. CASE r = t
  BY <1>1
<1>2. CASE session = NoSession
  BY <1>2 DEF Pends
<1>3. CASE session # NoSession /\ r # t
  <2> DEFINE e == SqlEvent(0, NULL)
             ev == Ev(t, 1)
  <2>1. Depth(t) = 1 /\ Chain(t, 1) /\ Appended(r, t, 1, e)
    BY <1>3 DEF Queries
  <2>2. e \in TreeEvents(EventObjects) /\ e.type = "sql" /\ e.str = 0
    BY Recordable DEF SqlEvent
  <2>3. 1 \in 1 .. 1
    OBVIOUS
  <2>4. ev \in Seq(TreeEvents(EventObjects))
    BY <2>1, <2>3, SubOf DEF Chain
  <2>5. /\ session[1].done = << >> /\ Tidy(ev, t.node[1].name, n) /\ Marks(ev, session)
        /\ ~failed => Agrees(ev, Len(ev) + 1, done)
    BY <1>3 DEF Pends
  <2>6. e.type # "savepoint" /\ n <= n /\ 0 <= n
    BY <2>2
  <2> HIDE DEF e
  <2>7. ~failed => \A x : Among(done, x) <=> Listed(ev, Len(ev) + 1, x)
                                               \/ (x # 0 /\ e.type = "sql" /\ e.str = x)
    BY <2>2, <2>5 DEF Agrees
  <2> HIDE DEF ev
  <2>8. Pends(r, session, done, failed, n) \/ session = NoSession
    BY <2>1, <2>2, <2>4, <2>5, <2>6, <2>7, PendsAppended DEF ev
  <2> QED BY <1>3, <2>8
<1> QED BY <1>1, <1>2, <1>3

\* An execution keeps it when what it records does.
LEMMA PendingFrom ==
    ASSUME CoreInv, Enough(events), NEW kind \in Kinds, NEW name \in TransNames,
           kind \in {"savepoint", "rollback to", "release"} => name \in Names,
           NEW typed \in BOOLEAN, NEW a \in Answers(Servers),
           kind = "begin" => Unused(trans) # {}, NEW changed,
           Execute(kind, name, typed, changed, a), StatusInv',
           regular' /\ engine # "nesting" =>
              Pends(Tracked(kind, name, typed, a), a.server.session, a.server.done, a.server.failed, ncall + 1)
    PROVE  PendingInv'
<1> DEFINE t == Tracked(kind, name, typed, a)
<1>1. /\ server' = a.server /\ engine' = engine /\ ncall' = ncall + 1
      /\ Tree(t, EventObjects) /\ SameNames(trans', t) /\ Queries(trans', t)
  BY Executed
<1>2. SUFFICES ASSUME regular', engine # "nesting"
               PROVE  Pends(trans', a.server.session, a.server.done, a.server.failed, ncall + 1)
  BY <1>1 DEF PendingInv, Session
<1>3. Pends(t, a.server.session, a.server.done, a.server.failed, ncall + 1)
  BY <1>2
<1> HIDE DEF t
<1>4. Chain(t, Depth(t)) /\ Depth(t) \in Nat
  BY <1>1, TreeIs DEF Chain
<1>5. Matches(trans, Session)'
  BY <1>2 DEF StatusInv
<1>6. /\ Depth(trans') <= 1 /\ (a.server.session # NoSession <=> Depth(trans') # 0)
  BY <1>1, <1>2, <1>5 DEF Matches, Mirrors, Session
<1>7. Depth(trans') = Depth(t)
  BY <1>1 DEF SameNames
<1>8. Depth(t) \in 0 .. 1
  <2>1. Depth(t) <= 1
    BY <1>6, <1>7
  <2> QED BY <1>4, <2>1, Numbers
<1>10. a.server.session # NoSession <=> Depth(t) # 0
  BY <1>6, <1>7
<1>9. ncall + 1 \in Nat
  BY Depths DEF CoreInv, TypeOK
<1> QED BY <1>1, <1>3, <1>4, <1>8, <1>9, <1>10, PendsQueried

\* Nothing is done.
LEMMA QuietPends ==
    ASSUME PendingBefore, NEW a, NEW t, t = trans, a.server.session = Session,
           a.server.done = server.done, a.server.failed = server.failed \/ a.server.failed = TRUE
    PROVE  Pends(t, a.server.session, a.server.done, a.server.failed, ncall + 1)
<1>1. CASE Session = NoSession
  BY <1>1, PendingBeforeIs DEF Pends, InTransaction
<1>2. CASE Session # NoSession
  <2>1. /\ Session[1].done = << >> /\ ncall \in Nat /\ ncall + 1 \in Nat /\ ncall <= ncall + 1
        /\ Tidy(Ev(trans, 1), trans.node[1].name, ncall) /\ Marks(Ev(trans, 1), Session)
        /\ ~server.failed => Agrees(Ev(trans, 1), Len(Ev(trans, 1)) + 1, server.done)
    BY <1>2, PendingBeforeIs DEF InTransaction
  <2>2. Tidy(Ev(trans, 1), trans.node[1].name, ncall + 1)
    BY <2>1, TidyMore
  <2> QED BY <1>2, <2>1, <2>2 DEF Pends
<1> QED BY <1>1, <1>2

\* A transaction that begins has no statements.
LEMMA BeginPends ==
    ASSUME PendingBefore, NEW name \in TransNames, NEW a, ~InTransaction, Told(a), Unused(trans) # {},
           a.server = With(Append(Session, Frame("transaction", name)))
    PROVE  Pends(Tracked("begin", name, TRUE, a), a.server.session, a.server.done, a.server.failed, ncall + 1)
<1> DEFINE f == Frame("transaction", name)
           r == TransactionStarted(trans, name)
<1>1. /\ server \in Servers /\ Session = NoSession /\ server.done = << >> /\ Depth(trans) = 0
      /\ Chain(trans, 0)
  BY PendingBeforeIs, BeforeIs DEF InTransaction
<1>2. f.done = << >>
  BY <1>1 DEF Frame
<1> HIDE DEF f
<1>3. Append(Session, f) = <<f>> /\ <<f>> # NoSession /\ <<f>>[1] = f /\ Len(<<f>>) = 1
  BY <1>1 DEF NoSession
<1>4. a.server.session = <<f>> /\ a.server.done = << >>
  BY <1>1, <1>3, WithIs, ZenonT(40) DEF f
<1>5. SubEvent(0 + 1) \in TreeEvents(EventObjects)
  BY Recordable
<1>6. Started(r, trans, 0, name)
  BY <1>1, <1>5, StartedIs DEF Chain
<1>7. Ev(r, 1) = << >>
  BY <1>6 DEF Started
<1>8. Tracked("begin", name, TRUE, a) = r
  BY DEF Tracked, Track
<1> HIDE DEF r
<1>9. Tidy(<< >>, r.node[1].name, ncall + 1) /\ Marks(<< >>, <<f>>)
  BY DEF Tidy, Marks
<1>10. Agrees(<< >>, Len(<< >>) + 1, << >>)
  BY DEF Agrees, Listed, Among
<1> QED BY <1>2, <1>3, <1>4, <1>7, <1>8, <1>9, <1>10 DEF Pends

\* The savepoints that a statement can name are those of the only transaction.
LEMMA SavepointsAre ==
    ASSUME PendingBefore, InTransaction, NEW i \in 2 .. Len(Session)
    PROVE  /\ Session[i].kind = "savepoint"
           /\ \A name : Session[i].name = name => i \in Reachable(name)
<1>1. /\ server \in Servers /\ Trans(Session) = {1} /\ Trans(Session) = Transactions
  BY PendingBeforeIs, BeforeIs
<1>2. Len(Session) \in Nat /\ DOMAIN Session = 1 .. Len(Session) /\ \A j \in 1 .. Len(Session) : Session[j] \in FrameSet
  BY <1>1, SessionIs
<1>3. i \in DOMAIN Session /\ i # 1 /\ Session[i] \in FrameSet /\ \A j \in Transactions : j < i
  BY <1>1, <1>2
<1>4. Session[i].kind = "savepoint"
  BY <1>1, <1>3 DEF Trans, FrameSet
<1> QED BY <1>3, <1>4 DEF Reachable

\* A savepoint remembers the statements that are pending.
LEMMA SavepointPends ==
    ASSUME PendingBefore, NEW name \in Names, NEW a, InTransaction, Told(a), ~server.failed,
           name \notin Known, Reachable(name) = {},
           a.server = With(Append(Session, Frame("savepoint", name)))
    PROVE  Pends(Tracked("savepoint", name, TRUE, a), a.server.session, a.server.done, a.server.failed, ncall + 1)
<1> DEFINE f == Frame("savepoint", name)
           s == Append(Session, f)
           r == SavepointAdded(trans, name)
           e == SavepointEvent(name)
           ev == Ev(trans, 1)
           after == Append(ev, e)
           E == TreeEvents(EventObjects)
<1>1. /\ server \in Servers /\ Chain(trans, 1) /\ Session \in Seq(FrameSet) /\ Session # NoSession
      /\ ncall \in Nat /\ ncall + 1 \in Nat /\ ncall <= ncall + 1
      /\ Session[1].done = << >> /\ ev \in Seq(E)
      /\ Tidy(ev, trans.node[1].name, ncall) /\ Marks(ev, Session)
      /\ Agrees(ev, Len(ev) + 1, server.done)
  BY PendingBeforeIs, SessionIs DEF InTransaction
<1>2. f \in FrameSet /\ f.done = server.done /\ f.name = name
  BY <1>1, Framed DEF Frame, TransNames
<1> HIDE DEF f
<1>3. /\ Len(s) = Len(Session) + 1 /\ Len(Session) \in Nat /\ Len(Session) # 0
      /\ s[Len(Session) + 1] = f /\ \A i \in 1 .. Len(Session) : s[i] = Session[i]
  BY <1>1, <1>2, SessionIs DEF InTransaction
<1>4. a.server.session = s /\ a.server.done = IF s = NoSession THEN << >> ELSE server.done
  BY <1>1, WithIs DEF f
<1> HIDE DEF s
<1>5. s # NoSession /\ s[1] = Session[1]
  BY <1>3 DEF NoSession
<1>6. e \in E /\ e.type = "savepoint" /\ e.str = name
  BY Recordable DEF SavepointEvent
<1>7. Tracked("savepoint", name, TRUE, a) = r
  BY DEF Tracked, Track
<1> HIDE DEF e, r, E
<1>8. Appended(r, trans, 1, e)
  BY <1>1, <1>6, AddedIs DEF Chain, r, e, E
<1>9. Ev(r, 1) = after /\ r.node[1].name = trans.node[1].name
  BY <1>8 DEF Appended
<1>10. trans.node[1].name # name /\ Own(trans, 1, name) = {}
  <2>1. 1 \in 1 .. 1
    OBVIOUS
  <2> QED BY <1>1, <2>1, NotKnown DEF Known
<1>11. \A k \in DOMAIN ev : ev[k].type = "savepoint" => ev[k].str # name
  BY <1>10 DEF Own
<1> HIDE DEF ev
<1>12. Tidy(after, trans.node[1].name, ncall + 1)
  BY <1>1, <1>6, <1>10, <1>11, AppendTidy
<1>13. /\ DOMAIN ev = 1 .. Len(ev) /\ Len(ev) \in Nat /\ after[Len(ev) + 1] = e
       /\ \A i \in DOMAIN ev : after[i] = ev[i] /\ i \in 1 .. Len(ev) + 1
       /\ \A i \in DOMAIN after : i \in DOMAIN ev \/ i = Len(ev) + 1
       /\ Len(after) = Len(ev) + 1 /\ Len(ev) + 1 \in 1 .. Len(ev) + 1
  BY <1>1, <1>6, AppendedEvents
<1>14. /\ \A k \in 1 .. Len(ev) + 1 : \A x : Listed(after, k, x) <=> Listed(ev, k, x)
       /\ \A x : Listed(after, Len(after) + 1, x) <=>
                    Listed(ev, Len(ev) + 1, x) \/ (x # 0 /\ e.type = "sql" /\ e.str = x)
  BY <1>1, <1>6, AppendListed
<1> HIDE DEF after
<1>15. Agrees(after, Len(after) + 1, server.done)
  BY <1>1, <1>6, <1>14 DEF Agrees
<1>16. Marks(after, s)
  <2> SUFFICES ASSUME NEW i \in 2 .. Len(s), NEW k \in DOMAIN after,
                      after[k].type = "savepoint", after[k].str = s[i].name
               PROVE  Agrees(after, k, s[i].done)
    BY DEF Marks
  <2>1. i \in 2 .. Len(Session) \/ i = Len(Session) + 1
    BY <1>3
  <2>2. CASE i \in 2 .. Len(Session) /\ k \in DOMAIN ev
    <3>1. s[i] = Session[i] /\ after[k] = ev[k]
      BY <1>3, <1>13, <2>2
    <3>2. Agrees(ev, k, Session[i].done)
      BY <1>1, <2>2, <3>1 DEF Marks
    <3> QED BY <1>13, <1>14, <2>2, <3>1, <3>2 DEF Agrees
  <2>3. CASE i \in 2 .. Len(Session) /\ k = Len(ev) + 1
    <3>1. Session[i].name = name
      BY <1>3, <1>6, <1>13, <2>3
    <3> QED BY <2>3, <3>1, SavepointsAre
  <2>4. CASE i = Len(Session) + 1 /\ k \in DOMAIN ev
    BY <1>2, <1>3, <1>11, <1>13, <2>4
  <2>5. CASE i = Len(Session) + 1 /\ k = Len(ev) + 1
    <3>1. s[i].done = server.done
      BY <1>2, <1>3, <2>5
    <3> QED BY <1>1, <1>13, <1>14, <2>5, <3>1 DEF Agrees
  <2> QED BY <1>13, <2>1, <2>2, <2>3, <2>4, <2>5
<1> QED BY <1>1, <1>4, <1>5, <1>7, <1>9, <1>12, <1>15, <1>16 DEF Pends

\* An event with the name of a savepoint is a savepoint.
LEMMA OwnIsSavepoint ==
    ASSUME PendingBefore, InTransaction, NEW name \in Names, NEW c \in Own(trans, 1, name)
    PROVE  /\ c \in DOMAIN Ev(trans, 1) /\ Ev(trans, 1)[c].type = "savepoint" /\ Ev(trans, 1)[c].str = name
           /\ trans.node[1].name # name
<1>1. Ev(trans, 1) \in Seq(TreeEvents(EventObjects)) /\ Tidy(Ev(trans, 1), trans.node[1].name, ncall)
  BY PendingBeforeIs
<1> DEFINE e == Ev(trans, 1)[c]
<1>2. c \in DOMAIN Ev(trans, 1) /\ e.type # "sub" /\ e.str = name
  BY DEF Own
<1>3. e \in TreeEvents(EventObjects)
  BY <1>1, <1>2
<1> HIDE DEF e
<1>4. e.type = "savepoint"
  BY <1>2, <1>3, NamesAssumption DEF TreeEvents
<1>5. trans.node[1].name # name
  BY <1>1, <1>2, <1>4 DEF Tidy, e
<1> QED BY <1>2, <1>4, <1>5 DEF e

\* A part of the session: the savepoints that it has.
LEMMA PartMarks ==
    ASSUME PendingBefore, InTransaction, NEW name, Reachable(name) # {},
           NEW n \in {Latest(name), Latest(name) - 1}
    PROVE  LET s == SubSeq(Session, 1, n)
           IN  /\ s # NoSession /\ s[1].done = << >> /\ Marks(Ev(trans, 1), s)
               /\ \A i \in 1 .. n : s[i] = Session[i]
<1> DEFINE s == SubSeq(Session, 1, n)
<1>1. /\ server \in Servers /\ StatusBefore /\ Depth(trans) = 1
      /\ Session[1].done = << >> /\ Marks(Ev(trans, 1), Session)
  BY PendingBeforeIs
<1>2. n \in Nat /\ n <= Len(Session) /\ n >= 1
  BY <1>1, PartMatches
<1>3. Len(s) = n /\ (\A i \in 1 .. n : s[i] = Session[i]) /\ (s = NoSession <=> n = 0)
  BY <1>1, <1>2, PartOf
<1>4. Len(Session) \in Nat
  BY <1>1, SessionIs
<1> HIDE DEF s
<1>5. s # NoSession /\ s[1].done = << >>
  BY <1>1, <1>2, <1>3
<1>6. \A i \in 2 .. Len(s) : i \in 2 .. Len(Session) /\ s[i] = Session[i]
  BY <1>2, <1>3, <1>4
<1>7. Marks(Ev(trans, 1), s)
  BY <1>1, <1>6 DEF Marks
<1> QED BY <1>3, <1>5, <1>7 DEF s

\* ROLLBACK TO leaves the statements that precede the savepoint.
LEMMA RollbackToPends ==
    ASSUME PendingBefore, NEW name \in Names, NEW a, InTransaction, Told(a),
           name \in TrackedSavepoints(trans), Reachable(name) # {},
           a.server = Restored(Latest(name), Session[Latest(name)])
    PROVE  Pends(Tracked("rollback to", name, TRUE, a), a.server.session, a.server.done, a.server.failed, ncall + 1)
<1> DEFINE n == Latest(name)
           frame == Session[n]
           s == SubSeq(Session, 1, n)
           r == SavepointRolledback(trans, name)
           ev == Ev(trans, 1)
           c == Earliest(Own(trans, 1, name))
           after == SubSeq(ev, 1, c - 1)
           E == TreeEvents(EventObjects)
<1>1. /\ server \in Servers /\ ServerOK /\ Chain(trans, 1) /\ StatusBefore /\ Depth(trans) = 1
      /\ ncall \in Nat /\ ncall + 1 \in Nat /\ ncall <= ncall + 1
      /\ ev \in Seq(E) /\ Tidy(ev, trans.node[1].name, ncall) /\ Marks(ev, Session)
  BY PendingBeforeIs
<1>2. Tracked("rollback to", name, TRUE, a) = r
  BY DEF Tracked, Track
<1>3. a.server.session = s /\ a.server.done = frame.done
  <2> DEFINE x == Restored(n, frame)
  <2>1. x.session = s /\ x.done = frame.done
    <3> HIDE DEF n, frame
    <3> QED BY <1>1, RestoredIs
  <2>2. a.server = x
    OBVIOUS
  <2> HIDE DEF x
  <2> QED BY <2>1, <2>2
<1>4. n \in 2 .. Len(Session) /\ frame.name = name
  <2>1. /\ n \in 1 .. Len(Session) /\ \A j \in Transactions : j < n
        /\ frame.name = name
    BY <1>1, LatestIs
  <2>2. 1 \in Transactions
    <3>1. Trans(Session) = {1} /\ Trans(Session) = Transactions
      BY <1>1, PendingBeforeIs, BeforeIs
    <3> QED BY <3>1
  <2>3. Len(Session) \in Nat /\ 1 < n
    BY <1>1, <2>1, <2>2, SessionIs
  <2> HIDE DEF n
  <2> QED BY <2>1, <2>3
<1>5. s # NoSession /\ s[1].done = << >> /\ Marks(ev, s)
  BY PartMarks
<1> HIDE DEF n, frame, s, r, ev, c, after, E
<1>6. Own(trans, 1, name) # {}
  <2>1. PICK p \in OfType(trans, "savepoint") : EventAt(trans, p).str = name
    BY DEF TrackedSavepoints
  <2>2. p \in Recorded(trans) /\ EventAt(trans, p).type = "savepoint"
    BY <2>1 DEF OfType
  <2>3. PICK m \in 1 .. 1 : \E k \in DOMAIN Ev(trans, m) : p = <<m, k>>
    BY <1>1, <2>2, RecordedIs DEF Chain
  <2>4. PICK k \in DOMAIN Ev(trans, m) : p = <<m, k>>
    BY <2>3
  <2>5. m = 1
    OBVIOUS
  <2>6. EventAt(trans, p) = Ev(trans, 1)[k] /\ k \in DOMAIN Ev(trans, 1)
    BY <1>1, <2>4, <2>5, RecordedIs DEF Chain
  <2>7. k \in Own(trans, 1, name)
    BY <2>1, <2>2, <2>6 DEF Own
  <2> QED BY <2>7
<1>7. name # NULL
  BY NamesAssumption
<1>8. Holds(trans, 1, name)
  BY <1>6, OwnIsSavepoint DEF Holds
<1>9. c \in Own(trans, 1, name) /\ Cut(r, trans, 1, c)
  BY <1>1, <1>7, <1>8, RolledbackIs DEF Chain, Rolledback, r, c
<1>10. c \in DOMAIN ev /\ ev[c].type = "savepoint" /\ ev[c].str = name
  BY <1>9, OwnIsSavepoint DEF ev
<1>11. Ev(r, 1) = after /\ r.node[1].name = trans.node[1].name
  <2>1. 1 \in 1 .. 1
    OBVIOUS
  <2> QED BY <1>9, <2>1 DEF Cut, after, ev
<1>12. /\ Len(after) + 1 = c
       /\ \A k \in 1 .. c : \A x : Listed(after, k, x) <=> Listed(ev, k, x)
       /\ Tidy(ev, trans.node[1].name, ncall) => Tidy(after, trans.node[1].name, ncall)
       /\ Marks(ev, s) => Marks(after, s)
  BY <1>1, <1>10, CutEvents DEF after
<1>13. Agrees(ev, c, frame.done)
  BY <1>1, <1>4, <1>10 DEF Marks, frame
<1>14. c \in 1 .. c
  BY <1>1, <1>10
<1>15. Agrees(after, Len(after) + 1, frame.done)
  BY <1>12, <1>13, <1>14 DEF Agrees
<1>16. Tidy(after, trans.node[1].name, ncall + 1)
  BY <1>1, <1>12, TidyMore
<1> QED BY <1>2, <1>3, <1>5, <1>11, <1>12, <1>15, <1>16 DEF Pends

\* A savepoint that is released, or that the server does not have.
LEMMA RemovedPends ==
    ASSUME PendingBefore, NEW name \in Names, InTransaction,
           NEW session, session # NoSession, session[1].done = << >>, Marks(Ev(trans, 1), session),
           NEW done, NEW failed, ~failed => Agrees(Ev(trans, 1), Len(Ev(trans, 1)) + 1, done)
    PROVE  Pends(SavepointRemoved(trans, name), session, done, failed, ncall + 1)
<1> DEFINE r == SavepointRemoved(trans, name)
           ev == Ev(trans, 1)
           c == Earliest(Own(trans, 1, name))
           E == TreeEvents(EventObjects)
<1>1. /\ Chain(trans, 1) /\ ncall \in Nat /\ ncall + 1 \in Nat /\ ncall <= ncall + 1
      /\ ev \in Seq(E) /\ Tidy(ev, trans.node[1].name, ncall)
  BY PendingBeforeIs
<1>2. name # NULL
  BY NamesAssumption
<1> HIDE DEF r, ev, c, E
<1>3. r = trans \/ (Holds(trans, 1, name) /\ c \in Own(trans, 1, name) /\ Chain(r, 1) /\ Without(r, trans, 1, c))
  BY <1>1, <1>2, ReleasedIs DEF Chain, Released, r, c
<1>4. CASE r = trans
  <2>1. Tidy(ev, trans.node[1].name, ncall + 1)
    BY <1>1, TidyMore
  <2> QED BY <1>4, <2>1 DEF Pends, ev, r
<1>5. CASE c \in Own(trans, 1, name) /\ Chain(r, 1) /\ Without(r, trans, 1, c)
  <2> DEFINE after == Ev(r, 1)
  <2>1. c \in DOMAIN ev /\ ev[c].type # "sql"
    BY <1>5, OwnIsSavepoint DEF ev
  <2>2. 1 \in 1 .. 1
    OBVIOUS
  <2>3. after \in Seq(E)
    BY <1>5, <2>2, SubOf DEF Chain, E
  <2>4. /\ r.node[1].name = trans.node[1].name
        /\ Len(after) = Len(ev) - 1
        /\ \A j \in 1 .. Len(after) : after[j] = IF j < c THEN ev[j] ELSE ev[j + 1]
    BY <1>5, <2>2 DEF Without, ev
  <2> HIDE DEF after
  <2>5. /\ \A x : Listed(after, Len(after) + 1, x) <=> Listed(ev, Len(ev) + 1, x)
        /\ Tidy(ev, trans.node[1].name, ncall) => Tidy(after, trans.node[1].name, ncall)
        /\ Marks(ev, session) => Marks(after, session)
    BY <1>1, <2>1, <2>3, <2>4, WithoutEvents
  <2>6. ~failed => Agrees(after, Len(after) + 1, done)
    BY <2>5 DEF Agrees, ev
  <2>7. Tidy(after, trans.node[1].name, ncall + 1)
    BY <1>1, <2>5, TidyMore
  <2>8. Marks(after, session)
    BY <2>5 DEF ev
  <2> QED BY <2>4, <2>6, <2>7, <2>8 DEF Pends, after, r
<1> QED BY <1>3, <1>4, <1>5

\* A statement that was run is recorded, the one that PostgreSQL refused as well.
LEMMA SqlPends ==
    ASSUME PendingBefore, NEW kind \in {"sql", "select"}, NEW a, InTransaction, Told(a),
           a.server.session = Session,
           a.server.failed \/ (~server.failed /\ a.server.done = Append(server.done, ncall + 1))
    PROVE  Pends(Tracked(kind, NULL, TRUE, a), a.server.session, a.server.done, a.server.failed, ncall + 1)
<1> DEFINE about == AboutStatement(kind)
           id == ncall + 1
           r == SqlExecuted(trans, id, about)
           e == SqlEvent(id, about)
           ev == Ev(trans, 1)
           E == TreeEvents(EventObjects)
           done == a.server.done
           failed == a.server.failed
<1>1. /\ CoreInv /\ Enough(events) /\ server \in Servers /\ Chain(trans, 1)
      /\ ncall \in Nat /\ id \in Nat /\ ncall <= id /\ id # 0 /\ \A n \in Nat : n <= ncall => n < id
      /\ Session[1].done = << >> /\ ev \in Seq(E)
      /\ Tidy(ev, trans.node[1].name, ncall) /\ Marks(ev, Session)
      /\ ~server.failed => Agrees(ev, Len(ev) + 1, server.done)
  BY PendingBeforeIs DEF StatusBefore
<1>2. Tracked(kind, NULL, TRUE, a) = r
  BY DEF Tracked, Track
<1>3. about \in EventObjects \cup {NULL}
  BY <1>1, AboutIs
<1>4. e \in E /\ e.type = "sql" /\ e.str = id
  <2> HIDE DEF about, id
  <2> QED BY <1>1, <1>3, Recordable DEF SqlEvent
<1> HIDE DEF about, id, r, e, E
<1>5. Appended(r, trans, 1, e)
  BY <1>1, <1>4, ExecutedIs DEF Chain, r, e, E
<1>6. \A k \in DOMAIN ev : ev[k].type = "sql" => ev[k].str < e.str
  BY <1>1, <1>4 DEF Tidy
<1>7. ~failed => \A x : Among(done, x) <=> Listed(ev, Len(ev) + 1, x)
                                             \/ (x # 0 /\ e.type = "sql" /\ e.str = x)
  <2> SUFFICES ASSUME ~failed, NEW x
               PROVE  Among(done, x) <=> Listed(ev, Len(ev) + 1, x) \/ x = id
    BY <1>1, <1>4
  <2>1. ~server.failed /\ done = Append(server.done, id)
    BY DEF id
  <2>2. server.done \in Seq(Nat)
    BY <1>1 DEF Servers, ServerSet
  <2> HIDE DEF done
  <2>3. Among(done, x) <=> Among(server.done, x) \/ x = id
    <3>1. /\ DOMAIN server.done = 1 .. Len(server.done) /\ Len(server.done) \in Nat
          /\ DOMAIN done = 1 .. Len(server.done) + 1 /\ done[Len(server.done) + 1] = id
          /\ \A i \in 1 .. Len(server.done) : done[i] = server.done[i]
      BY <1>1, <2>1, <2>2
    <3>2. \A i : i \in DOMAIN done <=> i \in DOMAIN server.done \/ i = Len(server.done) + 1
      BY <3>1
    <3> QED BY <3>1, <3>2 DEF Among
  <2> QED BY <1>1, <2>1, <2>3 DEF Agrees
<1>8. e.type # "savepoint" /\ id <= id
  BY <1>1, <1>4
<1>9. Session # NoSession
  BY DEF InTransaction
<1> HIDE DEF ev, done, failed
<1>10. Pends(r, Session, done, failed, id)
  BY <1>1, <1>4, <1>5, <1>6, <1>7, <1>8, <1>9, PendsAppended DEF ev, E
<1> QED BY <1>2, <1>10 DEF done, failed, id

\* What a statement that failed leaves.
LEMMA RefusedPends ==
    ASSUME PendingBefore, NEW a \in Answers(Servers), a.server = Refused.server, NEW t, t = trans
    PROVE  Pends(t, a.server.session, a.server.done, a.server.failed, ncall + 1)
<1>1. server \in Servers /\ FailedOK(server)
  BY PendingBeforeIs
<1>2. /\ a.server.session = Session /\ a.server.done = server.done
      /\ a.server.failed <=> engine = "postgres" /\ InTransaction
  BY <1>1, RefusedIs
<1>3. a.server.failed \in BOOLEAN /\ server.failed \in BOOLEAN
  BY <1>1 DEF Answers, Servers, ServerSet
<1>4. server.failed => a.server.failed
  BY <1>1, <1>2 DEF FailedOK, InTransaction, Session
<1>5. a.server.failed = server.failed \/ a.server.failed = TRUE
  BY <1>3, <1>4
<1> QED BY <1>2, <1>5, QuietPends

\* A statement that was not run, or failed without a word to the connection.
LEMMA QuietKeepsPends ==
    ASSUME PendingBefore, NEW a, Quiet(a), NEW kind, NEW name, NEW typed
    PROVE  Pends(Tracked(kind, name, typed, a), a.server.session, a.server.done, a.server.failed, ncall + 1)
<1>1. a.server = server /\ Tracked(kind, name, typed, a) = trans
  BY DEF Quiet, Tracked
<1> QED BY <1>1, QuietPends DEF Session

\* The invariants give what is known before a statement.
LEMMA PendingBeforeHolds ==
    ASSUME CoreInv, StatusInv, PendingInv, Enough(events), regular, engine # "nesting"
    PROVE  PendingBefore
BY DEF PendingBefore, StatusBefore, StatusInv, PendingInv

\* Each statement keeps what is pending: BEGIN,
LEMMA BeginKeepsPending ==
    ASSUME CoreInv, StatusInv, PendingInv, StatusInv', NEW name \in TransNames, Begin(name)
    PROVE  PendingInv'
<1>1. PICK typed \in Typed(name), answer \in BeginAnswers(name) :
         /\ Execute("begin", name, typed, {}, answer)
         /\ Irregular(\/ answer.ok /\ ~typed
                      \/ answer.ok /\ InTransaction /\ engine = "postgres"
                      \/ name \in Known /\ name # NULL)
  BY DEF Begin
<1>2. /\ Enough(events) /\ Unused(trans) # {} /\ typed \in BOOLEAN /\ "begin" \in Kinds
      /\ ServerOK /\ server \in Servers /\ engine \in Engines /\ FailedOK(server)
  BY ServerIs, TypedIs DEF Begin, CanExecute, CanBegin, Enough, Kinds, ServerOK, StatusInv
<1>3. answer \in Answers(Servers)
  BY <1>2, BeginAnswersAre
<1>4. ASSUME regular', engine # "nesting"
      PROVE  Pends(Tracked("begin", name, typed, answer), answer.server.session, answer.server.done,
                   answer.server.failed, ncall + 1)
  <2>1. regular /\ ~(answer.ok /\ ~typed) /\ ~(answer.ok /\ InTransaction /\ engine = "postgres")
    BY <1>1, <1>4 DEF Irregular
  <2>2. PendingBefore
    BY <1>2, <1>4, <2>1, PendingBeforeHolds
  <2>3. CASE Quiet(answer)
    BY <2>2, <2>3, QuietKeepsPends
  <2>4. CASE /\ answer.ok /\ Told(answer) /\ ~server.failed /\ (InTransaction => engine = "nesting")
             /\ answer.server = With(Append(Session, Frame("transaction", name)))
    <3>1. typed = TRUE /\ ~InTransaction
      BY <1>2, <1>4, <2>1, <2>4
    <3> QED BY <1>2, <2>2, <2>4, <3>1, BeginPends
  <2> QED BY <1>2, <2>1, <2>3, <2>4, BeginCases
<1> QED BY <1>1, <1>2, <1>3, <1>4, PendingFrom

\* COMMIT and ROLLBACK end the only transaction.
LEMMA EndPends ==
    ASSUME PendingBefore, InTransaction, NEW s, NEW name, 0 \in Outer(name),
           s = With(SubSeq(Session, 1, 0)) \/ s = Restored(0, Session[1]), NEW t, NEW n
    PROVE  Pends(t, s.session, s.done, s.failed, n)
<1>1. server \in Servers /\ Session[1].done = << >>
  BY PendingBeforeIs
<1>2. SubSeq(Session, 1, 0) = NoSession
  BY <1>1, SessionIs, PartOf
<1> DEFINE undone == Restored(0, Session[1])
           ended == With(NoSession)
<1>3. ended.session = NoSession /\ ended.done = << >>
  BY <1>1, WithIs
<1>4. undone.session = NoSession /\ undone.done = << >>
  BY <1>1, <1>2, RestoredIs
<1>5. s = ended \/ s = undone
  BY <1>2
<1> HIDE DEF ended, undone
<1>6. s.session = NoSession /\ s.done = << >>
  BY <1>3, <1>4, <1>5
<1> QED BY <1>6 DEF Pends

\* COMMIT and ROLLBACK,
LEMMA EndKeepsPending ==
    ASSUME CoreInv, StatusInv, PendingInv, StatusInv', NEW kind \in {"commit", "rollback"},
           NEW name \in TransNames, NEW answers \in {CommitAnswers(name), RollbackAnswers(name)},
           End(kind, name, answers)
    PROVE  PendingInv'
<1>1. PICK typed \in Typed(name), answer \in answers :
         /\ Execute(kind, name, typed, {}, answer)
         /\ Irregular(\/ answer.ok /\ ~typed
                      \/ answer.ok /\ ~InTransaction
                      \/ /\ name # NULL
                         /\ trans.root = NULL \/ Last(Nesting(trans)) # name
                              \/ Len(Nesting(trans)) > 2)
         /\ exact' = (exact /\ \/ kind = "rollback" /\ answer.ok
                               \/ answer.server.tables = server.tables
                                     /\ (answer.ok \/ answer.server.session = Session))
  BY DEF End
<1>2. /\ Enough(events) /\ typed \in BOOLEAN /\ kind \in Kinds
      /\ ServerOK /\ server \in Servers /\ engine \in Engines /\ FailedOK(server)
  BY ServerIs, TypedIs DEF End, CanExecute, Enough, Kinds, ServerOK, StatusInv
<1>3. answer \in Answers(Servers)
  BY <1>2, CommitAnswersAre, RollbackAnswersAre
<1>4. ASSUME regular', engine # "nesting"
      PROVE  Pends(Tracked(kind, name, typed, answer), answer.server.session, answer.server.done,
                   answer.server.failed, ncall + 1)
  <2>1. regular /\ ~(answer.ok /\ ~InTransaction)
    BY <1>1, <1>4 DEF Irregular
  <2>2. PendingBefore
    BY <1>2, <1>4, <2>1, PendingBeforeHolds
  <2>3. CASE Quiet(answer)
    BY <2>2, <2>3, QuietKeepsPends
  <2>4. ASSUME NEW n \in Outer(name), EndedAt(answer, name, n) \/ UndoneTo(answer, name, n)
        PROVE  Pends(Tracked(kind, name, typed, answer), answer.server.session, answer.server.done,
                     answer.server.failed, ncall + 1)
    <3>1. InTransaction
      BY <2>4 DEF EndedAt, UndoneTo
    <3>2. n = 0
      BY <1>2, <1>4, <3>1, OuterIs
    <3>3. answer.server = With(SubSeq(Session, 1, 0)) \/ answer.server = Restored(0, Session[1])
      BY <2>4, <3>2 DEF EndedAt, UndoneTo
    <3> QED BY <2>2, <3>1, <3>2, <3>3, EndPends
  <2>5. \/ Quiet(answer)
        \/ \E n \in Outer(name) : EndedAt(answer, name, n) \/ UndoneTo(answer, name, n)
    BY <1>2, <2>1, CommitCases, RollbackCases
  <2> QED BY <2>3, <2>4, <2>5
<1> QED BY <1>1, <1>2, <1>3, <1>4, PendingFrom

\* SAVEPOINT,
LEMMA AddSavepointKeepsPending ==
    ASSUME CoreInv, StatusInv, PendingInv, StatusInv', NEW name \in Names, AddSavepoint(name)
    PROVE  PendingInv'
<1>1. PICK typed \in Typed(name), answer \in SavepointAnswers(name) :
         /\ Execute("savepoint", name, typed, {}, answer)
         /\ Irregular(answer.ok /\ (~typed \/ ~OneTransaction \/ name \in Known
                                      \/ Reachable(name) # {}))
  BY DEF AddSavepoint
<1>2. /\ Enough(events) /\ typed \in BOOLEAN /\ "savepoint" \in Kinds /\ name \in TransNames
      /\ ServerOK /\ server \in Servers /\ engine \in Engines /\ FailedOK(server)
  BY ServerIs, TypedIs DEF AddSavepoint, CanExecute, Enough, Kinds, ServerOK, StatusInv, TransNames
<1>3. answer \in Answers(Servers)
  BY <1>2, SavepointAnswersAre
<1>4. ASSUME regular', engine # "nesting"
      PROVE  Pends(Tracked("savepoint", name, typed, answer), answer.server.session, answer.server.done,
                   answer.server.failed, ncall + 1)
  <2>1. regular /\ (answer.ok => typed /\ OneTransaction /\ name \notin Known /\ Reachable(name) = {})
    BY <1>1, <1>4 DEF Irregular
  <2>2. PendingBefore
    BY <1>2, <1>4, <2>1, PendingBeforeHolds
  <2>3. CASE Quiet(answer)
    BY <2>2, <2>3, QuietKeepsPends
  <2>4. CASE ~answer.ok /\ ~InTransaction /\ answer.server = server
    <3>1. answer.server.session = NoSession /\ answer.server.done = << >>
      BY <2>2, <2>4, PendingBeforeIs DEF InTransaction, Session
    <3> QED BY <3>1 DEF Pends
  <2>5. CASE /\ answer.ok /\ Told(answer) /\ ~server.failed
             /\ answer.server = With(Append(Session, Frame("savepoint", name)))
    <3>1. typed = TRUE /\ Depth(trans) = 1
      BY <1>2, <2>1, <2>5 DEF OneTransaction, Depth
    <3>2. InTransaction
      BY <2>2, <3>1, PendingBeforeIs
    <3> QED BY <2>1, <2>2, <2>5, <3>1, <3>2, SavepointPends
  <2> QED BY <1>2, <2>3, <2>4, <2>5, SavepointCases
<1> QED BY <1>1, <1>2, <1>3, <1>4, PendingFrom

\* ROLLBACK TO,
LEMMA RollbackSavepointKeepsPending ==
    ASSUME CoreInv, StatusInv, PendingInv, StatusInv', NEW name \in Names, RollbackSavepoint(name)
    PROVE  PendingInv'
<1>1. PICK typed \in Typed(name), answer \in RollbackToAnswers(name) :
         /\ Execute("rollback to", name, typed, {}, answer)
         /\ Irregular(IF answer.ok THEN ~typed \/ ~OneTransaction \/ name \notin TrackedSavepoints(trans)
                      ELSE Told(answer) /\ name \in Known)
         /\ Unnoticed(answer, TRUE)
  BY DEF RollbackSavepoint
<1>2. /\ Enough(events) /\ typed \in BOOLEAN /\ "rollback to" \in Kinds /\ name \in TransNames
      /\ ServerOK /\ server \in Servers /\ engine \in Engines /\ FailedOK(server) /\ name # NULL
  BY ServerIs, TypedIs, NamesAssumption
  DEF RollbackSavepoint, CanExecute, Enough, Kinds, ServerOK, StatusInv, TransNames
<1>3. answer \in Answers(Servers)
  BY <1>2, RollbackToAnswersAre
<1>4. ASSUME regular', engine # "nesting"
      PROVE  Pends(Tracked("rollback to", name, typed, answer), answer.server.session, answer.server.done,
                   answer.server.failed, ncall + 1)
  <2>1. /\ regular
        /\ answer.ok => typed /\ OneTransaction /\ name \in TrackedSavepoints(trans)
        /\ ~answer.ok => (Told(answer) => name \notin Known)
    BY <1>1, <1>4 DEF Irregular
  <2>2. PendingBefore
    BY <1>2, <1>4, <2>1, PendingBeforeHolds
  <2>3. CASE answer = Refused /\ ~answer.ok
    <3> DEFINE t == Tracked("rollback to", name, typed, answer)
    <3>1. CASE ~Told(answer)
      <4>1. t = trans
        BY <3>1 DEF Tracked
      <4> QED BY <1>3, <2>2, <2>3, <4>1, RefusedPends
    <3>2. CASE Told(answer)
      <4>1. engine = "postgres"
        BY <2>3, <3>2 DEF Told
      <4>2. typed = TRUE
        BY <1>1, <4>1 DEF Typed
      <4>3. name \notin ToSet(Nesting(trans)) \cup TrackedSavepoints(trans)
        BY <2>1, <2>3, <3>2 DEF Known
      <4>4. Chain(trans, Depth(trans)) /\ Depth(trans) \in Nat
        BY <2>2, PendingBeforeIs, BeforeIs
      <4>5. ~Holds(trans, Depth(trans), name)
        <5>1. ASSUME Depth(trans) # 0 PROVE 1 \in 1 .. Depth(trans)
          BY <4>4, <5>1
        <5> QED BY <4>3, <4>4, <5>1, NotKnown DEF Holds
      <4>6. SavepointRolledback(trans, name) = trans
        BY <1>2, <4>4, <4>5, RolledbackIs DEF Chain, Rolledback
      <4>7. t = trans
        BY <3>2, <4>2, <4>6 DEF Tracked, Track
      <4> QED BY <1>3, <2>2, <2>3, <4>7, RefusedPends
    <3> QED BY <3>1, <3>2
  <2>4. CASE /\ answer.ok /\ Told(answer) /\ Reachable(name) # {}
             /\ answer.server = Restored(Latest(name), Session[Latest(name)])
    <3>1. typed = TRUE /\ Depth(trans) = 1 /\ name \in TrackedSavepoints(trans)
      BY <1>2, <2>1, <2>4 DEF OneTransaction, Depth
    <3>2. InTransaction
      BY <2>2, <3>1, PendingBeforeIs
    <3> QED BY <2>2, <2>4, <3>1, <3>2, RollbackToPends
  <2> QED BY <1>2, <2>3, <2>4, RollbackToCases
<1> QED BY <1>1, <1>2, <1>3, <1>4, PendingFrom

\* RELEASE,
LEMMA DeleteSavepointKeepsPending ==
    ASSUME CoreInv, StatusInv, PendingInv, StatusInv', NEW name \in Names, DeleteSavepoint(name)
    PROVE  PendingInv'
<1>1. PICK typed \in Typed(name), answer \in ReleaseAnswers(name) :
         /\ Execute("release", name, typed, {}, answer)
         /\ Irregular(Told(answer) /\ (~typed \/ ~OneTransaction))
  BY DEF DeleteSavepoint
<1>2. /\ Enough(events) /\ typed \in BOOLEAN /\ "release" \in Kinds /\ name \in TransNames
      /\ ServerOK /\ server \in Servers /\ engine \in Engines /\ FailedOK(server)
  BY ServerIs, TypedIs DEF DeleteSavepoint, CanExecute, Enough, Kinds, ServerOK, StatusInv, TransNames
<1>3. answer \in Answers(Servers)
  BY <1>2, ReleaseAnswersAre
<1>4. ASSUME regular', engine # "nesting"
      PROVE  Pends(Tracked("release", name, typed, answer), answer.server.session, answer.server.done,
                   answer.server.failed, ncall + 1)
  <2>1. regular /\ (Told(answer) => typed /\ OneTransaction)
    BY <1>1, <1>4 DEF Irregular
  <2>2. PendingBefore
    BY <1>2, <1>4, <2>1, PendingBeforeHolds
  <2>3. CASE Quiet(answer)
    BY <2>2, <2>3, QuietKeepsPends
  <2>4. CASE ~Told(answer) /\ answer = Refused
    <3>1. Tracked("release", name, typed, answer) = trans
      BY <2>4 DEF Tracked
    <3> QED BY <1>3, <2>2, <2>4, <3>1, RefusedPends
  <2>5. ASSUME Told(answer)
        PROVE  /\ InTransaction /\ Session # NoSession
               /\ Tracked("release", name, typed, answer) = SavepointRemoved(trans, name)
               /\ Session[1].done = << >> /\ Marks(Ev(trans, 1), Session)
               /\ ~server.failed => Agrees(Ev(trans, 1), Len(Ev(trans, 1)) + 1, server.done)
    <3>1. Depth(trans) = 1
      BY <2>1, <2>5 DEF OneTransaction, Depth
    <3>2. InTransaction
      BY <2>2, <3>1, PendingBeforeIs
    <3>3. typed = TRUE
      BY <1>2, <2>1, <2>5
    <3>4. Tracked("release", name, typed, answer) = SavepointRemoved(trans, name)
      BY <2>5, <3>3 DEF Tracked, Track
    <3> QED BY <2>2, <3>2, <3>4, PendingBeforeIs DEF InTransaction
  <2>6. CASE Told(answer) /\ answer = Refused
    <3>1. answer.server.session = Session /\ answer.server.done = server.done
      BY <1>2, <2>6, RefusedIs
    <3>2. ~answer.server.failed => ~server.failed
      BY <1>2, <2>6, RefusedIs DEF FailedOK, InTransaction, Session
    <3> QED BY <2>2, <2>5, <2>6, <3>1, <3>2, RemovedPends
  <2>7. CASE /\ answer.ok /\ Told(answer) /\ ~server.failed /\ Reachable(name) # {}
             /\ answer.server = With(SubSeq(Session, 1, Latest(name) - 1))
    <3> DEFINE s == SubSeq(Session, 1, Latest(name) - 1)
    <3>1. s # NoSession /\ s[1].done = << >> /\ Marks(Ev(trans, 1), s)
      BY <2>2, <2>5, <2>7, PartMarks
    <3> HIDE DEF s
    <3>2. answer.server = With(s)
      BY <2>7 DEF s
    <3>3. answer.server.session = s /\ answer.server.done = server.done
      BY <1>2, <3>1, <3>2, WithIs
    <3> QED BY <2>2, <2>5, <2>7, <3>1, <3>3, RemovedPends
  <2> QED BY <1>2, <2>3, <2>4, <2>6, <2>7, ReleaseCases
<1> QED BY <1>1, <1>2, <1>3, <1>4, PendingFrom

\* Any other statement, of a kind that is recorded as one.
LEMMA SqlKeepsPending ==
    ASSUME CoreInv, StatusInv, PendingInv, StatusInv', Enough(events), NEW kind \in {"sql", "select"},
           NEW changed, NEW able, NEW tables \in SUBSET Tables,
           NEW answer \in SqlAnswers(able, tables),
           Execute(kind, NULL, TRUE, changed, answer),
           Irregular(InTransaction /\ answer.server.session = NoSession)
    PROVE  PendingInv'
<1>1. /\ kind \in Kinds /\ NULL \in TransNames /\ TRUE \in BOOLEAN /\ kind # "begin"
      /\ kind \notin {"savepoint", "rollback to", "release"}
      /\ ServerOK /\ server \in Servers /\ engine \in Engines /\ FailedOK(server)
  BY ServerIs DEF Kinds, ServerOK, StatusInv, TransNames
<1>2. answer \in Answers(Servers)
  BY <1>1, SqlAnswersAre
<1>3. ASSUME regular', engine # "nesting"
      PROVE  Pends(Tracked(kind, NULL, TRUE, answer), answer.server.session, answer.server.done,
                   answer.server.failed, ncall + 1)
  <2>1. regular /\ ~(InTransaction /\ answer.server.session = NoSession)
    BY <1>3 DEF Irregular
  <2>2. PendingBefore
    BY <1>3, <2>1, PendingBeforeHolds
  <2>3. CASE Quiet(answer)
    BY <2>2, <2>3, QuietKeepsPends
  <2>4. CASE answer = Refused /\ ~answer.ok
    <3>1. /\ answer.server.session = Session /\ answer.server.done = server.done
          /\ answer.server.failed <=> engine = "postgres" /\ InTransaction
      BY <1>1, <2>4, RefusedIs
    <3>2. CASE ~Told(answer)
      <4>1. Tracked(kind, NULL, TRUE, answer) = trans
        BY <3>2 DEF Tracked
      <4> QED BY <1>2, <2>2, <2>4, <4>1, RefusedPends
    <3>3. CASE Told(answer) /\ InTransaction
      <4>1. answer.server.failed
        BY <2>4, <3>1, <3>3 DEF Told
      <4> QED BY <2>2, <3>1, <3>3, <4>1, SqlPends
    <3>4. CASE ~InTransaction
      <4>1. answer.server.session = NoSession /\ answer.server.done = << >>
        BY <2>2, <3>1, <3>4, PendingBeforeIs DEF InTransaction
      <4> QED BY <4>1 DEF Pends
    <3> QED BY <3>2, <3>3, <3>4
  <2>5. CASE Ran(answer, tables)
    <3>1. CASE InTransaction
      <4>1. /\ answer.server.done = Append(server.done, ncall + 1) /\ ~server.failed
            /\ Told(answer) /\ answer.server.session = Session
        BY <2>5, <3>1 DEF Ran
      <4> QED BY <2>2, <3>1, <4>1, SqlPends
    <3>2. CASE ~InTransaction
      <4>1. answer.server.session = NoSession /\ answer.server.done = server.done
        BY <2>5, <3>2 DEF Ran, InTransaction
      <4>2. server.done = << >>
        BY <2>2, <3>2, PendingBeforeIs
      <4> QED BY <4>1, <4>2 DEF Pends
    <3> QED BY <3>1, <3>2
  <2>6. CASE InTransaction /\ answer.server = Restored(0, Session[1])
    <3>0. InTransaction
      BY <2>6
    <3>1. SubSeq(Session, 1, 0) = NoSession
      <4>1. server \in Servers /\ Session # NoSession
        BY <1>1, <3>0 DEF InTransaction
      <4>2. Session \in Seq(FrameSet)
        BY <4>1, SessionIs
      <4> QED BY <4>2 DEF NoSession
    <3> DEFINE s == Restored(0, Session[1])
    <3>2. s.session = NoSession
      BY <1>1, <3>1, RestoredIs
    <3> HIDE DEF s
    <3>3. answer.server = s
      BY <2>6 DEF s
    <3>4. answer.server.session = NoSession
      BY <3>2, <3>3
    <3>5. ~InTransaction
      BY <2>1, <3>4
    <3> QED BY <3>0, <3>5
  <2>7. \/ Quiet(answer)
        \/ answer = Refused /\ ~answer.ok
        \/ Ran(answer, tables)
        \/ InTransaction /\ answer.server = Restored(0, Session[1])
    BY <1>1, SqlCases
  <2> QED BY <2>3, <2>4, <2>5, <2>6, <2>7
<1> QED BY <1>1, <1>2, <1>3, PendingFrom

\* a statement that changes tables,
LEMMA DdlKeepsPending ==
    ASSUME CoreInv, StatusInv, PendingInv, StatusInv', NEW changed, NEW able, NEW tables \in SUBSET Tables,
           Ddl(changed, able, tables)
    PROVE  PendingInv'
<1>1. PICK answer \in SqlAnswers(able, tables) :
         /\ Execute("sql", NULL, TRUE, changed, answer)
         /\ Irregular(InTransaction /\ answer.server.session = NoSession)
  BY DEF Ddl
<1>2. Enough(events)
  BY DEF Ddl, CanExecute, Enough
<1> QED BY <1>1, <1>2, SqlKeepsPending

\* and a SELECT.
LEMMA SelectKeepsPending ==
    ASSUME CoreInv, StatusInv, PendingInv, StatusInv', Select
    PROVE  PendingInv'
<1>1. PICK answer \in SqlAnswers(TRUE, server.tables) :
         /\ Execute("select", NULL, TRUE, {}, answer)
         /\ Irregular(InTransaction /\ answer.server.session = NoSession)
  BY DEF Select
<1>2. Enough(events) /\ server.tables \in SUBSET Tables
  BY ServerIs DEF Select, CanExecute, Enough
<1> QED BY <1>1, <1>2, SqlKeepsPending

\* The other operations are calls that record nothing.
LEMMA OthersKeepPending ==
    ASSUME CoreInv, StatusInv, PendingInv,
           ListEvents \/ ClearList \/ SetHistorySize \/ BatchExecute \/ CloseAndOpen
    PROVE  PendingInv'
<1>1. engine' = engine /\ trans' = trans /\ ncall' = ncall + 1 /\ (regular' => regular /\ server' = server)
  <2>1. CASE ListEvents \/ ClearList \/ SetHistorySize \/ BatchExecute
    BY <2>1 DEF ListEvents, ClearList, SetHistorySize, BatchExecute, Called, other
  <2>2. CASE CloseAndOpen
    <3>1. /\ server' = IF InTransaction THEN Restored(0, Session[1]) ELSE server
          /\ regular' = (regular /\ ~(trans.root # NULL \/ InTransaction))
          /\ engine' = engine /\ trans' = trans /\ ncall' = ncall + 1
      BY <2>2 DEF CloseAndOpen, Irregular, Called
    <3>2. regular' => regular /\ server' = server
      BY <3>1
    <3> QED BY <3>1, <3>2
  <2> QED BY <2>1, <2>2
<1> SUFFICES ASSUME regular', engine # "nesting" PROVE Pends(trans, Session, server.done, server.failed, ncall + 1)
  BY <1>1 DEF PendingInv, Session
<1>2. Pends(trans, Session, server.done, server.failed, ncall)
  BY <1>1 DEF PendingInv
<1>3. ncall \in Nat /\ ncall + 1 \in Nat /\ ncall <= ncall + 1
  <2>1. ncall \in Nat
    BY DEF CoreInv, TypeOK
  <2> QED BY <2>1
<1>4. Tidy(Ev(trans, 1), trans.node[1].name, ncall) => Tidy(Ev(trans, 1), trans.node[1].name, ncall + 1)
  BY <1>3, TidyMore
<1> QED BY <1>2, <1>4 DEF Pends

\* Nothing is pending at first.
LEMMA PendingAtFirst == Init => PendingInv
BY DEF Init, PendingInv, Pends, Session

\* Every step keeps what is pending.
LEMMA PendingKept == CoreInv /\ StatusInv /\ PendingInv /\ [Next]_vars => PendingInv'
<1> SUFFICES ASSUME CoreInv, StatusInv, PendingInv, [Next]_vars PROVE PendingInv'
  OBVIOUS
<1>0. StatusInv' /\ server.tables \in SUBSET Tables
  BY StatusKept, ServerIs
<1>1. ASSUME NEW name \in TransNames, Begin(name) \/ Commit(name) \/ Rollback(name) PROVE PendingInv'
  BY <1>0, <1>1, BeginKeepsPending, EndKeepsPending DEF Commit, Rollback
<1>2. ASSUME NEW name \in Names, AddSavepoint(name) \/ RollbackSavepoint(name) \/ DeleteSavepoint(name)
      PROVE  PendingInv'
  BY <1>0, <1>2, AddSavepointKeepsPending, RollbackSavepointKeepsPending, DeleteSavepointKeepsPending
<1>3. ASSUME NEW t \in Tables, NEW u \in Tables, Create(t) \/ Drop(t) \/ Rename(t, u) PROVE PendingInv'
  <2>1. /\ server.tables \cup {t} \in SUBSET Tables /\ server.tables \ {t} \in SUBSET Tables
        /\ (server.tables \ {t}) \cup {u} \in SUBSET Tables
    BY <1>0
  <2> QED BY <1>0, <1>3, <2>1, DdlKeepsPending DEF Create, Drop, Rename
<1>4. CASE UNCHANGED vars
  BY <1>4 DEF vars, PendingInv, Session
<1>5. CASE Next
  BY <1>0, <1>1, <1>2, <1>3, <1>5, SelectKeepsPending, OthersKeepPending DEF Next, TransNames
<1> QED BY <1>4, <1>5

\* The statements recorded are numbered, in one transaction, in their order.
LEMMA RecordedStatements ==
    ASSUME CoreInv, StatusInv, PendingInv, regular, engine # "nesting", ~server.failed
    PROVE  /\ {EventAt(trans, p).str : p \in Statements} = ToSet(server.done)
           /\ \A p, q \in Statements :
                p[1] = q[1] /\ p[2] < q[2] => EventAt(trans, p).str < EventAt(trans, q).str
<1> DEFINE d == Depth(trans)
           ev == Ev(trans, 1)
<1>1. /\ Chain(trans, d) /\ d \in 0 .. 1 /\ (InTransaction <=> d # 0)
      /\ Pends(trans, Session, server.done, server.failed, ncall)
      /\ server.done \in Seq(Nat)
  <2>1. Chain(trans, d) /\ d \in Nat
    BY TreeIs DEF CoreInv, Chain
  <2>2. d <= 1 /\ (InTransaction <=> d # 0)
    BY DEF StatusInv, Matches, Mirrors, InTransaction
  <2>3. d \in 0 .. 1
    <3> HIDE DEF d
    <3> QED BY <2>1, <2>2
  <2>4. server.done \in Seq(Nat)
    BY ServerIs DEF Servers, ServerSet
  <2> QED BY <2>1, <2>2, <2>3, <2>4 DEF PendingInv
<1>2. ToSet(server.done) = {server.done[i] : i \in DOMAIN server.done}
  BY DEF ToSet
<1> HIDE DEF d, ev
<1>3. CASE d = 0
  <2>1. server.done = << >>
    BY <1>1, <1>3 DEF Pends, InTransaction
  <2>2. Recorded(trans) = {}
    BY <1>1, <1>3, RecordedIs DEF Chain
  <2>3. Statements = {}
    BY <2>2 DEF Statements, OfType
  <2> QED BY <1>2, <2>1, <2>3
<1>4. CASE d = 1
  <2>1. Tidy(ev, trans.node[1].name, ncall) /\ Agrees(ev, Len(ev) + 1, server.done)
    BY <1>1, <1>4 DEF Pends, InTransaction, ev
  <2>2. 1 \in 1 .. 1
    OBVIOUS
  <2>3. ev \in Seq(TreeEvents(EventObjects))
    BY <1>1, <1>4, <2>2, SubOf DEF Chain, ev
  <2>4. \A k \in DOMAIN ev : k < Len(ev) + 1
    BY <2>3
  <2>5. ASSUME NEW p \in Statements
        PROVE  /\ p[2] \in DOMAIN ev /\ p = <<1, p[2]>> /\ EventAt(trans, p) = ev[p[2]]
               /\ ev[p[2]].type = "sql" /\ ev[p[2]].str # 0
    <3>1. p \in Recorded(trans) /\ EventAt(trans, p).type = "sql" /\ EventAt(trans, p).str # 0
      BY DEF Statements, OfType
    <3>2. PICK n \in 1 .. 1 : \E k \in DOMAIN Ev(trans, n) : p = <<n, k>>
      BY <1>1, <1>4, <3>1, RecordedIs DEF Chain
    <3>3. PICK k \in DOMAIN Ev(trans, n) : p = <<n, k>>
      BY <3>2
    <3>4. n = 1
      OBVIOUS
    <3>5. EventAt(trans, p) = ev[k] /\ p = <<1, k>> /\ k \in DOMAIN ev
      BY <1>1, <1>4, <3>3, <3>4, RecordedIs DEF Chain, ev
    <3> QED BY <3>1, <3>5
  <2>6. ASSUME NEW k \in DOMAIN ev, ev[k].type = "sql", ev[k].str # 0
        PROVE  <<1, k>> \in Statements /\ EventAt(trans, <<1, k>>) = ev[k]
    <3>1. <<1, k>> \in Recorded(trans) /\ EventAt(trans, <<1, k>>) = ev[k]
      BY <1>1, <1>4, <2>2, <2>6, RecordedIs DEF Chain, ev
    <3> QED BY <2>6, <3>1 DEF Statements, OfType
  <2>7. \A x : x \in {EventAt(trans, p).str : p \in Statements} <=> Listed(ev, Len(ev) + 1, x)
    <3>1. ASSUME NEW p \in Statements PROVE Listed(ev, Len(ev) + 1, EventAt(trans, p).str)
      BY <2>4, <2>5 DEF Listed
    <3>2. ASSUME NEW x, Listed(ev, Len(ev) + 1, x) PROVE \E p \in Statements : EventAt(trans, p).str = x
      <4>1. PICK k \in DOMAIN ev : ev[k].type = "sql" /\ ev[k].str = x /\ x # 0
        BY <3>2 DEF Listed
      <4>2. <<1, k>> \in Statements /\ EventAt(trans, <<1, k>>) = ev[k]
        BY <2>6, <4>1
      <4> QED BY <4>1, <4>2
    <3> QED BY <3>1, <3>2
  <2>8. \A x : x \in ToSet(server.done) <=> Among(server.done, x)
    BY <1>2 DEF Among
  <2>9. {EventAt(trans, p).str : p \in Statements} = ToSet(server.done)
    BY <2>1, <2>7, <2>8 DEF Agrees
  <2>10. ASSUME NEW p \in Statements, NEW q \in Statements, p[2] < q[2]
         PROVE  EventAt(trans, p).str < EventAt(trans, q).str
    <3>1. Numbered(ev[p[2]]) /\ Numbered(ev[q[2]])
      BY <2>5 DEF Numbered
    <3> QED BY <2>1, <2>5, <2>10, <3>1 DEF Tidy
  <2> QED BY <2>9, <2>10
<1>5. d = 0 \/ d = 1
  BY <1>1
<1> QED BY <1>3, <1>4, <1>5

\* In a transaction of one level the status has the statements that the server
\* would undo, all of them and in order.
THEOREM PendingIsTheServers == Spec => []PendingIsTracked
<1>1. CoreInv /\ StatusInv /\ PendingInv => PendingIsTracked
  BY RecordedStatements DEF PendingIsTracked
<1> QED BY <1>1, CoreAtFirst, CoreKept, StatusAtFirst, StatusKept, PendingAtFirst, PendingKept, PTL DEF Spec
=============================================================================
