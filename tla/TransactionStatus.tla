-------------------------- MODULE TransactionStatus --------------------------
(***************************************************************************)
(* What a connection remembers of its transactions: the tree of            *)
(* GdaTransactionStatus objects of libgda/gda-transaction-status.c, and    *)
(* the gda_connection_internal_*() functions of libgda/gda-connection.c    *)
(* with which a provider keeps it up to date.                              *)
(*                                                                         *)
(* The tree is a record: the root and a function from the live objects to  *)
(* their name and events.  An operation maps a tree to a tree; called with *)
(* something it does not find it only writes a warning.                    *)
(*                                                                         *)
(* A name that ends in _mutant is a wrong version of the definition after  *)
(* it, used to confirm that the properties notice such a mistake.          *)
(***************************************************************************)
EXTENDS Naturals, Sequences, SequencesExt, FiniteSets

CONSTANTS
    NULL,     \* no name, no object
    MaxTrans  \* bound: GdaTransactionStatus objects alive at once

ASSUME TransAssumption == MaxTrans \in Nat \ {0} /\ NULL \notin Nat \cup (Nat \X Nat)

NoTree == [root |-> NULL, node |-> << >>]

SavepointEvent(name) == [type |-> "savepoint", str |-> name, sub |-> NULL, conn_event |-> NULL]
SqlEvent(id, about)  == [type |-> "sql", str |-> id, sub |-> NULL, conn_event |-> about]
SubEvent(trans)      == [type |-> "sub", str |-> NULL, sub |-> trans, conn_event |-> NULL]

\* An event is known by the object it belongs to and its position.
NotFound == [trans |-> NULL, ev |-> NULL]
Unused(t) == (1 .. MaxTrans) \ DOMAIN t.node
SubsIn(ev) == {k \in DOMAIN ev : ev[k].type = "sub"}
Earliest(positions) == CHOOSE i \in positions : \A j \in positions : i <= j

-----------------------------------------------------------------------------
(* Searches                                                                *)

\* gda_transaction_status_find_current(): the innermost transaction, and the
\* event of its parent that holds it.
FindCurrent(t) ==
    LET find[n \in DOMAIN t.node] ==
          LET ev == t.node[n].events
              k == Earliest(SubsIn(ev))
              inner == find[ev[k].sub]
          IN  IF SubsIn(ev) = {} THEN [trans |-> n, ev |-> NULL]
              ELSE IF inner.ev = NULL THEN [trans |-> inner.trans, ev |-> <<n, k>>]
              ELSE inner
    IN  IF t.root = NULL THEN NotFound ELSE find[t.root]

\* gda_transaction_status_find(): a transaction by its name, or the one that has
\* an event called str.  The event found is one of the object the search began
\* with: for something in a sub transaction, the event that holds that one.
Find(t, str) ==
    LET find[n \in DOMAIN t.node] ==
          LET ev == t.node[n].events
              within(k) == IF ev[k].type = "sub" THEN find[ev[k].sub].trans
                           ELSE IF ev[k].str = str THEN n ELSE NULL
              hits == {k \in DOMAIN ev : within(k) # NULL}
              k == Earliest(hits)
          IN  IF t.node[n].name = str THEN [trans |-> n, ev |-> NULL]
              ELSE IF hits = {} THEN NotFound
              ELSE [trans |-> within(k), ev |-> <<n, k>>]
    IN  IF t.root = NULL THEN NotFound
        ELSE IF str = NULL THEN FindCurrent(t)
        ELSE find[t.root]

\* The objects of a sub tree.
Below(t, n) ==
    LET below[m \in DOMAIN t.node] ==
          {m} \cup UNION {below[t.node[m].events[k].sub] : k \in SubsIn(t.node[m].events)}
    IN  below[n]

Keeping(t, live) == [t EXCEPT !.node = [n \in live |-> t.node[n]]]

\* g_object_unref() of the root
DropTree(t) == NoTree

\* gda_transaction_status_free_events(): does nothing when the event is not one
\* of the object's own.
FreeEvents_mutant(t, trans, ev, free_after) ==
    IF ev = NULL THEN t
    ELSE IF ev[1] # trans THEN t
    ELSE LET k    == ev[2]
             all  == t.node[trans].events
             kept == SubSeq(all, 1, k - 1) \o SubSeq(all, k + 1, Len(all))
             gone == {all[i].sub : i \in {j \in DOMAIN all : j = k /\ all[j].type = "sub"}}
         IN  Keeping([t EXCEPT !.node[trans].events = kept],
                     DOMAIN t.node \ UNION {Below(t, n) : n \in gone})
FreeEvents(t, trans, ev, free_after) ==
    IF ev = NULL THEN t
    ELSE IF ev[1] # trans THEN t
    ELSE LET k    == ev[2]
             all  == t.node[trans].events
             kept == SubSeq(all, 1, k - 1)
                       \o (IF free_after THEN << >> ELSE SubSeq(all, k + 1, Len(all)))
             gone == {all[i].sub : i \in {j \in DOMAIN all : /\ all[j].type = "sub"
                                                             /\ j = k \/ (j > k /\ free_after)}}
         IN  Keeping([t EXCEPT !.node[trans].events = kept],
                     DOMAIN t.node \ UNION {Below(t, n) : n \in gone})

Append1(t, trans, e) == [t EXCEPT !.node[trans].events = Append(@, e)]

-----------------------------------------------------------------------------
(* The functions the providers call                                        *)

\* gda_connection_internal_transaction_started(), with no parent named.
TransactionStarted(t, name) ==
    LET n == Earliest(Unused(t))
        parent == Find(t, NULL).trans
        fresh == [i \in DOMAIN t.node \cup {n} |->
                    IF i = n THEN [name |-> name, events |-> << >>] ELSE t.node[i]]
    IN  IF parent = NULL THEN [root |-> n, node |-> fresh]
        ELSE Append1([t EXCEPT !.node = fresh], parent, SubEvent(n))

\* gda_connection_internal_transaction_committed() and
\* gda_connection_internal_transaction_rolledback()
TransactionEnded_mutant(t, name) ==
    LET found == Find(t, name)
    IN  IF found.trans = NULL THEN t
        ELSE DropTree(t)
TransactionEnded(t, name) ==
    LET found == Find(t, name)
    IN  IF found.trans = NULL THEN t
        ELSE IF found.ev # NULL THEN FreeEvents(t, found.ev[1], found.ev, TRUE)
        ELSE DropTree(t)

\* gda_connection_internal_savepoint_added()
SavepointAdded(t, name) ==
    LET trans == Find(t, NULL).trans
    IN  IF trans = NULL THEN t ELSE Append1(t, trans, SavepointEvent(name))

\* gda_connection_internal_savepoint_rolledback()
SavepointRolledback(t, name) ==
    LET found == Find(t, name)
    IN  IF found.trans = NULL THEN t ELSE FreeEvents(t, found.trans, found.ev, TRUE)

\* gda_connection_internal_savepoint_removed()
SavepointRemoved(t, name) ==
    LET found == Find(t, name)
    IN  IF found.trans = NULL THEN t ELSE FreeEvents(t, found.trans, found.ev, FALSE)

\* The other statements of gda_connection_internal_statement_executed().
SqlExecuted(t, id, about) ==
    LET trans == FindCurrent(t).trans
    IN  IF trans = NULL THEN t ELSE Append1(t, trans, SqlEvent(id, about))

-----------------------------------------------------------------------------
(* What the tree says                                                      *)

\* The transactions, outermost first.
Nesting(t) ==
    LET names[n \in DOMAIN t.node] ==
          LET ev == t.node[n].events
          IN  <<t.node[n].name>> \o (IF SubsIn(ev) = {} THEN << >>
                                     ELSE names[ev[Earliest(SubsIn(ev))].sub])
    IN  IF t.root = NULL THEN << >> ELSE names[t.root]

Recorded(t) == UNION {{n} \X DOMAIN t.node[n].events : n \in DOMAIN t.node}
EventAt(t, p) == t.node[p[1]].events[p[2]]
OfType(t, type) == {p \in Recorded(t) : EventAt(t, p).type = type}
TrackedSavepoints(t) == {EventAt(t, p).str : p \in OfType(t, "savepoint")}

\* The references that recorded statements have to a connection event.
References(t, o) == Cardinality({p \in Recorded(t) : EventAt(t, p).conn_event = o})
=============================================================================
