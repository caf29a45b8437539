--------------------------- MODULE ConnectionEvents ---------------------------
(***************************************************************************)
(* The events of a connection: the circular array of libgda/               *)
(* gda-connection.c and the list built from it for the application.        *)
(*                                                                         *)
(* An event is an object; objects have reference counts, and the object    *)
(* in the next slot is used again for the next event.  The whole state is  *)
(* one record, the operations map a state to a state, so that the          *)
(* execution of a statement can do several in one step.                    *)
(*                                                                         *)
(* A name that ends in _mutant is a wrong version of the definition after  *)
(* it, used to confirm that the properties notice such a mistake.          *)
(***************************************************************************)
EXTENDS Naturals, Sequences, FiniteSets

CONSTANTS
    EVENTS_ARRAY_SIZE,  \* initial size, and the least size asked by the property
    MaxArraySize,       \* bound: largest size of the array
    EventObjects,       \* bound: the objects, numbered from 1
    NoEvent

ASSUME EventsAssumption ==
    /\ EVENTS_ARRAY_SIZE \in Nat \ {0} /\ MaxArraySize \in Nat
    /\ EVENTS_ARRAY_SIZE <= MaxArraySize
    /\ IsFiniteSet(EventObjects) /\ EventObjects = 1 .. Cardinality(EventObjects)
    /\ NoEvent \notin EventObjects

\* array, size, full, next, list: events_array, events_array_size, ..., events_list.
\* about: what each object describes; refs: reference counts.
\* log: history, what an application that asks for the events is to be given.
NoEvents ==
    [array |-> [k \in 0 .. MaxArraySize - 1 |-> NoEvent],
     size |-> EVENTS_ARRAY_SIZE, full |-> FALSE, next |-> 0, list |-> << >>,
     about |-> [o \in EventObjects |-> 0], refs |-> [o \in EventObjects |-> 0],
     log |-> << >>]

Occurrences(s, o) == Cardinality({k \in DOMAIN s : s[k] = o})
LastOf(s, n) == IF Len(s) <= n THEN s ELSE SubSeq(s, Len(s) - n + 1, Len(s))
Described(ev, s) == [k \in DOMAIN s |-> ev.about[s[k]]]

\* One slot is lost once the array has been filled.
Kept(ev) == ev.size - 1

-----------------------------------------------------------------------------
(* Operations                                                              *)

\* gda_connection_point_available_event(): the object of the next slot, which
\* leaves the array, or a new one.
NextSlot(ev) == ev.array[ev.next]
FreeObjects(ev) == {o \in EventObjects : ev.refs[o] = 0}
AvailableEvent(ev) ==
    IF NextSlot(ev) # NoEvent THEN NextSlot(ev)
    ELSE CHOOSE o \in FreeObjects(ev) : \A p \in FreeObjects(ev) : o <= p

TakeEvent(ev, what) ==
    LET o == AvailableEvent(ev)
    IN  [ev EXCEPT !.array[ev.next] = NoEvent,
                   !.about[o] = what,
                   !.refs[o] = IF NextSlot(ev) = NoEvent THEN 1 ELSE @]

\* The list given to the application lasts until the next event.
DropList_mutant(ev) == [ev EXCEPT !.refs = [o \in EventObjects |-> ev.refs[o] - Occurrences(ev.list, o)]]
DropList(ev) ==
    [ev EXCEPT !.refs = [o \in EventObjects |-> ev.refs[o] - Occurrences(ev.list, o)],
               !.list = << >>,
               !.log = IF ev.list = << >> THEN @ ELSE << >>]

Advance(ev) ==
    IF ev.next + 1 = ev.size THEN [ev EXCEPT !.next = 0, !.full = TRUE]
    ELSE [ev EXCEPT !.next = @ + 1]

\* gda_connection_add_event(): the event takes the place of the oldest one.
AddEvent(ev, o) ==
    LET lone == DropList(ev)
        old  == NextSlot(lone)
    IN  Advance([lone EXCEPT
            !.array[lone.next] = o,
            !.refs = [p \in EventObjects |->
                        IF p = old /\ old # o THEN lone.refs[p] - 1 ELSE lone.refs[p]],
            !.log = Append(@, lone.about[o])])

\* What the providers do with an event, gda_connection_add_event_string().
PostEvent(ev, what) == AddEvent(TakeEvent(ev, what), AvailableEvent(ev))

\* _clear_connection_events(), which keeps the list already given.
ClearEvents(ev) ==
    [ev EXCEPT !.full = FALSE, !.next = 0,
               !.log = IF ev.list = << >> THEN << >> ELSE @]

\* The slots gda_connection_get_events() visits, oldest event first.
Visited_mutant(ev) ==
    IF ev.full THEN [k \in 1 .. ev.size - 1 |-> (ev.next + k - 1) % ev.size]
    ELSE [k \in 1 .. ev.next |-> k - 1]
Visited(ev) ==
    IF ev.full THEN [k \in 1 .. ev.size - 1 |-> (ev.next + k) % ev.size]
    ELSE [k \in 1 .. ev.next |-> k - 1]
ListedEvents(ev) == [k \in DOMAIN Visited(ev) |-> ev.array[Visited(ev)[k]]]

\* gda_connection_get_events(): the events move from the array to the list.
\* Without events the list is NULL.
GetEvents(ev) ==
    IF ev.list # << >> THEN ev
    ELSE [ev EXCEPT
            !.list = ListedEvents(ev),
            !.array = [k \in DOMAIN ev.array |->
                         IF \E i \in DOMAIN Visited(ev) : Visited(ev)[i] = k
                         THEN NoEvent ELSE ev.array[k]],
            !.full = FALSE, !.next = 0,
            !.log = LastOf(@, Kept(ev))]

\* The assertions of gda_connection_get_events().
GetEventsAsserts(ev) ==
    ev.list = << >> => \A k \in DOMAIN Visited(ev) : ListedEvents(ev)[k] # NoEvent

\* change_events_array_max_size(): slots given back are emptied, unless the new
\* size is below EVENTS_ARRAY_SIZE; slots that are added are set to NULL.
Resize(ev, asked) ==
    LET size == asked + 1
        tail == {k \in DOMAIN ev.array : ev.size <= k /\ k < size}
        cut  == {k \in DOMAIN ev.array : EVENTS_ARRAY_SIZE <= size /\ size <= k /\ k < ev.size}
    IN  IF size = ev.size THEN ev
        ELSE [ev EXCEPT
                !.refs = [o \in EventObjects |->
                            @[o] - Cardinality({k \in cut : ev.array[k] = o})],
                !.array = [k \in DOMAIN ev.array |->
                             IF k \in tail \cup cut THEN NoEvent ELSE @[k]],
                !.size = size, !.full = FALSE, !.next = 0,
                !.log = IF ev.list = << >> THEN << >> ELSE @]

-----------------------------------------------------------------------------
EventsType(ev) ==
    /\ ev \in [array : [0 .. MaxArraySize - 1 -> EventObjects \cup {NoEvent}],
               size : 1 .. MaxArraySize, full : BOOLEAN, next : Nat, list : Seq(EventObjects),
               about : [EventObjects -> Nat], refs : [EventObjects -> Nat], log : Seq(Nat)]
    /\ ev.next < ev.size

\* The application is given the most recent events, the oldest first; a list it
\* has been given describes the same events until it is dropped.
LatestInOrder(ev) ==
    IF ev.list # << >> THEN Described(ev, ev.list) = ev.log
    ELSE GetEventsAsserts(ev) /\ Described(ev, ListedEvents(ev)) = LastOf(ev.log, Kept(ev))

\* The references the array and the list hold to an object.
HeldBy(ev, o) == Cardinality({k \in DOMAIN ev.array : ev.array[k] = o}) + Occurrences(ev.list, o)
=============================================================================
