------------------------- MODULE StatementParts_proofs -------------------------
(***************************************************************************)
(* Lemmas about the two parts of which StatementExecution is composed,     *)
(* each for all values of its constants.                                   *)
(*                                                                         *)
(* ConnectionEvents, for any size of the ring: it holds the latest events  *)
(* in their order, each in one place, and an object keeps a reference for  *)
(* each place that it is in.                                               *)
(*                                                                         *)
(* TransactionStatus: the objects always form a path, each but the         *)
(* innermost one held by the last event of its parent, and the searches    *)
(* find what their comments say.                                           *)
(***************************************************************************)
EXTENDS ConnectionEvents, TransactionStatus, FiniteSetTheorems, SequenceTheorems,
        WellFoundedInduction, TLAPS

-----------------------------------------------------------------------------
(* The invariant of the ring.                                              *)

Slots == 0 .. MaxArraySize - 1
EvRec == [array : [Slots -> EventObjects \cup {NoEvent}], size : 1 .. MaxArraySize,
          full : BOOLEAN, next : Nat, list : Seq(EventObjects),
          about : [EventObjects -> Nat], refs : [EventObjects -> Nat], log : Seq(Nat)]

\* An object is in one slot, and not in the list too.
Distinct(ev) == \A j, k \in Slots : ev.array[j] = ev.array[k] /\ ev.array[j] # NoEvent => j = k
Apart(ev)    == \A j \in Slots, i \in DOMAIN ev.list : ev.array[j] # ev.list[i]

\* The slots gda_connection_get_events() would read; the newest has the age of 1.
Recent(ev) == {j \in Slots : j < ev.next \/ (ev.full /\ ev.next < j /\ j < ev.size)}
Age(ev, j) == IF j < ev.next THEN ev.next - j ELSE ev.next + ev.size - j

\* Each of them holds the event posted that long ago.
InRing(ev) ==
    /\ IF ev.full THEN Len(ev.log) >= ev.size ELSE Len(ev.log) = ev.next
    /\ \A j \in Recent(ev) : /\ ev.array[j] # NoEvent
                             /\ ev.about[ev.array[j]] = ev.log[Len(ev.log) + 1 - Age(ev, j)]

\* The list was made when the ring was emptied.
InList(ev) == ev.next = 0 /\ ~ev.full /\ Described(ev, ev.list) = ev.log

RingInv(ev) == /\ EventsType(ev) /\ Distinct(ev) /\ Apart(ev)
               /\ IF ev.list = << >> THEN InRing(ev) ELSE InList(ev)

\* The references that are accounted for: those of the ring and the list, and `held'
\* others for each object.
Counted(ev, held) == \A o \in EventObjects : ev.refs[o] >= HeldBy(ev, o) + held[o]

EventsInv(ev, held) == RingInv(ev) /\ Counted(ev, held)

Shown(ev, o) == IF \E k \in Slots : ev.array[k] = o THEN 1 ELSE 0

-----------------------------------------------------------------------------
(* Counting.                                                               *)

\* The objects are numbers, of which there are finitely many.
LEMMA Objects == /\ IsFiniteSet(EventObjects) /\ EventObjects \subseteq Nat /\ NoEvent \notin EventObjects
                 /\ EVENTS_ARRAY_SIZE \in Nat \ {0} /\ MaxArraySize \in Nat
                 /\ EVENTS_ARRAY_SIZE <= MaxArraySize
<1>1. Cardinality(EventObjects) \in Nat
  BY FS_CardinalityType, EventsAssumption
<1>2. 1 .. Cardinality(EventObjects) \subseteq Nat
  BY <1>1
<1> QED BY <1>2, EventsAssumption

\* A set with one element at most.
LEMMA AtMostOne ==
    ASSUME NEW S, \A x, y \in S : x = y
    PROVE  IsFiniteSet(S) /\ Cardinality(S) = IF S = {} THEN 0 ELSE 1
<1>1. CASE S = {}
  BY <1>1, FS_EmptySet
<1>2. CASE S # {}
  <2>1. PICK x : S = {x}
    BY <1>2
  <2> QED BY <1>2, <2>1, FS_Singleton
<1> QED BY <1>1, <1>2

\* An object is in the array once or not.
LEMMA InArray ==
    ASSUME NEW ev, ev.array \in [Slots -> EventObjects \cup {NoEvent}], Distinct(ev),
           NEW o \in EventObjects
    PROVE  /\ Cardinality({k \in DOMAIN ev.array : ev.array[k] = o}) = Shown(ev, o)
           /\ Shown(ev, o) \in 0 .. 1
           /\ HeldBy(ev, o) = Shown(ev, o) + Occurrences(ev.list, o)
<1>1. o # NoEvent
  BY Objects
<1>2. \A j, k \in {i \in DOMAIN ev.array : ev.array[i] = o} : j = k
  BY <1>1 DEF Distinct
<1>3. Cardinality({k \in DOMAIN ev.array : ev.array[k] = o}) = Shown(ev, o)
  BY <1>2, AtMostOne DEF Shown
<1> QED BY <1>3 DEF Shown, HeldBy

\* The places of an object in a list.
LEMMA InAList ==
    ASSUME NEW s, NEW n \in Nat, DOMAIN s = 1 .. n, NEW o
    PROVE  /\ Occurrences(s, o) \in Nat
           /\ Occurrences(s, o) = 0 <=> \A k \in DOMAIN s : s[k] # o
           /\ (\A j, k \in DOMAIN s : s[j] = s[k] => j = k)
                => Occurrences(s, o) = IF \E k \in DOMAIN s : s[k] = o THEN 1 ELSE 0
<1> DEFINE At == {k \in DOMAIN s : s[k] = o}
<1>1. IsFiniteSet(At)
  BY FS_Interval, FS_Subset
<1>2. Cardinality(At) \in Nat /\ (Cardinality(At) = 0 <=> At = {})
  BY <1>1, FS_CardinalityType, FS_EmptySet
<1>3. ASSUME \A j, k \in DOMAIN s : s[j] = s[k] => j = k
      PROVE  Cardinality(At) = IF \E k \in DOMAIN s : s[k] = o THEN 1 ELSE 0
  BY <1>3, AtMostOne
<1> QED BY <1>2, <1>3 DEF Occurrences

\* The list of a ring.
LEMMA InItsList ==
    ASSUME NEW ev, ev.list \in Seq(EventObjects), NEW o
    PROVE  /\ Occurrences(ev.list, o) \in Nat
           /\ Occurrences(ev.list, o) = 0 <=> \A k \in DOMAIN ev.list : ev.list[k] # o
           /\ Occurrences(<< >>, o) = 0
<1>1. Len(ev.list) \in Nat /\ DOMAIN ev.list = 1 .. Len(ev.list)
  OBVIOUS
<1>2. \E n \in Nat : DOMAIN << >> = 1 .. n
  BY EmptySeq, LenProperties
<1>3. \A k \in DOMAIN << >> : FALSE
  OBVIOUS
<1> QED BY <1>1, <1>2, <1>3, InAList

\* The first of the free objects is one of them.
LEMMA Available ==
    ASSUME NEW ev, RingInv(ev), FreeObjects(ev) # {}
    PROVE  /\ AvailableEvent(ev) \in EventObjects
           /\ IF NextSlot(ev) = NoEvent THEN ev.refs[AvailableEvent(ev)] = 0
              ELSE AvailableEvent(ev) = NextSlot(ev)
           /\ ev.next \in Slots /\ NextSlot(ev) \in EventObjects \cup {NoEvent}
<1>1. ev.next \in Slots
  BY Objects DEF RingInv, EventsType, Slots
<1>2. NextSlot(ev) \in EventObjects \cup {NoEvent}
  BY <1>1 DEF RingInv, EventsType, NextSlot, Slots
<1>3. CASE NextSlot(ev) # NoEvent
  BY <1>1, <1>2, <1>3 DEF AvailableEvent
<1>4. CASE NextSlot(ev) = NoEvent
  <2>1. FreeObjects(ev) \subseteq EventObjects /\ \A o \in FreeObjects(ev) : ev.refs[o] = 0
    BY DEF FreeObjects
  <2>2. \E o \in FreeObjects(ev) : \A p \in FreeObjects(ev) : o <= p
    <3>1. FreeObjects(ev) \subseteq Nat
      BY <2>1, Objects
    <3>2. PICK o \in FreeObjects(ev) : \A p \in FreeObjects(ev) : ~(<<p, o>> \in OpToRel(<, Nat))
      BY <3>1, NatLessThanWellFounded, WFMin
    <3>3. \A p \in FreeObjects(ev) : ~(p < o)
      BY <3>1, <3>2 DEF OpToRel
    <3> QED BY <3>1, <3>3
  <2>3. AvailableEvent(ev) \in FreeObjects(ev)
    BY <1>4, <2>2 DEF AvailableEvent
  <2> QED BY <1>1, <1>2, <1>4, <2>1, <2>3
<1> QED BY <1>3, <1>4

-----------------------------------------------------------------------------
(* The operations.                                                         *)

\* gda_connection_point_available_event(): only the object taken changes, and it is
\* in no place of the ring or the list any more.
LEMMA Taken ==
    ASSUME NEW ev, RingInv(ev), FreeObjects(ev) # {}, NEW what \in Nat,
           NEW held \in [EventObjects -> Nat], Counted(ev, held)
    PROVE  LET o == AvailableEvent(ev)
               r == TakeEvent(ev, what)
           IN  /\ o \in EventObjects /\ r \in EvRec /\ ev.next \in Slots
               /\ r = [ev EXCEPT !.array = r.array, !.about = r.about, !.refs = r.refs]
               /\ r.array = [ev.array EXCEPT ![ev.next] = NoEvent]
               /\ r.about = [ev.about EXCEPT ![o] = what]
               /\ \A k \in Slots : r.array[k] # o
               /\ \A i \in DOMAIN ev.list : ev.list[i] # o
               /\ \A p \in EventObjects : p # o => r.refs[p] = ev.refs[p]
               /\ r.refs[o] >= 1 + held[o] /\ r.refs[o] >= ev.refs[o]
<1> DEFINE o == AvailableEvent(ev)
           r == TakeEvent(ev, what)
<1>1. /\ o \in EventObjects /\ ev.next \in Slots /\ NextSlot(ev) \in EventObjects \cup {NoEvent}
      /\ IF NextSlot(ev) = NoEvent THEN ev.refs[o] = 0 ELSE o = NextSlot(ev)
  BY Available
<1>2. ev \in EvRec /\ NextSlot(ev) = ev.array[ev.next] /\ o # NoEvent
  BY <1>1, Objects DEF RingInv, EventsType, EvRec, Slots, NextSlot
<1> HIDE DEF o
<1>3. /\ r.array = [ev.array EXCEPT ![ev.next] = NoEvent]
      /\ r.about = [ev.about EXCEPT ![o] = what]
      /\ r.refs = [ev.refs EXCEPT ![o] = IF NextSlot(ev) = NoEvent THEN 1 ELSE ev.refs[o]]
      /\ r = [ev EXCEPT !.array = r.array, !.about = r.about, !.refs = r.refs]
  BY <1>1, <1>2 DEF TakeEvent, EvRec, o
<1>4. r \in EvRec
  <2>1. r.array \in [Slots -> EventObjects \cup {NoEvent}]
    BY <1>2, <1>3, ZenonT(40) DEF EvRec
  <2>2. r.about \in [EventObjects -> Nat] /\ r.refs \in [EventObjects -> Nat]
    BY <1>1, <1>2, <1>3 DEF EvRec
  <2> HIDE DEF r
  <2> QED BY <1>2, <1>3, <2>1, <2>2 DEF EvRec
<1>5. HeldBy(ev, o) = Shown(ev, o) + Occurrences(ev.list, o) /\ Shown(ev, o) \in 0 .. 1
  BY <1>1, <1>2, InArray DEF EvRec, RingInv
<1>6. /\ Occurrences(ev.list, o) \in Nat
      /\ Occurrences(ev.list, o) = 0 <=> \A k \in DOMAIN ev.list : ev.list[k] # o
  BY <1>2, InItsList DEF EvRec
<1>7. ev.refs[o] >= Shown(ev, o) + Occurrences(ev.list, o) + held[o] /\ held[o] \in Nat /\ ev.refs[o] \in Nat
  <2>1. ev.refs[o] >= HeldBy(ev, o) + held[o]
    BY <1>1 DEF Counted
  <2> QED BY <1>1, <1>2, <1>5, <1>6, <2>1 DEF EvRec
<1>8. CASE NextSlot(ev) = NoEvent
  <2>1. Shown(ev, o) = 0 /\ Occurrences(ev.list, o) = 0 /\ held[o] = 0 /\ ev.refs[o] = 0
    BY <1>1, <1>5, <1>6, <1>7, <1>8
  <2>2. \A k \in Slots : ev.array[k] # o
    BY <2>1 DEF Shown
  <2>3. \A k \in Slots : r.array[k] # o
    BY <1>1, <1>2, <1>3, <2>2 DEF EvRec
  <2>4. r.refs[o] = 1 /\ \A p \in EventObjects : p # o => r.refs[p] = ev.refs[p]
    BY <1>1, <1>2, <1>3, <1>8 DEF EvRec
  <2>5. r.refs[o] >= 1 + held[o] /\ r.refs[o] >= ev.refs[o]
    BY <2>1, <2>4
  <2> HIDE DEF r
  <2> QED BY <1>1, <1>3, <1>4, <1>6, <2>1, <2>3, <2>4, <2>5 DEF o, r
<1>9. CASE NextSlot(ev) # NoEvent
  <2>1. o = ev.array[ev.next] /\ Shown(ev, o) = 1
    BY <1>1, <1>2, <1>9 DEF Shown
  <2>2. \A k \in Slots : r.array[k] # o
    BY <1>1, <1>2, <1>3, <2>1 DEF EvRec, RingInv, Distinct
  <2>3. \A i \in DOMAIN ev.list : ev.list[i] # o
    BY <1>1, <2>1 DEF RingInv, Apart
  <2>4. \A p \in EventObjects : r.refs[p] = ev.refs[p]
    BY <1>1, <1>2, <1>3, <1>9 DEF EvRec
  <2>5. r.refs[o] >= 1 + held[o] /\ r.refs[o] >= ev.refs[o]
    BY <1>1, <1>6, <1>7, <2>1, <2>4
  <2> HIDE DEF r
  <2> QED BY <1>1, <1>3, <1>4, <2>2, <2>3, <2>4, <2>5 DEF o, r
<1> QED BY <1>8, <1>9

\* The fields after the list has been dropped.
LEMMA Dropped ==
    ASSUME NEW a, NEW b, NEW c, NEW d, NEW e, NEW f, NEW g, NEW h
    PROVE  DropList([array |-> a, size |-> b, full |-> c, next |-> d, list |-> e,
                     about |-> f, refs |-> g, log |-> h])
             = [array |-> a, size |-> b, full |-> c, next |-> d, list |-> << >>, about |-> f,
                refs |-> [p \in EventObjects |-> g[p] - Occurrences(e, p)],
                log |-> IF e = << >> THEN h ELSE << >>]
<1> DEFINE refs == [p \in EventObjects |-> g[p] - Occurrences(e, p)]
           log == IF e = << >> THEN h ELSE << >>
           r == [array |-> a, size |-> b, full |-> c, next |-> d, list |-> e,
                 about |-> f, refs |-> g, log |-> h]
<1>1. DropList(r) = [r EXCEPT !.refs = refs, !.list = << >>, !.log = log]
  BY DEF DropList
<1> HIDE DEF refs, log
<1> DEFINE r1 == [r EXCEPT !.refs = refs]
           r2 == [r1 EXCEPT !.list = << >>]
           r3 == [r2 EXCEPT !.log = log]
<1>2. DropList(r) = r3
  BY <1>1
<1>3. r1 = [array |-> a, size |-> b, full |-> c, next |-> d, list |-> e,
            about |-> f, refs |-> refs, log |-> h]
  OBVIOUS
<1> HIDE DEF r1
<1>4. r2 = [array |-> a, size |-> b, full |-> c, next |-> d, list |-> << >>,
            about |-> f, refs |-> refs, log |-> h]
  BY <1>3
<1> HIDE DEF r2
<1>5. r3 = [array |-> a, size |-> b, full |-> c, next |-> d, list |-> << >>,
            about |-> f, refs |-> refs, log |-> log]
  BY <1>4
<1> HIDE DEF r3
<1> QED BY <1>2, <1>5 DEF refs, log

\* What the fields are after gda_connection_add_event() of the object taken.
LEMMA PostedFields ==
    ASSUME NEW ev, RingInv(ev), FreeObjects(ev) # {}, NEW what \in Nat,
           NEW held \in [EventObjects -> Nat], Counted(ev, held)
    PROVE  LET o == AvailableEvent(ev)
               q == PostEvent(ev, what)
           IN  /\ o \in EventObjects /\ ev.next \in Slots /\ q \in EvRec
               /\ q.size = ev.size /\ q.list = << >>
               /\ q.array = [ev.array EXCEPT ![ev.next] = o]
               /\ q.about = [ev.about EXCEPT ![o] = what]
               /\ q.log = Append(IF ev.list = << >> THEN ev.log ELSE << >>, what)
               /\ IF ev.next + 1 = ev.size THEN q.next = 0 /\ q.full = TRUE
                  ELSE q.next = ev.next + 1 /\ q.full = ev.full
               /\ \A k \in Slots : k # ev.next => ev.array[k] # o
               /\ \A i \in DOMAIN ev.list : ev.list[i] # o
               /\ \A p \in EventObjects : p # o => q.refs[p] = ev.refs[p] - Occurrences(ev.list, p)
               /\ q.refs[o] >= 1 + held[o]
<1> DEFINE o == AvailableEvent(ev)
           r == TakeEvent(ev, what)
           lone == DropList(r)
           q == PostEvent(ev, what)
<1> HIDE DEF o, r
<1>1. /\ o \in EventObjects /\ r \in EvRec /\ ev.next \in Slots
      /\ r = [ev EXCEPT !.array = r.array, !.about = r.about, !.refs = r.refs]
      /\ r.array = [ev.array EXCEPT ![ev.next] = NoEvent]
      /\ r.about = [ev.about EXCEPT ![o] = what]
      /\ \A k \in Slots : r.array[k] # o
      /\ \A i \in DOMAIN ev.list : ev.list[i] # o
      /\ \A p \in EventObjects : p # o => r.refs[p] = ev.refs[p]
      /\ r.refs[o] >= 1 + held[o]
  BY Taken, ZenonT(40) DEF o, r
<1>2. ev \in EvRec /\ ev.next < ev.size
  BY DEF RingInv, EventsType, EvRec, Slots
<1>3. r.list = ev.list /\ r.log = ev.log /\ r.next = ev.next /\ r.size = ev.size /\ r.full = ev.full
  <2> HIDE DEF EvRec
  <2>1. ev = [array |-> ev.array, size |-> ev.size, full |-> ev.full, next |-> ev.next, list |-> ev.list,
              about |-> ev.about, refs |-> ev.refs, log |-> ev.log]
    BY <1>2 DEF EvRec
  <2> QED BY <1>1, <2>1
<1>4. /\ lone.array = r.array /\ lone.size = ev.size /\ lone.full = ev.full /\ lone.next = ev.next
      /\ lone.list = << >> /\ lone.about = r.about
      /\ lone.log = IF ev.list = << >> THEN ev.log ELSE << >>
      /\ \A p \in EventObjects : lone.refs[p] = r.refs[p] - Occurrences(ev.list, p)
      /\ lone = [array |-> lone.array, size |-> lone.size, full |-> lone.full, next |-> lone.next,
                 list |-> lone.list, about |-> lone.about, refs |-> lone.refs, log |-> lone.log]
      /\ lone.refs = [p \in EventObjects |-> lone.refs[p]]
  <2>1. r = [array |-> r.array, size |-> ev.size, full |-> ev.full, next |-> ev.next, list |-> ev.list,
             about |-> r.about, refs |-> r.refs, log |-> ev.log]
    BY <1>1, <1>3 DEF EvRec
  <2>2. lone = [array |-> r.array, size |-> ev.size, full |-> ev.full, next |-> ev.next, list |-> << >>,
                about |-> r.about, refs |-> [p \in EventObjects |-> r.refs[p] - Occurrences(ev.list, p)],
                log |-> IF ev.list = << >> THEN ev.log ELSE << >>]
    <3>1. DropList([array |-> r.array, size |-> ev.size, full |-> ev.full, next |-> ev.next,
                    list |-> ev.list, about |-> r.about, refs |-> r.refs, log |-> ev.log])
            = [array |-> r.array, size |-> ev.size, full |-> ev.full, next |-> ev.next, list |-> << >>,
               about |-> r.about, refs |-> [p \in EventObjects |-> r.refs[p] - Occurrences(ev.list, p)],
               log |-> IF ev.list = << >> THEN ev.log ELSE << >>]
      BY Dropped
    <3> QED BY <2>1, <3>1
  <2> HIDE DEF lone
  <2> QED BY <2>2
<1> HIDE DEF lone
<1>5. NextSlot(lone) = NoEvent /\ NoEvent \notin EventObjects
  BY <1>1, <1>2, <1>4, Objects DEF NextSlot, EvRec
<1>6. lone.about[o] = what
  BY <1>1, <1>2, <1>4 DEF EvRec
<1> DEFINE m == [lone EXCEPT !.array[lone.next] = o,
                   !.refs = [p \in EventObjects |-> IF p = NextSlot(lone) /\ NextSlot(lone) # o
                                                    THEN lone.refs[p] - 1 ELSE lone.refs[p]],
                   !.log = Append(@, lone.about[o])]
<1>7. /\ m.array = [r.array EXCEPT ![ev.next] = o] /\ m.size = ev.size /\ m.full = ev.full
      /\ m.next = ev.next /\ m.list = << >> /\ m.about = r.about
      /\ m.log = Append(lone.log, what) /\ m.refs = lone.refs
      /\ m = [array |-> m.array, size |-> m.size, full |-> m.full, next |-> m.next,
              list |-> m.list, about |-> m.about, refs |-> m.refs, log |-> m.log]
  <2>1. [p \in EventObjects |-> IF p = NextSlot(lone) /\ NextSlot(lone) # o
                                THEN lone.refs[p] - 1 ELSE lone.refs[p]] = lone.refs
    BY <1>4, <1>5
  <2>2. m = [lone EXCEPT !.array[lone.next] = o, !.refs = lone.refs, !.log = Append(lone.log, what)]
    BY <1>4, <1>6, <2>1
  <2>3. m = [array |-> [lone.array EXCEPT ![lone.next] = o], size |-> lone.size, full |-> lone.full,
             next |-> lone.next, list |-> lone.list, about |-> lone.about, refs |-> lone.refs,
             log |-> Append(lone.log, what)]
    <3> HIDE DEF m
    <3> QED BY <1>4, <2>2
  <2> HIDE DEF m
  <2> QED BY <1>4, <2>3
<1>8. q = Advance(m)
  BY DEF PostEvent, AddEvent, o, r, lone
<1> HIDE DEF m, q
<1>9. /\ q.array = m.array /\ q.size = m.size /\ q.list = m.list /\ q.about = m.about
      /\ q.refs = m.refs /\ q.log = m.log
      /\ IF ev.next + 1 = ev.size THEN q.next = 0 /\ q.full = TRUE
         ELSE q.next = ev.next + 1 /\ q.full = ev.full
      /\ q = [array |-> q.array, size |-> q.size, full |-> q.full, next |-> q.next,
              list |-> q.list, about |-> q.about, refs |-> q.refs, log |-> q.log]
  BY <1>7, <1>8 DEF Advance
<1>10. q.array = [ev.array EXCEPT ![ev.next] = o]
  BY <1>1, <1>2, <1>7, <1>9 DEF EvRec
<1>11. (\A p \in EventObjects : Occurrences(ev.list, p) \in Nat) /\ Occurrences(ev.list, o) = 0
  <2>1. ev.list \in Seq(EventObjects)
    BY <1>2 DEF EvRec
  <2>2. \A p \in EventObjects : Occurrences(ev.list, p) \in Nat
    BY <2>1, InItsList
  <2>3. Occurrences(ev.list, o) = 0
    BY <1>1, <2>1, InItsList
  <2> QED BY <2>2, <2>3
<1>12. \A p \in EventObjects : q.refs[p] = r.refs[p] - Occurrences(ev.list, p)
  BY <1>4, <1>7, <1>9
<1>13. \A p \in EventObjects : p # o => q.refs[p] = ev.refs[p] - Occurrences(ev.list, p)
  BY <1>1, <1>12
<1>14. q.refs[o] >= 1 + held[o]
  <2>1. q.refs[o] = r.refs[o] - 0 /\ r.refs[o] \in Nat
    BY <1>1, <1>11, <1>12 DEF EvRec
  <2> QED BY <1>1, <2>1
<1>15. \A p \in EventObjects : q.refs[p] \in Nat
  <2> SUFFICES ASSUME NEW p \in EventObjects PROVE q.refs[p] \in Nat
    OBVIOUS
  <2>1. CASE p = o
    BY <1>1, <1>11, <1>12, <2>1 DEF EvRec
  <2>2. CASE p # o
    <3>1. ev.refs[p] >= HeldBy(ev, p) + held[p] /\ held[p] \in Nat /\ ev.refs[p] \in Nat
      BY <1>2 DEF Counted, EvRec
    <3>2. HeldBy(ev, p) = Shown(ev, p) + Occurrences(ev.list, p) /\ Shown(ev, p) \in 0 .. 1
      BY <1>2, InArray DEF EvRec, RingInv
    <3>3. Occurrences(ev.list, p) \in Nat
      BY <1>11
    <3>4. ev.refs[p] - Occurrences(ev.list, p) \in Nat
      BY <3>1, <3>2, <3>3
    <3> QED BY <1>13, <2>2, <3>4
  <2> QED BY <2>1, <2>2
<1>16. q \in EvRec
  <2>1. q.array \in [Slots -> EventObjects \cup {NoEvent}]
    BY <1>1, <1>2, <1>10 DEF EvRec
  <2>2. q.refs \in [EventObjects -> Nat]
    BY <1>4, <1>7, <1>9, <1>15
  <2>3. q.about \in [EventObjects -> Nat]
    BY <1>1, <1>7, <1>9 DEF EvRec
  <2>4. q.log \in Seq(Nat) /\ q.list \in Seq(EventObjects)
    BY <1>2, <1>4, <1>7, <1>9 DEF EvRec
  <2>5. ev.next \in Nat /\ ev.full \in BOOLEAN /\ ev.size \in 1 .. MaxArraySize
    BY <1>2 DEF EvRec
  <2>6. q.next \in Nat /\ q.size \in 1 .. MaxArraySize
    BY <1>7, <1>9, <2>5
  <2>7. q.full \in BOOLEAN
    <3>1. q.full = TRUE \/ q.full = ev.full
      BY <1>9
    <3> QED BY <2>5, <3>1, Zenon
  <2> QED BY <1>9, <2>1, <2>2, <2>3, <2>4, <2>6, <2>7 DEF EvRec
<1>17. \A k \in Slots : k # ev.next => ev.array[k] # o
  BY <1>1, <1>2 DEF EvRec
<1> QED BY <1>1, <1>4, <1>7, <1>9, <1>10, <1>13, <1>14, <1>16, <1>17 DEF o, q

\* What the ring holds counts each object once.
LEMMA HeldByRing ==
    ASSUME NEW ev \in EvRec, Distinct(ev), NEW p \in EventObjects
    PROVE  /\ HeldBy(ev, p) = Shown(ev, p) + Occurrences(ev.list, p)
           /\ Shown(ev, p) \in 0 .. 1 /\ Occurrences(ev.list, p) \in Nat
           /\ ev.list = << >> => Occurrences(ev.list, p) = 0
<1>1. ev.array \in [Slots -> EventObjects \cup {NoEvent}] /\ ev.list \in Seq(EventObjects)
  BY DEF EvRec
<1>2. Occurrences(ev.list, p) \in Nat /\ Occurrences(<< >>, p) = 0
  BY <1>1, InItsList
<1> QED BY <1>1, <1>2, InArray

\* The typed fields of a ring.
LEMMA RingFields ==
    ASSUME NEW ev, RingInv(ev)
    PROVE  /\ ev \in EvRec /\ ev.next \in Slots /\ ev.next < ev.size
           /\ ev.next \in Nat /\ ev.size \in 1 .. MaxArraySize /\ ev.full \in BOOLEAN
           /\ ev.array \in [Slots -> EventObjects \cup {NoEvent}] /\ ev.list \in Seq(EventObjects)
           /\ ev.about \in [EventObjects -> Nat] /\ ev.refs \in [EventObjects -> Nat]
           /\ ev.log \in Seq(Nat)
           /\ MaxArraySize \in Nat
<1>1. ev \in EvRec /\ ev.next < ev.size
  BY DEF RingInv, EventsType, EvRec, Slots
<1>2. /\ ev.next \in Nat /\ ev.size \in 1 .. MaxArraySize /\ ev.full \in BOOLEAN
      /\ ev.array \in [Slots -> EventObjects \cup {NoEvent}] /\ ev.list \in Seq(EventObjects)
      /\ ev.about \in [EventObjects -> Nat] /\ ev.refs \in [EventObjects -> Nat]
      /\ ev.log \in Seq(Nat)
  BY <1>1 DEF EvRec
<1>3. ev.next \in Slots
  BY <1>1, <1>2, Objects DEF Slots
<1> QED BY <1>1, <1>2, <1>3, Objects

\* The ages of the slots read, of which the newest is 1.
LEMMA Ages ==
    ASSUME NEW ev, RingInv(ev), NEW j \in Recent(ev)
    PROVE  /\ j \in Slots /\ j # ev.next /\ j < ev.size
           /\ Age(ev, j) \in Nat /\ Age(ev, j) >= 1
           /\ IF ev.full THEN Age(ev, j) <= ev.size - 1 ELSE Age(ev, j) <= ev.next
<1>1. /\ ev.next \in Nat /\ ev.size \in 1 .. MaxArraySize /\ ev.next < ev.size /\ MaxArraySize \in Nat
  BY RingFields
<1>2. j \in Nat /\ j \in Slots /\ (j < ev.next \/ (ev.full /\ ev.next < j /\ j < ev.size))
  BY <1>1 DEF Recent, Slots
<1>3. CASE j < ev.next
  BY <1>1, <1>2, <1>3 DEF Age
<1>4. CASE ~(j < ev.next) /\ ev.full /\ ev.next < j /\ j < ev.size
  BY <1>1, <1>2, <1>4 DEF Age
<1> QED BY <1>2, <1>3, <1>4

\* gda_connection_add_event() of an object that can be used keeps the order of the
\* ring, and the references.
LEMMA Posted1 ==
    ASSUME NEW ev, NEW held \in [EventObjects -> Nat], EventsInv(ev, held),
           FreeObjects(ev) # {}, NEW what \in Nat
    PROVE  /\ EventsInv(PostEvent(ev, what), held)
           /\ AvailableEvent(ev) \in EventObjects
           /\ FreeObjects(ev) \ {AvailableEvent(ev)} \subseteq FreeObjects(PostEvent(ev, what))
           /\ PostEvent(ev, what).refs[AvailableEvent(ev)] >= 1
           /\ PostEvent(ev, what).list = << >>
<1> DEFINE o == AvailableEvent(ev)
           q == PostEvent(ev, what)
           L == IF ev.list = << >> THEN ev.log ELSE << >>
           n == ev.next
<1>0. RingInv(ev) /\ Counted(ev, held)
  BY DEF EventsInv
<1>1. /\ o \in EventObjects /\ n \in Slots /\ q \in EvRec
      /\ q.size = ev.size /\ q.list = << >>
      /\ q.array = [ev.array EXCEPT ![n] = o]
      /\ q.about = [ev.about EXCEPT ![o] = what]
      /\ q.log = Append(L, what)
      /\ IF n + 1 = ev.size THEN q.next = 0 /\ q.full = TRUE
         ELSE q.next = n + 1 /\ q.full = ev.full
      /\ \A k \in Slots : k # n => ev.array[k] # o
      /\ \A i \in DOMAIN ev.list : ev.list[i] # o
      /\ \A p \in EventObjects : p # o => q.refs[p] = ev.refs[p] - Occurrences(ev.list, p)
      /\ q.refs[o] >= 1 + held[o]
  BY <1>0, PostedFields
<1>2. /\ ev \in EvRec /\ n < ev.size
      /\ n \in Nat /\ ev.size \in 1 .. MaxArraySize /\ ev.full \in BOOLEAN
      /\ ev.array \in [Slots -> EventObjects \cup {NoEvent}] /\ ev.list \in Seq(EventObjects)
      /\ ev.about \in [EventObjects -> Nat] /\ ev.refs \in [EventObjects -> Nat]
      /\ ev.log \in Seq(Nat) /\ MaxArraySize \in Nat
  BY <1>0, RingFields
<1>3. /\ L \in Seq(Nat)
      /\ IF ev.full THEN Len(L) >= ev.size ELSE Len(L) = n
      /\ \A j \in Recent(ev) : /\ ev.array[j] # NoEvent
                               /\ ev.about[ev.array[j]] = L[Len(L) + 1 - Age(ev, j)]
  <2>1. CASE ev.list = << >>
    BY <1>0, <1>2, <2>1 DEF RingInv, InRing
  <2>2. CASE ev.list # << >>
    <3>1. n = 0 /\ ~ev.full
      BY <1>0, <2>2 DEF RingInv, InList
    <3>2. Recent(ev) = {}
      BY <1>2, <3>1 DEF Recent, Slots
    <3>3. L = << >> /\ L \in Seq(Nat) /\ Len(L) = 0
      BY <2>2
    <3> QED BY <3>1, <3>2, <3>3
  <2> QED BY <2>1, <2>2
<1> HIDE DEF o, q, L
<1> DEFINE wraps == n + 1 = ev.size
<1>a. /\ wraps => q.next = 0 /\ q.full
      /\ ~wraps => q.next = n + 1 /\ (q.full <=> ev.full)
  BY <1>1
<1>b. q.size = ev.size
  BY <1>1
<1>4. q.next < q.size /\ EventsType(q)
  <2>1. q.next < q.size
    BY <1>2, <1>a, <1>b
  <2> QED BY <1>1, <2>1 DEF EventsType, EvRec, Slots
<1>5. \A k \in Slots : q.array[k] = IF k = n THEN o ELSE ev.array[k]
  BY <1>1, <1>2
<1>6. Distinct(q)
  BY <1>0, <1>1, <1>5 DEF RingInv, Distinct
<1>7. Apart(q)
  <2>1. DOMAIN q.list = {}
    BY <1>1
  <2> QED BY <2>1 DEF Apart
<1>8. Len(q.log) = Len(L) + 1 /\ Len(L) \in Nat
  BY <1>1, <1>3
<1>9. IF q.full THEN Len(q.log) >= q.size ELSE Len(q.log) = q.next
  <2>1. CASE n + 1 = ev.size
    <3>1. Len(L) >= n
      BY <1>2, <1>3, <1>8
    <3> QED BY <1>a, <1>b, <1>2, <1>8, <2>1, <3>1
  <2>2. CASE n + 1 # ev.size
    <3>1. n + 1 < ev.size
      BY <1>2, <2>2
    <3>2. CASE ev.full
      BY <1>a, <1>b, <1>2, <1>3, <1>8, <3>1, <3>2
    <3>3. CASE ~ev.full
      BY <1>a, <1>b, <1>2, <1>3, <1>8, <3>1, <3>3
    <3> QED BY <3>2, <3>3
  <2> QED BY <2>1, <2>2
<1>10. ASSUME NEW j \in Recent(q)
       PROVE  /\ q.array[j] # NoEvent
              /\ q.about[q.array[j]] = q.log[Len(q.log) + 1 - Age(q, j)]
  <2>1. j \in Slots /\ j \in Nat /\ (j < q.next \/ (q.full /\ q.next < j /\ j < q.size))
    BY <1>2 DEF Recent, Slots
  <2>2. CASE j = n
    <3>1. q.array[j] = o /\ o # NoEvent /\ q.about[o] = what
      BY <1>1, <1>2, <1>5, <2>1, <2>2, Objects
    <3>2. Age(q, j) = 1
      BY <1>1, <1>2, <2>1, <2>2 DEF Age
    <3>3. q.log[Len(L) + 1] = what
      BY <1>1, <1>3
    <3> QED BY <1>8, <3>1, <3>2, <3>3
  <2>3. CASE j # n
    <3>1. /\ j < n \/ (ev.full /\ n < j /\ j < ev.size)
          /\ Age(q, j) = Age(ev, j) + 1
      <4>1. CASE n + 1 = ev.size
        BY <1>1, <1>2, <2>1, <2>3, <4>1, SMTT(30) DEF Age
      <4>2. CASE n + 1 # ev.size
        <5>1. q.next = n + 1 /\ n \in Nat /\ ev.size \in Nat /\ j \in Nat
          BY <1>a, <1>2, <2>1, <4>2
        <5>2. CASE j < n
          BY <1>b, <2>1, <5>1, <5>2 DEF Age
        <5>3. CASE ~(j < n)
          <6>1. ~(j < q.next) /\ n < j
            BY <2>3, <5>1, <5>3
          <6>2. ev.full /\ j < ev.size
            BY <1>a, <1>b, <2>1, <4>2, <6>1
          <6>3. Age(q, j) = n + 1 + ev.size - j /\ Age(ev, j) = n + ev.size - j
            BY <1>b, <5>1, <5>3, <6>1 DEF Age
          <6> QED BY <5>1, <6>1, <6>2, <6>3
        <5> QED BY <5>2, <5>3
      <4> QED BY <4>1, <4>2
    <3>2. j \in Recent(ev)
      BY <2>1, <3>1 DEF Recent
    <3>3. /\ Age(ev, j) \in Nat /\ Age(ev, j) >= 1
          /\ IF ev.full THEN Age(ev, j) <= ev.size - 1 ELSE Age(ev, j) <= n
      BY <1>0, <3>2, Ages
    <3>4. Len(L) + 1 - Age(ev, j) \in 1 .. Len(L)
      BY <1>2, <1>3, <1>8, <3>3, SMTT(30)
    <3>5. q.log[Len(L) + 1 - Age(ev, j)] = L[Len(L) + 1 - Age(ev, j)]
      BY <1>1, <1>3, <3>4
    <3>6. Len(q.log) + 1 - Age(q, j) = Len(L) + 1 - Age(ev, j)
      BY <1>8, <3>1, <3>3
    <3>7. q.array[j] = ev.array[j] /\ ev.array[j] # o /\ ev.array[j] # NoEvent
      BY <1>1, <1>3, <1>5, <2>1, <2>3, <3>2
    <3>8. q.about[ev.array[j]] = ev.about[ev.array[j]]
      BY <1>1, <1>2, <2>1, <3>7
    <3> QED BY <1>3, <3>2, <3>5, <3>6, <3>7, <3>8
  <2> QED BY <2>2, <2>3
<1>11. RingInv(q)
  BY <1>1, <1>4, <1>6, <1>7, <1>9, <1>10 DEF RingInv, InRing
<1>12. \A p \in EventObjects : /\ Occurrences(ev.list, p) \in Nat
                               /\ ev.refs[p] >= Shown(ev, p) + Occurrences(ev.list, p) + held[p]
                               /\ ev.refs[p] \in Nat /\ held[p] \in Nat
                               /\ Shown(ev, p) \in 0 .. 1
  <2> SUFFICES ASSUME NEW p \in EventObjects
               PROVE  /\ Occurrences(ev.list, p) \in Nat
                      /\ ev.refs[p] >= Shown(ev, p) + Occurrences(ev.list, p) + held[p]
                      /\ ev.refs[p] \in Nat /\ held[p] \in Nat
                      /\ Shown(ev, p) \in 0 .. 1
    OBVIOUS
  <2>1. HeldBy(ev, p) = Shown(ev, p) + Occurrences(ev.list, p) /\ Occurrences(ev.list, p) \in Nat
        /\ Shown(ev, p) \in 0 .. 1
    BY <1>0, <1>2, HeldByRing DEF RingInv
  <2>2. ev.refs[p] >= HeldBy(ev, p) + held[p]
    BY <1>0 DEF Counted
  <2> QED BY <1>2, <2>1, <2>2
<1>13. Counted(q, held)
  <2> SUFFICES ASSUME NEW p \in EventObjects PROVE q.refs[p] >= HeldBy(q, p) + held[p]
    BY DEF Counted
  <2>1. HeldBy(q, p) = Shown(q, p) /\ Shown(q, p) \in 0 .. 1
    <3>1. /\ HeldBy(q, p) = Shown(q, p) + Occurrences(q.list, p)
          /\ Shown(q, p) \in 0 .. 1 /\ Occurrences(q.list, p) = 0
      BY <1>1, <1>6, HeldByRing
    <3> QED BY <3>1
  <2>2. CASE p = o
    <3>1. held[o] \in Nat /\ q.refs[o] \in Nat
      BY <1>1 DEF EvRec
    <3> QED BY <1>1, <2>1, <2>2, <3>1
  <2>3. CASE p # o
    <3>1. Shown(q, p) <= Shown(ev, p)
      BY <1>5, <2>3 DEF Shown
    <3>2. q.refs[p] = ev.refs[p] - Occurrences(ev.list, p)
      BY <1>1, <2>3
    <3> QED BY <1>12, <2>1, <3>1, <3>2
  <2> QED BY <2>2, <2>3
<1>14. ASSUME NEW p \in FreeObjects(ev), p # o PROVE p \in FreeObjects(q)
  <2>1. p \in EventObjects /\ ev.refs[p] = 0
    BY <1>14 DEF FreeObjects
  <2>2. Occurrences(ev.list, p) = 0
    BY <1>12, <2>1
  <2>3. q.refs[p] = 0
    BY <1>1, <1>14, <2>1, <2>2
  <2> QED BY <2>1, <2>3 DEF FreeObjects
<1>15. q.refs[o] >= 1
  <2>1. held[o] \in Nat /\ q.refs[o] \in Nat
    BY <1>1 DEF EvRec
  <2> QED BY <1>1, <2>1
<1> QED BY <1>1, <1>11, <1>13, <1>14, <1>15 DEF EventsInv, o, q

\* An object taken for an event that is not added to the ring, which happens when
\* no list is kept: its references are lost, the ring keeps its order.
LEMMA Took ==
    ASSUME NEW ev, NEW held \in [EventObjects -> Nat], EventsInv(ev, held),
           FreeObjects(ev) # {}, ev.list = << >>, NEW what \in Nat
    PROVE  /\ EventsInv(TakeEvent(ev, what), held)
           /\ AvailableEvent(ev) \in EventObjects
           /\ FreeObjects(ev) \ {AvailableEvent(ev)} \subseteq FreeObjects(TakeEvent(ev, what))
<1> DEFINE o == AvailableEvent(ev)
           r == TakeEvent(ev, what)
           n == ev.next
<1>0. RingInv(ev) /\ Counted(ev, held)
  BY DEF EventsInv
<1>1. /\ o \in EventObjects /\ r \in EvRec /\ n \in Slots
      /\ r = [ev EXCEPT !.array = r.array, !.about = r.about, !.refs = r.refs]
      /\ r.array = [ev.array EXCEPT ![n] = NoEvent]
      /\ r.about = [ev.about EXCEPT ![o] = what]
      /\ \A k \in Slots : r.array[k] # o
      /\ \A p \in EventObjects : p # o => r.refs[p] = ev.refs[p]
      /\ r.refs[o] >= 1 + held[o]
  BY <1>0, Taken, ZenonT(40)
<1>2. /\ ev \in EvRec /\ n < ev.size
      /\ n \in Nat /\ ev.size \in 1 .. MaxArraySize /\ ev.full \in BOOLEAN
      /\ ev.array \in [Slots -> EventObjects \cup {NoEvent}] /\ ev.list \in Seq(EventObjects)
      /\ ev.about \in [EventObjects -> Nat] /\ ev.refs \in [EventObjects -> Nat]
      /\ ev.log \in Seq(Nat) /\ MaxArraySize \in Nat
  BY <1>0, RingFields
<1> HIDE DEF o, r
<1>3. r.list = << >> /\ r.log = ev.log /\ r.next = n /\ r.size = ev.size /\ r.full = ev.full
  <2> HIDE DEF n
  <2>1. ev = [array |-> ev.array, size |-> ev.size, full |-> ev.full, next |-> ev.next, list |-> ev.list,
              about |-> ev.about, refs |-> ev.refs, log |-> ev.log]
    BY <1>2 DEF EvRec
  <2> QED BY <1>1, <2>1 DEF n
<1>4. \A k \in Slots : r.array[k] = IF k = n THEN NoEvent ELSE ev.array[k]
  BY <1>1, <1>2
<1>5. EventsType(r) /\ Distinct(r) /\ Apart(r)
  <2>1. EventsType(r)
    BY <1>1, <1>2, <1>3 DEF EventsType, EvRec, Slots
  <2>2. Distinct(r)
    BY <1>0, <1>4 DEF RingInv, Distinct
  <2>3. DOMAIN r.list = {}
    BY <1>3
  <2> QED BY <2>1, <2>2, <2>3 DEF Apart
<1>6. ASSUME NEW j \in Recent(r)
      PROVE  /\ r.array[j] # NoEvent
             /\ r.about[r.array[j]] = r.log[Len(r.log) + 1 - Age(r, j)]
  <2>1. j \in Recent(ev) /\ Age(r, j) = Age(ev, j)
    BY <1>3 DEF Recent, Age
  <2>2. j \in Slots /\ j # n
    BY <1>0, <2>1, Ages
  <2>3. ev.array[j] # NoEvent /\ ev.about[ev.array[j]] = ev.log[Len(ev.log) + 1 - Age(ev, j)]
    BY <1>0, <2>1 DEF RingInv, InRing
  <2>4. r.array[j] = ev.array[j] /\ ev.array[j] # o
    BY <1>1, <1>4, <2>2
  <2>5. r.about[ev.array[j]] = ev.about[ev.array[j]]
    BY <1>1, <1>2, <2>2, <2>4
  <2> QED BY <1>3, <2>1, <2>3, <2>4, <2>5
<1>7. InRing(r)
  <2>1. IF r.full THEN Len(r.log) >= r.size ELSE Len(r.log) = r.next
    BY <1>0, <1>3 DEF RingInv, InRing
  <2> QED BY <1>6, <2>1 DEF InRing
<1>8. \A p \in EventObjects : r.refs[p] >= HeldBy(r, p) + held[p]
  <2> SUFFICES ASSUME NEW p \in EventObjects PROVE r.refs[p] >= HeldBy(r, p) + held[p]
    OBVIOUS
  <2>1. HeldBy(r, p) = Shown(r, p) /\ Shown(r, p) \in 0 .. 1
    <3>1. /\ HeldBy(r, p) = Shown(r, p) + Occurrences(r.list, p)
          /\ Shown(r, p) \in 0 .. 1 /\ Occurrences(r.list, p) = 0
      BY <1>1, <1>3, <1>5, HeldByRing
    <3> QED BY <3>1
  <2>2. CASE p = o
    <3>1. Shown(r, p) = 0
      BY <1>1, <2>2 DEF Shown
    <3>2. held[o] \in Nat /\ r.refs[o] \in Nat
      BY <1>1 DEF EvRec
    <3> QED BY <1>1, <2>1, <2>2, <3>1, <3>2
  <2>3. CASE p # o
    <3>1. /\ HeldBy(ev, p) = Shown(ev, p) + Occurrences(ev.list, p)
          /\ Shown(ev, p) \in 0 .. 1 /\ Occurrences(ev.list, p) = 0
      BY <1>0, <1>2, HeldByRing DEF RingInv
    <3>2. Shown(r, p) <= Shown(ev, p)
      BY <1>4, Objects DEF Shown
    <3>3. ev.refs[p] >= HeldBy(ev, p) + held[p] /\ ev.refs[p] \in Nat /\ held[p] \in Nat
      BY <1>0, <1>2 DEF Counted
    <3> QED BY <1>1, <2>1, <2>3, <3>1, <3>2, <3>3
  <2> QED BY <2>2, <2>3
<1>9. \A p \in FreeObjects(ev) \ {o} : p \in FreeObjects(r)
  BY <1>1 DEF FreeObjects
<1> QED BY <1>1, <1>3, <1>5, <1>7, <1>8, <1>9 DEF EventsInv, RingInv, Counted, o, r

\* _clear_connection_events()
LEMMA Cleared ==
    ASSUME NEW ev, NEW held, EventsInv(ev, held)
    PROVE  EventsInv(ClearEvents(ev), held) /\ FreeObjects(ClearEvents(ev)) = FreeObjects(ev)
<1> DEFINE r == ClearEvents(ev)
<1>0. RingInv(ev) /\ Counted(ev, held)
  BY DEF EventsInv
<1>1. /\ ev \in EvRec /\ ev.size \in 1 .. MaxArraySize /\ ev.log \in Seq(Nat) /\ MaxArraySize \in Nat
  BY <1>0, RingFields
<1>2. /\ r.array = ev.array /\ r.size = ev.size /\ r.full = FALSE /\ r.next = 0 /\ r.list = ev.list
      /\ r.about = ev.about /\ r.refs = ev.refs
      /\ r.log = IF ev.list = << >> THEN << >> ELSE ev.log
  BY <1>1 DEF ClearEvents, EvRec
<1>3. r \in EvRec
  <2>1. (IF ev.list = << >> THEN << >> ELSE ev.log) \in Seq(Nat)
    BY <1>1
  <2> QED BY <1>1, <2>1 DEF ClearEvents, EvRec
<1> HIDE DEF r
<1>4. EventsType(r) /\ Distinct(r) /\ Apart(r)
  <2>1. r.next < r.size
    BY <1>1, <1>2
  <2>2. EventsType(r)
    BY <1>3, <2>1 DEF EventsType, EvRec, Slots
  <2> QED BY <1>0, <1>2, <2>2 DEF RingInv, Distinct, Apart
<1>5. CASE ev.list = << >>
  <2>1. Recent(r) = {}
    BY <1>1, <1>2 DEF Recent, Slots
  <2>2. Len(r.log) = r.next
    BY <1>2, <1>5
  <2> QED BY <1>0, <1>2, <1>4, <1>5, <2>1, <2>2 DEF RingInv, InRing, EventsInv, Counted, HeldBy, FreeObjects, r
<1>6. CASE ev.list # << >>
  <2>1. InList(r)
    BY <1>0, <1>2, <1>6 DEF RingInv, InList, Described
  <2> QED BY <1>0, <1>2, <1>4, <1>6, <2>1 DEF RingInv, EventsInv, Counted, HeldBy, FreeObjects, r
<1> QED BY <1>5, <1>6

\* A remainder when one subtraction is enough.
LEMMA Remainder ==
    ASSUME NEW a \in Nat, NEW s \in Nat, s > 0, a < s + s
    PROVE  a % s = IF a < s THEN a ELSE a - s
<1>1. CASE a < s
  BY <1>1
<1>2. CASE a >= s
  <2> DEFINE b == a - s
  <2>1. b \in Nat /\ b < s /\ a = b + s
    BY <1>2
  <2> HIDE DEF b
  <2>2. (b + s) % s = b
    BY <2>1
  <2>3. a - s = b /\ ~(a < s)
    BY <1>2 DEF b
  <2> QED BY <2>1, <2>2, <2>3
<1> QED BY <1>1, <1>2

\* gda_connection_get_events() visits the slots in the order of their ages.
LEMMA Visits ==
    ASSUME NEW ev, RingInv(ev), ev.list = << >>
    PROVE  LET m == IF ev.full THEN ev.size - 1 ELSE ev.next
           IN  /\ m \in Nat /\ DOMAIN Visited(ev) = 1 .. m /\ m <= Len(ev.log)
               /\ \A k \in 1 .. m : Visited(ev)[k] \in Recent(ev) /\ Age(ev, Visited(ev)[k]) = m + 1 - k
               /\ \A j \in Recent(ev) : \E k \in 1 .. m : Visited(ev)[k] = j
               /\ LastOf(ev.log, Kept(ev)) \in Seq(Nat) /\ Len(LastOf(ev.log, Kept(ev))) = m
               /\ \A k \in 1 .. m : LastOf(ev.log, Kept(ev))[k] = ev.log[Len(ev.log) - m + k]
<1> DEFINE m == IF ev.full THEN ev.size - 1 ELSE ev.next
           n == ev.next
<1>1. /\ n < ev.size /\ n \in Nat /\ ev.size \in 1 .. MaxArraySize
      /\ ev.log \in Seq(Nat) /\ MaxArraySize \in Nat
  BY RingFields
<1>2. IF ev.full THEN Len(ev.log) >= ev.size ELSE Len(ev.log) = n
  BY DEF RingInv, InRing
<1>3. Len(ev.log) \in Nat
  BY <1>1
<1>4. CASE ev.full
  <2>1. m = ev.size - 1 /\ m \in Nat /\ m <= Len(ev.log)
    BY <1>1, <1>2, <1>3, <1>4
  <2>2. Visited(ev) = [k \in 1 .. m |-> (n + k) % ev.size]
    BY <1>4 DEF Visited
  <2>3. \A k \in 1 .. m : (n + k) % ev.size = IF n + k < ev.size THEN n + k ELSE n + k - ev.size
    <3> SUFFICES ASSUME NEW k \in 1 .. m
                 PROVE  (n + k) % ev.size = IF n + k < ev.size THEN n + k ELSE n + k - ev.size
      OBVIOUS
    <3>1. k \in Nat /\ k >= 1 /\ k <= ev.size - 1 /\ ev.size \in Nat
      BY <1>1, <2>1
    <3>2. n + k \in Nat /\ ev.size > 0 /\ n + k < ev.size + ev.size
      BY <1>1, <3>1
    <3> DEFINE a == n + k
               sz == ev.size
    <3>3. a \in Nat /\ sz \in Nat /\ sz > 0 /\ a < sz + sz
      BY <3>1, <3>2
    <3> HIDE DEF a, sz
    <3>4. a % sz = IF a < sz THEN a ELSE a - sz
      BY <3>3, Remainder
    <3> QED BY <1>1, <3>1, <3>2, <3>4 DEF a, sz
  <2>4. \A k \in 1 .. m : Visited(ev)[k] = IF n + k < ev.size THEN n + k ELSE n + k - ev.size
    BY <2>2, <2>3
  <2>5. ASSUME NEW k \in 1 .. m
        PROVE  Visited(ev)[k] \in Recent(ev) /\ Age(ev, Visited(ev)[k]) = m + 1 - k
    <3>1. k \in Nat /\ k >= 1 /\ k <= ev.size - 1
      BY <1>1, <2>1
    <3>2. CASE n + k < ev.size
      <4>1. Visited(ev)[k] = n + k /\ n + k \in Slots
        BY <1>1, <2>4, <3>1, <3>2 DEF Slots
      <4>2. n < n + k /\ ~(n + k < n)
        BY <1>1, <3>1
      <4>3. n + k \in Recent(ev)
        BY <1>4, <3>2, <4>1, <4>2 DEF Recent
      <4>4. Age(ev, n + k) = n + ev.size - (n + k)
        BY <4>2 DEF Age
      <4>5. n + ev.size - (n + k) = m + 1 - k
        BY <1>1, <2>1, <3>1
      <4> QED BY <4>1, <4>3, <4>4, <4>5
    <3>3. CASE ~(n + k < ev.size)
      <4>1. /\ Visited(ev)[k] = n + k - ev.size /\ n + k - ev.size \in Slots
            /\ n + k - ev.size < n
        BY <1>1, <2>4, <3>1, <3>3 DEF Slots
      <4> QED BY <1>1, <1>4, <2>1, <3>1, <3>3, <4>1 DEF Recent, Age
    <3> QED BY <3>2, <3>3
  <2>6. ASSUME NEW j \in Recent(ev) PROVE \E k \in 1 .. m : Visited(ev)[k] = j
    <3>1. j \in Nat /\ (j < n \/ (n < j /\ j < ev.size))
      BY <1>1 DEF Recent, Slots
    <3>2. CASE j < n
      <4>1. j + ev.size - n \in 1 .. m /\ ~(n + (j + ev.size - n) < ev.size)
        BY <1>1, <2>1, <3>1, <3>2
      <4>2. Visited(ev)[j + ev.size - n] = j
        BY <1>1, <2>4, <3>1, <4>1, SMTT(30)
      <4> QED BY <4>1, <4>2
    <3>3. CASE n < j /\ j < ev.size
      <4>1. j - n \in 1 .. m /\ n + (j - n) < ev.size
        BY <1>1, <2>1, <3>1, <3>3
      <4>2. Visited(ev)[j - n] = j
        BY <1>1, <2>4, <3>1, <4>1
      <4> QED BY <4>1, <4>2
    <3> QED BY <3>1, <3>2, <3>3
  <2>7. Kept(ev) = m /\ ~(Len(ev.log) <= m)
    BY <1>1, <1>2, <1>3, <1>4, <2>1 DEF Kept
  <2>8. LastOf(ev.log, Kept(ev)) = SubSeq(ev.log, Len(ev.log) - m + 1, Len(ev.log))
    BY <2>7 DEF LastOf
  <2>9. /\ LastOf(ev.log, Kept(ev)) \in Seq(Nat) /\ Len(LastOf(ev.log, Kept(ev))) = m
        /\ \A k \in 1 .. m : LastOf(ev.log, Kept(ev))[k] = ev.log[Len(ev.log) - m + k]
    <3> HIDE DEF m
    <3>1. Len(ev.log) - m + 1 \in 1 .. Len(ev.log) + 1
      BY <1>3, <2>1
    <3>2. /\ SubSeq(ev.log, Len(ev.log) - m + 1, Len(ev.log)) \in Seq(Nat)
          /\ Len(SubSeq(ev.log, Len(ev.log) - m + 1, Len(ev.log))) = m
          /\ \A k \in 1 .. m : SubSeq(ev.log, Len(ev.log) - m + 1, Len(ev.log))[k]
                                = ev.log[(Len(ev.log) - m + 1) + k - 1]
      <4> DEFINE a == Len(ev.log) - m + 1
                 b == Len(ev.log)
      <4>1. a \in Int /\ b \in Int /\ a <= b + 1 /\ b - a + 1 = m /\ 1 <= a /\ a \in Nat
        BY <1>3, <2>1, <3>1
      <4>0. ev.log \in Seq(Nat) /\ b = Len(ev.log)
        BY <1>1
      <4> HIDE DEF a, b
      <4>2. \A i \in a .. b : ev.log[i] \in Nat
        <5> SUFFICES ASSUME NEW i \in a .. b
                     PROVE  ev.log[i] \in Nat
          OBVIOUS
        <5>1. i \in 1 .. Len(ev.log)
          BY <4>0, <4>1
        <5> QED BY <4>0, <5>1, ElementOfSeq
      <4>3. /\ SubSeq(ev.log, a, b) \in Seq(Nat)
            /\ Len(SubSeq(ev.log, a, b)) = IF a <= b THEN b - a + 1 ELSE 0
            /\ \A i \in 1 .. b - a + 1 : SubSeq(ev.log, a, b)[i] = ev.log[a + i - 1]
        BY <4>1, <4>2, SubSeqProperties
      <4>4. (IF a <= b THEN b - a + 1 ELSE 0) = m
        BY <4>1
      <4> QED BY <4>1, <4>3, <4>4 DEF a, b
    <3>3. \A k \in 1 .. m : (Len(ev.log) - m + 1) + k - 1 = Len(ev.log) - m + k
      BY <1>3, <2>1
    <3> QED BY <2>8, <3>2, <3>3
  <2>10. DOMAIN Visited(ev) = 1 .. m
    BY <2>2
  <2> QED BY <2>1, <2>5, <2>6, <2>9, <2>10
<1>5. CASE ~ev.full
  <2>1. m = n /\ m \in Nat /\ m = Len(ev.log)
    BY <1>1, <1>2, <1>5
  <2>2. Visited(ev) = [k \in 1 .. m |-> k - 1]
    BY <1>5 DEF Visited
  <2>5. ASSUME NEW k \in 1 .. m
        PROVE  Visited(ev)[k] \in Recent(ev) /\ Age(ev, Visited(ev)[k]) = m + 1 - k
    <3>1. Visited(ev)[k] = k - 1 /\ k - 1 \in Nat /\ k - 1 < n
      BY <1>1, <2>1, <2>2
    <3>2. k - 1 \in Slots
      BY <1>1, <3>1 DEF Slots
    <3> QED BY <1>1, <2>1, <3>1, <3>2 DEF Recent, Age
  <2>6. ASSUME NEW j \in Recent(ev) PROVE \E k \in 1 .. m : Visited(ev)[k] = j
    <3>1. j \in Nat /\ j < n
      BY <1>1, <1>5 DEF Recent, Slots
    <3>2. j + 1 \in 1 .. m /\ Visited(ev)[j + 1] = j
      BY <1>1, <2>1, <2>2, <3>1
    <3> QED BY <3>2
  <2>7. Kept(ev) = ev.size - 1 /\ Len(ev.log) <= ev.size - 1
    BY <1>1, <2>1 DEF Kept
  <2>8. LastOf(ev.log, Kept(ev)) = ev.log
    BY <2>7 DEF LastOf
  <2>9. /\ LastOf(ev.log, Kept(ev)) \in Seq(Nat) /\ Len(LastOf(ev.log, Kept(ev))) = m
        /\ \A k \in 1 .. m : LastOf(ev.log, Kept(ev))[k] = ev.log[Len(ev.log) - m + k]
    <3> HIDE DEF m
    <3>1. \A k \in 1 .. m : Len(ev.log) - m + k = k
      BY <2>1
    <3> QED BY <1>1, <2>1, <2>8, <3>1
  <2>10. DOMAIN Visited(ev) = 1 .. m
    BY <2>2
  <2>11. m <= Len(ev.log)
    BY <2>1
  <2> QED BY <2>1, <2>5, <2>6, <2>9, <2>10, <2>11
<1> QED BY <1>4, <1>5

\* The events of the slots visited are those the application is to be given.
LEMMA ListedInOrder ==
    ASSUME NEW ev, RingInv(ev), ev.list = << >>
    PROVE  /\ GetEventsAsserts(ev)
           /\ ListedEvents(ev) \in Seq(EventObjects)
           /\ Described(ev, ListedEvents(ev)) = LastOf(ev.log, Kept(ev))
           /\ DOMAIN ListedEvents(ev) = DOMAIN Visited(ev)
           /\ \A k \in DOMAIN Visited(ev) : /\ Visited(ev)[k] \in Recent(ev) /\ Visited(ev)[k] \in Slots
                                            /\ ListedEvents(ev)[k] = ev.array[Visited(ev)[k]]
                                            /\ ListedEvents(ev)[k] \in EventObjects
<1> DEFINE m == IF ev.full THEN ev.size - 1 ELSE ev.next
           V == Visited(ev)
           s == LastOf(ev.log, Kept(ev))
           l == ListedEvents(ev)
<1>1. /\ m \in Nat /\ DOMAIN V = 1 .. m /\ m <= Len(ev.log)
      /\ \A k \in 1 .. m : V[k] \in Recent(ev) /\ Age(ev, V[k]) = m + 1 - k
      /\ s \in Seq(Nat) /\ Len(s) = m
      /\ \A k \in 1 .. m : s[k] = ev.log[Len(ev.log) - m + k]
  BY Visits
<1> HIDE DEF m, V, s
<1>2. DOMAIN l = DOMAIN V /\ l = [k \in 1 .. m |-> ev.array[V[k]]]
  BY <1>1 DEF ListedEvents, V
<1>3. \A k \in 1 .. m : /\ l[k] = ev.array[V[k]] /\ V[k] \in Slots /\ l[k] # NoEvent
                        /\ ev.about[l[k]] = ev.log[Len(ev.log) + 1 - Age(ev, V[k])]
  <2> SUFFICES ASSUME NEW k \in 1 .. m
               PROVE  /\ l[k] = ev.array[V[k]] /\ V[k] \in Slots /\ l[k] # NoEvent
                      /\ ev.about[l[k]] = ev.log[Len(ev.log) + 1 - Age(ev, V[k])]
    OBVIOUS
  <2>1. V[k] \in Recent(ev) /\ l[k] = ev.array[V[k]]
    BY <1>1, <1>2
  <2>2. \A j \in Recent(ev) : /\ ev.array[j] # NoEvent
                               /\ ev.about[ev.array[j]] = ev.log[Len(ev.log) + 1 - Age(ev, j)]
    BY DEF RingInv, InRing
  <2>3. V[k] \in Slots
    BY <2>1 DEF Recent
  <2> HIDE DEF l
  <2> QED BY <2>1, <2>2, <2>3
<1> HIDE DEF l
<1>4. \A k \in 1 .. m : l[k] \in EventObjects
  BY <1>3, RingFields
<1>5. l \in Seq(EventObjects)
  <2>1. l \in [1 .. m -> EventObjects]
    BY <1>2, <1>4
  <2> QED BY <1>1, <2>1
<1>6. Described(ev, l) = s
  <2>1. Len(ev.log) \in Nat
    BY RingFields
  <2>3. ASSUME NEW k \in 1 .. m PROVE ev.about[l[k]] = s[k]
    <3>1. m \in Nat /\ k \in Nat
      BY <1>1
    <3>2. Len(ev.log) + 1 - (m + 1 - k) = Len(ev.log) - m + k
      BY <2>1, <3>1
    <3>3. Age(ev, V[k]) = m + 1 - k /\ s[k] = ev.log[Len(ev.log) - m + k]
      BY <1>1
    <3>4. ev.about[l[k]] = ev.log[Len(ev.log) + 1 - (m + 1 - k)]
      BY <1>3, <3>3
    <3> QED BY <3>2, <3>3, <3>4
  <2>4. Described(ev, l) = [k \in 1 .. m |-> ev.about[l[k]]]
    BY <1>1, <1>2 DEF Described
  <2>5. s = [k \in 1 .. m |-> s[k]]
    BY <1>1
  <2> QED BY <2>3, <2>4, <2>5
<1>7. GetEventsAsserts(ev)
  BY <1>1, <1>3 DEF GetEventsAsserts, V, l
<1> QED BY <1>1, <1>2, <1>3, <1>4, <1>5, <1>6, <1>7 DEF V, s, l

\* What gda_connection_get_events() is to give.
LEMMA RingInOrder ==
    ASSUME NEW ev, RingInv(ev)
    PROVE  LatestInOrder(ev) /\ GetEventsAsserts(ev)
<1>1. CASE ev.list = << >>
  BY <1>1, ListedInOrder DEF LatestInOrder
<1>2. CASE ev.list # << >>
  BY <1>2 DEF LatestInOrder, RingInv, InList, GetEventsAsserts
<1> QED BY <1>1, <1>2

\* gda_connection_get_events(): an object is in the list when it was in a slot that
\* was visited, which is now empty.
LEMMA Gotten ==
    ASSUME NEW ev, NEW held, EventsInv(ev, held)
    PROVE  EventsInv(GetEvents(ev), held) /\ FreeObjects(GetEvents(ev)) = FreeObjects(ev)
<1> DEFINE q == GetEvents(ev)
           V == Visited(ev)
           l == ListedEvents(ev)
           seen(k) == \E i \in DOMAIN V : V[i] = k
<1>0. RingInv(ev) /\ Counted(ev, held)
  BY DEF EventsInv
<1>1. CASE ev.list # << >>
  BY <1>1 DEF GetEvents
<1>2. CASE ev.list = << >>
  <2>1. /\ ev \in EvRec /\ ev.size \in 1 .. MaxArraySize /\ ev.log \in Seq(Nat) /\ MaxArraySize \in Nat
        /\ ev.array \in [Slots -> EventObjects \cup {NoEvent}]
    BY <1>0, RingFields
  <2>2. /\ l \in Seq(EventObjects)
        /\ Described(ev, l) = LastOf(ev.log, Kept(ev))
        /\ DOMAIN l = DOMAIN V
        /\ \A k \in DOMAIN V : /\ V[k] \in Recent(ev) /\ V[k] \in Slots
                               /\ l[k] = ev.array[V[k]] /\ l[k] \in EventObjects
    BY <1>0, <1>2, ListedInOrder
  <2>3. \A j, k \in DOMAIN V : V[j] = V[k] => j = k
    <3> DEFINE m == IF ev.full THEN ev.size - 1 ELSE ev.next
    <3>1. m \in Nat /\ DOMAIN V = 1 .. m /\ \A k \in 1 .. m : Age(ev, V[k]) = m + 1 - k
      BY <1>0, <1>2, Visits
    <3> HIDE DEF m, V
    <3>2. SUFFICES ASSUME NEW j \in 1 .. m, NEW k \in 1 .. m, V[j] = V[k] PROVE j = k
      BY <3>1
    <3>3. m + 1 - j = m + 1 - k
      BY <3>1, <3>2
    <3> QED BY <3>1, <3>3
  <2> DEFINE log == LastOf(ev.log, Kept(ev))
             array == [k \in DOMAIN ev.array |-> IF seen(k) THEN NoEvent ELSE ev.array[k]]
  <2>4. log \in Seq(Nat) /\ (DOMAIN V = {} => log = << >>)
    <3> DEFINE m == IF ev.full THEN ev.size - 1 ELSE ev.next
    <3>1. m \in Nat /\ DOMAIN V = 1 .. m /\ log \in Seq(Nat) /\ Len(log) = m
      BY <1>0, <1>2, Visits
    <3> HIDE DEF m, V, log
    <3>2. DOMAIN V = {} => m = 0
      BY <3>1
    <3> QED BY <3>1, <3>2, EmptySeq
  <2>5. q = [ev EXCEPT !.list = l, !.array = array, !.full = FALSE, !.next = 0, !.log = log]
    BY <1>2 DEF GetEvents
  <2>6. array \in [Slots -> EventObjects \cup {NoEvent}]
    BY <2>1
  <2> HIDE DEF log, array, l, q
  <2>7. /\ q.array = array /\ q.size = ev.size /\ q.full = FALSE /\ q.next = 0 /\ q.list = l
        /\ q.about = ev.about /\ q.refs = ev.refs /\ q.log = log
    BY <2>1, <2>5 DEF EvRec
  <2>8. q \in EvRec
    BY <2>1, <2>2, <2>4, <2>5, <2>6 DEF EvRec
  <2>9. EventsType(q)
    <3>1. q.next < q.size
      BY <2>1, <2>7
    <3> QED BY <2>8, <3>1 DEF EventsType, EvRec, Slots
  <2>10. \A k \in Slots : array[k] = IF seen(k) THEN NoEvent ELSE ev.array[k]
    BY <2>1 DEF array
  <2>11. Distinct(q)
    BY <1>0, <2>7, <2>10 DEF RingInv, Distinct
  <2>12. Apart(q)
    <3> SUFFICES ASSUME NEW j \in Slots, NEW i \in DOMAIN l PROVE array[j] # l[i]
      BY <2>7 DEF Apart
    <3>1. i \in DOMAIN V /\ V[i] \in Slots /\ l[i] = ev.array[V[i]] /\ l[i] # NoEvent
      BY <2>2, Objects
    <3>2. CASE seen(j)
      BY <2>10, <3>1, <3>2
    <3>3. CASE ~seen(j)
      <4>1. j # V[i]
        BY <3>1, <3>3
      <4> QED BY <1>0, <2>10, <3>1, <3>3, <4>1 DEF RingInv, Distinct
    <3> QED BY <3>2, <3>3
  <2>13. IF l = << >> THEN InRing(q) ELSE InList(q)
    <3>1. CASE l = << >>
      <4>1. Recent(q) = {}
        BY <2>1, <2>7 DEF Recent, Slots
      <4>2. log = << >>
        BY <2>2, <2>4, <3>1
      <4> QED BY <2>7, <3>1, <4>1, <4>2 DEF InRing
    <3>2. CASE l # << >>
      BY <2>2, <2>7, <3>2 DEF InList, Described, log
    <3> QED BY <3>1, <3>2
  <2>14. RingInv(q)
    BY <2>7, <2>9, <2>11, <2>12, <2>13 DEF RingInv
  <2>15. ASSUME NEW o \in EventObjects PROVE HeldBy(q, o) = HeldBy(ev, o)
    <3>1. /\ HeldBy(ev, o) = Shown(ev, o) + Occurrences(ev.list, o) /\ Occurrences(ev.list, o) = 0
          /\ HeldBy(q, o) = Shown(q, o) + Occurrences(q.list, o)
          /\ Shown(ev, o) \in 0 .. 1 /\ Shown(q, o) \in 0 .. 1
      BY <1>0, <1>2, <2>1, <2>8, <2>11, HeldByRing DEF RingInv
    <3>2. \A j, k \in DOMAIN l : l[j] = l[k] => j = k
      BY <1>0, <2>2, <2>3, Objects DEF RingInv, Distinct
    <3>3. Occurrences(q.list, o) = IF \E k \in DOMAIN l : l[k] = o THEN 1 ELSE 0
      <4>1. DOMAIN l = 1 .. Len(l) /\ Len(l) \in Nat
        BY <2>2
      <4> QED BY <2>7, <3>2, <4>1, InAList
    <3>4. o # NoEvent
      BY Objects
    <3>5. CASE \E k \in DOMAIN l : l[k] = o
      <4>1. PICK k \in DOMAIN l : l[k] = o
        BY <3>5
      <4>2. V[k] \in Slots /\ ev.array[V[k]] = o
        BY <2>2, <4>1
      <4>3. Shown(ev, o) = 1
        BY <4>2 DEF Shown
      <4>4. \A j \in Slots : q.array[j] # o
        BY <2>7, <2>12, <4>1 DEF Apart
      <4>5. Shown(q, o) = 0
        BY <4>4 DEF Shown
      <4> QED BY <3>1, <3>3, <3>5, <4>3, <4>5
    <3>6. CASE ~(\E k \in DOMAIN l : l[k] = o)
      <4>1. \A j \in Slots : ev.array[j] = o <=> array[j] = o
        BY <2>2, <2>10, <3>4, <3>6
      <4>2. Shown(ev, o) = Shown(q, o)
        BY <2>7, <4>1 DEF Shown
      <4> QED BY <3>1, <3>3, <3>6, <4>2
    <3> QED BY <3>5, <3>6
  <2>16. Counted(q, held)
    BY <1>0, <2>7, <2>15 DEF Counted
  <2> QED BY <2>7, <2>14, <2>16 DEF EventsInv, FreeObjects, q
<1> QED BY <1>1, <1>2

\* change_events_array_max_size(): an object loses the reference of the slot that is
\* cut with it.
LEMMA Resized ==
    ASSUME NEW ev, NEW held \in [EventObjects -> Nat], EventsInv(ev, held),
           NEW asked \in Nat, asked + 1 <= MaxArraySize
    PROVE  EventsInv(Resize(ev, asked), held)
<1> DEFINE q == Resize(ev, asked)
           size == asked + 1
           tail == {k \in DOMAIN ev.array : ev.size <= k /\ k < size}
           cut  == {k \in DOMAIN ev.array : EVENTS_ARRAY_SIZE <= size /\ size <= k /\ k < ev.size}
           array == [k \in DOMAIN ev.array |-> IF k \in tail \cup cut THEN NoEvent ELSE ev.array[k]]
           lost(o) == Cardinality({k \in cut : ev.array[k] = o})
           refs == [o \in EventObjects |-> ev.refs[o] - lost(o)]
           log == IF ev.list = << >> THEN << >> ELSE ev.log
<1>0. RingInv(ev) /\ Counted(ev, held)
  BY DEF EventsInv
<1>1. CASE size = ev.size
  BY <1>1 DEF Resize
<1>2. CASE size # ev.size
  <2>1. /\ ev \in EvRec /\ ev.log \in Seq(Nat) /\ MaxArraySize \in Nat
        /\ ev.array \in [Slots -> EventObjects \cup {NoEvent}]
        /\ ev.refs \in [EventObjects -> Nat]
    BY <1>0, RingFields
  <2>2. q = [ev EXCEPT !.refs = refs, !.array = array, !.size = size, !.full = FALSE, !.next = 0,
                       !.log = log]
    BY <1>2 DEF Resize
  <2>3. size \in 1 .. MaxArraySize /\ log \in Seq(Nat)
    BY <2>1
  <2>4. array \in [Slots -> EventObjects \cup {NoEvent}]
    BY <2>1
  <2>5. \A k \in Slots : array[k] # NoEvent => array[k] = ev.array[k] /\ k \notin cut
    BY <2>1
  <2>6. ASSUME NEW o \in EventObjects
        PROVE  /\ lost(o) \in 0 .. 1 /\ refs[o] = ev.refs[o] - lost(o)
               /\ lost(o) = 1 => \E k \in cut : ev.array[k] = o
    <3> DEFINE S == {k \in cut : ev.array[k] = o}
    <3>1. \A j, k \in S : j = k
      BY <1>0, <2>1, Objects DEF RingInv, Distinct
    <3>2. Cardinality(S) = IF S = {} THEN 0 ELSE 1
      BY <3>1, AtMostOne
    <3> QED BY <3>2
  <2> HIDE DEF array, refs, log, q, lost, cut, tail
  <2>7. \A j \in Slots : \A k \in cut : array[j] # NoEvent /\ array[j] = ev.array[j] => j # k
    BY <2>5
  <2>8. ASSUME NEW o \in EventObjects
        PROVE  /\ ev.refs[o] >= Shown(ev, o) + Occurrences(ev.list, o) + held[o]
               /\ Shown(ev, o) \in 0 .. 1 /\ Occurrences(ev.list, o) \in Nat
               /\ ev.refs[o] \in Nat /\ held[o] \in Nat
               /\ lost(o) <= Shown(ev, o)
    <3>1. /\ HeldBy(ev, o) = Shown(ev, o) + Occurrences(ev.list, o)
          /\ Shown(ev, o) \in 0 .. 1 /\ Occurrences(ev.list, o) \in Nat
      BY <1>0, <2>1, HeldByRing DEF RingInv
    <3>2. ev.refs[o] >= HeldBy(ev, o) + held[o]
      BY <1>0 DEF Counted
    <3>3. CASE lost(o) = 0
      BY <2>1, <3>1, <3>2, <3>3
    <3>4. CASE lost(o) = 1
      <4>1. PICK k \in cut : ev.array[k] = o
        BY <2>6, <3>4
      <4>2. k \in Slots
        BY <2>1, <4>1 DEF cut
      <4>3. Shown(ev, o) = 1
        BY <4>1, <4>2 DEF Shown
      <4> QED BY <2>1, <3>1, <3>2, <3>4, <4>3
    <3> QED BY <2>6, <3>3, <3>4
  <2>9. refs \in [EventObjects -> Nat]
    <3>1. \A o \in EventObjects : refs[o] \in Nat
      <4> SUFFICES ASSUME NEW o \in EventObjects PROVE refs[o] \in Nat
        OBVIOUS
      <4>1. refs[o] = ev.refs[o] - lost(o) /\ lost(o) \in 0 .. 1
        BY <2>6
      <4>2. /\ ev.refs[o] >= Shown(ev, o) + Occurrences(ev.list, o) + held[o]
            /\ Shown(ev, o) \in 0 .. 1 /\ Occurrences(ev.list, o) \in Nat
            /\ ev.refs[o] \in Nat /\ held[o] \in Nat
            /\ lost(o) <= Shown(ev, o)
        BY <2>8
      <4> QED BY <4>1, <4>2
    <3>2. refs = [o \in EventObjects |-> refs[o]]
      BY DEF refs
    <3> QED BY <3>1, <3>2
  <2>10. /\ q.array = array /\ q.size = size /\ q.full = FALSE /\ q.next = 0 /\ q.list = ev.list
         /\ q.about = ev.about /\ q.refs = refs /\ q.log = log
    BY <2>1, <2>2 DEF EvRec
  <2>11. q \in EvRec
    <3> HIDE DEF size
    <3> QED BY <2>1, <2>2, <2>3, <2>4, <2>9 DEF EvRec
  <2>12. EventsType(q)
    <3>1. q.next < q.size
      BY <2>3, <2>10
    <3> QED BY <2>11, <3>1 DEF EventsType, EvRec, Slots
  <2>13. Distinct(q)
    BY <1>0, <2>5, <2>10 DEF RingInv, Distinct
  <2>14. Apart(q)
    <3> SUFFICES ASSUME NEW j \in Slots, NEW i \in DOMAIN ev.list PROVE array[j] # ev.list[i]
      BY <2>10 DEF Apart
    <3>1. ev.list[i] \in EventObjects
      BY <2>1 DEF EvRec
    <3> QED BY <1>0, <2>5, <3>1, Objects DEF RingInv, Apart
  <2>15. IF ev.list = << >> THEN InRing(q) ELSE InList(q)
    <3>1. CASE ev.list = << >>
      <4>1. Recent(q) = {}
        BY <2>10 DEF Recent, Slots
      <4> QED BY <2>10, <3>1, <4>1 DEF InRing, log
    <3>2. CASE ev.list # << >>
      BY <1>0, <2>10, <3>2 DEF RingInv, InList, Described, log
    <3> QED BY <3>1, <3>2
  <2>16. RingInv(q)
    BY <2>10, <2>12, <2>13, <2>14, <2>15 DEF RingInv
  <2>17. Counted(q, held)
    <3> SUFFICES ASSUME NEW o \in EventObjects PROVE q.refs[o] >= HeldBy(q, o) + held[o]
      BY DEF Counted
    <3>1. /\ HeldBy(q, o) = Shown(q, o) + Occurrences(ev.list, o) /\ Shown(q, o) \in 0 .. 1
      BY <2>10, <2>11, <2>13, HeldByRing
    <3>2. o # NoEvent
      BY Objects
    <3>3. Shown(q, o) <= Shown(ev, o)
      BY <2>5, <2>10, <3>2 DEF Shown
    <3>4. lost(o) = 1 => Shown(q, o) = 0
      <4>1. SUFFICES ASSUME lost(o) = 1 PROVE \A j \in Slots : array[j] # o
        BY <2>10 DEF Shown
      <4>2. PICK k \in cut : ev.array[k] = o
        BY <2>6, <4>1
      <4>3. k \in Slots
        BY <2>1, <4>2 DEF cut
      <4> QED BY <1>0, <2>5, <2>7, <3>2, <4>2, <4>3 DEF RingInv, Distinct
    <3>5. q.refs[o] = ev.refs[o] - lost(o) /\ lost(o) \in 0 .. 1
      BY <2>6, <2>10
    <3>6. /\ ev.refs[o] >= Shown(ev, o) + Occurrences(ev.list, o) + held[o]
          /\ Shown(ev, o) \in 0 .. 1 /\ Occurrences(ev.list, o) \in Nat
          /\ ev.refs[o] \in Nat /\ held[o] \in Nat
          /\ lost(o) <= Shown(ev, o)
      BY <2>8
    <3>7. CASE lost(o) = 0
      BY <3>1, <3>3, <3>5, <3>6, <3>7
    <3>8. CASE lost(o) = 1
      BY <3>1, <3>4, <3>5, <3>6, <3>8
    <3> QED BY <3>5, <3>7, <3>8
  <2> QED BY <2>16, <2>17 DEF EventsInv, q
<1> QED BY <1>1, <1>2

\* The ring of a new connection.
LEMMA AtFirst == EventsInv(NoEvents, [o \in EventObjects |-> 0])
<1> DEFINE ev == NoEvents
<1>1. /\ ev.array = [k \in Slots |-> NoEvent] /\ ev.size = EVENTS_ARRAY_SIZE /\ ev.full = FALSE
      /\ ev.next = 0 /\ ev.list = << >> /\ ev.about = [o \in EventObjects |-> 0]
      /\ ev.refs = [o \in EventObjects |-> 0] /\ ev.log = << >>
  BY DEF NoEvents, Slots
<1>2. EVENTS_ARRAY_SIZE \in 1 .. MaxArraySize /\ EVENTS_ARRAY_SIZE > 0
  BY Objects
<1>3. ev \in EvRec
  BY <1>2 DEF NoEvents, EvRec, Slots
<1> HIDE DEF ev
<1>4. EventsType(ev) /\ Distinct(ev) /\ Apart(ev)
  <2>1. EventsType(ev)
    BY <1>1, <1>2, <1>3 DEF EventsType, EvRec, Slots
  <2>2. Distinct(ev)
    BY <1>1 DEF Distinct
  <2>3. DOMAIN ev.list = {}
    BY <1>1
  <2> QED BY <2>1, <2>2, <2>3 DEF Apart
<1>5. InRing(ev)
  <2>1. Recent(ev) = {}
    BY <1>1 DEF Recent, Slots
  <2> QED BY <1>1, <2>1 DEF InRing
<1>6. ASSUME NEW o \in EventObjects PROVE HeldBy(ev, o) = 0
  <2>1. /\ HeldBy(ev, o) = Shown(ev, o) + Occurrences(ev.list, o)
        /\ Occurrences(ev.list, o) = 0
    BY <1>1, <1>3, <1>4, HeldByRing
  <2>2. Shown(ev, o) = 0
    BY <1>1, Objects DEF Shown
  <2> QED BY <2>1, <2>2
<1> QED BY <1>1, <1>4, <1>5, <1>6 DEF EventsInv, RingInv, Counted, ev

-----------------------------------------------------------------------------
(* The shape of the tree.                                                  *)

\* d transactions, one within the other, with names of N and events of E.
Path(t, d, N, E) ==
    /\ d \in Nat
    /\ t = [root |-> IF d = 0 THEN NULL ELSE 1, node |-> t.node]
    /\ t.node \in [1 .. d -> [name : N, events : Seq(E)]]
    /\ \A n \in 1 .. d : \A k \in DOMAIN t.node[n].events :
          LET e == t.node[n].events[k]
          IN  /\ e.type = "sub" <=> n < d /\ k = Len(t.node[n].events)
              /\ e.type = "sub" => e.sub = n + 1
    /\ \A n \in 1 .. d : n < d => Len(t.node[n].events) > 0

Ev(t, n) == t.node[n].events

-----------------------------------------------------------------------------
(* Numbers and searches.                                                   *)

\* The earliest of some positions is one of them.
LEMMA EarliestIs ==
    ASSUME NEW S, S \subseteq Nat, S # {}
    PROVE  /\ Earliest(S) \in S
           /\ \A j \in S : Earliest(S) <= j
<1>1. PICK i \in S : \A j \in S : ~(<<j, i>> \in OpToRel(<, Nat))
  BY NatLessThanWellFounded, WFMin
<1>2. \A j \in S : ~(j < i)
  BY <1>1 DEF OpToRel
<1>3. \A j \in S : i <= j
  BY <1>2
<1> QED BY <1>1, <1>3 DEF Earliest

\* ... and the only one that is not after another.
LEMMA EarliestOf ==
    ASSUME NEW S, S \subseteq Nat, NEW i \in S, \A j \in S : i <= j
    PROVE  Earliest(S) = i
<1>1. Earliest(S) \in S /\ Earliest(S) <= i
  BY EarliestIs
<1>2. Earliest(S) \in Nat /\ i \in Nat /\ i <= Earliest(S)
  BY <1>1
<1> QED BY <1>1, <1>2

\* Two functions agree at each number at which they agree on all that is further down.
AgreeDownwards(g, h, d) ==
    \A n \in 1 .. d : (\A m \in 1 .. d : m > n => g[m] = h[m]) => g[n] = h[n]
Agree(g, h, d) == \A n \in 1 .. d : g[n] = h[n]

\* Then they agree: there is no deepest number at which they differ.
LEMMA Downwards ==
    ASSUME NEW d \in Nat, NEW g, NEW h, AgreeDownwards(g, h, d)
    PROVE  Agree(g, h, d)
<1> USE DEF AgreeDownwards
<1> DEFINE S == {i \in Nat : i < d /\ g[d - i] # h[d - i]}
<1>1. ASSUME S # {} PROVE FALSE
  <2>1. PICK i \in S : \A j \in S : ~(<<j, i>> \in OpToRel(<, Nat))
    BY <1>1, NatLessThanWellFounded, WFMin
  <2>2. \A j \in S : ~(j < i)
    BY <2>1 DEF OpToRel
  <2>3. d - i \in 1 .. d
    OBVIOUS
  <2>4. ASSUME NEW m \in 1 .. d, m > d - i PROVE g[m] = h[m]
    <3>1. d - m \in Nat /\ d - m < d /\ d - m < i /\ d - (d - m) = m
      BY <2>4
    <3>2. d - m \notin S
      BY <2>2, <3>1
    <3> QED BY <3>1, <3>2
  <2>5. g[d - i] = h[d - i]
    BY <2>3, <2>4
  <2> QED BY <2>5
<1>2. ASSUME NEW n \in 1 .. d PROVE g[n] = h[n]
  <2>1. d - n \in Nat /\ d - n < d /\ d - (d - n) = n
    OBVIOUS
  <2>2. d - n \notin S
    BY <1>1
  <2> QED BY <2>1, <2>2
<1> QED BY <1>2 DEF Agree

\* The sub transaction of an object, and its position.
LEMMA SubOf ==
    ASSUME NEW t, NEW d, NEW N, NEW E, Path(t, d, N, E), NEW n \in 1 .. d
    PROVE  /\ n \in Nat /\ n >= 1 /\ n <= d /\ d \in Nat
           /\ Ev(t, n) \in Seq(E) /\ t.node[n].name \in N /\ Len(Ev(t, n)) \in Nat
           /\ DOMAIN Ev(t, n) = 1 .. Len(Ev(t, n))
           /\ IF n = d THEN SubsIn(Ev(t, n)) = {}
              ELSE /\ SubsIn(Ev(t, n)) = {Len(Ev(t, n))} /\ Len(Ev(t, n)) > 0
                   /\ Earliest(SubsIn(Ev(t, n))) = Len(Ev(t, n))
                   /\ Ev(t, n)[Len(Ev(t, n))].sub = n + 1 /\ n + 1 \in 1 .. d
<1>1. d \in Nat /\ n \in Nat /\ n >= 1 /\ n <= d
  BY DEF Path
<1>2. /\ Ev(t, n) \in Seq(E) /\ t.node[n].name \in N /\ Len(Ev(t, n)) \in Nat
      /\ DOMAIN Ev(t, n) = 1 .. Len(Ev(t, n))
  <2>1. t.node[n] \in [name : N, events : Seq(E)]
    BY DEF Path
  <2> QED BY <2>1 DEF Ev
<1>3. \A k \in DOMAIN Ev(t, n) : /\ Ev(t, n)[k].type = "sub" <=> n < d /\ k = Len(Ev(t, n))
                                 /\ Ev(t, n)[k].type = "sub" => Ev(t, n)[k].sub = n + 1
  BY DEF Path, Ev
<1>4. n < d => Len(Ev(t, n)) > 0
  BY DEF Path, Ev
<1>5. CASE n = d
  <2>1. SubsIn(Ev(t, n)) = {}
    BY <1>1, <1>3, <1>5 DEF SubsIn
  <2> QED BY <1>1, <1>2, <1>5, <2>1
<1>6. CASE n # d
  <2>1. n < d /\ n + 1 \in 1 .. d
    BY <1>1, <1>6
  <2>2. Len(Ev(t, n)) \in DOMAIN Ev(t, n)
    BY <1>2, <1>4, <2>1
  <2>3. SubsIn(Ev(t, n)) = {Len(Ev(t, n))}
    BY <1>3, <2>1, <2>2 DEF SubsIn
  <2>4. Earliest(SubsIn(Ev(t, n))) = Len(Ev(t, n))
    <3>1. Len(Ev(t, n)) \in Nat /\ Len(Ev(t, n)) <= Len(Ev(t, n))
      BY <1>2
    <3> QED BY <2>3, <3>1, EarliestOf
  <2>5. Ev(t, n)[Len(Ev(t, n))].sub = n + 1
    BY <1>3, <2>1, <2>2
  <2> QED BY <1>1, <1>2, <1>4, <1>6, <2>1, <2>3, <2>4, <2>5
<1> QED BY <1>5, <1>6

\* gda_transaction_status_find_current() finds the innermost object and the last
\* event of its parent.
LEMMA FindCurrentIs ==
    ASSUME NEW t, NEW d, NEW N, NEW E, Path(t, d, N, E)
    PROVE  FindCurrent(t) =
              IF d = 0 THEN NotFound
              ELSE [trans |-> d, ev |-> IF d = 1 THEN NULL ELSE <<d - 1, Len(Ev(t, d - 1))>>]
<1>1. /\ d \in Nat /\ t.root = (IF d = 0 THEN NULL ELSE 1) /\ DOMAIN t.node = 1 .. d
      /\ NULL # 1
  BY TransAssumption DEF Path
<1>2. CASE d = 0
  BY <1>1, <1>2 DEF FindCurrent
<1>3. CASE d # 0
  <2> DEFINE D == 1 .. d
             body(g, n) == LET ev == t.node[n].events
                               k == Earliest(SubsIn(ev))
                               inner == g[ev[k].sub]
                           IN  IF SubsIn(ev) = {} THEN [trans |-> n, ev |-> NULL]
                               ELSE IF inner.ev = NULL THEN [trans |-> inner.trans, ev |-> <<n, k>>]
                               ELSE inner
             h == [n \in D |-> [trans |-> d, ev |-> IF n = d THEN NULL
                                                     ELSE <<d - 1, Len(Ev(t, d - 1))>>]]
  <2>1. ASSUME NEW g, NEW n \in D, n < d => g[n + 1] = h[n + 1]
        PROVE  body(g, n) = h[n]
    <3>1. CASE n = d
      <4>1. SubsIn(t.node[n].events) = {}
        BY <3>1, SubOf DEF Ev
      <4>2. body(g, n) = [trans |-> n, ev |-> NULL]
        BY <4>1
      <4> QED BY <3>1, <4>2
    <3>2. CASE n # d
      <4>1. /\ SubsIn(t.node[n].events) # {}
            /\ t.node[n].events[Earliest(SubsIn(t.node[n].events))].sub = n + 1
            /\ Earliest(SubsIn(t.node[n].events)) = Len(Ev(t, n))
            /\ n + 1 \in 1 .. d /\ n < d
        BY <3>2, SubOf DEF Ev
      <4>2. g[n + 1] = [trans |-> d, ev |-> IF n + 1 = d THEN NULL ELSE <<d - 1, Len(Ev(t, d - 1))>>]
        BY <2>1, <4>1
      <4>3. CASE n + 1 = d
        <5>1. body(g, n) = [trans |-> d, ev |-> <<n, Len(Ev(t, n))>>]
          BY <4>1, <4>2, <4>3
        <5>2. n = d - 1
          BY <1>1, <4>3
        <5> QED BY <3>2, <5>1, <5>2
      <4>4. CASE n + 1 # d
        <5>1. g[n + 1].ev = <<d - 1, Len(Ev(t, d - 1))>>
          BY <4>2, <4>4
        <5>2. d - 1 \in 1 .. d
          BY <1>1, <4>1
        <5>3. d - 1 \in Nat /\ Len(Ev(t, d - 1)) \in Nat
          BY <5>2, SubOf
        <5>4. g[n + 1].ev # NULL
          BY <5>1, <5>3, TransAssumption
        <5>5. body(g, n) = g[n + 1]
          BY <4>1, <5>4
        <5> QED BY <3>2, <4>2, <4>4, <5>5
      <4> QED BY <4>3, <4>4
    <3> QED BY <3>1, <3>2
  <2>2. h = [n \in D |-> body(h, n)]
    <3>1. \A n \in D : h[n] = body(h, n)
      BY <2>1
    <3> QED BY <3>1
  <2>3. ASSUME NEW g, g = [n \in D |-> body(g, n)] PROVE g = h
    <3>1. \A n \in D : g[n] = body(g, n)
      BY <2>3
    <3>2. ASSUME NEW n \in D, \A m \in D : m > n => g[m] = h[m] PROVE g[n] = h[n]
      <4>1. n < d => g[n + 1] = h[n + 1]
        BY <1>1, <3>2
      <4> QED BY <2>1, <3>1, <4>1, ZenonT(40)
    <3> HIDE DEF h, body
    <3>3. \A n \in D : g[n] = h[n]
      <4>1. d \in Nat /\ AgreeDownwards(g, h, d)
        BY <1>1, <3>2 DEF AgreeDownwards
      <4> QED BY <4>1, Downwards DEF Agree
    <3>4. g = [n \in D |-> g[n]] /\ h = [n \in D |-> h[n]]
      BY <2>2, <2>3
    <3> QED BY <3>3, <3>4
  <2>4. (CHOOSE g : g = [n \in D |-> body(g, n)]) = h
    <3> HIDE DEF h, body
    <3> QED BY <2>2, <2>3
  <2>5. FindCurrent(t) = h[1]
    BY <1>1, <1>3, <2>4, ZenonT(40) DEF FindCurrent
  <2>6. 1 \in D
    BY <1>1, <1>3
  <2>7. 1 = d <=> d = 1
    OBVIOUS
  <2> QED BY <1>3, <2>5, <2>6, <2>7
<1> QED BY <1>2, <1>3

\* The nesting of the transactions.
LEMMA NestingIs ==
    ASSUME NEW t, NEW d, NEW N, NEW E, Path(t, d, N, E)
    PROVE  Nesting(t) = [n \in 1 .. d |-> t.node[n].name]
<1>1. /\ d \in Nat /\ t.root = (IF d = 0 THEN NULL ELSE 1) /\ DOMAIN t.node = 1 .. d
      /\ NULL # 1
  BY TransAssumption DEF Path
<1>2. CASE d = 0
  <2>1. Nesting(t) = << >>
    BY <1>1, <1>2 DEF Nesting
  <2> QED BY <1>2, <2>1
<1>3. CASE d # 0
  <2> DEFINE D == 1 .. d
             name(n) == t.node[n].name
             body(g, n) == LET ev == t.node[n].events
                           IN  <<t.node[n].name>> \o (IF SubsIn(ev) = {} THEN << >>
                                                      ELSE g[ev[Earliest(SubsIn(ev))].sub])
             h == [n \in D |-> [i \in 1 .. (d - n + 1) |-> name(n + i - 1)]]
  <2>1. ASSUME NEW g, NEW n \in D, n < d => g[n + 1] = h[n + 1]
        PROVE  body(g, n) = h[n]
    <3>0. n \in Nat /\ 1 <= n /\ n <= d
      BY <1>1
    <3>1. CASE n = d
      <4>1. SubsIn(t.node[n].events) = {}
        BY <3>1, SubOf DEF Ev
      <4>2. body(g, n) = <<name(n)>>
        BY <4>1
      <4>3. h[n] = [i \in 1 .. 1 |-> name(d)]
        <5>1. d - n + 1 = 1 /\ \A i \in 1 .. 1 : n + i - 1 = d
          BY <1>1, <3>0, <3>1
        <5> QED BY <5>1
      <4> HIDE DEF body, h, name
      <4> QED BY <3>1, <4>2, <4>3
    <3>2. CASE n # d
      <4>1. /\ SubsIn(t.node[n].events) # {}
            /\ t.node[n].events[Earliest(SubsIn(t.node[n].events))].sub = n + 1
            /\ n + 1 \in 1 .. d /\ n < d
        BY <3>2, SubOf DEF Ev
      <4>2. body(g, n) = <<name(n)>> \o h[n + 1]
        BY <2>1, <4>1
      <4>3. h[n + 1] = [i \in 1 .. (d - n) |-> name(n + i)]
        <5>1. d - (n + 1) + 1 = d - n /\ \A i \in 1 .. (d - n) : (n + 1) + i - 1 = n + i
          BY <1>1, <3>0
        <5>2. h[n + 1] = [i \in 1 .. (d - (n + 1) + 1) |-> name((n + 1) + i - 1)]
          BY <4>1
        <5> QED BY <5>1, <5>2
      <4>4. d - n \in Nat
        BY <1>1, <3>0
      <4>5. <<name(n)>> \o h[n + 1] = [i \in 1 .. (d - n + 1) |-> name(n + i - 1)]
        <5> DEFINE Gathered == {name(i) : i \in 1 .. d}
                   s == h[n + 1]
        <5>1. s \in Seq(Gathered) /\ Len(s) = d - n /\ \A i \in 1 .. (d - n) : s[i] = name(n + i)
          <6>1. \A i \in 1 .. (d - n) : n + i \in 1 .. d
            BY <1>1, <3>0
          <6>2. \A i \in 1 .. (d - n) : name(n + i) \in Gathered
            BY <6>1
          <6> DEFINE m == d - n
          <6>3. m \in Nat /\ s = [i \in 1 .. m |-> name(n + i)] /\ \A i \in 1 .. m : name(n + i) \in Gathered
            BY <4>3, <4>4, <6>2
          <6> HIDE DEF Gathered, name, s, m
          <6>4. s \in [1 .. m -> Gathered] /\ \A i \in 1 .. m : s[i] = name(n + i)
            BY <6>3
          <6>5. s \in Seq(Gathered) /\ Len(s) = m
            BY <6>3, <6>4
          <6> QED BY <6>4, <6>5 DEF m
        <5>2. <<name(n)>> \in Seq(Gathered) /\ Len(<<name(n)>>) = 1 /\ <<name(n)>>[1] = name(n)
          BY <3>0
        <5> HIDE DEF s, h, body, name, Gathered
        <5>3. /\ Len(<<name(n)>> \o s) = d - n + 1
              /\ <<name(n)>> \o s \in Seq(Gathered)
              /\ \A i \in 1 .. (d - n + 1) : (<<name(n)>> \o s)[i] = IF i <= 1 THEN name(n) ELSE s[i - 1]
          BY <4>4, <5>1, <5>2
        <5>4. \A i \in 1 .. (d - n + 1) : (<<name(n)>> \o s)[i] = name(n + i - 1)
          <6> SUFFICES ASSUME NEW i \in 1 .. (d - n + 1)
                       PROVE  (<<name(n)>> \o s)[i] = name(n + i - 1)
            OBVIOUS
          <6>1. CASE i = 1
            <7>1. n + i - 1 = n
              BY <3>0, <6>1
            <7> QED BY <5>3, <6>1, <7>1
          <6>2. CASE i # 1
            <7>1. i - 1 \in 1 .. (d - n) /\ ~(i <= 1) /\ n + (i - 1) = n + i - 1
              BY <3>0, <4>4, <6>2
            <7> QED BY <5>1, <5>3, <7>1
          <6> QED BY <6>1, <6>2
        <5>5. <<name(n)>> \o s = [i \in 1 .. (d - n + 1) |-> (<<name(n)>> \o s)[i]]
          BY <4>4, <5>3
        <5> QED BY <5>4, <5>5 DEF s
      <4> HIDE DEF body, name
      <4> QED BY <4>2, <4>5
    <3> QED BY <3>1, <3>2
  <2>2. h = [n \in D |-> body(h, n)]
    <3>1. \A n \in D : h[n] = body(h, n)
      BY <2>1
    <3>2. h = [n \in D |-> h[n]]
      OBVIOUS
    <3> HIDE DEF h, body
    <3> QED BY <3>1, <3>2
  <2>3. ASSUME NEW g, g = [n \in D |-> body(g, n)] PROVE g = h
    <3>1. \A n \in D : g[n] = body(g, n)
      BY <2>3
    <3>2. ASSUME NEW n \in D, \A m \in D : m > n => g[m] = h[m] PROVE g[n] = h[n]
      <4>1. n < d => g[n + 1] = h[n + 1]
        BY <1>1, <3>2, SMTT(30)
      <4> HIDE DEF h, body
      <4> QED BY <2>1, <3>1, <4>1
    <3> HIDE DEF h, body
    <3>3. \A n \in D : g[n] = h[n]
      <4>1. d \in Nat /\ AgreeDownwards(g, h, d)
        BY <1>1, <3>2 DEF AgreeDownwards
      <4> QED BY <4>1, Downwards DEF Agree
    <3>4. g = [n \in D |-> g[n]] /\ h = [n \in D |-> h[n]]
      BY <2>2, <2>3
    <3> QED BY <3>3, <3>4
  <2>4. (CHOOSE g : g = [n \in D |-> body(g, n)]) = h
    <3> HIDE DEF h, body
    <3> QED BY <2>2, <2>3
  <2>5. Nesting(t) = h[1]
    BY <1>1, <1>3, <2>4 DEF Nesting
  <2>6. h[1] = [i \in 1 .. (d - 1 + 1) |-> name(1 + i - 1)]
    BY <1>1, <1>3
  <2>7. d - 1 + 1 = d /\ \A i \in 1 .. d : 1 + i - 1 = i
    BY <1>1
  <2> HIDE DEF h, body
  <2>8. h[1] = [i \in 1 .. d |-> name(i)]
    BY <2>6, <2>7
  <2> QED BY <2>5, <2>8
<1> QED BY <1>2, <1>3

\* The objects below one, and itself.
LEMMA BelowIs ==
    ASSUME NEW t, NEW d, NEW N, NEW E, Path(t, d, N, E), NEW b \in 1 .. d
    PROVE  Below(t, b) = b .. d
<1>1. d \in Nat /\ DOMAIN t.node = 1 .. d
  BY DEF Path
<1> DEFINE D == 1 .. d
           body(g, m) == {m} \cup UNION {g[t.node[m].events[k].sub] : k \in SubsIn(t.node[m].events)}
           h == [n \in D |-> n .. d]
<1>2. ASSUME NEW g, NEW n \in D, n < d => g[n + 1] = h[n + 1]
      PROVE  body(g, n) = h[n]
  <2>1. n \in Nat /\ 1 <= n /\ n <= d
    BY <1>1
  <2>2. CASE n = d
    <3>1. SubsIn(t.node[n].events) = {}
      BY <2>2, SubOf DEF Ev
    <3>2. body(g, n) = {n}
      BY <3>1
    <3>3. n .. d = {n}
      BY <2>1, <2>2
    <3> QED BY <3>2, <3>3
  <2>3. CASE n # d
    <3>1. /\ SubsIn(t.node[n].events) = {Len(Ev(t, n))}
          /\ t.node[n].events[Len(Ev(t, n))].sub = n + 1
          /\ n + 1 \in 1 .. d /\ n < d
      BY <2>3, SubOf DEF Ev
    <3>2. body(g, n) = {n} \cup UNION {g[n + 1]}
      <4>1. {g[t.node[n].events[k].sub] : k \in {Len(Ev(t, n))}} = {g[n + 1]}
        BY <3>1
      <4> QED BY <3>1, <4>1
    <3>3. body(g, n) = {n} \cup ((n + 1) .. d)
      BY <1>2, <3>1, <3>2
    <3>4. {n} \cup ((n + 1) .. d) = n .. d
      BY <2>1, <1>1
    <3> QED BY <3>3, <3>4
  <2> QED BY <2>2, <2>3
<1>3. h = [n \in D |-> body(h, n)]
  <2>1. \A n \in D : h[n] = body(h, n)
    BY <1>2, ZenonT(40)
  <2>2. h = [n \in D |-> h[n]]
    OBVIOUS
  <2> HIDE DEF h, body
  <2> QED BY <2>1, <2>2
<1>4. ASSUME NEW g, g = [n \in D |-> body(g, n)] PROVE g = h
  <2>1. \A n \in D : g[n] = body(g, n)
    BY <1>4
  <2>2. ASSUME NEW n \in D, \A m \in D : m > n => g[m] = h[m] PROVE g[n] = h[n]
    <3>1. n < d => g[n + 1] = h[n + 1]
      BY <1>1, <2>2
    <3> HIDE DEF h, body
    <3> QED BY <1>2, <2>1, <3>1
  <2> HIDE DEF h, body
  <2>3. d \in Nat /\ \A n \in 1 .. d : (\A m \in 1 .. d : m > n => g[m] = h[m]) => g[n] = h[n]
    BY <1>1, <2>2
  <2>4. \A n \in D : g[n] = h[n]
    <3>1. AgreeDownwards(g, h, d)
      BY <2>3 DEF AgreeDownwards
    <3> QED BY <2>3, <3>1, Downwards DEF Agree
  <2>5. g = [n \in D |-> g[n]] /\ h = [n \in D |-> h[n]]
    BY <1>3, <1>4
  <2> QED BY <2>4, <2>5
<1>5. (CHOOSE g : g = [n \in D |-> body(g, n)]) = h
  <2> HIDE DEF h, body
  <2> QED BY <1>3, <1>4
<1>6. Below(t, b) = h[b]
  BY <1>1, <1>5 DEF Below
<1> QED BY <1>6

\* Where something has the name looked for: an object, or one of its own events.
Own(t, n, str)     == {k \in DOMAIN Ev(t, n) : Ev(t, n)[k].type # "sub" /\ Ev(t, n)[k].str = str}
Hits(t, d, n, str) == {m \in n .. d : t.node[m].name = str \/ Own(t, m, str) # {}}
FoundFrom(t, d, n, str) ==
    IF Hits(t, d, n, str) = {} THEN NotFound
    ELSE [trans |-> Earliest(Hits(t, d, n, str)),
          ev |-> IF t.node[n].name = str THEN NULL
                 ELSE IF Own(t, n, str) # {} THEN <<n, Earliest(Own(t, n, str))>>
                 ELSE <<n, Len(Ev(t, n))>>]

\* What is found in one object, after what is found in its sub transaction.
FindAt(t, n, str, inner) ==
    LET ev == t.node[n].events
        within(k) == IF ev[k].type = "sub" THEN inner.trans
                     ELSE IF ev[k].str = str THEN n ELSE NULL
        hits == {k \in DOMAIN ev : within(k) # NULL}
        k == Earliest(hits)
    IN  IF t.node[n].name = str THEN [trans |-> n, ev |-> NULL]
        ELSE IF hits = {} THEN NotFound
        ELSE [trans |-> within(k), ev |-> <<n, k>>]

\* One object of the path.
LEMMA FindStep ==
    ASSUME NEW t, NEW d, NEW N, NEW E, Path(t, d, N, E), NEW n \in 1 .. d, NEW str, NEW inner,
           n < d => inner = FoundFrom(t, d, n + 1, str)
    PROVE  FindAt(t, n, str, inner) = FoundFrom(t, d, n, str)
<1> DEFINE ev == Ev(t, n)
           within(k) == IF ev[k].type = "sub" THEN inner.trans
                        ELSE IF ev[k].str = str THEN n ELSE NULL
           hits == {k \in DOMAIN ev : within(k) # NULL}
           own == Own(t, n, str)
           here == Hits(t, d, n, str)
           inside == Hits(t, d, n + 1, str)
           len == Len(ev)
<1>0. FindAt(t, n, str, inner) =
        (IF t.node[n].name = str THEN [trans |-> n, ev |-> NULL]
         ELSE IF hits = {} THEN NotFound
         ELSE [trans |-> within(Earliest(hits)), ev |-> <<n, Earliest(hits)>>])
  BY DEF FindAt, Ev
<1>1. n \in Nat /\ n >= 1 /\ n <= d /\ d \in Nat /\ DOMAIN ev = 1 .. len /\ len \in Nat
  BY SubOf
<1>2. n # NULL /\ \A m \in Nat : m # NULL
  BY <1>1, TransAssumption
<1>3. own \subseteq DOMAIN ev /\ own \subseteq Nat /\ here \subseteq Nat /\ inside \subseteq Nat
  BY <1>1 DEF Own, Hits
<1>4. ASSUME n \in here PROVE Earliest(here) = n
  <2>1. \A m \in here : n <= m
    BY <1>1 DEF Hits
  <2> QED BY <1>3, <1>4, <2>1, EarliestOf
<1>5. CASE t.node[n].name = str
  <2>1. n \in here
    BY <1>1, <1>5 DEF Hits
  <2>2. FoundFrom(t, d, n, str) = [trans |-> n, ev |-> NULL]
    BY <1>4, <1>5, <2>1 DEF FoundFrom
  <2> HIDE DEF hits, within
  <2> QED BY <1>0, <1>5, <2>2
<1>6. CASE t.node[n].name # str
  <2>1. own # {} <=> n \in here
    BY <1>1, <1>6 DEF Hits
  <2>2. \A k \in DOMAIN ev : ev[k].type # "sub" => (k \in hits <=> k \in own)
    BY <1>2 DEF Own
  <2>3. \A k \in DOMAIN ev : ev[k].type = "sub" <=> n < d /\ k = len
    BY DEF Path, Ev
  <2>4. CASE own # {}
    <3>1. Earliest(own) \in own /\ \A j \in own : Earliest(own) <= j
      BY <1>3, <2>4, EarliestIs
    <3>2. hits \subseteq Nat /\ Earliest(own) \in hits
      BY <1>1, <1>3, <2>2, <3>1 DEF Own
    <3>3. \A k \in hits : Earliest(own) <= k
      <4> SUFFICES ASSUME NEW k \in hits PROVE Earliest(own) <= k
        OBVIOUS
      <4>1. CASE ev[k].type # "sub"
        BY <2>2, <3>1, <4>1
      <4>2. CASE ev[k].type = "sub"
        <5>1. k = len /\ Earliest(own) \in 1 .. len
          BY <1>1, <1>3, <2>3, <3>1, <4>2
        <5> QED BY <1>1, <5>1
      <4> QED BY <4>1, <4>2
    <3>4. Earliest(hits) = Earliest(own)
      <4> HIDE DEF hits
      <4> QED BY <3>2, <3>3, EarliestOf
    <3>5. within(Earliest(own)) = n
      BY <1>3, <3>1 DEF Own
    <3>6. hits # {} /\ Earliest(here) = n /\ here # {}
      BY <1>4, <2>1, <2>4, <3>2
    <3>7. FoundFrom(t, d, n, str) = [trans |-> n, ev |-> <<n, Earliest(own)>>]
      <4> HIDE DEF own, here
      <4> QED BY <1>6, <2>4, <3>6 DEF FoundFrom, own, here
    <3>8. [trans |-> within(Earliest(hits)), ev |-> <<n, Earliest(hits)>>] = FoundFrom(t, d, n, str)
      BY <3>4, <3>5, <3>7
    <3> HIDE DEF hits, within
    <3> QED BY <1>0, <1>6, <3>6, <3>8
  <2>5. CASE own = {}
    <3>1. here = inside
      <4>1. \A m \in n .. d : m = n \/ m \in (n + 1) .. d
        BY <1>1
      <4>2. \A m \in (n + 1) .. d : m \in n .. d /\ m # n
        BY <1>1
      <4>3. n \notin here
        BY <2>1, <2>5
      <4> QED BY <4>1, <4>2, <4>3 DEF Hits
    <3>2. CASE inside = {}
      <4>1. hits = {}
        <5> SUFFICES ASSUME NEW k \in DOMAIN ev PROVE k \notin hits
          OBVIOUS
        <5>1. CASE ev[k].type # "sub"
          BY <2>2, <2>5, <5>1
        <5>2. CASE ev[k].type = "sub"
          <6>1. inner = NotFound
            BY <2>3, <3>2, <5>2 DEF FoundFrom
          <6>2. inner.trans = NULL
            BY <6>1 DEF NotFound
          <6> QED BY <5>2, <6>2
        <5> QED BY <5>1, <5>2
      <4>2. FoundFrom(t, d, n, str) = NotFound
        BY <3>1, <3>2 DEF FoundFrom
      <4> HIDE DEF hits, within
      <4> QED BY <1>0, <1>6, <4>1, <4>2
    <3>3. CASE inside # {}
      <4>1. n < d
        BY <1>1, <3>3 DEF Hits
      <4>2. inner.trans = Earliest(inside) /\ Earliest(inside) \in Nat
        BY <1>3, <3>3, <4>1, EarliestIs DEF FoundFrom
      <4>3. len \in DOMAIN ev /\ ev[len].type = "sub" /\ len \in Nat
        BY <1>1, <2>3, <4>1, SubOf
      <4>4. hits = {len}
        <5>1. len \in hits
          BY <1>2, <4>2, <4>3
        <5>2. \A k \in hits : k = len
          BY <2>2, <2>3, <2>5
        <5> HIDE DEF hits
        <5> QED BY <5>1, <5>2
      <4>5. Earliest(hits) = len
        <5>1. len <= len /\ {len} \subseteq Nat
          BY <4>3
        <5>2. Earliest({len}) = len
          <6> HIDE DEF len
          <6> QED BY <5>1, EarliestOf
        <5> HIDE DEF hits
        <5> QED BY <4>4, <5>2
      <4>6. within(Earliest(hits)) = Earliest(here)
        BY <3>1, <4>2, <4>3, <4>5
      <4>7. FoundFrom(t, d, n, str) = [trans |-> Earliest(here), ev |-> <<n, len>>]
        BY <1>6, <2>5, <3>1, <3>3 DEF FoundFrom
      <4>8. [trans |-> within(Earliest(hits)), ev |-> <<n, Earliest(hits)>>] = FoundFrom(t, d, n, str)
        <5> HIDE DEF hits, within
        <5> QED BY <4>5, <4>6, <4>7
      <4>9. hits # {}
        BY <4>4
      <4> HIDE DEF hits, within
      <4> QED BY <1>0, <1>6, <4>8, <4>9
    <3> QED BY <3>2, <3>3
  <2> QED BY <2>4, <2>5
<1> QED BY <1>5, <1>6

\* gda_transaction_status_find() from the root.
LEMMA FindIs ==
    ASSUME NEW t, NEW d, NEW N, NEW E, Path(t, d, N, E), NEW str, str # NULL
    PROVE  Find(t, str) = IF d = 0 THEN NotFound ELSE FoundFrom(t, d, 1, str)
<1>1. /\ d \in Nat /\ t.root = (IF d = 0 THEN NULL ELSE 1) /\ DOMAIN t.node = 1 .. d
      /\ NULL # 1
  BY TransAssumption DEF Path
<1>2. CASE d = 0
  BY <1>1, <1>2 DEF Find
<1>3. CASE d # 0
  <2> DEFINE D == 1 .. d
             body(g, n) == LET ev == t.node[n].events
                               within(k) == IF ev[k].type = "sub" THEN g[ev[k].sub].trans
                                            ELSE IF ev[k].str = str THEN n ELSE NULL
                               hits == {k \in DOMAIN ev : within(k) # NULL}
                               k == Earliest(hits)
                           IN  IF t.node[n].name = str THEN [trans |-> n, ev |-> NULL]
                               ELSE IF hits = {} THEN NotFound
                               ELSE [trans |-> within(k), ev |-> <<n, k>>]
             h == [n \in D |-> FoundFrom(t, d, n, str)]
  <2>1. ASSUME NEW g, NEW n \in D, n < d => g[n + 1] = h[n + 1]
        PROVE  body(g, n) = h[n]
    <3> DEFINE ev == t.node[n].events
               inner == g[n + 1]
               with(k) == IF ev[k].type = "sub" THEN inner.trans
                          ELSE IF ev[k].str = str THEN n ELSE NULL
               within(k) == IF ev[k].type = "sub" THEN g[ev[k].sub].trans
                            ELSE IF ev[k].str = str THEN n ELSE NULL
               hs == {k \in DOMAIN ev : with(k) # NULL}
               hits == {k \in DOMAIN ev : within(k) # NULL}
    <3>1. \A k \in DOMAIN ev : ev[k].type = "sub" => ev[k].sub = n + 1
      BY DEF Path
    <3>2. \A k \in DOMAIN ev : with(k) = within(k)
      BY <3>1
    <3>3. hs = hits
      BY <3>2
    <3>4. n < d => inner = FoundFrom(t, d, n + 1, str)
      <4>1. n < d => n + 1 \in D
        BY <1>1
      <4> QED BY <2>1, <4>1
    <3>5. (IF t.node[n].name = str THEN [trans |-> n, ev |-> NULL]
           ELSE IF hs = {} THEN NotFound
           ELSE [trans |-> with(Earliest(hs)), ev |-> <<n, Earliest(hs)>>]) = FoundFrom(t, d, n, str)
      <4>1. FindAt(t, n, str, inner) = FoundFrom(t, d, n, str)
        <5> HIDE DEF inner
        <5> QED BY <3>4, FindStep
      <4> QED BY <4>1 DEF FindAt
    <3>6. hits # {} => Earliest(hits) \in DOMAIN ev
      <4>1. hits \subseteq DOMAIN ev /\ hits \subseteq Nat
        <5>1. DOMAIN ev = 1 .. Len(ev) /\ Len(ev) \in Nat
          BY SubOf DEF Ev
        <5> HIDE DEF ev
        <5> QED BY <5>1
      <4> HIDE DEF hits
      <4> QED BY <4>1, EarliestIs
    <3>7. (IF t.node[n].name = str THEN [trans |-> n, ev |-> NULL]
           ELSE IF hits = {} THEN NotFound
           ELSE [trans |-> within(Earliest(hits)), ev |-> <<n, Earliest(hits)>>]) = FoundFrom(t, d, n, str)
      <4> HIDE DEF hits, hs, with, within
      <4> QED BY <3>2, <3>3, <3>5, <3>6
    <3>8. body(g, n) = (IF t.node[n].name = str THEN [trans |-> n, ev |-> NULL]
                        ELSE IF hits = {} THEN NotFound
                        ELSE [trans |-> within(Earliest(hits)), ev |-> <<n, Earliest(hits)>>])
      OBVIOUS
    <3> HIDE DEF body, hits, within
    <3> QED BY <3>7, <3>8
  <2>2. h = [n \in D |-> body(h, n)]
    <3>1. \A n \in D : h[n] = body(h, n)
      <4> HIDE DEF body
      <4> QED BY <2>1
    <3>2. h = [n \in D |-> h[n]]
      OBVIOUS
    <3> HIDE DEF h, body
    <3> QED BY <3>1, <3>2
  <2>3. ASSUME NEW g, g = [n \in D |-> body(g, n)] PROVE g = h
    <3>1. \A n \in D : g[n] = body(g, n)
      BY <2>3
    <3>2. ASSUME NEW n \in D, \A m \in D : m > n => g[m] = h[m] PROVE g[n] = h[n]
      <4>1. n < d => g[n + 1] = h[n + 1]
        BY <1>1, <3>2
      <4> HIDE DEF h, body
      <4> QED BY <2>1, <3>1, <4>1
    <3> HIDE DEF h, body
    <3>3. d \in Nat /\ \A n \in 1 .. d : (\A m \in 1 .. d : m > n => g[m] = h[m]) => g[n] = h[n]
      BY <1>1, <3>2
    <3>4. \A n \in D : g[n] = h[n]
      <4>1. AgreeDownwards(g, h, d)
        BY <3>3 DEF AgreeDownwards
      <4> QED BY <3>3, <4>1, Downwards DEF Agree
    <3>5. g = [n \in D |-> g[n]] /\ h = [n \in D |-> h[n]]
      BY <2>2, <2>3
    <3> QED BY <3>4, <3>5
  <2>4. (CHOOSE g : g = [n \in D |-> body(g, n)]) = h
    <3> HIDE DEF h, body
    <3> QED BY <2>2, <2>3
  <2>5. Find(t, str) = h[1]
    BY <1>1, <1>3, <2>4, ZenonT(40) DEF Find
  <2>6. 1 \in D
    BY <1>1, <1>3
  <2> QED BY <1>3, <2>5, <2>6
<1> QED BY <1>2, <1>3

-----------------------------------------------------------------------------
(* The operations.                                                         *)

\* The shape from the parts.
LEMMA PathFrom ==
    ASSUME NEW t, NEW d \in Nat, NEW N, NEW E,
           t = [root |-> IF d = 0 THEN NULL ELSE 1, node |-> t.node],
           t.node \in [1 .. d -> [name : N, events : Seq(E)]],
           \A n \in 1 .. d : /\ n < d => Len(Ev(t, n)) > 0
                             /\ \A k \in DOMAIN Ev(t, n) :
                                  /\ Ev(t, n)[k].type = "sub" <=> n < d /\ k = Len(Ev(t, n))
                                  /\ Ev(t, n)[k].type = "sub" => Ev(t, n)[k].sub = n + 1
    PROVE  Path(t, d, N, E)
BY DEF Path, Ev

\* ... and back.
LEMMA PathOf ==
    ASSUME NEW t, NEW d, NEW N, NEW E, Path(t, d, N, E)
    PROVE  /\ d \in Nat
           /\ t = [root |-> IF d = 0 THEN NULL ELSE 1, node |-> t.node]
           /\ t.root = (IF d = 0 THEN NULL ELSE 1)
           /\ t.node \in [1 .. d -> [name : N, events : Seq(E)]] /\ DOMAIN t.node = 1 .. d
           /\ \A n \in 1 .. d : /\ n < d => Len(Ev(t, n)) > 0
                                /\ \A k \in DOMAIN Ev(t, n) :
                                     /\ Ev(t, n)[k].type = "sub" <=> n < d /\ k = Len(Ev(t, n))
                                     /\ Ev(t, n)[k].type = "sub" => Ev(t, n)[k].sub = n + 1
BY DEF Path, Ev

\* The innermost of d objects has one more event.
Appended(r, t, d, e) ==
    /\ r.root = t.root
    /\ \A n \in 1 .. d : r.node[n].name = t.node[n].name
    /\ \A n \in 1 .. d : Ev(r, n) = IF n = d THEN Append(Ev(t, d), e) ELSE Ev(t, n)

\* An event is added to the innermost object.
LEMMA AppendedIs ==
    ASSUME NEW t, NEW d, NEW N, NEW E, Path(t, d, N, E), d # 0, NEW e \in E, e.type # "sub"
    PROVE  LET r == Append1(t, d, e)
           IN  Path(r, d, N, E) /\ Appended(r, t, d, e)
<1> DEFINE r == Append1(t, d, e)
           s == Append(Ev(t, d), e)
<1>1. /\ d \in Nat /\ t = [root |-> IF d = 0 THEN NULL ELSE 1, node |-> t.node]
      /\ t.node \in [1 .. d -> [name : N, events : Seq(E)]] /\ DOMAIN t.node = 1 .. d
      /\ d \in 1 .. d
  BY PathOf
<1>2. r = [t EXCEPT !.node[d].events = s]
  BY DEF Append1, Ev
<1>3. t.node[d] = [name |-> t.node[d].name, events |-> Ev(t, d)] /\ Ev(t, d) \in Seq(E)
      /\ t.node[d].name \in N
  <2>1. t.node[d] \in [name : N, events : Seq(E)]
    BY <1>1
  <2> QED BY <2>1 DEF Ev
<1>4. s \in Seq(E) /\ Len(s) = Len(Ev(t, d)) + 1 /\ s[Len(s)] = e /\ Len(Ev(t, d)) \in Nat
      /\ \A k \in 1 .. Len(Ev(t, d)) : s[k] = Ev(t, d)[k]
  BY <1>3
<1> DEFINE node == [t.node EXCEPT ![d] = [name |-> t.node[d].name, events |-> s]]
<1>5. r = [root |-> t.root, node |-> node]
  <2> HIDE DEF s, r
  <2>1. [t.node EXCEPT ![d].events = s] = node
    <3>1. [t.node[d] EXCEPT !.events = s] = [name |-> t.node[d].name, events |-> s]
      BY <1>3
    <3>2. [t.node EXCEPT ![d].events = s] = [t.node EXCEPT ![d] = [t.node[d] EXCEPT !.events = s]]
      BY <1>1
    <3> QED BY <3>1, <3>2
  <2>2. r = [t EXCEPT !.node = [t.node EXCEPT ![d].events = s]]
    BY <1>2
  <2>3. r = [t EXCEPT !.node = node]
    BY <2>1, <2>2
  <2> HIDE DEF node
  <2> QED BY <1>1, <2>3
<1> HIDE DEF r, s
<1>6. node \in [1 .. d -> [name : N, events : Seq(E)]]
  BY <1>1, <1>3, <1>4
<1>7. \A n \in 1 .. d : node[n] = IF n = d THEN [name |-> t.node[d].name, events |-> s] ELSE t.node[n]
  BY <1>1
<1> HIDE DEF node
<1>8. r.root = t.root /\ r.node = node /\ r = [root |-> r.root, node |-> r.node]
  BY <1>5
<1>9. \A n \in 1 .. d : /\ r.node[n].name = t.node[n].name
                        /\ Ev(r, n) = IF n = d THEN s ELSE Ev(t, n)
  BY <1>7, <1>8 DEF Ev
<1>10. ASSUME NEW n \in 1 .. d
       PROVE  /\ n < d => Len(Ev(r, n)) > 0
              /\ \A k \in DOMAIN Ev(r, n) :
                   /\ Ev(r, n)[k].type = "sub" <=> n < d /\ k = Len(Ev(r, n))
                   /\ Ev(r, n)[k].type = "sub" => Ev(r, n)[k].sub = n + 1
  <2>1. CASE n = d
    <3>1. \A k \in DOMAIN s : s[k].type # "sub"
      <4> SUFFICES ASSUME NEW k \in DOMAIN s PROVE s[k].type # "sub"
        OBVIOUS
      <4>1. k \in 1 .. Len(Ev(t, d)) \/ k = Len(s)
        BY <1>4
      <4>2. CASE k \in 1 .. Len(Ev(t, d))
        <5>1. DOMAIN Ev(t, d) = 1 .. Len(Ev(t, d))
          BY <1>3
        <5> QED BY <1>1, <1>4, <4>2, <5>1, PathOf
      <4> QED BY <1>4, <4>1, <4>2
    <3> QED BY <1>1, <1>9, <2>1, <3>1
  <2>2. CASE n # d
    BY <1>9, <2>2, PathOf
  <2> QED BY <2>1, <2>2
<1>11. d \in Nat /\ r.root = (IF d = 0 THEN NULL ELSE 1)
  BY <1>8, PathOf
<1>12. Path(r, d, N, E)
  BY <1>6, <1>8, <1>10, <1>11, PathFrom
<1> QED BY <1>8, <1>9, <1>12 DEF r, s, Appended

\* n objects are left of t, the last one without the event k and those after it.
Cut(r, t, n, k) ==
    \A m \in 1 .. n : /\ r.node[m].name = t.node[m].name
                      /\ Ev(r, m) = IF m = n THEN SubSeq(Ev(t, n), 1, k - 1) ELSE Ev(t, m)

\* gda_transaction_status_free_events() of an event and those after it, with what
\* is below them.
LEMMA CutIs ==
    ASSUME NEW t, NEW d, NEW N, NEW E, Path(t, d, N, E), NEW n \in 1 .. d, NEW k \in DOMAIN Ev(t, n)
    PROVE  LET r == FreeEvents(t, n, <<n, k>>, TRUE)
           IN  Path(r, n, N, E) /\ Cut(r, t, n, k)
<1> DEFINE r == FreeEvents(t, n, <<n, k>>, TRUE)
           all == Ev(t, n)
           s == SubSeq(all, 1, k - 1)
           gone == {all[i].sub : i \in {j \in DOMAIN all : /\ all[j].type = "sub"
                                                           /\ j = k \/ (j > k /\ TRUE)}}
<1>1. /\ d \in Nat /\ t = [root |-> IF d = 0 THEN NULL ELSE 1, node |-> t.node]
      /\ t.node \in [1 .. d -> [name : N, events : Seq(E)]] /\ DOMAIN t.node = 1 .. d
  BY PathOf
<1>2. /\ n \in Nat /\ n >= 1 /\ n <= d
      /\ all \in Seq(E) /\ t.node[n].name \in N /\ Len(all) \in Nat /\ DOMAIN all = 1 .. Len(all)
  BY SubOf
<1>3. \A j \in DOMAIN all : /\ all[j].type = "sub" <=> n < d /\ j = Len(all)
                            /\ all[j].type = "sub" => all[j].sub = n + 1
  BY PathOf
<1>4. s \in Seq(E) /\ Len(s) = k - 1 /\ \A j \in 1 .. k - 1 : s[j] = all[j]
  <2>1. 1 \in Int /\ k - 1 \in Int /\ k \in Nat /\ k >= 1 /\ k <= Len(all)
    BY <1>2
  <2>2. \A i \in 1 .. k - 1 : all[i] \in E
    BY <1>2, <2>1
  <2> DEFINE b == k - 1
  <2>3. b \in Int /\ 1 \in Int /\ \A i \in 1 .. b : all[i] \in E
    BY <2>1, <2>2
  <2> HIDE DEF b, all
  <2>4. /\ SubSeq(all, 1, b) \in Seq(E)
        /\ Len(SubSeq(all, 1, b)) = IF 1 <= b THEN b - 1 + 1 ELSE 0
        /\ \A i \in 1 .. b - 1 + 1 : SubSeq(all, 1, b)[i] = all[1 + i - 1]
    BY <2>3, SubSeqProperties
  <2>5. /\ (IF 1 <= b THEN b - 1 + 1 ELSE 0) = k - 1 /\ b - 1 + 1 = k - 1
        /\ \A i \in 1 .. k - 1 : 1 + i - 1 = i
    BY <2>1 DEF b
  <2> QED BY <2>4, <2>5 DEF b
<1>5. DOMAIN t.node \ UNION {Below(t, m) : m \in gone} = 1 .. n
  <2>1. CASE n = d
    <3>1. gone = {}
      BY <1>3, <2>1
    <3> QED BY <1>1, <2>1, <3>1
  <2>2. CASE n # d
    <3>1. n < d /\ n + 1 \in 1 .. d
      BY <1>1, <1>2, <2>2
    <3>2. Len(all) \in DOMAIN all /\ (Len(all) = k \/ Len(all) > k)
      BY <1>2
    <3>3. all[Len(all)].type = "sub" /\ all[Len(all)].sub = n + 1
      BY <1>3, <3>1, <3>2
    <3>4. gone = {n + 1}
      <4>1. n + 1 \in gone
        BY <3>2, <3>3
      <4>2. \A g \in gone : g = n + 1
        BY <1>3
      <4> HIDE DEF gone
      <4> QED BY <4>1, <4>2
    <3>5. Below(t, n + 1) = (n + 1) .. d
      BY <3>1, BelowIs
    <3>6. UNION {Below(t, m) : m \in gone} = (n + 1) .. d
      <4> HIDE DEF gone
      <4> QED BY <3>4, <3>5
    <3>7. (1 .. d) \ ((n + 1) .. d) = 1 .. n
      BY <1>1, <1>2
    <3> HIDE DEF gone
    <3> QED BY <1>1, <3>6, <3>7
  <2> QED BY <2>1, <2>2
<1> DEFINE u == [t EXCEPT !.node[n].events = s]
           node == [m \in 1 .. n |-> IF m = n THEN [name |-> t.node[n].name, events |-> s] ELSE t.node[m]]
<1>6. r = Keeping(u, 1 .. n)
  <2>1. s \o << >> = s
    BY <1>4
  <2>2. <<n, k>>[1] = n /\ <<n, k>>[2] = k /\ <<n, k>> # NULL
    BY <1>2, TransAssumption
  <2>3. r = Keeping([t EXCEPT !.node[n].events = s \o << >>],
                    DOMAIN t.node \ UNION {Below(t, m) : m \in gone})
    BY <2>2 DEF FreeEvents, Ev
  <2> HIDE DEF r, s, gone
  <2> QED BY <1>5, <2>1, <2>3
<1>7. u = [root |-> t.root, node |-> [t.node EXCEPT ![n].events = s]]
  <2> HIDE DEF s
  <2>1. u = [t EXCEPT !.node = [t.node EXCEPT ![n].events = s]]
    OBVIOUS
  <2> HIDE DEF u
  <2> DEFINE v == [t.node EXCEPT ![n].events = s]
  <2>2. u = [t EXCEPT !.node = v]
    BY <2>1
  <2> HIDE DEF v
  <2>3. u = [root |-> t.root, node |-> v]
    BY <1>1, <2>2
  <2> QED BY <2>3 DEF v
<1>8. t.node[n] = [name |-> t.node[n].name, events |-> all]
  <2>1. t.node[n] \in [name : N, events : Seq(E)]
    BY <1>1
  <2> QED BY <2>1 DEF Ev
<1>9. \A m \in 1 .. n : u.node[m] = node[m]
  <2> HIDE DEF s
  <2>1. u.node = [t.node EXCEPT ![n].events = s]
    BY <1>7
  <2> HIDE DEF u
  <2>2. \A m \in 1 .. n : m \in 1 .. d
    BY <1>1, <1>2
  <2> QED BY <1>1, <1>8, <2>1, <2>2
<1>10. r = [root |-> t.root, node |-> node]
  <2>1. r = [u EXCEPT !.node = [m \in 1 .. n |-> u.node[m]]]
    BY <1>6 DEF Keeping
  <2>2. [m \in 1 .. n |-> u.node[m]] = node
    BY <1>9
  <2> HIDE DEF node, r
  <2>3. r = [u EXCEPT !.node = node]
    BY <2>1, <2>2
  <2> HIDE DEF u
  <2> QED BY <1>7, <2>3
<1> HIDE DEF r, s, all
<1>11. node \in [1 .. n -> [name : N, events : Seq(E)]]
  <2>1. \A m \in 1 .. n : m \in 1 .. d
    BY <1>1, <1>2
  <2> QED BY <1>1, <1>2, <1>4, <2>1
<1>12. \A m \in 1 .. n : node[m] = IF m = n THEN [name |-> t.node[n].name, events |-> s] ELSE t.node[m]
  OBVIOUS
<1> HIDE DEF node
<1>13. r.root = t.root /\ r.node = node /\ r = [root |-> r.root, node |-> r.node]
  BY <1>10
<1>14. \A m \in 1 .. n : /\ r.node[m].name = t.node[m].name
                         /\ Ev(r, m) = IF m = n THEN s ELSE Ev(t, m)
  BY <1>12, <1>13 DEF Ev
<1>15. ASSUME NEW m \in 1 .. n
       PROVE  /\ m < n => Len(Ev(r, m)) > 0
              /\ \A j \in DOMAIN Ev(r, m) :
                   /\ Ev(r, m)[j].type = "sub" <=> m < n /\ j = Len(Ev(r, m))
                   /\ Ev(r, m)[j].type = "sub" => Ev(r, m)[j].sub = m + 1
  <2>1. CASE m = n
    <3>1. \A j \in DOMAIN s : s[j].type # "sub"
      <4> SUFFICES ASSUME NEW j \in DOMAIN s PROVE s[j].type # "sub"
        OBVIOUS
      <4>1. j \in 1 .. k - 1 /\ j \in DOMAIN all /\ j # Len(all)
        <5>1. DOMAIN s = 1 .. Len(s) /\ k \in 1 .. Len(all)
          BY <1>2, <1>4 DEF all
        <5> QED BY <1>2, <1>4, <5>1
      <4> QED BY <1>3, <1>4, <4>1
    <3>2. ~(m < n)
      BY <1>2, <2>1
    <3> QED BY <1>14, <2>1, <3>1, <3>2
  <2>2. CASE m # n
    <3>1. m \in 1 .. d /\ m < d /\ m < n
      BY <1>1, <1>2, <2>2
    <3> QED BY <1>14, <2>2, <3>1, PathOf
  <2> QED BY <2>1, <2>2
<1>16. n \in Nat /\ r.root = (IF n = 0 THEN NULL ELSE 1)
  BY <1>1, <1>2, <1>13
<1>17. Path(r, n, N, E)
  BY <1>11, <1>13, <1>15, <1>16, PathFrom
<1> QED BY <1>14, <1>17 DEF r, s, all, Cut

\* The outermost of d objects has lost its event k.
Without(r, t, d, k) ==
    /\ \A m \in 1 .. d : /\ r.node[m].name = t.node[m].name
                         /\ m # 1 => Ev(r, m) = Ev(t, m)
    /\ Len(Ev(r, 1)) = Len(Ev(t, 1)) - 1
    /\ \A j \in 1 .. Len(Ev(r, 1)) : Ev(r, 1)[j] = IF j < k THEN Ev(t, 1)[j] ELSE Ev(t, 1)[j + 1]

\* gda_transaction_status_free_events() of one event of the outermost object.
LEMMA RemovedIs ==
    ASSUME NEW t, NEW d, NEW N, NEW E, Path(t, d, N, E), d # 0,
           NEW k \in DOMAIN Ev(t, 1), Ev(t, 1)[k].type # "sub"
    PROVE  LET r == FreeEvents(t, 1, <<1, k>>, FALSE)
           IN  Path(r, d, N, E) /\ Without(r, t, d, k)
<1> DEFINE r == FreeEvents(t, 1, <<1, k>>, FALSE)
           all == Ev(t, 1)
           b == k - 1
           c == k + 1
           len == Len(all)
           s == SubSeq(all, 1, b) \o SubSeq(all, c, len)
           gone == {all[i].sub : i \in {j \in DOMAIN all : /\ all[j].type = "sub"
                                                           /\ j = k \/ (j > k /\ FALSE)}}
<1>1. /\ d \in Nat /\ t = [root |-> IF d = 0 THEN NULL ELSE 1, node |-> t.node]
      /\ t.node \in [1 .. d -> [name : N, events : Seq(E)]] /\ DOMAIN t.node = 1 .. d
      /\ 1 \in 1 .. d
  BY PathOf
<1>2. /\ all \in Seq(E) /\ t.node[1].name \in N /\ len \in Nat /\ DOMAIN all = 1 .. len
  BY <1>1, SubOf
<1>3. \A j \in DOMAIN all : /\ all[j].type = "sub" <=> 1 < d /\ j = len
                            /\ all[j].type = "sub" => all[j].sub = 1 + 1
  BY <1>1, PathOf
<1>4. k \in Nat /\ k >= 1 /\ k <= len
  BY <1>2
<1>5. /\ s \in Seq(E) /\ Len(s) = len - 1
      /\ \A j \in 1 .. Len(s) : s[j] = IF j < k THEN all[j] ELSE all[j + 1]
  <2>1. b \in Int /\ c \in Int /\ 1 \in Int /\ len \in Int
        /\ (\A i \in 1 .. b : all[i] \in E) /\ (\A i \in c .. len : all[i] \in E)
    BY <1>2, <1>4
  <2> HIDE DEF b, c, len, all
  <2>2. /\ SubSeq(all, 1, b) \in Seq(E)
        /\ Len(SubSeq(all, 1, b)) = IF 1 <= b THEN b - 1 + 1 ELSE 0
        /\ \A i \in 1 .. b - 1 + 1 : SubSeq(all, 1, b)[i] = all[1 + i - 1]
    BY <2>1, SubSeqProperties
  <2>3. /\ SubSeq(all, c, len) \in Seq(E)
        /\ Len(SubSeq(all, c, len)) = IF c <= len THEN len - c + 1 ELSE 0
        /\ \A i \in 1 .. len - c + 1 : SubSeq(all, c, len)[i] = all[c + i - 1]
    BY <2>1, SubSeqProperties
  <2> DEFINE s1 == SubSeq(all, 1, b)
             s2 == SubSeq(all, c, len)
  <2>4. s1 \in Seq(E) /\ Len(s1) = k - 1 /\ \A i \in 1 .. k - 1 : s1[i] = all[i]
    <3>1. /\ (IF 1 <= b THEN b - 1 + 1 ELSE 0) = k - 1 /\ b - 1 + 1 = k - 1
          /\ \A i \in 1 .. k - 1 : 1 + i - 1 = i
      BY <1>4 DEF b
    <3> QED BY <2>2, <3>1
  <2>5. s2 \in Seq(E) /\ Len(s2) = len - k /\ \A i \in 1 .. len - k : s2[i] = all[k + i]
    <3>1. /\ (IF c <= len THEN len - c + 1 ELSE 0) = len - k /\ len - c + 1 = len - k
          /\ \A i \in 1 .. len - k : c + i - 1 = k + i
      BY <1>2, <1>4 DEF c
    <3> QED BY <2>3, <3>1
  <2> HIDE DEF s1, s2
  <2>6. /\ s1 \o s2 \in Seq(E) /\ Len(s1 \o s2) = len - 1
        /\ \A j \in 1 .. len - 1 : (s1 \o s2)[j] = IF j <= k - 1 THEN s1[j] ELSE s2[j - (k - 1)]
    <3>1. /\ s1 \o s2 \in Seq(E) /\ Len(s1 \o s2) = Len(s1) + Len(s2)
          /\ \A j \in 1 .. Len(s1) + Len(s2) : (s1 \o s2)[j] = IF j <= Len(s1) THEN s1[j]
                                                                 ELSE s2[j - Len(s1)]
      BY <2>4, <2>5, ConcatProperties
    <3>2. Len(s1) + Len(s2) = len - 1 /\ Len(s1) = k - 1
      BY <1>2, <1>4, <2>4, <2>5
    <3> QED BY <3>1, <3>2
  <2>7. \A j \in 1 .. len - 1 : (s1 \o s2)[j] = IF j < k THEN all[j] ELSE all[j + 1]
    <3> SUFFICES ASSUME NEW j \in 1 .. len - 1
                 PROVE  (s1 \o s2)[j] = IF j < k THEN all[j] ELSE all[j + 1]
      OBVIOUS
    <3>1. CASE j < k
      <4>1. j \in 1 .. k - 1 /\ j <= k - 1
        BY <1>4, <3>1
      <4> QED BY <2>4, <2>6, <3>1, <4>1
    <3>2. CASE ~(j < k)
      <4>1. j - (k - 1) \in 1 .. len - k /\ ~(j <= k - 1) /\ k + (j - (k - 1)) = j + 1
        BY <1>2, <1>4, <3>2
      <4>2. (s1 \o s2)[j] = s2[j - (k - 1)]
        BY <2>6, <4>1
      <4>3. s2[j - (k - 1)] = all[k + (j - (k - 1))]
        BY <2>5, <4>1
      <4> QED BY <3>2, <4>1, <4>2, <4>3
    <3> QED BY <3>1, <3>2
  <2> QED BY <2>6, <2>7 DEF s1, s2
<1> HIDE DEF s
<1>6. gone = {}
  OBVIOUS
<1> DEFINE u == [t EXCEPT !.node[1].events = s]
           node == [m \in 1 .. d |-> IF m = 1 THEN [name |-> t.node[1].name, events |-> s] ELSE t.node[m]]
<1>7. r = Keeping(u, 1 .. d)
  <2>1. <<1, k>>[1] = 1 /\ <<1, k>>[2] = k /\ <<1, k>> # NULL
    BY <1>4, TransAssumption
  <2>2. r = Keeping([t EXCEPT !.node[1].events = SubSeq(all, 1, k - 1) \o SubSeq(all, k + 1, Len(all))],
                    DOMAIN t.node \ UNION {Below(t, m) : m \in gone})
    BY <2>1 DEF FreeEvents, Ev
  <2>3. DOMAIN t.node \ UNION {Below(t, m) : m \in gone} = 1 .. d
    BY <1>1, <1>6
  <2> HIDE DEF r, gone
  <2> QED BY <2>2, <2>3 DEF s
<1>8. u = [root |-> t.root, node |-> [t.node EXCEPT ![1].events = s]]
  <2>1. u = [t EXCEPT !.node = [t.node EXCEPT ![1].events = s]]
    OBVIOUS
  <2> HIDE DEF u
  <2> DEFINE v == [t.node EXCEPT ![1].events = s]
  <2>2. u = [t EXCEPT !.node = v]
    BY <2>1
  <2> HIDE DEF v
  <2>3. u = [root |-> t.root, node |-> v]
    BY <1>1, <2>2
  <2> QED BY <2>3 DEF v
<1>9. t.node[1] = [name |-> t.node[1].name, events |-> all]
  <2>1. t.node[1] \in [name : N, events : Seq(E)]
    BY <1>1
  <2> QED BY <2>1 DEF Ev
<1>10. \A m \in 1 .. d : u.node[m] = node[m]
  <2>1. u.node = [t.node EXCEPT ![1].events = s]
    BY <1>8
  <2> HIDE DEF u
  <2> QED BY <1>1, <1>9, <2>1
<1>11. r = [root |-> t.root, node |-> node]
  <2>1. r = [u EXCEPT !.node = [m \in 1 .. d |-> u.node[m]]]
    BY <1>7 DEF Keeping
  <2>2. [m \in 1 .. d |-> u.node[m]] = node
    BY <1>10
  <2> HIDE DEF node, r
  <2>3. r = [u EXCEPT !.node = node]
    BY <2>1, <2>2
  <2> HIDE DEF u
  <2> QED BY <1>8, <2>3
<1> HIDE DEF r, all, len
<1>12. node \in [1 .. d -> [name : N, events : Seq(E)]]
  BY <1>1, <1>2, <1>5
<1>13. \A m \in 1 .. d : node[m] = IF m = 1 THEN [name |-> t.node[1].name, events |-> s] ELSE t.node[m]
  OBVIOUS
<1> HIDE DEF node
<1>14. r.root = t.root /\ r.node = node /\ r = [root |-> r.root, node |-> r.node]
  BY <1>11
<1>15. \A m \in 1 .. d : /\ r.node[m].name = t.node[m].name
                         /\ Ev(r, m) = IF m = 1 THEN s ELSE Ev(t, m)
  BY <1>13, <1>14 DEF Ev
<1>16. ASSUME NEW m \in 1 .. d
       PROVE  /\ m < d => Len(Ev(r, m)) > 0
              /\ \A j \in DOMAIN Ev(r, m) :
                   /\ Ev(r, m)[j].type = "sub" <=> m < d /\ j = Len(Ev(r, m))
                   /\ Ev(r, m)[j].type = "sub" => Ev(r, m)[j].sub = m + 1
  <2>1. CASE m = 1
    <3>1. all[k].type # "sub"
      BY DEF all
    <3>2. 1 < d => k < len
      BY <1>1, <1>2, <1>3, <1>4, <3>1, PathOf DEF all, len
    <3>3. Len(s) = len - 1 /\ len - 1 \in Nat /\ DOMAIN s = 1 .. len - 1
      BY <1>2, <1>4, <1>5
    <3>4. ASSUME NEW j \in DOMAIN s
          PROVE  /\ s[j].type = "sub" <=> 1 < d /\ j = Len(s)
                 /\ s[j].type = "sub" => s[j].sub = 1 + 1
      <4>1. j \in Nat /\ j >= 1 /\ j <= len - 1
        BY <3>3
      <4>2. CASE j < k
        <5>1. s[j] = all[j] /\ j \in DOMAIN all /\ j # len
          BY <1>2, <1>4, <1>5, <3>3, <4>1, <4>2
        <5>2. 1 < d => j # Len(s)
          BY <1>2, <1>4, <3>2, <3>3, <4>1, <4>2
        <5> QED BY <1>3, <5>1, <5>2
      <4>3. CASE ~(j < k)
        <5>1. s[j] = all[j + 1] /\ j + 1 \in DOMAIN all
          BY <1>2, <1>4, <1>5, <3>3, <4>1, <4>3
        <5>2. j + 1 = len <=> j = Len(s)
          BY <1>2, <3>3, <4>1
        <5> QED BY <1>3, <5>1, <5>2
      <4> QED BY <4>2, <4>3
    <3>5. 1 < d => Len(s) > 0
      BY <1>2, <1>4, <3>2, <3>3
    <3> QED BY <1>15, <2>1, <3>4, <3>5
  <2>2. CASE m # 1
    BY <1>15, <2>2, PathOf
  <2> QED BY <2>1, <2>2
<1>17. d \in Nat /\ r.root = (IF d = 0 THEN NULL ELSE 1)
  BY <1>14, PathOf
<1>18. Path(r, d, N, E)
  BY <1>12, <1>14, <1>16, <1>17, PathFrom
<1>19. Without(r, t, d, k)
  <2>1. Ev(r, 1) = s
    BY <1>1, <1>15
  <2>2. Len(Ev(r, 1)) = len - 1
    BY <1>5, <2>1
  <2>3. \A j \in 1 .. Len(Ev(r, 1)) : Ev(r, 1)[j] = IF j < k THEN all[j] ELSE all[j + 1]
    BY <1>5, <2>1
  <2> QED BY <1>15, <2>2, <2>3 DEF Without, all, len
<1> QED BY <1>18, <1>19 DEF r

\* An object is added to d others.
Started(r, t, d, name) ==
    \A m \in 1 .. d + 1 :
       /\ r.node[m].name = IF m = d + 1 THEN name ELSE t.node[m].name
       /\ Ev(r, m) = IF m = d + 1 THEN << >>
                     ELSE IF m = d THEN Append(Ev(t, d), SubEvent(d + 1)) ELSE Ev(t, m)

\* gda_connection_internal_transaction_started(): one more, in the innermost one.
LEMMA StartedIs ==
    ASSUME NEW t, NEW d, NEW N, NEW E, Path(t, d, N, E), Unused(t) # {}, NEW name \in N,
           SubEvent(d + 1) \in E
    PROVE  LET r == TransactionStarted(t, name)
           IN  Path(r, d + 1, N, E) /\ Started(r, t, d, name)
<1> DEFINE r == TransactionStarted(t, name)
           x == d + 1
           fresh == [i \in DOMAIN t.node \cup {x} |->
                       IF i = x THEN [name |-> name, events |-> << >>] ELSE t.node[i]]
           s == Append(Ev(t, d), SubEvent(x))
           last == [name |-> t.node[d].name, events |-> s]
           node == [m \in 1 .. x |-> IF m = x THEN [name |-> name, events |-> << >>]
                                     ELSE IF m = d THEN last ELSE t.node[m]]
<1>1. /\ d \in Nat /\ t = [root |-> IF d = 0 THEN NULL ELSE 1, node |-> t.node]
      /\ t.root = (IF d = 0 THEN NULL ELSE 1)
      /\ t.node \in [1 .. d -> [name : N, events : Seq(E)]] /\ DOMAIN t.node = 1 .. d
      /\ x \in Nat /\ x = d + 1
  BY PathOf
<1>2. Earliest(Unused(t)) = x
  <2>1. Unused(t) = (1 .. MaxTrans) \ (1 .. d) /\ MaxTrans \in Nat
    BY <1>1, TransAssumption DEF Unused
  <2>2. PICK i \in Unused(t) : TRUE
    OBVIOUS
  <2>3. i \in Nat /\ i <= MaxTrans /\ i > d
    BY <1>1, <2>1, <2>2
  <2>4. x \in Unused(t) /\ Unused(t) \subseteq Nat /\ \A j \in Unused(t) : x <= j
    BY <1>1, <2>1, <2>3
  <2> HIDE DEF x
  <2> QED BY <2>4, EarliestOf
<1>3. Find(t, NULL).trans = IF d = 0 THEN NULL ELSE d
  <2>1. Find(t, NULL) = IF d = 0 THEN NotFound ELSE FindCurrent(t)
    BY <1>1, TransAssumption DEF Find
  <2>2. d # 0 => FindCurrent(t).trans = d
    BY FindCurrentIs
  <2> QED BY <2>1, <2>2 DEF NotFound
<1>4. DOMAIN t.node \cup {x} = 1 .. x
  BY <1>1
<1>5. r = [root |-> 1, node |-> node]
  <2>1. CASE d = 0
    <3>1. r = [root |-> x, node |-> fresh]
      <4> HIDE DEF x
      <4> QED BY <1>2, <1>3, <2>1 DEF TransactionStarted
    <3>2. fresh = node
      BY <1>1, <1>4, <2>1
    <3>3. x = 1
      BY <2>1
    <3> HIDE DEF fresh, node, x, r
    <3> QED BY <3>1, <3>2, <3>3
  <2>2. CASE d # 0
    <3>1. d # NULL
      BY <1>1, TransAssumption
    <3>2. r = Append1([t EXCEPT !.node = fresh], d, SubEvent(x))
      <4> HIDE DEF x
      <4> QED BY <1>2, <1>3, <2>2, <3>1 DEF TransactionStarted
    <3> HIDE DEF fresh
    <3>3. [t EXCEPT !.node = fresh] = [root |-> 1, node |-> fresh]
      <4>1. t = [root |-> 1, node |-> t.node]
        BY <1>1, <2>2
      <4> QED BY <4>1
    <3>4. r = [[root |-> 1, node |-> fresh] EXCEPT !.node[d].events = Append(@, SubEvent(x))]
      <4> HIDE DEF r, x
      <4> QED BY <3>2, <3>3 DEF Append1
    <3>5. d \in 1 .. d /\ d \in 1 .. x /\ d # x
      BY <1>1, <2>2
    <3>6. fresh[d] = t.node[d]
      BY <1>1, <1>4, <3>5 DEF fresh
    <3>7. t.node[d] = [name |-> t.node[d].name, events |-> Ev(t, d)]
      <4>1. t.node[d] \in [name : N, events : Seq(E)]
        BY <1>1, <3>5
      <4> QED BY <4>1 DEF Ev
    <3>8. r = [root |-> 1, node |-> [fresh EXCEPT ![d].events = s]]
      <4>1. Append(fresh[d].events, SubEvent(x)) = s
        BY <3>6 DEF Ev
      <4> HIDE DEF r, s, x
      <4>2. r = [root |-> 1, node |-> [fresh EXCEPT ![d].events = Append(fresh[d].events, SubEvent(x))]]
        BY <3>4
      <4> QED BY <4>1, <4>2
    <3>9. [fresh[d] EXCEPT !.events = s] = last
      <4> HIDE DEF s
      <4> QED BY <3>6, <3>7
    <3>10. [fresh EXCEPT ![d].events = s] = node
      <4> HIDE DEF s, last
      <4>1. DOMAIN fresh = 1 .. x /\ fresh = [i \in 1 .. x |-> fresh[i]]
        BY <1>4 DEF fresh
      <4>2. [fresh EXCEPT ![d].events = s] = [i \in 1 .. x |-> IF i = d THEN last ELSE fresh[i]]
        BY <3>5, <3>9, <4>1
      <4>3. \A i \in 1 .. x : (IF i = d THEN last ELSE fresh[i]) = node[i]
        BY <1>4, <3>5 DEF fresh
      <4> HIDE DEF node
      <4> QED BY <4>2, <4>3 DEF node
    <3> HIDE DEF r, node, s, last
    <3> QED BY <3>8, <3>10
  <2> QED BY <2>1, <2>2
<1>6. d # 0 => /\ s \in Seq(E) /\ t.node[d].name \in N /\ Ev(t, d) \in Seq(E)
               /\ Len(Ev(t, d)) \in Nat /\ Len(s) = Len(Ev(t, d)) + 1 /\ s[Len(s)] = SubEvent(x)
               /\ (\A k \in 1 .. Len(Ev(t, d)) : s[k] = Ev(t, d)[k])
               /\ DOMAIN Ev(t, d) = 1 .. Len(Ev(t, d))
  <2> SUFFICES ASSUME d # 0
               PROVE  /\ s \in Seq(E) /\ t.node[d].name \in N /\ Ev(t, d) \in Seq(E)
                      /\ Len(Ev(t, d)) \in Nat /\ Len(s) = Len(Ev(t, d)) + 1 /\ s[Len(s)] = SubEvent(x)
                      /\ (\A k \in 1 .. Len(Ev(t, d)) : s[k] = Ev(t, d)[k])
                      /\ DOMAIN Ev(t, d) = 1 .. Len(Ev(t, d))
    OBVIOUS
  <2>1. d \in 1 .. d
    BY <1>1
  <2>2. Ev(t, d) \in Seq(E) /\ t.node[d].name \in N
    BY <2>1, SubOf
  <2> QED BY <2>2
<1> HIDE DEF s, r
<1>7. node \in [1 .. x -> [name : N, events : Seq(E)]]
  <2>1. \A m \in 1 .. x : m = x \/ m \in 1 .. d
    BY <1>1
  <2>2. << >> \in Seq(E)
    BY EmptySeq
  <2>3. d # 0 => last \in [name : N, events : Seq(E)]
    BY <1>6
  <2> HIDE DEF last
  <2>4. \A m \in 1 .. x : node[m] \in [name : N, events : Seq(E)]
    <3> SUFFICES ASSUME NEW m \in 1 .. x PROVE node[m] \in [name : N, events : Seq(E)]
      OBVIOUS
    <3>1. CASE m = x
      BY <2>2, <3>1
    <3>2. CASE m # x /\ m = d
      BY <1>1, <2>1, <2>3, <3>2
    <3>3. CASE m # x /\ m # d
      BY <1>1, <2>1, <3>3
    <3> QED BY <3>1, <3>2, <3>3
  <2> QED BY <2>4
<1>8. \A m \in 1 .. x : node[m] = IF m = x THEN [name |-> name, events |-> << >>]
                                  ELSE IF m = d THEN last ELSE t.node[m]
  OBVIOUS
<1> HIDE DEF node
<1>9. r.root = 1 /\ r.node = node /\ r = [root |-> r.root, node |-> r.node]
  BY <1>5
<1>10. \A m \in 1 .. x : /\ r.node[m].name = IF m = x THEN name ELSE t.node[m].name
                         /\ Ev(r, m) = IF m = x THEN << >> ELSE IF m = d THEN s ELSE Ev(t, m)
  BY <1>8, <1>9 DEF Ev
<1>11. ASSUME NEW m \in 1 .. x
       PROVE  /\ m < x => Len(Ev(r, m)) > 0
              /\ \A j \in DOMAIN Ev(r, m) :
                   /\ Ev(r, m)[j].type = "sub" <=> m < x /\ j = Len(Ev(r, m))
                   /\ Ev(r, m)[j].type = "sub" => Ev(r, m)[j].sub = m + 1
  <2>1. CASE m = x
    <3>1. Ev(r, m) = << >> /\ ~(m < x)
      BY <1>1, <1>10, <2>1
    <3>2. DOMAIN Ev(r, m) = {}
      BY <3>1
    <3> QED BY <3>1, <3>2
  <2>2. CASE m # x /\ m = d
    <3>1. d # 0 /\ m < x /\ Ev(r, m) = s /\ d \in 1 .. d
      BY <1>1, <1>10, <2>2
    <3>2. ASSUME NEW j \in DOMAIN s
          PROVE  /\ s[j].type = "sub" <=> j = Len(s)
                 /\ s[j].type = "sub" => s[j].sub = x
      <4>1. j \in 1 .. Len(Ev(t, d)) \/ j = Len(s)
        BY <1>6, <3>1
      <4>2. CASE j = Len(s)
        BY <1>6, <3>1, <4>2 DEF SubEvent
      <4>3. CASE j \in 1 .. Len(Ev(t, d))
        <5>1. s[j] = Ev(t, d)[j] /\ j # Len(s) /\ j \in DOMAIN Ev(t, d)
          BY <1>6, <3>1, <4>3
        <5>2. Ev(t, d)[j].type # "sub"
          BY <1>1, <3>1, <5>1, PathOf
        <5> QED BY <5>1, <5>2
      <4> QED BY <4>1, <4>2, <4>3
    <3>3. Len(s) > 0
      BY <1>6, <3>1
    <3>4. m + 1 = x
      BY <2>2
    <3> HIDE DEF x
    <3> QED BY <3>1, <3>2, <3>3, <3>4
  <2>3. CASE m # x /\ m # d
    <3>1. m \in 1 .. d /\ m < d /\ m < x /\ Ev(r, m) = Ev(t, m)
      BY <1>1, <1>10, <2>3
    <3> QED BY <3>1, PathOf
  <2> QED BY <2>1, <2>2, <2>3
<1>12. x \in Nat /\ r.root = (IF x = 0 THEN NULL ELSE 1)
  BY <1>1, <1>9
<1>13. Path(r, x, N, E)
  <2> HIDE DEF x
  <2> QED BY <1>7, <1>9, <1>11, <1>12, PathFrom
<1> QED BY <1>10, <1>13 DEF r, s, Started

-----------------------------------------------------------------------------
(* The functions the providers call.                                       *)

\* What is left of some objects: their names, and some of their events.
Shrunk(r, d, t) ==
    \A m \in 1 .. d : /\ r.node[m].name = t.node[m].name
                      /\ \A k \in DOMAIN Ev(r, m) : \E j \in DOMAIN Ev(t, m) : Ev(r, m)[k] = Ev(t, m)[j]

\* Cutting keeps a part.
LEMMA CutShrinks ==
    ASSUME NEW t, NEW d, NEW N, NEW E, Path(t, d, N, E), NEW n \in 1 .. d, NEW k \in DOMAIN Ev(t, n)
    PROVE  LET r == FreeEvents(t, n, <<n, k>>, TRUE)
           IN  Path(r, n, N, E) /\ Shrunk(r, n, t)
<1> DEFINE r == FreeEvents(t, n, <<n, k>>, TRUE)
           s == SubSeq(Ev(t, n), 1, k - 1)
<1>1. /\ Path(r, n, N, E)
      /\ \A m \in 1 .. n : /\ r.node[m].name = t.node[m].name
                           /\ Ev(r, m) = IF m = n THEN s ELSE Ev(t, m)
  <2>1. r = FreeEvents(t, n, <<n, k>>, TRUE)
    OBVIOUS
  <2> HIDE DEF r
  <2>2. Path(r, n, N, E) /\ Cut(r, t, n, k)
    BY <2>1, CutIs
  <2> QED BY <2>2 DEF Cut
<1>2. DOMAIN Ev(t, n) = 1 .. Len(Ev(t, n)) /\ Len(Ev(t, n)) \in Nat /\ Ev(t, n) \in Seq(E)
  BY SubOf
<1>3. \A j \in DOMAIN s : j \in DOMAIN Ev(t, n) /\ s[j] = Ev(t, n)[j]
  <2>1. DOMAIN s = 1 .. k - 1 /\ \A j \in 1 .. k - 1 : s[j] = Ev(t, n)[j]
    BY <1>2
  <2>2. \A j \in 1 .. k - 1 : j \in DOMAIN Ev(t, n)
    BY <1>2
  <2> QED BY <2>1, <2>2
<1> HIDE DEF r, s
<1>4. Shrunk(r, n, t)
  <2> SUFFICES ASSUME NEW m \in 1 .. n
               PROVE  /\ r.node[m].name = t.node[m].name
                      /\ \A j \in DOMAIN Ev(r, m) : \E i \in DOMAIN Ev(t, m) : Ev(r, m)[j] = Ev(t, m)[i]
    BY DEF Shrunk
  <2>1. CASE m = n
    BY <1>1, <1>3, <2>1
  <2>2. CASE m # n
    BY <1>1, <2>2
  <2> QED BY <2>1, <2>2
<1> QED BY <1>1, <1>4 DEF r

\* What is found is in the tree; an event found is one of the first object, its own
\* one if that object is found.
LEMMA Found ==
    ASSUME NEW t, NEW d, NEW N, NEW E, Path(t, d, N, E), NEW str, str # NULL
    PROVE  LET f == Find(t, str)
           IN  \/ f = NotFound /\ (d # 0 => Hits(t, d, 1, str) = {})
               \/ /\ d # 0 /\ 1 \in 1 .. d /\ f.trans \in 1 .. d /\ f.trans \in Hits(t, d, 1, str)
                  /\ IF t.node[1].name = str THEN f.ev = NULL
                     ELSE \E k \in DOMAIN Ev(t, 1) :
                             /\ f.ev = <<1, k>>
                             /\ IF Own(t, 1, str) # {} THEN k = Earliest(Own(t, 1, str))
                                ELSE k = Len(Ev(t, 1)) /\ f.trans # 1
                  /\ t.node[1].name = str \/ Own(t, 1, str) # {} => f.trans = 1
<1> DEFINE f == Find(t, str)
           hits == Hits(t, d, 1, str)
           own == Own(t, 1, str)
<1>1. d \in Nat /\ f = (IF d = 0 THEN NotFound ELSE FoundFrom(t, d, 1, str))
  BY PathOf, FindIs
<1>2. CASE d = 0 \/ hits = {}
  BY <1>1, <1>2 DEF FoundFrom
<1>3. CASE d # 0 /\ hits # {}
  <2>1. f = [trans |-> Earliest(hits),
             ev |-> IF t.node[1].name = str THEN NULL
                    ELSE IF own # {} THEN <<1, Earliest(own)>>
                    ELSE <<1, Len(Ev(t, 1))>>]
    BY <1>1, <1>3 DEF FoundFrom
  <2>2. 1 \in 1 .. d /\ hits \subseteq 1 .. d /\ hits \subseteq Nat
    BY <1>1, <1>3 DEF Hits
  <2>3. Earliest(hits) \in hits /\ \A j \in hits : Earliest(hits) <= j
    BY <1>3, <2>2, EarliestIs
  <2>4. /\ DOMAIN Ev(t, 1) = 1 .. Len(Ev(t, 1)) /\ Len(Ev(t, 1)) \in Nat
        /\ own \subseteq DOMAIN Ev(t, 1) /\ own \subseteq Nat
    BY <2>2, SubOf DEF Own
  <2>5. t.node[1].name = str \/ own # {} => 1 \in hits
    BY <2>2 DEF Hits
  <2>6. 1 \in hits => Earliest(hits) = 1
    BY <2>2, <2>3
  <2>7. CASE t.node[1].name = str
    <3>1. f.ev = NULL /\ f.trans = 1
      BY <2>1, <2>5, <2>6, <2>7
    <3> QED BY <1>3, <2>1, <2>2, <2>3, <2>7, <3>1
  <2>8. CASE t.node[1].name # str /\ own # {}
    <3>1. Earliest(own) \in DOMAIN Ev(t, 1)
      BY <2>4, <2>8, EarliestIs
    <3>2. f.trans = 1 /\ f.ev = <<1, Earliest(own)>>
      BY <2>1, <2>5, <2>6, <2>8
    <3> QED BY <1>3, <2>1, <2>2, <2>3, <2>8, <3>1, <3>2
  <2>9. CASE t.node[1].name # str /\ own = {}
    <3>1. 1 \notin hits
      BY <2>9 DEF Hits
    <3>2. f.trans \in hits /\ f.trans # 1 /\ f.ev = <<1, Len(Ev(t, 1))>>
      BY <2>1, <2>3, <2>9, <3>1
    <3>3. 1 < d
      BY <1>1, <2>2, <3>2
    <3>4. Len(Ev(t, 1)) > 0
      BY <2>2, <3>3, PathOf
    <3>5. Len(Ev(t, 1)) \in DOMAIN Ev(t, 1)
      BY <2>4, <3>4
    <3> QED BY <1>3, <2>2, <2>9, <3>2, <3>5
  <2> QED BY <2>7, <2>8, <2>9
<1> QED BY <1>2, <1>3

\* gda_connection_internal_transaction_committed(): the innermost transaction is
\* ended when no name is given, or its name when there are two at most.
LEMMA EndedIs ==
    ASSUME NEW t, NEW d, NEW N, NEW E, Path(t, d, N, E), NEW str
    PROVE  LET r == TransactionEnded(t, str)
           IN  \E dd \in 0 .. d :
                  /\ Path(r, dd, N, E) /\ Shrunk(r, dd, t)
                  /\ d # 0 /\ str = NULL => dd = d - 1
                  /\ /\ str # NULL /\ d \in 1 .. 2 /\ t.node[d].name = str
                     /\ d = 2 => t.node[1].name # str /\ Own(t, 1, str) = {}
                     => dd = d - 1
<1> DEFINE r == TransactionEnded(t, str)
           f == Find(t, str)
           ok(dd) == /\ Path(r, dd, N, E) /\ Shrunk(r, dd, t)
                     /\ d # 0 /\ str = NULL => dd = d - 1
                     /\ /\ str # NULL /\ d \in 1 .. 2 /\ t.node[d].name = str
                        /\ d = 2 => t.node[1].name # str /\ Own(t, 1, str) = {}
                        => dd = d - 1
<1>0. d \in Nat
  BY PathOf
<1>1. /\ Path(NoTree, 0, N, E) /\ Shrunk(NoTree, 0, t)
  <2>1. << >> \in [1 .. 0 -> [name : N, events : Seq(E)]]
    BY EmptySeq
  <2>2. NoTree = [root |-> NULL, node |-> NoTree.node] /\ NoTree.node = << >> /\ \A m \in 1 .. 0 : FALSE
    BY DEF NoTree
  <2> QED BY <2>1, <2>2 DEF Path, Shrunk
<1>2. Path(t, d, N, E) /\ Shrunk(t, d, t)
  BY DEF Shrunk
<1>3. CASE str = NULL /\ d = 0
  <2>1. f = NotFound
    BY <1>3, FindCurrentIs, PathOf DEF Find
  <2>2. r = t
    BY <2>1 DEF TransactionEnded, NotFound
  <2> QED BY <1>2, <1>3, <2>2
<1>4. CASE str = NULL /\ d # 0
  <2>1. t.root # NULL
    BY <1>4, PathOf, TransAssumption
  <2>2. f = [trans |-> d, ev |-> IF d = 1 THEN NULL ELSE <<d - 1, Len(Ev(t, d - 1))>>]
    BY <1>4, <2>1, FindCurrentIs DEF Find
  <2>3. d # NULL
    BY <1>0, TransAssumption
  <2>4. CASE d = 1
    <3>1. r = NoTree
      BY <2>2, <2>3, <2>4 DEF TransactionEnded, DropTree
    <3> QED BY <1>1, <1>4, <2>4, <3>1
  <2>5. CASE d # 1
    <3> DEFINE n == d - 1
               k == Len(Ev(t, n))
    <3>1. n \in 1 .. d /\ n < d /\ n \in 0 .. d
      BY <1>0, <1>4, <2>5
    <3>2. k \in DOMAIN Ev(t, n) /\ k \in Nat
      <4>1. Len(Ev(t, n)) > 0 /\ DOMAIN Ev(t, n) = 1 .. Len(Ev(t, n)) /\ Len(Ev(t, n)) \in Nat
        BY <3>1, PathOf, SubOf
      <4> QED BY <4>1
    <3>3. <<n, k>> # NULL /\ <<n, k>>[1] = n
      BY <3>1, <3>2, <1>0, TransAssumption
    <3>4. f.ev = <<n, k>> /\ f.trans = d
      BY <2>2, <2>5
    <3> HIDE DEF n, k
    <3>5. r = FreeEvents(t, n, <<n, k>>, TRUE)
      BY <2>3, <3>3, <3>4 DEF TransactionEnded
    <3>6. Path(r, n, N, E) /\ Shrunk(r, n, t)
      <4> HIDE DEF r
      <4> QED BY <3>1, <3>2, <3>5, CutShrinks
    <3> HIDE DEF r
    <3>7. ok(n)
      BY <1>4, <3>6 DEF n
    <3> QED BY <3>1, <3>7 DEF r
  <2> QED BY <2>4, <2>5
<1>5. CASE str # NULL
  <2>1. CASE f = NotFound /\ (d # 0 => Hits(t, d, 1, str) = {})
    <3>1. r = t
      BY <2>1 DEF TransactionEnded, NotFound
    <3>2. d # 0 => t.node[d].name # str
      <4>1. d # 0 => d \in 1 .. d
        BY <1>0
      <4> QED BY <2>1, <4>1 DEF Hits
    <3>3. d \in 0 .. d /\ ~(d # 0 /\ str = NULL) /\ (d \in 1 .. 2 => d # 0)
      BY <1>0, <1>5
    <3> HIDE DEF r
    <3>4. ok(d)
      BY <1>2, <1>5, <3>1, <3>2, <3>3
    <3> QED BY <3>3, <3>4 DEF r
  <2>2. CASE /\ d # 0 /\ 1 \in 1 .. d /\ f.trans \in 1 .. d /\ f.trans \in Hits(t, d, 1, str)
             /\ IF t.node[1].name = str THEN f.ev = NULL
                ELSE \E k \in DOMAIN Ev(t, 1) :
                        /\ f.ev = <<1, k>>
                        /\ IF Own(t, 1, str) # {} THEN k = Earliest(Own(t, 1, str))
                           ELSE k = Len(Ev(t, 1)) /\ f.trans # 1
             /\ t.node[1].name = str \/ Own(t, 1, str) # {} => f.trans = 1
    <3>0. f.trans # NULL
      BY <1>0, <2>2, TransAssumption
    <3>1. CASE t.node[1].name = str
      <4>1. r = NoTree
        BY <2>2, <3>0, <3>1 DEF TransactionEnded, DropTree
      <4>2. 0 \in 0 .. d /\ (d \in 1 .. 2 /\ d # 2 => 0 = d - 1)
        BY <1>0
      <4> HIDE DEF r, f
      <4>3. ok(0)
        BY <1>1, <1>5, <3>1, <4>1, <4>2
      <4> QED BY <4>2, <4>3 DEF r
    <3>2. CASE t.node[1].name # str
      <4>1. PICK k \in DOMAIN Ev(t, 1) : f.ev = <<1, k>>
        BY <2>2, <3>2
      <4>2. k \in Nat
        BY <2>2, SubOf
      <4>3. <<1, k>> # NULL /\ <<1, k>>[1] = 1
        BY <4>2, TransAssumption
      <4>4. r = FreeEvents(t, 1, <<1, k>>, TRUE)
        BY <3>0, <4>1, <4>3 DEF TransactionEnded
      <4>5. Path(r, 1, N, E) /\ Shrunk(r, 1, t)
        <5> HIDE DEF r, f
        <5> QED BY <2>2, <4>4, CutShrinks
      <4>6. 1 \in 0 .. d /\ (d = 2 => 1 = d - 1)
        BY <1>0, <2>2
      <4>7. t.node[d].name = str => d # 1
        BY <3>2
      <4>8. d \in 1 .. 2 /\ d # 1 => d = 2
        BY <1>0
      <4> HIDE DEF r, f
      <4>9. ok(1)
        BY <1>5, <4>5, <4>6, <4>7, <4>8
      <4> QED BY <4>6, <4>9 DEF r
    <3> QED BY <3>1, <3>2
  <2> HIDE DEF r
  <2> QED BY <1>5, <2>1, <2>2, Found
<1> QED BY <1>3, <1>4, <1>5

\* Freeing what has a name: nothing, or the earliest event of the outermost object
\* that has the name.
Freed(r, t, d, str, after) ==
    \/ r = t /\ ~(d # 0 /\ t.node[1].name # str /\ Own(t, 1, str) # {})
    \/ /\ d # 0 /\ t.node[1].name # str /\ Own(t, 1, str) # {}
       /\ r = FreeEvents(t, 1, <<1, Earliest(Own(t, 1, str))>>, after)
       /\ Earliest(Own(t, 1, str)) \in Own(t, 1, str)

\* That is what gda_transaction_status_find() gives to the two functions below.
LEMMA FoundToFree ==
    ASSUME NEW t, NEW d, NEW N, NEW E, Path(t, d, N, E), NEW str, str # NULL, NEW after,
           Find(t, str).trans # NULL
    PROVE  Freed(FreeEvents(t, Find(t, str).trans, Find(t, str).ev, after), t, d, str, after)
<1> DEFINE f == Find(t, str)
           own == Own(t, 1, str)
           r == FreeEvents(t, f.trans, f.ev, after)
<1>0. d \in Nat
  BY PathOf
<1>1. f # NotFound
  BY DEF NotFound
<1>2. /\ d # 0 /\ 1 \in 1 .. d /\ f.trans \in 1 .. d
      /\ IF t.node[1].name = str THEN f.ev = NULL
         ELSE \E k \in DOMAIN Ev(t, 1) :
                 /\ f.ev = <<1, k>>
                 /\ IF own # {} THEN k = Earliest(own) ELSE k = Len(Ev(t, 1)) /\ f.trans # 1
      /\ t.node[1].name = str \/ own # {} => f.trans = 1
  <2> HIDE DEF own, f
  <2> QED BY <1>1, Found DEF own, f
<1> HIDE DEF f
<1>3. CASE t.node[1].name = str
  <2>1. r = t
    BY <1>2, <1>3 DEF FreeEvents
  <2> QED BY <1>3, <2>1 DEF f, Freed
<1>4. CASE t.node[1].name # str /\ own = {}
  <2>1. PICK k \in DOMAIN Ev(t, 1) : f.ev = <<1, k>> /\ f.trans # 1
    BY <1>2, <1>4
  <2>2. k \in Nat
    BY <1>2, SubOf
  <2>3. <<1, k>> # NULL /\ <<1, k>>[1] = 1
    BY <2>2, TransAssumption
  <2>4. r = t
    BY <2>1, <2>3 DEF FreeEvents
  <2> QED BY <1>4, <2>4 DEF f, Freed
<1>5. CASE t.node[1].name # str /\ own # {}
  <2>1. f.ev = <<1, Earliest(own)>> /\ f.trans = 1
    BY <1>2, <1>5
  <2>2. own \subseteq Nat
    BY <1>2, SubOf DEF Own
  <2>3. Earliest(own) \in own
    BY <1>5, <2>2, EarliestIs
  <2>4. Freed(r, t, d, str, after)
    BY <1>2, <1>5, <2>1, <2>3 DEF Freed
  <2> QED BY <2>4 DEF f
<1> QED BY <1>3, <1>4, <1>5 DEF f

\* The outermost object has an event of that name, which is not the object's.
Holds(t, d, str) == d # 0 /\ t.node[1].name # str /\ Own(t, 1, str) # {}
Rolledback(r, t, d, N, E, str) ==
    \/ r = t /\ ~Holds(t, d, str)
    \/ /\ Holds(t, d, str) /\ 1 \in 1 .. d /\ Earliest(Own(t, 1, str)) \in Own(t, 1, str)
       /\ Path(r, 1, N, E) /\ Cut(r, t, 1, Earliest(Own(t, 1, str))) /\ Shrunk(r, 1, t)
Released(r, t, d, N, E, str) ==
    \/ r = t /\ ~Holds(t, d, str)
    \/ /\ Holds(t, d, str) /\ 1 \in 1 .. d /\ Earliest(Own(t, 1, str)) \in Own(t, 1, str)
       /\ Path(r, d, N, E) /\ Without(r, t, d, Earliest(Own(t, 1, str)))

\* gda_connection_internal_savepoint_rolledback(): the earliest event with that
\* name goes, with all that follows it.
LEMMA RolledbackIs ==
    ASSUME NEW t, NEW d, NEW N, NEW E, Path(t, d, N, E), NEW str, str # NULL
    PROVE  Rolledback(SavepointRolledback(t, str), t, d, N, E, str)
<1> DEFINE f == Find(t, str)
           own == Own(t, 1, str)
           r == SavepointRolledback(t, str)
<1>0. d \in Nat
  BY PathOf
<1>1. CASE f.trans = NULL
  <2>1. r = t
    BY <1>1 DEF SavepointRolledback
  <2>2. f = NotFound \/ f.trans \in 1 .. d
    BY Found
  <2>3. d # 0 => Hits(t, d, 1, str) = {}
    <3>1. ~(f.trans \in 1 .. d)
      BY <1>0, <1>1, TransAssumption
    <3> QED BY <3>1, Found
  <2>4. d # 0 => t.node[1].name # str /\ own = {}
    <3>1. d # 0 => 1 \in 1 .. d
      BY <1>0
    <3> QED BY <2>3, <3>1 DEF Hits
  <2> QED BY <2>1, <2>4 DEF Rolledback, Holds
<1>2. CASE f.trans # NULL
  <2>1. r = FreeEvents(t, f.trans, f.ev, TRUE)
    BY <1>2 DEF SavepointRolledback
  <2>2. \/ r = t /\ ~(d # 0 /\ t.node[1].name # str /\ own # {})
        \/ /\ d # 0 /\ t.node[1].name # str /\ own # {}
           /\ r = FreeEvents(t, 1, <<1, Earliest(own)>>, TRUE)
           /\ Earliest(own) \in own
    <3>1. Freed(FreeEvents(t, f.trans, f.ev, TRUE), t, d, str, TRUE)
      BY <1>2, FoundToFree
    <3>2. Freed(r, t, d, str, TRUE)
      BY <2>1, <3>1
    <3> QED BY <3>2 DEF Freed
  <2>3. ASSUME d # 0, r = FreeEvents(t, 1, <<1, Earliest(own)>>, TRUE), Earliest(own) \in own
        PROVE  /\ 1 \in 1 .. d /\ Path(r, 1, N, E) /\ Cut(r, t, 1, Earliest(own))
               /\ Shrunk(r, 1, t)
    <3>1. 1 \in 1 .. d
      BY <1>0, <2>3
    <3>2. Earliest(own) \in DOMAIN Ev(t, 1)
      BY <2>3 DEF Own
    <3> HIDE DEF r, own
    <3> QED BY <2>3, <3>1, <3>2, CutIs, CutShrinks
  <2> HIDE DEF r
  <2>4. Rolledback(r, t, d, N, E, str)
    BY <2>2, <2>3 DEF Rolledback, Holds
  <2> QED BY <2>4 DEF r
<1> QED BY <1>1, <1>2

\* gda_connection_internal_savepoint_removed(): that event goes alone.
LEMMA ReleasedIs ==
    ASSUME NEW t, NEW d, NEW N, NEW E, Path(t, d, N, E), NEW str, str # NULL
    PROVE  Released(SavepointRemoved(t, str), t, d, N, E, str)
<1> DEFINE f == Find(t, str)
           own == Own(t, 1, str)
           r == SavepointRemoved(t, str)
<1>0. d \in Nat
  BY PathOf
<1>1. CASE f.trans = NULL
  <2>1. r = t
    BY <1>1 DEF SavepointRemoved
  <2>2. f = NotFound \/ f.trans \in 1 .. d
    BY Found
  <2>3. d # 0 => Hits(t, d, 1, str) = {}
    <3>1. ~(f.trans \in 1 .. d)
      BY <1>0, <1>1, TransAssumption
    <3> QED BY <3>1, Found
  <2>4. d # 0 => t.node[1].name # str /\ own = {}
    <3>1. d # 0 => 1 \in 1 .. d
      BY <1>0
    <3> QED BY <2>3, <3>1 DEF Hits
  <2> QED BY <2>1, <2>4 DEF Released, Holds
<1>2. CASE f.trans # NULL
  <2>1. r = FreeEvents(t, f.trans, f.ev, FALSE)
    BY <1>2 DEF SavepointRemoved
  <2>2. \/ r = t /\ ~(d # 0 /\ t.node[1].name # str /\ own # {})
        \/ /\ d # 0 /\ t.node[1].name # str /\ own # {}
           /\ r = FreeEvents(t, 1, <<1, Earliest(own)>>, FALSE)
           /\ Earliest(own) \in own
    <3>1. Freed(FreeEvents(t, f.trans, f.ev, FALSE), t, d, str, FALSE)
      BY <1>2, FoundToFree
    <3>2. Freed(r, t, d, str, FALSE)
      BY <2>1, <3>1
    <3> QED BY <3>2 DEF Freed
  <2>3. ASSUME d # 0, r = FreeEvents(t, 1, <<1, Earliest(own)>>, FALSE), Earliest(own) \in own
        PROVE  /\ 1 \in 1 .. d /\ Path(r, d, N, E) /\ Without(r, t, d, Earliest(own))
    <3>1. 1 \in 1 .. d
      BY <1>0, <2>3
    <3>2. Earliest(own) \in DOMAIN Ev(t, 1) /\ Ev(t, 1)[Earliest(own)].type # "sub"
      BY <2>3 DEF Own
    <3> HIDE DEF r, own
    <3> QED BY <2>3, <3>1, <3>2, RemovedIs
  <2> HIDE DEF r
  <2>4. Released(r, t, d, N, E, str)
    BY <2>2, <2>3 DEF Released, Holds
  <2> QED BY <2>4 DEF r
<1> QED BY <1>1, <1>2

\* gda_connection_internal_savepoint_added() and the recording of a statement: in the
\* innermost transaction, if there is one.
LEMMA AddedIs ==
    ASSUME NEW t, NEW d, NEW N, NEW E, Path(t, d, N, E), NEW name, d # 0 => SavepointEvent(name) \in E
    PROVE  LET r == SavepointAdded(t, name)
           IN  IF d = 0 THEN r = t ELSE Path(r, d, N, E) /\ Appended(r, t, d, SavepointEvent(name))
<1> DEFINE e == SavepointEvent(name)
           r == SavepointAdded(t, name)
<1>1. Find(t, NULL).trans = IF d = 0 THEN NULL ELSE d
  <2>1. Find(t, NULL) = FindCurrent(t)
    <3>1. t.root = (IF d = 0 THEN NULL ELSE 1) /\ 1 # NULL
      BY PathOf, TransAssumption
    <3>2. d = 0 => FindCurrent(t) = NotFound
      BY FindCurrentIs
    <3> QED BY <3>1, <3>2 DEF Find
  <2>2. FindCurrent(t).trans = IF d = 0 THEN NULL ELSE d
    BY FindCurrentIs DEF NotFound
  <2> QED BY <2>1, <2>2
<1>2. CASE d = 0
  BY <1>1, <1>2 DEF SavepointAdded
<1>3. CASE d # 0
  <2>1. d # NULL
    BY PathOf, TransAssumption
  <2>2. r = Append1(t, d, e)
    BY <1>1, <1>3, <2>1 DEF SavepointAdded
  <2>3. e \in E /\ e.type # "sub"
    BY <1>3 DEF SavepointEvent
  <2> HIDE DEF r, e
  <2>4. Path(r, d, N, E) /\ Appended(r, t, d, e)
    BY <1>3, <2>2, <2>3, AppendedIs
  <2> QED BY <1>3, <2>4 DEF r, e
<1> QED BY <1>2, <1>3

\* SqlExecuted() records a statement in the innermost transaction, if there is one.
LEMMA ExecutedIs ==
    ASSUME NEW t, NEW d, NEW N, NEW E, Path(t, d, N, E), NEW id, NEW about,
           d # 0 => SqlEvent(id, about) \in E
    PROVE  LET r == SqlExecuted(t, id, about)
           IN  IF d = 0 THEN r = t ELSE Path(r, d, N, E) /\ Appended(r, t, d, SqlEvent(id, about))
<1> DEFINE e == SqlEvent(id, about)
           r == SqlExecuted(t, id, about)
<1>1. FindCurrent(t).trans = IF d = 0 THEN NULL ELSE d
  BY FindCurrentIs, PathOf DEF NotFound
<1>2. CASE d = 0
  BY <1>1, <1>2 DEF SqlExecuted
<1>3. CASE d # 0
  <2>1. d # NULL
    BY PathOf, TransAssumption
  <2>2. r = Append1(t, d, e)
    BY <1>1, <1>3, <2>1 DEF SqlExecuted
  <2>3. e \in E /\ e.type # "sub"
    BY <1>3 DEF SqlEvent
  <2> HIDE DEF r, e
  <2>4. Path(r, d, N, E) /\ Appended(r, t, d, e)
    BY <1>3, <2>2, <2>3, AppendedIs
  <2> QED BY <1>3, <2>4 DEF r, e
<1> QED BY <1>2, <1>3

-----------------------------------------------------------------------------
(* What the tree refers to.                                                *)

\* The recorded events are those of the objects, and there are finitely many.
LEMMA RecordedIs ==
    ASSUME NEW t, NEW d, NEW N, NEW E, Path(t, d, N, E)
    PROVE  /\ IsFiniteSet(Recorded(t))
           /\ \A n \in 1 .. d : \A k \in DOMAIN Ev(t, n) :
                 <<n, k>> \in Recorded(t) /\ EventAt(t, <<n, k>>) = Ev(t, n)[k]
           /\ \A p \in Recorded(t) : \E n \in 1 .. d : \E k \in DOMAIN Ev(t, n) : p = <<n, k>>
<1>1. d \in Nat /\ DOMAIN t.node = 1 .. d
  BY PathOf
<1> DEFINE part(n) == {n} \X DOMAIN t.node[n].events
           parts == {part(n) : n \in 1 .. d}
<1>2. IsFiniteSet(parts)
  <2>1. IsFiniteSet(1 .. d)
    BY <1>1, FS_Interval
  <2> DEFINE f == [n \in 1 .. d |-> part(n)]
  <2>2. f \in Surjection(1 .. d, parts)
    BY DEF Surjection
  <2> QED BY <2>1, <2>2, FS_Surjection
<1>3. \A T \in parts : IsFiniteSet(T)
  <2> SUFFICES ASSUME NEW n \in 1 .. d PROVE IsFiniteSet(part(n))
    OBVIOUS
  <2>1. DOMAIN t.node[n].events = 1 .. Len(Ev(t, n)) /\ Len(Ev(t, n)) \in Nat
    BY SubOf DEF Ev
  <2>2. IsFiniteSet(DOMAIN t.node[n].events)
    BY <2>1, FS_Interval
  <2>3. IsFiniteSet({n})
    BY FS_Singleton
  <2> QED BY <2>2, <2>3, FS_Product
<1>4. Recorded(t) = UNION parts
  BY <1>1 DEF Recorded
<1>5. IsFiniteSet(Recorded(t))
  <2> HIDE DEF parts
  <2> QED BY <1>2, <1>3, <1>4, FS_UNION
<1>6. ASSUME NEW n \in 1 .. d, NEW k \in DOMAIN Ev(t, n)
      PROVE  <<n, k>> \in Recorded(t) /\ EventAt(t, <<n, k>>) = Ev(t, n)[k]
  <2>1. <<n, k>> \in part(n) /\ part(n) \in parts
    BY <1>6 DEF Ev
  <2>2. <<n, k>> \in UNION parts
    BY <2>1
  <2> QED BY <1>4, <2>2 DEF EventAt, Ev
<1>7. ASSUME NEW p \in Recorded(t)
      PROVE  \E n \in 1 .. d : \E k \in DOMAIN Ev(t, n) : p = <<n, k>>
  <2>1. PICK n \in 1 .. d : p \in part(n)
    BY <1>4
  <2>2. PICK k \in DOMAIN t.node[n].events : p = <<n, k>>
    BY <2>1
  <2> QED BY <2>2 DEF Ev
<1> QED BY <1>5, <1>6, <1>7

\* The number of references to something, and when it is zero.
LEMMA ReferencesAre ==
    ASSUME NEW t, NEW d, NEW N, NEW E, Path(t, d, N, E), NEW o
    PROVE  /\ References(t, o) \in Nat
           /\ References(t, o) = 0 <=>
                 \A n \in 1 .. d : \A k \in DOMAIN Ev(t, n) : Ev(t, n)[k].conn_event # o
<1> DEFINE citing == {p \in Recorded(t) : EventAt(t, p).conn_event = o}
<1>1. citing \in SUBSET Recorded(t)
  OBVIOUS
<1>2. IsFiniteSet(citing)
  <2> HIDE DEF citing
  <2> QED BY <1>1, RecordedIs, FS_Subset
<1>3. Cardinality(citing) \in Nat /\ (Cardinality(citing) = 0 <=> citing = {})
  <2> HIDE DEF citing
  <2> QED BY <1>2, FS_CardinalityType, FS_EmptySet
<1>4. citing = {} <=> \A n \in 1 .. d : \A k \in DOMAIN Ev(t, n) : Ev(t, n)[k].conn_event # o
  <2>1. ASSUME NEW p \in citing
        PROVE  \E n \in 1 .. d : \E k \in DOMAIN Ev(t, n) : Ev(t, n)[k].conn_event = o
    BY <2>1, RecordedIs
  <2>2. ASSUME NEW n \in 1 .. d, NEW k \in DOMAIN Ev(t, n), Ev(t, n)[k].conn_event = o
        PROVE  citing # {}
    <3>1. <<n, k>> \in citing
      BY <2>2, RecordedIs
    <3> QED BY <3>1
  <2> HIDE DEF citing
  <2> QED BY <2>1, <2>2
<1> QED BY <1>3, <1>4 DEF References

\* A path whose events are all of a set is a path of that set.
LEMMA Narrowed ==
    ASSUME NEW t, NEW d, NEW N, NEW E, Path(t, d, N, E), NEW F,
           \A n \in 1 .. d : \A k \in DOMAIN Ev(t, n) : Ev(t, n)[k] \in F
    PROVE  Path(t, d, N, F)
<1>1. \A n \in 1 .. d : /\ t.node[n] = [name |-> t.node[n].name, events |-> Ev(t, n)]
                        /\ t.node[n].name \in N
  <2> SUFFICES ASSUME NEW n \in 1 .. d
               PROVE  /\ t.node[n] = [name |-> t.node[n].name, events |-> Ev(t, n)]
                      /\ t.node[n].name \in N
    OBVIOUS
  <2>1. t.node[n] \in [name : N, events : Seq(E)]
    BY PathOf
  <2> QED BY <2>1 DEF Ev
<1>2. \A n \in 1 .. d : Ev(t, n) \in Seq(F)
  <2> SUFFICES ASSUME NEW n \in 1 .. d PROVE Ev(t, n) \in Seq(F)
    OBVIOUS
  <2>1. Ev(t, n) \in Seq(E) /\ Len(Ev(t, n)) \in Nat /\ DOMAIN Ev(t, n) = 1 .. Len(Ev(t, n))
    BY SubOf
  <2>2. Ev(t, n) \in [1 .. Len(Ev(t, n)) -> F]
    BY <2>1
  <2> QED BY <2>1, <2>2
<1>3. \A n \in 1 .. d : t.node[n] \in [name : N, events : Seq(F)]
  <2> SUFFICES ASSUME NEW n \in 1 .. d PROVE t.node[n] \in [name : N, events : Seq(F)]
    OBVIOUS
  <2> DEFINE a == t.node[n].name
             b == Ev(t, n)
  <2>1. a \in N /\ b \in Seq(F) /\ t.node[n] = [name |-> a, events |-> b]
    BY <1>1, <1>2
  <2> HIDE DEF a, b
  <2> QED BY <2>1
<1>4. t.node \in [1 .. d -> [name : N, events : Seq(F)]]
  <2>1. t.node \in [1 .. d -> [name : N, events : Seq(E)]]
    BY PathOf
  <2> QED BY <1>3, <2>1
<1> QED BY <1>4, PathOf, PathFrom

\* ... and of any larger one.
LEMMA Widened ==
    ASSUME NEW t, NEW d, NEW N, NEW E, Path(t, d, N, E), NEW F, E \subseteq F
    PROVE  Path(t, d, N, F)
<1>1. \A n \in 1 .. d : \A k \in DOMAIN Ev(t, n) : Ev(t, n)[k] \in F
  <2> SUFFICES ASSUME NEW n \in 1 .. d, NEW k \in DOMAIN Ev(t, n) PROVE Ev(t, n)[k] \in E
    OBVIOUS
  <2>1. Ev(t, n) \in Seq(E) /\ DOMAIN Ev(t, n) = 1 .. Len(Ev(t, n))
    BY SubOf
  <2> QED BY <2>1
<1> QED BY <1>1, Narrowed

\* A path of no object.
LEMMA EmptyPath ==
    ASSUME NEW N, NEW E
    PROVE  Path(NoTree, 0, N, E)
<1>1. << >> \in [1 .. 0 -> [name : N, events : Seq(E)]]
  BY EmptySeq
<1>2. NoTree = [root |-> NULL, node |-> NoTree.node] /\ NoTree.node = << >> /\ \A m \in 1 .. 0 : FALSE
  BY DEF NoTree
<1> QED BY <1>1, <1>2 DEF Path

===============================================================================
