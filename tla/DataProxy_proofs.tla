---------------------------- MODULE DataProxy_proofs ----------------------------
(***************************************************************************)
(* Proofs about the data proxy.                                            *)
(***************************************************************************)
EXTENDS DataProxy, FiniteSetTheorems, SequenceTheorems, WellFoundedInduction, TLAPS

-----------------------------------------------------------------------------
(* The state of a proxy is a record: what an operation does is said field by *)
(* field.                                                                  *)

Fields == {"model", "mods", "all_modifs", "new_rows", "modify_rows", "cached_modifs",
           "cached_inserts", "cache_changes", "chunk", "chunk_to", "chunk_sep",
           "chunk_proxy_nb_rows", "chunk_sync_idle_id", "sample_size", "sample_first_row",
           "add_null_entry", "defer_sync", "told", "faults"}
IsProxy(p) == p = [f \in Fields |-> p[f]]

\* Two states of a proxy that differ in what is shown only, or in the changes only.
SameEdits(p, q) ==
    /\ q.model = p.model /\ q.mods = p.mods /\ q.all_modifs = p.all_modifs
    /\ q.new_rows = p.new_rows /\ q.modify_rows = p.modify_rows
    /\ q.cached_modifs = p.cached_modifs /\ q.cached_inserts = p.cached_inserts
SameOptions(p, q) ==
    /\ q.cache_changes = p.cache_changes /\ q.add_null_entry = p.add_null_entry
    /\ q.defer_sync = p.defer_sync /\ q.sample_size = p.sample_size
    /\ q.sample_first_row = p.sample_first_row
SameShow(p, q) ==
    /\ SameOptions(p, q)
    /\ q.chunk = p.chunk /\ q.chunk_to = p.chunk_to /\ q.chunk_sep = p.chunk_sep
    /\ q.chunk_proxy_nb_rows = p.chunk_proxy_nb_rows
    /\ q.chunk_sync_idle_id = p.chunk_sync_idle_id /\ q.told = p.told /\ q.faults = p.faults

\* A sequence without repetition.
Once(s) == \A j, k \in DOMAIN s : s[j] = s[k] => j = k

-----------------------------------------------------------------------------
(* Sequences                                                               *)

\* The position of an element of a list, as code that walks along it finds it.
LEMMA PositionIs ==
    ASSUME NEW S, NEW s \in Seq(S), NEW e
    PROVE  /\ Contains(s, e) <=> e \in ToSet(s)
           /\ e \in ToSet(s) => /\ Position(s, e) \in DOMAIN s /\ s[Position(s, e)] = e
                                /\ \A k \in DOMAIN s : s[k] = e => Position(s, e) <= k
           /\ e \notin ToSet(s) => Position(s, e) = 0
<1>1. DOMAIN s = 1 .. Len(s) /\ Len(s) \in Nat
  OBVIOUS
<1>2. Contains(s, e) <=> e \in ToSet(s)
  BY <1>1 DEF Contains, ToSet
<1> DEFINE I == {i \in 1 .. Len(s) : s[i] = e}
<1>3. Position(s, e) = IF I # {} THEN Min(I) ELSE 0
  BY DEF Position, SelectInSeq
<1>4. ASSUME I # {} PROVE Min(I) \in I /\ \A k \in I : Min(I) <= k
  <2>1. \E i \in I : \A k \in I : i <= k
    <3>1. I \subseteq Nat /\ I # {}
      BY <1>1, <1>4
    <3> HIDE DEF I
    <3>2. PICK i \in I : \A j \in I : ~(<<j, i>> \in OpToRel(<, Nat))
      BY <3>1, NatLessThanWellFounded, WFMin
    <3>3. \A j \in I : ~(j < i)
      BY <3>1, <3>2 DEF OpToRel
    <3> QED BY <3>1, <3>3
  <2> QED BY <2>1 DEF Min
<1> QED BY <1>1, <1>2, <1>3, <1>4 DEF ToSet

\* A part of a sequence.
LEMMA PartIs ==
    ASSUME NEW S, NEW s \in Seq(S), NEW a \in Nat, NEW b \in Nat, 1 <= a, a <= b + 1, b <= Len(s)
    PROVE  /\ SubSeq(s, a, b) \in Seq(S) /\ Len(SubSeq(s, a, b)) = b - a + 1
           /\ \A i \in 1 .. b - a + 1 : SubSeq(s, a, b)[i] = s[a + i - 1]
<1>1. \A i \in a .. b : s[i] \in S
  <2> SUFFICES ASSUME NEW i \in a .. b
               PROVE  s[i] \in S
    OBVIOUS
  <2>1. i \in 1 .. Len(s)
    OBVIOUS
  <2> QED BY <2>1, ElementOfSeq
<1>2. (IF a <= b THEN b - a + 1 ELSE 0) = b - a + 1
  OBVIOUS
<1> QED BY <1>1, <1>2, SubSeqProperties

\* Two sequences, one after the other.
LEMMA JoinedIs ==
    ASSUME NEW S, NEW s \in Seq(S), NEW t \in Seq(S)
    PROVE  /\ s \o t \in Seq(S) /\ Len(s \o t) = Len(s) + Len(t)
           /\ \A i \in 1 .. Len(s) : (s \o t)[i] = s[i]
           /\ \A i \in 1 .. Len(t) : (s \o t)[Len(s) + i] = t[i]
           /\ \A i \in 1 .. Len(s) + Len(t) : i > Len(s) => (s \o t)[i] = t[i - Len(s)]
<1>1. /\ s \o t \in Seq(S) /\ Len(s \o t) = Len(s) + Len(t)
      /\ \A i \in 1 .. Len(s) + Len(t) : (s \o t)[i] = IF i <= Len(s) THEN s[i] ELSE t[i - Len(s)]
  BY ConcatProperties
<1> DEFINE u == s \o t
<1>2. Len(s) \in Nat /\ Len(t) \in Nat
  OBVIOUS
<1> HIDE DEF u
<1>3. \A i \in 1 .. Len(s) : u[i] = s[i]
  BY <1>1, <1>2 DEF u
<1>4. \A i \in 1 .. Len(t) : u[Len(s) + i] = t[i]
  BY <1>1, <1>2 DEF u
<1>5. \A i \in 1 .. Len(s) + Len(t) : i > Len(s) => u[i] = t[i - Len(s)]
  BY <1>1, <1>2 DEF u
<1> QED BY <1>1, <1>3, <1>4, <1>5 DEF u

\* ... and their elements.
LEMMA JoinedSet ==
    ASSUME NEW S, NEW s \in Seq(S), NEW t \in Seq(S)
    PROVE  /\ ToSet(s \o t) = ToSet(s) \cup ToSet(t)
           /\ Once(s) /\ Once(t) /\ ToSet(s) \cap ToSet(t) = {} => Once(s \o t)
<1> DEFINE u == s \o t
<1>1. /\ u \in Seq(S) /\ Len(u) = Len(s) + Len(t)
      /\ \A i \in 1 .. Len(s) + Len(t) : u[i] = IF i <= Len(s) THEN s[i] ELSE t[i - Len(s)]
  BY ConcatProperties
<1>2. /\ DOMAIN u = 1 .. Len(u) /\ DOMAIN s = 1 .. Len(s) /\ DOMAIN t = 1 .. Len(t)
      /\ Len(s) \in Nat /\ Len(t) \in Nat
  BY <1>1
<1> HIDE DEF u
<1>3. \A i \in 1 .. Len(s) : u[i] = s[i]
  BY JoinedIs DEF u
<1>4. \A i \in 1 .. Len(t) : u[Len(s) + i] = t[i]
  BY JoinedIs DEF u
<1>6. ToSet(u) = ToSet(s) \cup ToSet(t)
  <2>1. ASSUME NEW i \in DOMAIN u PROVE u[i] \in ToSet(s) \cup ToSet(t)
    <3>1. CASE i <= Len(s)
      BY <1>1, <1>2, <3>1 DEF ToSet
    <3>2. CASE i > Len(s)
      <4>1. i - Len(s) \in DOMAIN t /\ u[i] = t[i - Len(s)]
        BY <1>1, <1>2, <3>2
      <4> QED BY <4>1 DEF ToSet
    <3> QED BY <1>1, <1>2, <3>1, <3>2
  <2>2. ASSUME NEW i \in DOMAIN s PROVE s[i] \in ToSet(u)
    <3>1. i \in DOMAIN u /\ u[i] = s[i]
      BY <1>1, <1>2, <1>3
    <3> QED BY <3>1 DEF ToSet
  <2>3. ASSUME NEW i \in DOMAIN t PROVE t[i] \in ToSet(u)
    <3>1. Len(s) + i \in DOMAIN u /\ u[Len(s) + i] = t[i]
      BY <1>1, <1>2, <1>4
    <3> QED BY <3>1 DEF ToSet
  <2> QED BY <2>1, <2>2, <2>3 DEF ToSet
<1>7. ASSUME Once(s), Once(t), ToSet(s) \cap ToSet(t) = {} PROVE Once(u)
  <2> SUFFICES ASSUME NEW j \in DOMAIN u, NEW k \in DOMAIN u, u[j] = u[k]
               PROVE  j = k
    BY DEF Once
  <2>1. CASE j <= Len(s) /\ k <= Len(s)
    BY <1>1, <1>2, <1>7, <2>1 DEF Once
  <2>2. CASE j > Len(s) /\ k > Len(s)
    <3>1. /\ j - Len(s) \in DOMAIN t /\ u[j] = t[j - Len(s)]
          /\ k - Len(s) \in DOMAIN t /\ u[k] = t[k - Len(s)]
      BY <1>1, <1>2, <2>2
    <3>2. j - Len(s) = k - Len(s)
      BY <1>7, <3>1 DEF Once
    <3> QED BY <1>1, <1>2, <3>2
  <2>3. ASSUME NEW a \in DOMAIN u, NEW b \in DOMAIN u, a <= Len(s), b > Len(s), u[a] = u[b] PROVE FALSE
    <3>1. a \in DOMAIN s /\ u[a] = s[a] /\ b - Len(s) \in DOMAIN t /\ u[b] = t[b - Len(s)]
      BY <1>1, <1>2, <2>3
    <3> QED BY <1>7, <2>3, <3>1 DEF ToSet
  <2> QED BY <1>1, <1>2, <2>1, <2>2, <2>3
<1> QED BY <1>6, <1>7 DEF u

\* An element is taken out of a sequence.
LEMMA RemoveAtIs ==
    ASSUME NEW S, NEW s \in Seq(S), NEW i \in 1 .. Len(s)
    PROVE  LET r == RemoveAt(s, i)
           IN  /\ r \in Seq(S) /\ Len(r) = Len(s) - 1
               /\ \A k \in 1 .. Len(s) - 1 : r[k] = IF k < i THEN s[k] ELSE s[k + 1]
<1> DEFINE a == SubSeq(s, 1, i - 1)
           b == SubSeq(s, i + 1, Len(s))
<1>1. Len(s) \in Nat /\ i \in Nat /\ i - 1 \in Nat /\ i + 1 \in Nat /\ 1 <= i + 1 /\ i + 1 <= Len(s) + 1
      /\ i - 1 <= Len(s) /\ 1 <= (i - 1) + 1 /\ (i - 1) - 1 + 1 = i - 1 /\ 1 \in Nat /\ 1 <= 1
      /\ Len(s) <= Len(s) /\ Len(s) - (i + 1) + 1 = Len(s) - i
  OBVIOUS
<1>2. a \in Seq(S) /\ Len(a) = i - 1 /\ \A k \in 1 .. i - 1 : a[k] = s[1 + k - 1]
  <2>1. /\ SubSeq(s, 1, i - 1) \in Seq(S) /\ Len(SubSeq(s, 1, i - 1)) = (i - 1) - 1 + 1
        /\ \A k \in 1 .. (i - 1) - 1 + 1 : SubSeq(s, 1, i - 1)[k] = s[1 + k - 1]
    BY <1>1, PartIs
  <2> QED BY <1>1, <2>1
<1>3. b \in Seq(S) /\ Len(b) = Len(s) - i /\ \A k \in 1 .. Len(s) - i : b[k] = s[(i + 1) + k - 1]
  <2> DEFINE c == i + 1
             n == Len(s)
  <2>0. c \in Nat /\ n \in Nat /\ 1 <= c /\ c <= n + 1 /\ n <= Len(s) /\ n - c + 1 = Len(s) - i
    BY <1>1
  <2> HIDE DEF c, n
  <2>1. /\ SubSeq(s, c, n) \in Seq(S) /\ Len(SubSeq(s, c, n)) = n - c + 1
        /\ \A k \in 1 .. n - c + 1 : SubSeq(s, c, n)[k] = s[c + k - 1]
    BY <2>0, PartIs
  <2>2. /\ SubSeq(s, c, n) \in Seq(S) /\ Len(SubSeq(s, c, n)) = Len(s) - i
        /\ \A k \in 1 .. Len(s) - i : SubSeq(s, c, n)[k] = s[c + k - 1]
    BY <2>0, <2>1
  <2> QED BY <2>2 DEF c, n
<1> HIDE DEF a, b
<1>4. /\ a \o b \in Seq(S) /\ Len(a \o b) = Len(a) + Len(b)
      /\ \A k \in 1 .. Len(a) : (a \o b)[k] = a[k]
      /\ \A k \in 1 .. Len(a) + Len(b) : k > Len(a) => (a \o b)[k] = b[k - Len(a)]
  BY <1>2, <1>3, JoinedIs, ZenonT(40)
<1>5. Len(a) + Len(b) = Len(s) - 1
  BY <1>1, <1>2, <1>3
<1>6. ASSUME NEW k \in 1 .. Len(s) - 1 PROVE (a \o b)[k] = IF k < i THEN s[k] ELSE s[k + 1]
  <2>1. CASE k < i
    BY <1>1, <1>2, <1>4, <2>1
  <2>2. CASE ~(k < i)
    <3>1. k \in 1 .. Len(a) + Len(b) /\ k > Len(a) /\ k - Len(a) \in 1 .. Len(s) - i
          /\ (i + 1) + (k - Len(a)) - 1 = k + 1
      BY <1>1, <1>2, <1>3, <1>5, <2>2
    <3>2. (a \o b)[k] = b[k - Len(a)]
      BY <1>4, <3>1
    <3>3. b[k - Len(a)] = s[(i + 1) + (k - Len(a)) - 1]
      BY <1>3, <3>1
    <3> QED BY <2>2, <3>1, <3>2, <3>3
  <2> QED BY <2>1, <2>2
<1> QED BY <1>4, <1>5, <1>6 DEF RemoveAt, a, b

\* One element is taken out of a list without repetition.
LEMMA RemoveFirstIs ==
    ASSUME NEW S, NEW s \in Seq(S), NEW e
    PROVE  LET r == RemoveFirst(s, e)
           IN  /\ r \in Seq(S)
               /\ Once(s) => /\ Once(r) /\ ToSet(r) = ToSet(s) \ {e}
               /\ e \notin ToSet(s) => r = s
               /\ e \in ToSet(s) => Len(r) = Len(s) - 1
<1> DEFINE i == Position(s, e)
           r == RemoveAt(s, i)
<1>1. /\ e \in ToSet(s) <=> \E k \in 1 .. Len(s) : s[k] = e
      /\ e \in ToSet(s) => i \in 1 .. Len(s) /\ s[i] = e
  BY PositionIs DEF Contains
<1>2. RemoveFirst(s, e) = IF e \in ToSet(s) THEN r ELSE s
  BY <1>1 DEF RemoveFirst, Position
<1>3. CASE e \notin ToSet(s)
  <2>1. RemoveFirst(s, e) = s
    BY <1>2, <1>3
  <2> QED BY <1>3, <2>1
<1>4. CASE e \in ToSet(s)
  <2> HIDE DEF i
  <2>1. /\ r \in Seq(S) /\ Len(r) = Len(s) - 1
        /\ \A k \in 1 .. Len(s) - 1 : r[k] = IF k < i THEN s[k] ELSE s[k + 1]
    BY <1>1, <1>4, RemoveAtIs
  <2>2. /\ DOMAIN s = 1 .. Len(s) /\ Len(s) \in Nat /\ DOMAIN r = 1 .. Len(s) - 1 /\ i \in 1 .. Len(s)
    BY <1>1, <1>4, <2>1
  <2> HIDE DEF r
  <2>3. ASSUME Once(s) PROVE Once(r) /\ ToSet(r) = ToSet(s) \ {e}
    <3>1. ASSUME NEW k \in DOMAIN r
          PROVE  LET n == IF k < i THEN k ELSE k + 1 IN n \in DOMAIN s /\ n # i /\ r[k] = s[n]
      BY <2>1, <2>2
    <3>2. Once(r)
      <4> SUFFICES ASSUME NEW j \in DOMAIN r, NEW k \in DOMAIN r, r[j] = r[k]
                   PROVE  j = k
        BY DEF Once
      <4>1. (IF j < i THEN j ELSE j + 1) = (IF k < i THEN k ELSE k + 1)
        BY <2>3, <3>1 DEF Once
      <4> QED BY <2>2, <4>1
    <3>3. ASSUME NEW k \in DOMAIN r PROVE r[k] \in ToSet(s) \ {e}
      BY <1>1, <1>4, <2>2, <2>3, <3>1 DEF Once, ToSet
    <3>4. ASSUME NEW n \in DOMAIN s, s[n] # e PROVE s[n] \in ToSet(r)
      <4> DEFINE k == IF n < i THEN n ELSE n - 1
      <4>1. n # i
        BY <1>1, <1>4, <3>4
      <4>2. k \in DOMAIN r /\ (IF k < i THEN k ELSE k + 1) = n
        BY <2>2, <4>1
      <4> HIDE DEF k
      <4>3. r[k] = s[n]
        BY <3>1, <4>2
      <4> QED BY <4>2, <4>3 DEF ToSet
    <3> QED BY <3>2, <3>3, <3>4 DEF ToSet
  <2> QED BY <1>2, <1>4, <2>1, <2>3
<1> QED BY <1>3, <1>4

\* A list to which an element is added at its end, at its head, a list without its
\* head, and the other way round.
LEMMA AppendIs ==
    ASSUME NEW S, NEW s \in Seq(S), NEW e \in S
    PROVE  /\ Append(s, e) \in Seq(S) /\ Len(Append(s, e)) = Len(s) + 1
           /\ \A k \in 1 .. Len(s) : Append(s, e)[k] = s[k]
           /\ Append(s, e)[Len(s) + 1] = e
           /\ ToSet(Append(s, e)) = ToSet(s) \cup {e}
           /\ Once(s) /\ e \notin ToSet(s) => Once(Append(s, e))
<1> DEFINE r == Append(s, e)
<1>1. /\ r \in Seq(S) /\ Len(r) = Len(s) + 1 /\ Len(s) \in Nat
      /\ DOMAIN r = 1 .. Len(s) + 1 /\ DOMAIN s = 1 .. Len(s)
      /\ \A k \in 1 .. Len(s) : r[k] = s[k]
      /\ r[Len(s) + 1] = e
  OBVIOUS
<1> HIDE DEF r
<1>2. \A k \in DOMAIN r : k \in DOMAIN s \/ k = Len(s) + 1
  BY <1>1
<1>3. ToSet(r) = ToSet(s) \cup {e}
  <2>1. ASSUME NEW k \in DOMAIN r PROVE r[k] \in ToSet(s) \cup {e}
    BY <1>1, <1>2 DEF ToSet
  <2>2. ASSUME NEW k \in DOMAIN s PROVE s[k] \in ToSet(r)
    <3>1. k \in DOMAIN r /\ r[k] = s[k]
      BY <1>1
    <3> QED BY <3>1 DEF ToSet
  <2>3. e \in ToSet(r)
    <3>1. Len(s) + 1 \in DOMAIN r
      BY <1>1
    <3> QED BY <1>1, <3>1 DEF ToSet
  <2> QED BY <2>1, <2>2, <2>3 DEF ToSet
<1>4. Once(s) /\ e \notin ToSet(s) => Once(r)
  BY <1>1, <1>2 DEF Once, ToSet
<1> QED BY <1>1, <1>3, <1>4 DEF r

\* What is put in front of a list is in the result.
LEMMA PrependIs ==
    ASSUME NEW S, NEW s \in Seq(S), NEW e \in S
    PROVE  /\ <<e>> \o s \in Seq(S) /\ Len(<<e>> \o s) = Len(s) + 1
           /\ ToSet(<<e>> \o s) = ToSet(s) \cup {e}
           /\ Once(s) /\ e \notin ToSet(s) => Once(<<e>> \o s)
<1>1. <<e>> \in Seq(S) /\ Len(<<e>>) = 1 /\ DOMAIN <<e>> = {1} /\ <<e>>[1] = e
  OBVIOUS
<1>2. ToSet(<<e>>) = {e} /\ Once(<<e>>)
  BY <1>1 DEF ToSet, Once
<1>3. Len(<<e>> \o s) = Len(s) + 1 /\ <<e>> \o s \in Seq(S)
  BY <1>1
<1>4. /\ ToSet(<<e>> \o s) = ToSet(<<e>>) \cup ToSet(s)
      /\ Once(<<e>>) /\ Once(s) /\ ToSet(<<e>>) \cap ToSet(s) = {} => Once(<<e>> \o s)
  BY <1>1, JoinedSet
<1> QED BY <1>2, <1>3, <1>4

\* A list without its first element.
LEMMA TailIs ==
    ASSUME NEW S, NEW s \in Seq(S), s # << >>
    PROVE  /\ Tail(s) \in Seq(S) /\ Len(Tail(s)) = Len(s) - 1 /\ Head(s) \in S /\ Head(s) = s[1]
           /\ \A k \in 1 .. Len(s) - 1 : Tail(s)[k] = s[k + 1]
           /\ Once(s) => Once(Tail(s)) /\ ToSet(Tail(s)) = ToSet(s) \ {Head(s)}
           /\ Head(s) \in ToSet(s)
<1> DEFINE r == Tail(s)
<1>1. /\ r \in Seq(S) /\ Len(r) = Len(s) - 1 /\ Head(s) \in S /\ Head(s) = s[1] /\ Len(s) \in Nat \ {0}
      /\ \A k \in 1 .. Len(s) - 1 : r[k] = s[k + 1]
      /\ DOMAIN r = 1 .. Len(s) - 1 /\ DOMAIN s = 1 .. Len(s)
  OBVIOUS
<1> HIDE DEF r
<1>2. \A k \in DOMAIN r : k + 1 \in DOMAIN s /\ r[k] = s[k + 1] /\ k + 1 # 1
  BY <1>1
<1>3. \A k \in DOMAIN s : k = 1 \/ (k - 1 \in DOMAIN r /\ r[k - 1] = s[k])
  BY <1>1
<1>4. Head(s) \in ToSet(s)
  BY <1>1 DEF ToSet
<1>5. ASSUME Once(s) PROVE Once(r) /\ ToSet(r) = ToSet(s) \ {Head(s)}
  <2>1. Once(r)
    <3> SUFFICES ASSUME NEW j \in DOMAIN r, NEW k \in DOMAIN r, r[j] = r[k]
                 PROVE  j = k
      BY DEF Once
    <3>1. j + 1 = k + 1
      BY <1>2, <1>5 DEF Once
    <3> QED BY <1>1, <3>1
  <2>2. ASSUME NEW k \in DOMAIN r PROVE r[k] \in ToSet(s) /\ r[k] # s[1]
    BY <1>1, <1>2, <1>5 DEF ToSet, Once
  <2>3. ASSUME NEW k \in DOMAIN s, s[k] # s[1] PROVE s[k] \in ToSet(r)
    BY <1>3, <2>3 DEF ToSet
  <2> QED BY <1>1, <2>1, <2>2, <2>3 DEF ToSet
<1> QED BY <1>1, <1>4, <1>5 DEF r

\* A list from its end to its start has the same elements.
LEMMA ReverseIs ==
    ASSUME NEW S, NEW s \in Seq(S)
    PROVE  /\ Reverse(s) \in Seq(S) /\ ToSet(Reverse(s)) = ToSet(s)
           /\ Once(s) => Once(Reverse(s))
<1> DEFINE r == Reverse(s)
<1>1. DOMAIN s = 1 .. Len(s) /\ Len(s) \in Nat /\ \A k \in 1 .. Len(s) : Len(s) - k + 1 \in 1 .. Len(s)
  OBVIOUS
<1>2. r \in Seq(S) /\ DOMAIN r = 1 .. Len(s) /\ \A k \in 1 .. Len(s) : r[k] = s[(Len(s) - k) + 1]
  <2>1. \A k \in 1 .. Len(s) : s[(Len(s) - k) + 1] \in S
    BY <1>1, ElementOfSeq
  <2> QED BY <1>1, <2>1 DEF Reverse
<1> HIDE DEF r
<1>3. ASSUME NEW k \in 1 .. Len(s) PROVE s[k] = r[(Len(s) - k) + 1]
  <2>1. (Len(s) - ((Len(s) - k) + 1)) + 1 = k
    BY <1>1
  <2> QED BY <1>1, <1>2, <2>1
<1>4. ToSet(r) = ToSet(s)
  BY <1>1, <1>2, <1>3 DEF ToSet
<1>5. ASSUME Once(s) PROVE Once(r)
  <2> SUFFICES ASSUME NEW j \in DOMAIN r, NEW k \in DOMAIN r, r[j] = r[k]
               PROVE  j = k
    BY DEF Once
  <2>1. (Len(s) - j) + 1 = (Len(s) - k) + 1
    BY <1>1, <1>2, <1>5 DEF Once
  <2> QED BY <1>1, <1>2, <2>1
<1> QED BY <1>2, <1>4, <1>5 DEF r

\* A set of numbers that contains 0 and is closed upwards.
LEMMA Upwards ==
    ASSUME NEW n \in Nat, NEW B, 0 \in B, \A k \in 0 .. n - 1 : k \in B => k + 1 \in B
    PROVE  \A k \in 0 .. n : k \in B
<1> DEFINE S == {k \in Nat : k <= n /\ k \notin B}
<1>1. ASSUME S # {} PROVE FALSE
  <2>1. PICK i \in S : \A j \in S : ~(<<j, i>> \in OpToRel(<, Nat))
    BY <1>1, NatLessThanWellFounded, WFMin
  <2>2. \A j \in S : ~(j < i)
    BY <2>1 DEF OpToRel
  <2>0. i \in Nat /\ i <= n /\ i \notin B /\ i # 0
    OBVIOUS
  <2>3. i - 1 \in 0 .. n - 1 /\ i - 1 < i /\ (i - 1) + 1 = i /\ i - 1 \in Nat /\ i - 1 <= n
    BY <2>0
  <2>4. i - 1 \in B
    BY <2>2, <2>3
  <2> QED BY <2>0, <2>3, <2>4
<1> QED BY <1>1

-----------------------------------------------------------------------------
(* The operations that walk along a list, as sequences of steps.           *)

\* The RowModifs are put again in the hash table, one by one.
LEMMA RekeySteps ==
    ASSUME NEW p, NEW row, NEW by, Len(p.all_modifs) \in Nat
    PROVE  \E g : /\ g[0] = p /\ Rekey(p, row, by) = g[Len(p.all_modifs)]
                  /\ \A k \in 1 .. Len(p.all_modifs) : g[k] = Moved(g[k - 1], p.all_modifs[k], row, by)
<1> DEFINE n == Len(p.all_modifs)
           Body(f, m) == [k \in 0 .. m |-> IF k = 0 THEN p ELSE Moved(f[k - 1], p.all_modifs[k], row, by)]
           B == {m \in Nat : \E f : f = Body(f, m)}
           g == CHOOSE f : f = Body(f, n)
<1>1. 0 \in B
  <2>1. [k \in 0 .. 0 |-> p] = Body([k \in 0 .. 0 |-> p], 0)
    OBVIOUS
  <2> QED BY <2>1
<1>2. ASSUME NEW m \in 0 .. n - 1, m \in B PROVE m + 1 \in B
  <2>1. PICK f : f = Body(f, m)
    BY <1>2
  <2> DEFINE h == [k \in 0 .. m + 1 |-> IF k = m + 1 THEN Moved(f[m], p.all_modifs[m + 1], row, by) ELSE f[k]]
  <2>2. \A k \in 0 .. m : f[k] = IF k = 0 THEN p ELSE Moved(f[k - 1], p.all_modifs[k], row, by)
    BY <2>1
  <2>3. m \in Nat /\ m + 1 \in Nat /\ \A k \in 0 .. m + 1 : k = m + 1 \/ (k \in 0 .. m /\ k # m + 1)
    OBVIOUS
  <2>4. \A k \in 0 .. m + 1 : h[k] = IF k = 0 THEN p ELSE Moved(h[k - 1], p.all_modifs[k], row, by)
    <3> SUFFICES ASSUME NEW k \in 0 .. m + 1
                 PROVE  h[k] = IF k = 0 THEN p ELSE Moved(h[k - 1], p.all_modifs[k], row, by)
      OBVIOUS
    <3>1. CASE k = m + 1
      <4>1. k # 0 /\ k - 1 = m /\ h[m] = f[m]
        BY <2>3, <3>1
      <4> QED BY <3>1, <4>1
    <3>2. CASE k \in 0 .. m /\ k # 0
      <4>1. h[k] = f[k] /\ h[k - 1] = f[k - 1]
        BY <2>3, <3>2
      <4> QED BY <2>2, <3>2, <4>1
    <3>3. CASE k = 0
      <4>1. h[0] = f[0]
        BY <2>3
      <4> QED BY <2>2, <2>3, <3>3, <4>1
    <3> QED BY <2>3, <3>1, <3>2, <3>3
  <2>5. h = Body(h, m + 1)
    <3>1. h = [k \in 0 .. m + 1 |-> h[k]]
      OBVIOUS
    <3> QED BY <2>4, <3>1
  <2> QED BY <2>3, <2>5
<1>3. n \in B
  <2>1. n \in Nat /\ \A m \in 0 .. n - 1 : m \in B => m + 1 \in B
    BY <1>2
  <2> HIDE DEF B, n
  <2>2. \A k \in 0 .. n : k \in B
    BY <1>1, <2>1, Upwards
  <2> QED BY <2>1, <2>2
<1>4. g = Body(g, n)
  BY <1>3
<1>5. Rekey(p, row, by) = g[n]
  BY DEF Rekey
<1> HIDE DEF g
<1>6. n \in Nat /\ \A k \in 0 .. n : g[k] = IF k = 0 THEN p ELSE Moved(g[k - 1], p.all_modifs[k], row, by)
  BY <1>4
<1>7. g[0] = p /\ \A k \in 1 .. n : g[k] = Moved(g[k - 1], p.all_modifs[k], row, by)
  BY <1>6
<1> QED BY <1>5, <1>7

\* The turns of a synchronisation.
LEMMA SyncSteps ==
    ASSUME NEW p, NEW n \in Nat
    PROVE  \E g : /\ g[0] = p /\ Steps(p, n) = g[n]
                  /\ \A k \in 1 .. n : g[k] = SyncStep(g[k - 1])
<1> DEFINE Body(f, m) == [k \in 0 .. m |-> IF k = 0 THEN p ELSE SyncStep(f[k - 1])]
           B == {m \in Nat : \E f : f = Body(f, m)}
           g == CHOOSE f : f = Body(f, n)
<1>1. 0 \in B
  <2>1. [k \in 0 .. 0 |-> p] = Body([k \in 0 .. 0 |-> p], 0)
    OBVIOUS
  <2> QED BY <2>1
<1>2. ASSUME NEW m \in 0 .. n - 1, m \in B PROVE m + 1 \in B
  <2>1. PICK f : f = Body(f, m)
    BY <1>2
  <2> DEFINE h == [k \in 0 .. m + 1 |-> IF k = m + 1 THEN SyncStep(f[m]) ELSE f[k]]
  <2>2. \A k \in 0 .. m : f[k] = IF k = 0 THEN p ELSE SyncStep(f[k - 1])
    BY <2>1
  <2>3. m \in Nat /\ m + 1 \in Nat /\ \A k \in 0 .. m + 1 : k = m + 1 \/ (k \in 0 .. m /\ k # m + 1)
    OBVIOUS
  <2>4. \A k \in 0 .. m + 1 : h[k] = IF k = 0 THEN p ELSE SyncStep(h[k - 1])
    <3> SUFFICES ASSUME NEW k \in 0 .. m + 1
                 PROVE  h[k] = IF k = 0 THEN p ELSE SyncStep(h[k - 1])
      OBVIOUS
    <3>1. CASE k = m + 1
      <4>1. k # 0 /\ k - 1 = m /\ h[m] = f[m]
        BY <2>3, <3>1
      <4> QED BY <3>1, <4>1
    <3>2. CASE k \in 0 .. m /\ k # 0
      <4>1. h[k] = f[k] /\ h[k - 1] = f[k - 1]
        BY <2>3, <3>2
      <4> QED BY <2>2, <3>2, <4>1
    <3>3. CASE k = 0
      <4>1. h[0] = f[0]
        BY <2>3
      <4> QED BY <2>2, <2>3, <3>3, <4>1
    <3> QED BY <2>3, <3>1, <3>2, <3>3
  <2>5. h = Body(h, m + 1)
    <3>1. h = [k \in 0 .. m + 1 |-> h[k]]
      OBVIOUS
    <3> QED BY <2>4, <3>1
  <2> QED BY <2>3, <2>5
<1>3. n \in B
  <2>1. n \in Nat /\ \A m \in 0 .. n - 1 : m \in B => m + 1 \in B
    BY <1>2
  <2> HIDE DEF B
  <2>2. \A k \in 0 .. n : k \in B
    BY <1>1, <2>1, Upwards
  <2> QED BY <2>1, <2>2
<1>4. g = Body(g, n)
  BY <1>3
<1>5. Steps(p, n) = g[n]
  BY DEF Steps
<1> HIDE DEF g
<1>6. n \in Nat /\ \A k \in 0 .. n : g[k] = IF k = 0 THEN p ELSE SyncStep(g[k - 1])
  BY <1>4
<1>7. g[0] = p /\ \A k \in 1 .. n : g[k] = SyncStep(g[k - 1])
  BY <1>6
<1> QED BY <1>5, <1>7

\* The new rows are taken out of the chunk, one by one.
LEMMA UncoverSteps ==
    ASSUME NEW p, Len(p.new_rows) \in Nat
    PROVE  \E g : /\ g[0] = p /\ AllUncovered(p) = g[Len(p.new_rows)]
                  /\ \A k \in 1 .. Len(p.new_rows) : g[k] = Uncovered(g[k - 1])
<1> DEFINE n == Len(p.new_rows)
           Body(f, m) == [k \in 0 .. m |-> IF k = 0 THEN p ELSE Uncovered(f[k - 1])]
           B == {m \in Nat : \E f : f = Body(f, m)}
           g == CHOOSE f : f = Body(f, n)
<1>1. 0 \in B
  <2>1. [k \in 0 .. 0 |-> p] = Body([k \in 0 .. 0 |-> p], 0)
    OBVIOUS
  <2> QED BY <2>1
<1>2. ASSUME NEW m \in 0 .. n - 1, m \in B PROVE m + 1 \in B
  <2>1. PICK f : f = Body(f, m)
    BY <1>2
  <2> DEFINE h == [k \in 0 .. m + 1 |-> IF k = m + 1 THEN Uncovered(f[m]) ELSE f[k]]
  <2>2. \A k \in 0 .. m : f[k] = IF k = 0 THEN p ELSE Uncovered(f[k - 1])
    BY <2>1
  <2>3. m \in Nat /\ m + 1 \in Nat /\ \A k \in 0 .. m + 1 : k = m + 1 \/ (k \in 0 .. m /\ k # m + 1)
    OBVIOUS
  <2>4. \A k \in 0 .. m + 1 : h[k] = IF k = 0 THEN p ELSE Uncovered(h[k - 1])
    <3> SUFFICES ASSUME NEW k \in 0 .. m + 1
                 PROVE  h[k] = IF k = 0 THEN p ELSE Uncovered(h[k - 1])
      OBVIOUS
    <3>1. CASE k = m + 1
      <4>1. k # 0 /\ k - 1 = m /\ h[m] = f[m]
        BY <2>3, <3>1
      <4> QED BY <3>1, <4>1
    <3>2. CASE k \in 0 .. m /\ k # 0
      <4>1. h[k] = f[k] /\ h[k - 1] = f[k - 1]
        BY <2>3, <3>2
      <4> QED BY <2>2, <3>2, <4>1
    <3>3. CASE k = 0
      <4>1. h[0] = f[0]
        BY <2>3
      <4> QED BY <2>2, <2>3, <3>3, <4>1
    <3> QED BY <2>3, <3>1, <3>2, <3>3
  <2>5. h = Body(h, m + 1)
    <3>1. h = [k \in 0 .. m + 1 |-> h[k]]
      OBVIOUS
    <3> QED BY <2>4, <3>1
  <2> QED BY <2>3, <2>5
<1>3. n \in B
  <2>1. n \in Nat /\ \A m \in 0 .. n - 1 : m \in B => m + 1 \in B
    BY <1>2
  <2> HIDE DEF B, n
  <2>2. \A k \in 0 .. n : k \in B
    BY <1>1, <2>1, Upwards
  <2> QED BY <2>1, <2>2
<1>4. g = Body(g, n)
  BY <1>3
<1>5. AllUncovered(p) = g[n]
  BY DEF AllUncovered
<1> HIDE DEF g
<1>6. n \in Nat /\ \A k \in 0 .. n : g[k] = IF k = 0 THEN p ELSE Uncovered(g[k - 1])
  BY <1>4
<1>7. g[0] = p /\ \A k \in 1 .. n : g[k] = Uncovered(g[k - 1])
  BY <1>6
<1> QED BY <1>5, <1>7

\* The changes are put in the cache, one by one.
LEMMA CacheSteps ==
    ASSUME NEW p, Len(p.all_modifs) \in Nat
    PROVE  \E g : /\ g[0] = p /\ AllCached(p) = g[Len(p.all_modifs)]
                  /\ \A k \in 1 .. Len(p.all_modifs) : g[k] = Cached(g[k - 1])
<1> DEFINE n == Len(p.all_modifs)
           Body(f, m) == [k \in 0 .. m |-> IF k = 0 THEN p ELSE Cached(f[k - 1])]
           B == {m \in Nat : \E f : f = Body(f, m)}
           g == CHOOSE f : f = Body(f, n)
<1>1. 0 \in B
  <2>1. [k \in 0 .. 0 |-> p] = Body([k \in 0 .. 0 |-> p], 0)
    OBVIOUS
  <2> QED BY <2>1
<1>2. ASSUME NEW m \in 0 .. n - 1, m \in B PROVE m + 1 \in B
  <2>1. PICK f : f = Body(f, m)
    BY <1>2
  <2> DEFINE h == [k \in 0 .. m + 1 |-> IF k = m + 1 THEN Cached(f[m]) ELSE f[k]]
  <2>2. \A k \in 0 .. m : f[k] = IF k = 0 THEN p ELSE Cached(f[k - 1])
    BY <2>1
  <2>3. m \in Nat /\ m + 1 \in Nat /\ \A k \in 0 .. m + 1 : k = m + 1 \/ (k \in 0 .. m /\ k # m + 1)
    OBVIOUS
  <2>4. \A k \in 0 .. m + 1 : h[k] = IF k = 0 THEN p ELSE Cached(h[k - 1])
    <3> SUFFICES ASSUME NEW k \in 0 .. m + 1
                 PROVE  h[k] = IF k = 0 THEN p ELSE Cached(h[k - 1])
      OBVIOUS
    <3>1. CASE k = m + 1
      <4>1. k # 0 /\ k - 1 = m /\ h[m] = f[m]
        BY <2>3, <3>1
      <4> QED BY <3>1, <4>1
    <3>2. CASE k \in 0 .. m /\ k # 0
      <4>1. h[k] = f[k] /\ h[k - 1] = f[k - 1]
        BY <2>3, <3>2
      <4> QED BY <2>2, <3>2, <4>1
    <3>3. CASE k = 0
      <4>1. h[0] = f[0]
        BY <2>3
      <4> QED BY <2>2, <2>3, <3>3, <4>1
    <3> QED BY <2>3, <3>1, <3>2, <3>3
  <2>5. h = Body(h, m + 1)
    <3>1. h = [k \in 0 .. m + 1 |-> h[k]]
      OBVIOUS
    <3> QED BY <2>4, <3>1
  <2> QED BY <2>3, <2>5
<1>3. n \in B
  <2>1. n \in Nat /\ \A m \in 0 .. n - 1 : m \in B => m + 1 \in B
    BY <1>2
  <2> HIDE DEF B, n
  <2>2. \A k \in 0 .. n : k \in B
    BY <1>1, <2>1, Upwards
  <2> QED BY <2>1, <2>2
<1>4. g = Body(g, n)
  BY <1>3
<1>5. AllCached(p) = g[n]
  BY DEF AllCached
<1> HIDE DEF g
<1>6. n \in Nat /\ \A k \in 0 .. n : g[k] = IF k = 0 THEN p ELSE Cached(g[k - 1])
  BY <1>4
<1>7. g[0] = p /\ \A k \in 1 .. n : g[k] = Cached(g[k - 1])
  BY <1>6
<1> QED BY <1>5, <1>7

\* Each row of the model takes a change from the cache.
LEMMA TakeSteps ==
    ASSUME NEW p, Len(p.model) \in Nat
    PROVE  \E g : /\ g[0] = p /\ AllTaken(p) = g[Len(p.model)]
                  /\ \A k \in 1 .. Len(p.model) : g[k] = Taken(g[k - 1], k)
<1> DEFINE n == Len(p.model)
           Body(f, m) == [k \in 0 .. m |-> IF k = 0 THEN p ELSE Taken(f[k - 1], k)]
           B == {m \in Nat : \E f : f = Body(f, m)}
           g == CHOOSE f : f = Body(f, n)
<1>1. 0 \in B
  <2>1. [k \in 0 .. 0 |-> p] = Body([k \in 0 .. 0 |-> p], 0)
    OBVIOUS
  <2> QED BY <2>1
<1>2. ASSUME NEW m \in 0 .. n - 1, m \in B PROVE m + 1 \in B
  <2>1. PICK f : f = Body(f, m)
    BY <1>2
  <2> DEFINE h == [k \in 0 .. m + 1 |-> IF k = m + 1 THEN Taken(f[m], m + 1) ELSE f[k]]
  <2>2. \A k \in 0 .. m : f[k] = IF k = 0 THEN p ELSE Taken(f[k - 1], k)
    BY <2>1
  <2>3. m \in Nat /\ m + 1 \in Nat /\ \A k \in 0 .. m + 1 : k = m + 1 \/ (k \in 0 .. m /\ k # m + 1)
    OBVIOUS
  <2>4. \A k \in 0 .. m + 1 : h[k] = IF k = 0 THEN p ELSE Taken(h[k - 1], k)
    <3> SUFFICES ASSUME NEW k \in 0 .. m + 1
                 PROVE  h[k] = IF k = 0 THEN p ELSE Taken(h[k - 1], k)
      OBVIOUS
    <3>1. CASE k = m + 1
      <4>1. k # 0 /\ k - 1 = m /\ h[m] = f[m]
        BY <2>3, <3>1
      <4> QED BY <3>1, <4>1
    <3>2. CASE k \in 0 .. m /\ k # 0
      <4>1. h[k] = f[k] /\ h[k - 1] = f[k - 1]
        BY <2>3, <3>2
      <4> QED BY <2>2, <3>2, <4>1
    <3>3. CASE k = 0
      <4>1. h[0] = f[0]
        BY <2>3
      <4> QED BY <2>2, <2>3, <3>3, <4>1
    <3> QED BY <2>3, <3>1, <3>2, <3>3
  <2>5. h = Body(h, m + 1)
    <3>1. h = [k \in 0 .. m + 1 |-> h[k]]
      OBVIOUS
    <3> QED BY <2>4, <3>1
  <2> QED BY <2>3, <2>5
<1>3. n \in B
  <2>1. n \in Nat /\ \A m \in 0 .. n - 1 : m \in B => m + 1 \in B
    BY <1>2
  <2> HIDE DEF B, n
  <2>2. \A k \in 0 .. n : k \in B
    BY <1>1, <2>1, Upwards
  <2> QED BY <2>1, <2>2
<1>4. g = Body(g, n)
  BY <1>3
<1>5. AllTaken(p) = g[n]
  BY DEF AllTaken
<1> HIDE DEF g
<1>6. n \in Nat /\ \A k \in 0 .. n : g[k] = IF k = 0 THEN p ELSE Taken(g[k - 1], k)
  BY <1>4
<1>7. g[0] = p /\ \A k \in 1 .. n : g[k] = Taken(g[k - 1], k)
  BY <1>6
<1> QED BY <1>5, <1>7

\* The changes are applied, one by one.
LEMMA CommitSteps ==
    ASSUME NEW p, NEW n \in Nat
    PROVE  \E g : /\ g[0] = p /\ CommitAll(p, n) = g[n]
                  /\ \A k \in 1 .. n : g[k] = CommitFirst(g[k - 1])
<1> DEFINE Body(f, m) == [k \in 0 .. m |-> IF k = 0 THEN p ELSE CommitFirst(f[k - 1])]
           B == {m \in Nat : \E f : f = Body(f, m)}
           g == CHOOSE f : f = Body(f, n)
<1>1. 0 \in B
  <2>1. [k \in 0 .. 0 |-> p] = Body([k \in 0 .. 0 |-> p], 0)
    OBVIOUS
  <2> QED BY <2>1
<1>2. ASSUME NEW m \in 0 .. n - 1, m \in B PROVE m + 1 \in B
  <2>1. PICK f : f = Body(f, m)
    BY <1>2
  <2> DEFINE h == [k \in 0 .. m + 1 |-> IF k = m + 1 THEN CommitFirst(f[m]) ELSE f[k]]
  <2>2. \A k \in 0 .. m : f[k] = IF k = 0 THEN p ELSE CommitFirst(f[k - 1])
    BY <2>1
  <2>3. m \in Nat /\ m + 1 \in Nat /\ \A k \in 0 .. m + 1 : k = m + 1 \/ (k \in 0 .. m /\ k # m + 1)
    OBVIOUS
  <2>4. \A k \in 0 .. m + 1 : h[k] = IF k = 0 THEN p ELSE CommitFirst(h[k - 1])
    <3> SUFFICES ASSUME NEW k \in 0 .. m + 1
                 PROVE  h[k] = IF k = 0 THEN p ELSE CommitFirst(h[k - 1])
      OBVIOUS
    <3>1. CASE k = m + 1
      <4>1. k # 0 /\ k - 1 = m /\ h[m] = f[m]
        BY <2>3, <3>1
      <4> QED BY <3>1, <4>1
    <3>2. CASE k \in 0 .. m /\ k # 0
      <4>1. h[k] = f[k] /\ h[k - 1] = f[k - 1]
        BY <2>3, <3>2
      <4> QED BY <2>2, <3>2, <4>1
    <3>3. CASE k = 0
      <4>1. h[0] = f[0]
        BY <2>3
      <4> QED BY <2>2, <2>3, <3>3, <4>1
    <3> QED BY <2>3, <3>1, <3>2, <3>3
  <2>5. h = Body(h, m + 1)
    <3>1. h = [k \in 0 .. m + 1 |-> h[k]]
      OBVIOUS
    <3> QED BY <2>4, <3>1
  <2> QED BY <2>3, <2>5
<1>3. n \in B
  <2>1. n \in Nat /\ \A m \in 0 .. n - 1 : m \in B => m + 1 \in B
    BY <1>2
  <2> HIDE DEF B
  <2>2. \A k \in 0 .. n : k \in B
    BY <1>1, <2>1, Upwards
  <2> QED BY <2>1, <2>2
<1>4. g = Body(g, n)
  BY <1>3
<1>5. CommitAll(p, n) = g[n]
  BY DEF CommitAll
<1> HIDE DEF g
<1>6. n \in Nat /\ \A k \in 0 .. n : g[k] = IF k = 0 THEN p ELSE CommitFirst(g[k - 1])
  BY <1>4
<1>7. g[0] = p /\ \A k \in 1 .. n : g[k] = CommitFirst(g[k - 1])
  BY <1>6
<1> QED BY <1>5, <1>7

-----------------------------------------------------------------------------
(* The changes: RowModifs are in one list each, are found by their row, and *)
(* are about the row they were made for.                                    *)

ModelRow == [id : Ids, val : Row]
Lists(p) ==
    /\ p.all_modifs \in Seq(Modifs) /\ p.cached_modifs \in Seq(Modifs)
    /\ p.cached_inserts \in Seq(Modifs) /\ p.new_rows \in Seq(Modifs)
    /\ Once(p.all_modifs) /\ Once(p.cached_modifs) /\ Once(p.cached_inserts) /\ Once(p.new_rows)
    /\ ToSet(p.all_modifs) \cap ToSet(p.cached_modifs) = {}
    /\ ToSet(p.all_modifs) \cap ToSet(p.cached_inserts) = {}
    /\ ToSet(p.cached_modifs) \cap ToSet(p.cached_inserts) = {}
    /\ p.mods = [m \in DOMAIN p.mods |-> p.mods[m]]
    /\ DOMAIN p.mods = ToSet(p.all_modifs) \cup ToSet(p.cached_modifs) \cup ToSet(p.cached_inserts)
    /\ \A m \in DOMAIN p.mods : p.mods[m] \in RowModif

\* The new rows, and those of the cache, have no row in the model.
News(p) ==
    /\ ToSet(p.new_rows) = {m \in ToSet(p.all_modifs) : p.mods[m].model_row = -1}
    /\ \A m \in ToSet(p.cached_inserts) : p.mods[m].model_row = -1

\* An entry of the hash table leads to the RowModif of that row.
Keyed(p) ==
    /\ p.modify_rows = [r \in DOMAIN p.modify_rows |-> p.modify_rows[r]]
    /\ \A r \in DOMAIN p.modify_rows :
          /\ r \in Nat /\ p.modify_rows[r] \in ToSet(p.all_modifs)
          /\ p.mods[p.modify_rows[r]].model_row = r

\* A row has one RowModif, with its identity and its values.
OfTheirRow(p) ==
    \A m \in ToSet(p.all_modifs) :
       /\ p.mods[m].model_row \in -1 .. Len(p.model) - 1
       /\ p.mods[m].model_row >= 0 =>
            /\ p.model[p.mods[m].model_row + 1].id = p.mods[m].id
            /\ p.model[p.mods[m].model_row + 1].val = p.mods[m].orig
            /\ \A n \in ToSet(p.all_modifs) : p.mods[n].model_row = p.mods[m].model_row => n = m

\* A new row has values but no original ones, and is not marked to be deleted.
Marked(p) ==
    \A m \in DOMAIN p.mods :
       p.mods[m].model_row = -1 => /\ ~p.mods[m].to_be_deleted /\ p.mods[m].orig = NULL
                                  /\ p.mods[m].values # << >>
Edits(p) == /\ p.model \in Seq(ModelRow) /\ Lists(p) /\ News(p) /\ Keyed(p) /\ OfTheirRow(p)
            /\ Marked(p)

\* The changes are others, what is shown and the rows are not.
EditedOnly(p, q) ==
    /\ IsProxy(q) /\ SameShow(p, q) /\ q.model = p.model /\ q.new_rows = p.new_rows /\ Edits(q)

\* What is kept with the numbers of the rows that change.
Renumbered(q, p) ==
    /\ SameShow(p, q) /\ q.model = p.model /\ q.all_modifs = p.all_modifs /\ q.new_rows = p.new_rows
    /\ q.cached_modifs = p.cached_modifs /\ q.cached_inserts = p.cached_inserts
    /\ IsProxy(q) /\ Keyed(q)
    /\ q.mods = [m \in DOMAIN q.mods |-> q.mods[m]] /\ DOMAIN q.mods = DOMAIN p.mods

\* The RowModifs of the rows after `row' have another row, the rest of them is the same.
LEMMA RekeyIs ==
    ASSUME NEW p, IsProxy(p), Lists(p), Keyed(p), NEW row \in Nat, NEW by \in {1, -1}
    PROVE  LET q == Rekey(p, row, by)
           IN  /\ Renumbered(q, p)
               /\ \A m \in DOMAIN p.mods :
                     q.mods[m] = IF m \in ToSet(p.all_modifs) /\ p.mods[m].model_row > row
                                 THEN [p.mods[m] EXCEPT !.model_row = @ + by] ELSE p.mods[m]
<1> DEFINE s == p.all_modifs
           n == Len(s)
<1>1. /\ s \in Seq(Modifs) /\ n \in Nat /\ DOMAIN s = 1 .. n /\ Once(s)
      /\ ToSet(s) \subseteq DOMAIN p.mods /\ \A m \in DOMAIN p.mods : p.mods[m] \in RowModif
      /\ p.mods = [m \in DOMAIN p.mods |-> p.mods[m]]
  BY DEF Lists
<1>2. PICK g : /\ g[0] = p /\ Rekey(p, row, by) = g[n]
               /\ \A k \in 1 .. n : g[k] = Moved(g[k - 1], s[k], row, by)
  BY <1>1, RekeySteps
<1> DEFINE Done(k) == {s[i] : i \in 1 .. k}
           So(k, m) == IF m \in Done(k) /\ p.mods[m].model_row > row
                       THEN [p.mods[m] EXCEPT !.model_row = @ + by] ELSE p.mods[m]
           Good(k) == Renumbered(g[k], p) /\ \A m \in DOMAIN p.mods : g[k].mods[m] = So(k, m)
           B == {k \in Nat : Good(k)}
<1>3. 0 \in B
  <2>1. Done(0) = {}
    OBVIOUS
  <2>2. Renumbered(p, p)
    BY <1>1 DEF Renumbered, SameShow, SameOptions
  <2> QED BY <1>2, <2>1, <2>2
<1>4. ASSUME NEW k \in 0 .. n - 1, k \in B PROVE k + 1 \in B
  <2> DEFINE q == g[k]
             m == s[k + 1]
             from == q.mods[m].model_row
             to == from + by
             r == g[k + 1]
  <2>1. k \in Nat /\ k + 1 \in Nat /\ k + 1 \in 1 .. n /\ (k + 1) - 1 = k
    BY <1>1
  <2>2. r = Moved(q, m, row, by)
    BY <1>2, <2>1
  <2>3. Renumbered(q, p) /\ \A x \in DOMAIN p.mods : q.mods[x] = So(k, x)
    BY <1>4
  <2>4. m \in ToSet(s) /\ m \in DOMAIN p.mods /\ m \notin Done(k) /\ Done(k + 1) = Done(k) \cup {m}
    <3>1. m \in ToSet(s)
      BY <1>1, <2>1 DEF ToSet
    <3>2. \A i \in 1 .. k : i \in DOMAIN s /\ i # k + 1 /\ k + 1 \in DOMAIN s
      BY <1>1, <2>1
    <3>3. m \notin Done(k)
      BY <1>1, <3>2 DEF Once
    <3>4. \A i \in 1 .. k + 1 : i \in 1 .. k \/ i = k + 1
      BY <2>1
    <3>5. \A i \in 1 .. k : i \in 1 .. k + 1
      BY <2>1
    <3>6. k + 1 \in 1 .. k + 1
      BY <2>1
    <3> QED BY <1>1, <3>1, <3>3, <3>4, <3>5, <3>6
  <2>5. q.mods[m] = p.mods[m] /\ p.mods[m] \in RowModif /\ from \in Int /\ to \in Int
    <3> HIDE DEF m, q, Done
    <3>1. q.mods[m] = p.mods[m]
      BY <2>3, <2>4
    <3>2. p.mods[m] \in RowModif
      BY <1>1, <2>4
    <3>3. from \in Int
      BY <3>1, <3>2 DEF RowModif
    <3> QED BY <3>1, <3>2, <3>3
  <2> HIDE DEF q, m, r, from, Done
  <2>6. CASE from > row
    <3>1. r = [q EXCEPT !.mods[m].model_row = to, !.modify_rows = With(Without(@, {from}), to, m)]
      BY <2>2, <2>6 DEF Moved, from
    <3>2. to \in Nat /\ to # from
      BY <2>5, <2>6
    <3> HIDE DEF to
    <3>3. /\ IsProxy(r) /\ SameShow(p, r) /\ r.model = p.model /\ r.all_modifs = p.all_modifs
          /\ r.new_rows = p.new_rows /\ r.cached_modifs = p.cached_modifs
          /\ r.cached_inserts = p.cached_inserts
          /\ r.mods = [q.mods EXCEPT ![m].model_row = to]
          /\ r.modify_rows = With(Without(q.modify_rows, {from}), to, m)
      BY <2>3, <3>1 DEF Renumbered, IsProxy, Fields, SameShow, SameOptions
    <3>4. /\ r.mods = [x \in DOMAIN r.mods |-> r.mods[x]] /\ DOMAIN r.mods = DOMAIN p.mods
          /\ r.mods[m] = [q.mods[m] EXCEPT !.model_row = to]
          /\ \A x \in DOMAIN p.mods : x # m => r.mods[x] = q.mods[x]
      BY <2>3, <2>4, <3>3 DEF Renumbered
    <3>5. r.mods[m].model_row = to
      BY <2>5, <3>4 DEF RowModif
    <3>6. Keyed(r)
      <4>1. Keyed(q) /\ q.all_modifs = s
        BY <2>3 DEF Renumbered
      <4>2. /\ DOMAIN r.modify_rows = (DOMAIN q.modify_rows \ {from}) \cup {to}
            /\ r.modify_rows = [x \in DOMAIN r.modify_rows |-> r.modify_rows[x]]
            /\ r.modify_rows[to] = m
            /\ \A x \in DOMAIN r.modify_rows : x # to => r.modify_rows[x] = q.modify_rows[x] /\ x # from
                                                          /\ x \in DOMAIN q.modify_rows
        BY <3>3 DEF With, Without
      <4>3. ASSUME NEW x \in DOMAIN r.modify_rows, x # to
            PROVE  /\ x \in Nat /\ r.modify_rows[x] \in ToSet(r.all_modifs)
                   /\ r.mods[r.modify_rows[x]].model_row = x
        <5>1. /\ r.modify_rows[x] = q.modify_rows[x] /\ x # from /\ x \in DOMAIN q.modify_rows
              /\ x \in Nat /\ q.modify_rows[x] \in ToSet(s) /\ q.mods[q.modify_rows[x]].model_row = x
          BY <4>1, <4>2, <4>3 DEF Keyed
        <5>2. q.modify_rows[x] # m
          BY <5>1 DEF from
        <5> QED BY <1>1, <3>3, <3>4, <5>1, <5>2
      <4> QED BY <2>4, <3>2, <3>3, <3>5, <4>2, <4>3 DEF Keyed
    <3>7. \A x \in DOMAIN p.mods : r.mods[x] = So(k + 1, x)
      <4>1. r.mods[m] = So(k + 1, m)
        BY <2>4, <2>5, <2>6, <3>4 DEF from, to
      <4>2. \A x \in DOMAIN p.mods : x # m => So(k + 1, x) = So(k, x)
        BY <2>4
      <4> QED BY <2>3, <3>4, <4>1, <4>2
    <3> QED BY <2>1, <3>3, <3>4, <3>6, <3>7 DEF Renumbered, r
  <2>7. CASE ~(from > row)
    <3>1. r = q
      BY <2>2, <2>7 DEF Moved, from
    <3>2. \A x \in DOMAIN p.mods : So(k + 1, x) = So(k, x)
      BY <2>4, <2>5, <2>7 DEF from
    <3> QED BY <2>1, <2>3, <3>1, <3>2 DEF r
  <2> QED BY <2>6, <2>7
<1>5. n \in B
  <2>1. n \in Nat /\ \A k \in 0 .. n - 1 : k \in B => k + 1 \in B
    BY <1>1, <1>4
  <2> HIDE DEF B, n
  <2>2. \A k \in 0 .. n : k \in B
    BY <1>3, <2>1, Upwards
  <2> QED BY <2>1, <2>2
<1>6. Done(n) = ToSet(s)
  <2>1. DOMAIN s = 1 .. n
    BY <1>1
  <2> HIDE DEF s, n
  <2>2. Done(n) = {s[i] : i \in DOMAIN s}
    BY <2>1
  <2> HIDE DEF Done
  <2> QED BY <2>2 DEF ToSet
<1>7. Renumbered(g[n], p) /\ \A m \in DOMAIN p.mods : g[n].mods[m] = So(n, m)
  BY <1>5
<1>8. g[n] = Rekey(p, row, by)
  BY <1>2
<1>9. \A m \in DOMAIN p.mods :
         So(n, m) = IF m \in ToSet(p.all_modifs) /\ p.mods[m].model_row > row
                    THEN [p.mods[m] EXCEPT !.model_row = @ + by] ELSE p.mods[m]
  <2> HIDE DEF Done
  <2> QED BY <1>6, Zenon
<1> HIDE DEF n, So, Good, B
<1>10. /\ Renumbered(Rekey(p, row, by), p)
       /\ \A m \in DOMAIN p.mods : Rekey(p, row, by).mods[m] = So(n, m)
  BY <1>7, <1>8, Zenon
<1> QED BY <1>9, <1>10, Zenon

\* A RowModif is in the lists the invariants say.
LEMMA ListedIs ==
    ASSUME NEW p, Lists(p), News(p), NEW m \in ToSet(p.all_modifs)
    PROVE  /\ m \in DOMAIN p.mods /\ p.mods[m] \in RowModif /\ m \in Modifs
           /\ m \notin ToSet(p.cached_modifs) /\ m \notin ToSet(p.cached_inserts)
           /\ m \in ToSet(p.new_rows) <=> p.mods[m].model_row = -1
           /\ p.mods[m].model_row \in Int
<1>1. m \in DOMAIN p.mods /\ p.mods[m] \in RowModif
  BY DEF Lists
<1>2. m \in Modifs
  <2>1. PICK k \in DOMAIN p.all_modifs : m = p.all_modifs[k]
    BY DEF ToSet
  <2> QED BY <2>1 DEF Lists
<1>3. m \notin ToSet(p.cached_modifs) /\ m \notin ToSet(p.cached_inserts)
  BY DEF Lists
<1>4. m \in ToSet(p.new_rows) <=> p.mods[m].model_row = -1
  BY DEF News
<1>5. p.mods[m].model_row \in Int
  BY <1>1 DEF RowModif
<1> QED BY <1>1, <1>2, <1>3, <1>4, <1>5

\* DropModif(), with the row of the RowModif as the key.
LEMMA DropKeeps ==
    ASSUME NEW p, IsProxy(p), Lists(p), News(p), Keyed(p), NEW m \in ToSet(p.all_modifs)
    PROVE  LET q == DropModif(p, m, p.mods[m].model_row)
           IN  /\ IsProxy(q) /\ SameShow(p, q) /\ q.model = p.model
               /\ Lists(q) /\ News(q) /\ Keyed(q)
               /\ ToSet(q.all_modifs) = ToSet(p.all_modifs) \ {m}
               /\ \A n \in DOMAIN q.mods : n \in DOMAIN p.mods /\ q.mods[n] = p.mods[n]
               /\ m \notin DOMAIN q.mods
               /\ q.new_rows = RemoveFirst(p.new_rows, m)
               /\ Len(q.new_rows) = IF p.mods[m].model_row = -1 THEN Len(p.new_rows) - 1
                                    ELSE Len(p.new_rows)
               /\ p.mods[m].model_row # -1 => q.new_rows = p.new_rows
               /\ q.cached_modifs = p.cached_modifs /\ q.cached_inserts = p.cached_inserts
<1> DEFINE key == p.mods[m].model_row
           q == DropModif(p, m, key)
<1>1. /\ m \in DOMAIN p.mods /\ p.mods[m] \in RowModif /\ m \in Modifs
      /\ m \notin ToSet(p.cached_modifs) /\ m \notin ToSet(p.cached_inserts)
      /\ m \in ToSet(p.new_rows) <=> key = -1
  BY ListedIs
<1>2. /\ q.mods = Without(p.mods, {m}) /\ q.modify_rows = Without(p.modify_rows, {key})
      /\ q.all_modifs = RemoveFirst(p.all_modifs, m) /\ q.new_rows = RemoveFirst(p.new_rows, m)
      /\ q.cached_modifs = p.cached_modifs /\ q.cached_inserts = p.cached_inserts
      /\ IsProxy(q) /\ SameShow(p, q) /\ q.model = p.model
  BY DEF DropModif, IsProxy, Fields, SameShow, SameOptions
<1> HIDE DEF q
<1>3. /\ q.all_modifs \in Seq(Modifs) /\ Once(q.all_modifs)
      /\ ToSet(q.all_modifs) = ToSet(p.all_modifs) \ {m}
  BY <1>2, RemoveFirstIs DEF Lists
<1>4. /\ q.new_rows \in Seq(Modifs) /\ Once(q.new_rows)
      /\ ToSet(q.new_rows) = ToSet(p.new_rows) \ {m}
      /\ m \notin ToSet(p.new_rows) => q.new_rows = p.new_rows
      /\ m \in ToSet(p.new_rows) => Len(q.new_rows) = Len(p.new_rows) - 1
  BY <1>2, RemoveFirstIs, SMTT(30) DEF Lists
<1>5. /\ DOMAIN q.mods = DOMAIN p.mods \ {m} /\ q.mods = [n \in DOMAIN q.mods |-> q.mods[n]]
      /\ \A n \in DOMAIN q.mods : n \in DOMAIN p.mods /\ q.mods[n] = p.mods[n]
  BY <1>2 DEF Without
<1>6. Lists(q)
  <2>1. DOMAIN q.mods = ToSet(q.all_modifs) \cup ToSet(q.cached_modifs) \cup ToSet(q.cached_inserts)
    BY <1>1, <1>2, <1>3, <1>5 DEF Lists
  <2>2. \A n \in DOMAIN q.mods : q.mods[n] \in RowModif
    BY <1>5 DEF Lists
  <2>3. /\ ToSet(q.all_modifs) \cap ToSet(q.cached_modifs) = {}
        /\ ToSet(q.all_modifs) \cap ToSet(q.cached_inserts) = {}
        /\ ToSet(q.cached_modifs) \cap ToSet(q.cached_inserts) = {}
    BY <1>2, <1>3 DEF Lists
  <2>4. /\ q.cached_modifs \in Seq(Modifs) /\ q.cached_inserts \in Seq(Modifs)
        /\ Once(q.cached_modifs) /\ Once(q.cached_inserts)
    BY <1>2 DEF Lists
  <2>5. q.mods = [n \in DOMAIN q.mods |-> q.mods[n]]
    BY <1>5
  <2> QED BY <1>3, <1>4, <2>1, <2>2, <2>3, <2>4, <2>5 DEF Lists
<1>7. News(q)
  <2>1. \A n \in ToSet(q.all_modifs) : n \in ToSet(p.all_modifs) /\ q.mods[n] = p.mods[n]
    BY <1>3, <1>5, <1>6 DEF Lists
  <2>2. \A n \in ToSet(q.cached_inserts) : q.mods[n] = p.mods[n]
    BY <1>5, <1>6 DEF Lists
  <2> QED BY <1>2, <1>3, <1>4, <2>1, <2>2 DEF News
<1>8. Keyed(q)
  <2>1. /\ DOMAIN q.modify_rows = DOMAIN p.modify_rows \ {key}
        /\ q.modify_rows = [r \in DOMAIN q.modify_rows |-> q.modify_rows[r]]
        /\ \A r \in DOMAIN q.modify_rows : q.modify_rows[r] = p.modify_rows[r]
    BY <1>2 DEF Without
  <2>2. ASSUME NEW r \in DOMAIN q.modify_rows
        PROVE  /\ r \in Nat /\ q.modify_rows[r] \in ToSet(q.all_modifs)
               /\ q.mods[q.modify_rows[r]].model_row = r
    <3>1. /\ r \in Nat /\ p.modify_rows[r] \in ToSet(p.all_modifs)
          /\ p.mods[p.modify_rows[r]].model_row = r /\ r # key
      BY <2>1 DEF Keyed
    <3>2. p.modify_rows[r] # m
      BY <3>1
    <3>3. q.modify_rows[r] \in ToSet(q.all_modifs)
      BY <1>3, <2>1, <3>1, <3>2
    <3>4. q.modify_rows[r] \in DOMAIN q.mods
      BY <1>6, <3>3 DEF Lists
    <3> QED BY <1>5, <2>1, <3>1, <3>3, <3>4
  <2> QED BY <2>1, <2>2 DEF Keyed
<1>9. Len(q.new_rows) = IF key = -1 THEN Len(p.new_rows) - 1 ELSE Len(p.new_rows)
  BY <1>1, <1>4
<1> QED BY <1>1, <1>2, <1>3, <1>4, <1>5, <1>6, <1>7, <1>8, <1>9 DEF q

\* A freed RowModif leaves all lists, and the invariants of the changes hold without it.
LEMMA DropIs ==
    ASSUME NEW p, IsProxy(p), Edits(p), NEW m \in ToSet(p.all_modifs)
    PROVE  LET q == DropModif(p, m, p.mods[m].model_row)
           IN  /\ IsProxy(q) /\ Edits(q) /\ SameShow(p, q) /\ q.model = p.model
               /\ p.mods[m].model_row # -1 => EditedOnly(p, q)
               /\ q.new_rows = RemoveFirst(p.new_rows, m)
               /\ p.mods[m].model_row = -1 => Len(q.new_rows) = Len(p.new_rows) - 1
<1> DEFINE q == DropModif(p, m, p.mods[m].model_row)
<1>1. /\ q.model = p.model /\ Lists(q) /\ News(q) /\ Keyed(q) /\ IsProxy(q) /\ SameShow(p, q)
      /\ ToSet(q.all_modifs) = ToSet(p.all_modifs) \ {m}
      /\ \A n \in DOMAIN q.mods : n \in DOMAIN p.mods /\ q.mods[n] = p.mods[n]
      /\ q.new_rows = RemoveFirst(p.new_rows, m)
      /\ p.mods[m].model_row # -1 => q.new_rows = p.new_rows
      /\ p.mods[m].model_row = -1 => Len(q.new_rows) = Len(p.new_rows) - 1
  BY DropKeeps DEF Edits
<1> HIDE DEF q
<1>2. \A n \in ToSet(q.all_modifs) : n \in ToSet(p.all_modifs) /\ q.mods[n] = p.mods[n]
  BY <1>1 DEF Lists
<1>3. OfTheirRow(q)
  BY <1>1, <1>2 DEF OfTheirRow, Edits
<1>4. Marked(q)
  BY <1>1 DEF Marked, Edits
<1>5. Edits(q)
  BY <1>1, <1>3, <1>4 DEF Edits
<1> QED BY <1>1, <1>5 DEF EditedOnly, q

\* Other values, or a mark, for a RowModif.
LEMMA ChangeIs ==
    ASSUME NEW p, IsProxy(p), Edits(p), NEW m \in ToSet(p.all_modifs),
           NEW rm \in RowModif, rm.model_row = p.mods[m].model_row,
           rm.orig = p.mods[m].orig, rm.id = p.mods[m].id,
           rm.model_row = -1 => ~rm.to_be_deleted /\ rm.values # << >>
    PROVE  EditedOnly(p, [p EXCEPT !.mods[m] = rm])
<1> DEFINE q == [p EXCEPT !.mods[m] = rm]
<1>1. /\ IsProxy(q) /\ SameShow(p, q) /\ q.model = p.model /\ q.all_modifs = p.all_modifs
      /\ q.new_rows = p.new_rows
      /\ q.modify_rows = p.modify_rows /\ q.cached_modifs = p.cached_modifs
      /\ q.cached_inserts = p.cached_inserts /\ q.mods = [p.mods EXCEPT ![m] = rm]
  BY DEF IsProxy, Fields, SameShow, SameOptions
<1> HIDE DEF q
<1>2. /\ m \in DOMAIN p.mods /\ p.mods = [n \in DOMAIN p.mods |-> p.mods[n]]
      /\ \A n \in DOMAIN p.mods : p.mods[n] \in RowModif
  BY DEF Edits, Lists
<1>3. /\ q.mods = [n \in DOMAIN q.mods |-> q.mods[n]] /\ DOMAIN q.mods = DOMAIN p.mods
      /\ q.mods[m] = rm /\ \A n \in DOMAIN p.mods : n # m => q.mods[n] = p.mods[n]
  BY <1>1, <1>2
<1>4. \A n \in DOMAIN p.mods : /\ q.mods[n] \in RowModif /\ q.mods[n].model_row = p.mods[n].model_row
                               /\ q.mods[n].orig = p.mods[n].orig /\ q.mods[n].id = p.mods[n].id
  BY <1>2, <1>3
<1>5. Lists(q)
  BY <1>1, <1>3, <1>4 DEF Edits, Lists
<1>6. /\ ToSet(p.all_modifs) \subseteq DOMAIN p.mods /\ ToSet(p.cached_inserts) \subseteq DOMAIN p.mods
  BY DEF Edits, Lists
<1>7. News(q)
  BY <1>1, <1>4, <1>6 DEF Edits, News
<1>8. Keyed(q)
  BY <1>1, <1>4, <1>6 DEF Edits, Keyed
<1>9. OfTheirRow(q)
  BY <1>1, <1>4, <1>6, SMTT(30) DEF Edits, OfTheirRow
<1>10. Marked(q)
  <2>1. \A n \in DOMAIN q.mods : n # m => q.mods[n] = p.mods[n]
    BY <1>3
  <2>2. q.mods[m].model_row = -1 => /\ ~q.mods[m].to_be_deleted /\ q.mods[m].orig = NULL
                                    /\ q.mods[m].values # << >>
    BY <1>2, <1>3 DEF Edits, Marked
  <2> QED BY <1>3, <2>1, <2>2 DEF Edits, Marked
<1> QED BY <1>1, <1>5, <1>7, <1>8, <1>9, <1>10 DEF Edits, EditedOnly, q

\* A RowModif that is not used.
LEMMA NewModifIs ==
    ASSUME NEW p, Unused(p) # {}
    PROVE  NewModif(p) \in Modifs /\ NewModif(p) \notin DOMAIN p.mods
<1>1. Unused(p) \subseteq Nat
  BY ProxyAssumption DEF Unused, Modifs
<1>2. PICK i \in Unused(p) : \A j \in Unused(p) : ~(<<j, i>> \in OpToRel(<, Nat))
  BY <1>1, NatLessThanWellFounded, WFMin
<1>3. \A j \in Unused(p) : ~(j < i)
  BY <1>1, <1>2 DEF OpToRel
<1>4. \A j \in Unused(p) : i <= j
  BY <1>1, <1>3
<1>5. NewModif(p) \in Unused(p)
  BY <1>4 DEF NewModif
<1> QED BY <1>5 DEF Unused

-----------------------------------------------------------------------------
(* What is shown: types.                                                   *)

OptionsOK(p) ==
    /\ p.sample_size \in Nat /\ p.sample_first_row \in Int
    /\ p.add_null_entry \in BOOLEAN /\ p.defer_sync \in BOOLEAN /\ p.cache_changes \in BOOLEAN
    /\ p.chunk_sync_idle_id \in BOOLEAN
ShowType(p) ==
    /\ p.chunk \in Seq(Int) \cup {NoChunk}
    /\ p.chunk_to \in Seq(Int) \cup {NoChunk, Direct}
    /\ p.chunk_sep \in Int /\ p.chunk_proxy_nb_rows \in Int /\ p.told \in Int
    /\ OptionsOK(p)

\* A chunk with a mapping is one that is a list of rows.
LEMMA ChunkIs ==
    /\ NoChunk # Direct
    /\ \A c \in Seq(Int) : HasMapping(c) /\ c # NoChunk /\ c # Direct
    /\ ~HasMapping(NoChunk) /\ ~HasMapping(Direct)
  BY ProxyAssumption DEF HasMapping

\* gda_data_proxy_get_n_rows() gives a number.
LEMMA NRowsIs ==
    ASSUME NEW p, ShowType(p), p.model \in Seq(ModelRow), p.new_rows \in Seq(Modifs)
    PROVE  NRows(p) \in Int /\ Offset(p) \in {0, 1} /\ NbRows(p) \in Nat /\ Len(p.new_rows) \in Nat
<1>1. Offset(p) \in {0, 1} /\ NbRows(p) \in Nat /\ Len(p.new_rows) \in Nat
  BY DEF Offset, NbRows
<1>2. p.chunk # NoChunk => Len(p.chunk) \in Nat
  BY DEF ShowType
<1>3. p.chunk_proxy_nb_rows \in Int
  BY DEF ShowType
<1> QED BY <1>1, <1>2, <1>3, SMTT(30) DEF NRows

\* The absolute number of a row of the proxy.
LEMMA AbsoluteIs ==
    ASSUME NEW p, ShowType(p), NEW row \in Int
    PROVE  /\ ProxyToAbsolute(p, row) \in Int
           /\ p.chunk # NoChunk /\ ProxyToAbsolute(p, row) >= 0 =>
                 /\ row - Offset(p) + 1 \in DOMAIN p.chunk
                 /\ ProxyToAbsolute(p, row) = p.chunk[row - Offset(p) + 1]
<1> DEFINE k == row - Offset(p)
<1>1. k \in Int
  BY DEF Offset
<1>2. ASSUME NEW c \in Seq(Int), k >= 0, k < Len(c) PROVE k + 1 \in DOMAIN c /\ c[k + 1] \in Int
  <2>1. k + 1 \in 1 .. Len(c)
    BY <1>1, <1>2
  <2> QED BY <2>1, ElementOfSeq
<1> HIDE DEF k
<1>3. CASE p.chunk # NoChunk
  <2>1. ProxyToAbsolute(p, row) = IF k < 0 THEN -1 ELSE IF k < Len(p.chunk) THEN p.chunk[k + 1] ELSE -1
    BY <1>3 DEF ProxyToAbsolute, k
  <2>2. p.chunk \in Seq(Int)
    BY <1>3 DEF ShowType
  <2>3. ProxyToAbsolute(p, row) \in Int
    BY <1>1, <1>2, <2>1, <2>2
  <2>4. ProxyToAbsolute(p, row) >= 0 => k >= 0 /\ k < Len(p.chunk)
    BY <1>1, <2>1, <2>2
  <2> QED BY <1>2, <2>1, <2>2, <2>3, <2>4 DEF k
<1>4. CASE p.chunk = NoChunk
  <2>1. ProxyToAbsolute(p, row)
          = IF k < 0 THEN -1
            ELSE IF HasMapping(p.chunk_to) /\ k < p.chunk_sep /\ k < Len(p.chunk_to)
            THEN p.chunk_to[k + 1] ELSE k
    BY <1>4 DEF ProxyToAbsolute, k
  <2>2. HasMapping(p.chunk_to) => p.chunk_to \in Seq(Int)
    BY DEF ShowType, HasMapping
  <2> QED BY <1>1, <1>2, <1>4, <2>1, <2>2
<1> QED BY <1>3, <1>4

\* The RowModif of a row of the proxy, and its row in the model.
LEMMA ModifIs ==
    ASSUME NEW p, ShowType(p), Edits(p), NEW row \in Int
    PROVE  LET m == ProxyToModif(p, row)
               r == ProxyToModel(p, row)
               abs == ProxyToAbsolute(p, row)
           IN  /\ r \in Int
               /\ r >= 0 => r \in 0 .. NbRows(p) - 1 /\ abs = r
               /\ m # NULL =>
                    /\ m \in ToSet(p.all_modifs)
                    /\ abs >= 0 /\ r >= -1
                    /\ p.mods[m].model_row = r
                    /\ r = -1 => abs >= NbRows(p) /\ abs - NbRows(p) < Len(p.new_rows)
               /\ m = NULL /\ r >= 0 => r \notin DOMAIN p.modify_rows
<1> DEFINE m == ProxyToModif(p, row)
           r == ProxyToModel(p, row)
           abs == ProxyToAbsolute(p, row)
           n == NbRows(p)
<1>1. abs \in Int
  BY AbsoluteIs
<1>2. n \in Nat /\ Len(p.new_rows) \in Nat /\ NULL \notin Modifs
  BY ProxyAssumption DEF NbRows, Edits, Lists, Modifs
<1>3. r = IF abs < n THEN abs ELSE -1
  BY DEF ProxyToModel, AbsoluteToModel
<1>4. m = IF abs < 0 THEN NULL
          ELSE IF abs < n THEN IF abs \in DOMAIN p.modify_rows THEN p.modify_rows[abs] ELSE NULL
          ELSE IF abs - n < Len(p.new_rows) THEN p.new_rows[abs - n + 1] ELSE NULL
  BY DEF ProxyToModif, AbsoluteToModif
<1> HIDE DEF abs, n, m, r
<1>5. r \in Int /\ (r >= 0 => r \in 0 .. n - 1 /\ abs = r)
  BY <1>1, <1>2, <1>3
<1>6. ASSUME m # NULL
      PROVE  /\ m \in ToSet(p.all_modifs) /\ abs >= 0 /\ p.mods[m].model_row = r /\ r >= -1
             /\ r = -1 => abs >= n /\ abs - n < Len(p.new_rows)
  <2>1. CASE abs < n
    <3>1. abs >= 0 /\ abs \in DOMAIN p.modify_rows /\ m = p.modify_rows[abs] /\ r = abs
      BY <1>1, <1>3, <1>4, <1>6, <2>1
    <3>2. m \in ToSet(p.all_modifs) /\ p.mods[m].model_row = abs
      BY <3>1 DEF Edits, Keyed
    <3> QED BY <1>1, <3>1, <3>2
  <2>2. CASE ~(abs < n)
    <3>1. /\ abs >= 0 /\ abs - n < Len(p.new_rows) /\ m = p.new_rows[abs - n + 1] /\ r = -1
          /\ abs >= n
      BY <1>1, <1>2, <1>3, <1>4, <1>6, <2>2
    <3>2. abs - n + 1 \in DOMAIN p.new_rows
      BY <1>1, <1>2, <3>1 DEF Edits, Lists
    <3>3. m \in ToSet(p.new_rows)
      BY <3>1, <3>2 DEF ToSet
    <3>4. m \in ToSet(p.all_modifs) /\ p.mods[m].model_row = -1
      BY <3>3 DEF Edits, News
    <3> QED BY <3>1, <3>4
  <2> QED BY <2>1, <2>2
<1>7. ASSUME m = NULL, r >= 0 PROVE r \notin DOMAIN p.modify_rows
  <2>1. abs = r /\ ~(abs < 0) /\ abs < n
    BY <1>1, <1>2, <1>3, <1>5, <1>7
  <2>2. r \in DOMAIN p.modify_rows => m = p.modify_rows[r]
    BY <1>4, <2>1
  <2>3. ASSUME r \in DOMAIN p.modify_rows PROVE p.modify_rows[r] \in Modifs
    <3>1. p.modify_rows[r] \in ToSet(p.all_modifs)
      BY <2>3 DEF Edits, Keyed
    <3> QED BY <3>1, ListedIs DEF Edits
  <2> QED BY <1>2, <1>7, <2>2, <2>3
<1> QED BY <1>5, <1>6, <1>7 DEF abs, n, m, r

\* The values of a change.
ModifValues == UNION {[cols -> Values \cup {NULL}] : cols \in SUBSET Columns}

\* The values of a RowModif stay values of some columns when a value is set or given up.
LEMMA ValuesAre ==
    /\ \A f \in ModifValues : \A cols : Without(f, cols) \in ModifValues
    /\ \A f \in ModifValues : \A col \in Columns : \A v \in Values \cup {NULL} :
          With(f, col, v) \in ModifValues
    /\ << >> \in ModifValues
    /\ \A f \in [Columns -> Values \cup {NULL}] : f \in ModifValues
<1>1. ASSUME NEW f \in ModifValues, NEW cols PROVE Without(f, cols) \in ModifValues
  <2>1. PICK c \in SUBSET Columns : f \in [c -> Values \cup {NULL}]
    BY DEF ModifValues
  <2>2. Without(f, cols) \in [c \ cols -> Values \cup {NULL}] /\ c \ cols \in SUBSET Columns
    BY <2>1 DEF Without
  <2> QED BY <2>2 DEF ModifValues
<1>2. ASSUME NEW f \in ModifValues, NEW col \in Columns, NEW v \in Values \cup {NULL}
      PROVE  With(f, col, v) \in ModifValues
  <2>1. PICK c \in SUBSET Columns : f \in [c -> Values \cup {NULL}]
    BY DEF ModifValues
  <2>2. With(f, col, v) \in [c \cup {col} -> Values \cup {NULL}] /\ c \cup {col} \in SUBSET Columns
    BY <2>1 DEF With
  <2> QED BY <2>2 DEF ModifValues
<1>3. << >> \in ModifValues
  <2>1. << >> \in [{} -> Values \cup {NULL}] /\ {} \in SUBSET Columns
    OBVIOUS
  <2> QED BY <2>1 DEF ModifValues
<1>4. \A f \in [Columns -> Values \cup {NULL}] : f \in ModifValues
  <2>1. Columns \in SUBSET Columns
    OBVIOUS
  <2> QED BY <2>1 DEF ModifValues
<1> QED BY <1>1, <1>2, <1>3, <1>4

\* The objects, with the name of the set of these values.
LEMMA RowModifIs ==
    RowModif = [model_row : Int, to_be_deleted : BOOLEAN, orig : Row \cup {NULL}, id : Ids,
                values : ModifValues]
  BY DEF RowModif, ModifValues

-----------------------------------------------------------------------------
(* The methods that change a row.                                          *)

\* modify_rows leads to each RowModif of a row of the model.
Whole(p) == \A m \in ToSet(p.all_modifs) : p.mods[m].model_row >= 0 => KeyOf(p, m)

\* The number of a row in the proxied model depends on what is shown only.
LEMMA SameAbsolute ==
    ASSUME NEW p, NEW q, SameShow(p, q)
    PROVE  \A row : ProxyToAbsolute(q, row) = ProxyToAbsolute(p, row)
  BY DEF SameShow, SameOptions, ProxyToAbsolute, Offset

\* row_modifs_new() for a row that has no RowModif yet.
LEMMA AddIs ==
    ASSUME NEW p, IsProxy(p), Edits(p), ShowType(p), Whole(p), Unused(p) # {},
           NEW row \in Int, NEW deleted \in BOOLEAN,
           ProxyToModif(p, row) = NULL, ProxyToModel(p, row) >= 0
    PROVE  LET q == AddModif(p, row, deleted)
               m == NewModif(p)
           IN  /\ EditedOnly(p, q) /\ ProxyToModif(q, row) = m /\ m \in ToSet(q.all_modifs)
               /\ q.mods[m].model_row >= 0 /\ q.mods[m].to_be_deleted = deleted
               /\ q.mods[m].values = << >>
<1> DEFINE q == AddModif(p, row, deleted)
           m == NewModif(p)
           r == ProxyToModel(p, row)
           rm == [model_row |-> r, to_be_deleted |-> deleted, values |-> << >>,
                  orig |-> p.model[r + 1].val, id |-> p.model[r + 1].id]
<1>1. m \in Modifs /\ m \notin DOMAIN p.mods
  BY NewModifIs
<1>2. r \in 0 .. NbRows(p) - 1 /\ ProxyToAbsolute(p, row) = r /\ r \notin DOMAIN p.modify_rows
  BY ModifIs
<1>3. r + 1 \in DOMAIN p.model /\ p.model[r + 1] \in ModelRow /\ NbRows(p) = Len(p.model)
  <2>1. p.model \in Seq(ModelRow) /\ NbRows(p) = Len(p.model)
    BY DEF Edits, NbRows
  <2>2. r + 1 \in 1 .. Len(p.model)
    BY <1>2, <2>1
  <2> QED BY <2>1, <2>2, ElementOfSeq
<1>4. rm \in RowModif
  <2>1. << >> \in ModifValues
    BY ValuesAre
  <2> HIDE DEF r
  <2>2. p.model[r + 1].val \in Row /\ p.model[r + 1].id \in Ids
    BY <1>3 DEF ModelRow
  <2> QED BY <1>2, <2>1, <2>2, RowModifIs
<1>5. /\ q.mods = With(p.mods, m, rm) /\ q.modify_rows = With(p.modify_rows, r, m)
      /\ q.all_modifs = <<m>> \o p.all_modifs /\ q.new_rows = p.new_rows
      /\ q.cached_modifs = p.cached_modifs /\ q.cached_inserts = p.cached_inserts
      /\ q.model = p.model /\ SameShow(p, q) /\ IsProxy(q)
  BY DEF AddModif, IsProxy, Fields, SameShow, SameOptions
<1> HIDE DEF q, m, r
<1>6. /\ p.all_modifs \in Seq(Modifs) /\ Once(p.all_modifs)
      /\ DOMAIN p.mods = ToSet(p.all_modifs) \cup ToSet(p.cached_modifs) \cup ToSet(p.cached_inserts)
      /\ \A n \in DOMAIN p.mods : p.mods[n] \in RowModif
  BY DEF Edits, Lists
<1>7. /\ q.all_modifs \in Seq(Modifs) /\ Once(q.all_modifs)
      /\ ToSet(q.all_modifs) = ToSet(p.all_modifs) \cup {m}
  <2>1. m \notin ToSet(p.all_modifs)
    BY <1>1, <1>6
  <2> QED BY <1>1, <1>5, <1>6, <2>1, PrependIs
<1> HIDE DEF rm
<1>8. /\ DOMAIN q.mods = DOMAIN p.mods \cup {m} /\ q.mods = [n \in DOMAIN q.mods |-> q.mods[n]]
      /\ q.mods[m] = rm /\ \A n \in DOMAIN p.mods : q.mods[n] = p.mods[n] /\ n # m
  BY <1>1, <1>5 DEF With
<1>9. /\ DOMAIN q.modify_rows = DOMAIN p.modify_rows \cup {r}
      /\ q.modify_rows = [x \in DOMAIN q.modify_rows |-> q.modify_rows[x]]
      /\ q.modify_rows[r] = m /\ \A x \in DOMAIN p.modify_rows : q.modify_rows[x] = p.modify_rows[x]
  BY <1>2, <1>5 DEF With
<1>10. Lists(q)
  <2>1. /\ ToSet(q.all_modifs) \cap ToSet(q.cached_modifs) = {}
        /\ ToSet(q.all_modifs) \cap ToSet(q.cached_inserts) = {}
    BY <1>1, <1>5, <1>6, <1>7 DEF Edits, Lists
  <2>2. DOMAIN q.mods = ToSet(q.all_modifs) \cup ToSet(q.cached_modifs) \cup ToSet(q.cached_inserts)
    BY <1>5, <1>6, <1>7, <1>8
  <2>3. \A n \in DOMAIN q.mods : q.mods[n] \in RowModif
    BY <1>4, <1>6, <1>8
  <2> QED BY <1>5, <1>7, <1>8, <2>1, <2>2, <2>3 DEF Edits, Lists
<1>11. rm.model_row = r /\ rm.model_row # -1 /\ rm.model_row >= 0
  BY <1>2 DEF rm
<1>12. News(q)
  <2>1. \A n \in ToSet(p.all_modifs) \cup ToSet(p.cached_inserts) : q.mods[n] = p.mods[n]
    BY <1>6, <1>8
  <2> QED BY <1>5, <1>7, <1>8, <1>11, <2>1 DEF Edits, News
<1>13. Keyed(q)
  <2>1. ASSUME NEW x \in DOMAIN p.modify_rows
        PROVE  /\ x \in Nat /\ q.modify_rows[x] \in ToSet(q.all_modifs)
               /\ q.mods[q.modify_rows[x]].model_row = x
    <3>1. x \in Nat /\ p.modify_rows[x] \in ToSet(p.all_modifs) /\ p.mods[p.modify_rows[x]].model_row = x
      BY DEF Edits, Keyed
    <3> QED BY <1>6, <1>7, <1>8, <1>9, <3>1
  <2>2. r \in Nat
    BY <1>2
  <2> QED BY <1>7, <1>8, <1>9, <1>11, <2>1, <2>2 DEF Keyed
<1>14. OfTheirRow(q)
  <2>1. ASSUME NEW n \in ToSet(p.all_modifs) PROVE q.mods[n] = p.mods[n] /\ p.mods[n].model_row # r
    <3>1. n \in DOMAIN p.mods
      BY <1>6
    <3>2. ASSUME p.mods[n].model_row = r PROVE r \in DOMAIN p.modify_rows
      <4>1. p.mods[n].model_row >= 0
        BY <1>2, <3>2
      <4> QED BY <3>2, <4>1 DEF Whole, KeyOf
    <3> QED BY <1>2, <1>8, <3>1, <3>2
  <2>2. /\ rm.model_row \in -1 .. Len(q.model) - 1 /\ q.model[r + 1].id = rm.id
        /\ q.model[r + 1].val = rm.orig
    BY <1>2, <1>3, <1>5 DEF rm
  <2>3. ASSUME NEW n \in ToSet(p.all_modifs)
        PROVE  /\ q.mods[n].model_row \in -1 .. Len(q.model) - 1
               /\ q.mods[n].model_row >= 0 =>
                    /\ q.model[q.mods[n].model_row + 1].id = q.mods[n].id
                    /\ q.model[q.mods[n].model_row + 1].val = q.mods[n].orig
                    /\ \A x \in ToSet(p.all_modifs) : q.mods[x].model_row = q.mods[n].model_row => x = n
    BY <1>5, <2>1 DEF Edits, OfTheirRow
  <2> QED BY <1>7, <1>8, <1>11, <2>1, <2>2, <2>3 DEF OfTheirRow
<1>15. Marked(q)
  BY <1>8, <1>11 DEF Edits, Marked
<1>16. Edits(q) /\ EditedOnly(p, q)
  <2>1. q.model \in Seq(ModelRow)
    BY <1>5 DEF Edits
  <2> QED BY <1>5, <1>10, <1>12, <1>13, <1>14, <1>15, <2>1 DEF Edits, EditedOnly
<1>17. ProxyToModif(q, row) = m
  <2>1. ProxyToAbsolute(q, row) = r
    BY <1>2, <1>5, SameAbsolute
  <2>2. NbRows(q) = NbRows(p) /\ r \in DOMAIN q.modify_rows /\ r >= 0 /\ r < NbRows(p)
    BY <1>2, <1>3, <1>5, <1>9 DEF NbRows
  <2> QED BY <1>9, <2>1, <2>2 DEF ProxyToModif, AbsoluteToModif
<1>18. rm.to_be_deleted = deleted /\ rm.values = << >>
  BY DEF rm
<1> QED BY <1>7, <1>8, <1>11, <1>16, <1>17, <1>18 DEF q, m

\* A RowModif with other values.
LEMMA ValuesIs ==
    ASSUME NEW p, IsProxy(p), Edits(p), NEW m \in ToSet(p.all_modifs), NEW f \in ModifValues,
           p.mods[m].model_row = -1 => f # << >>
    PROVE  EditedOnly(p, [p EXCEPT !.mods[m].values = f])
<1> DEFINE rm == [p.mods[m] EXCEPT !.values = f]
<1>1. p.mods[m] \in RowModif /\ m \in DOMAIN p.mods
  BY DEF Edits, Lists
<1>2. /\ rm \in RowModif /\ rm.model_row = p.mods[m].model_row /\ rm.values = f
      /\ rm.orig = p.mods[m].orig /\ rm.id = p.mods[m].id /\ rm.to_be_deleted = p.mods[m].to_be_deleted
  BY <1>1, RowModifIs
<1>3. rm.model_row = -1 => ~rm.to_be_deleted /\ rm.values # << >>
  BY <1>1, <1>2 DEF Edits, Marked
<1>4. [p EXCEPT !.mods[m].values = f] = [p EXCEPT !.mods[m] = rm]
  OBVIOUS
<1> HIDE DEF rm
<1> QED BY <1>2, <1>3, <1>4, ChangeIs

\* A RowModif with another mark.
LEMMA MarkIs ==
    ASSUME NEW p, IsProxy(p), Edits(p), NEW m \in ToSet(p.all_modifs), NEW b \in BOOLEAN,
           b => p.mods[m].model_row # -1
    PROVE  EditedOnly(p, [p EXCEPT !.mods[m].to_be_deleted = b])
<1> DEFINE rm == [p.mods[m] EXCEPT !.to_be_deleted = b]
<1>1. p.mods[m] \in RowModif /\ m \in DOMAIN p.mods
  BY DEF Edits, Lists
<1>2. /\ rm \in RowModif /\ rm.model_row = p.mods[m].model_row /\ rm.values = p.mods[m].values
      /\ rm.orig = p.mods[m].orig /\ rm.id = p.mods[m].id /\ rm.to_be_deleted = b
  BY <1>1, RowModifIs
<1>3. rm.model_row = -1 => ~rm.to_be_deleted /\ rm.values # << >>
  BY <1>1, <1>2 DEF Edits, Marked
<1>4. [p EXCEPT !.mods[m].to_be_deleted = b] = [p EXCEPT !.mods[m] = rm]
  OBVIOUS
<1> HIDE DEF rm
<1> QED BY <1>2, <1>3, <1>4, ChangeIs

\* Two operations on the changes one after the other are one.
LEMMA EditedTwice ==
    ASSUME NEW p, NEW q, NEW r, EditedOnly(p, q), EditedOnly(q, r)
    PROVE  EditedOnly(p, r)
  BY DEF EditedOnly, SameShow, SameOptions

\* gda_data_proxy_set_value_at()
LEMMA SetValueIs ==
    ASSUME NEW p, IsProxy(p), Edits(p), ShowType(p), Whole(p), NEW row \in Int,
           HasRoom(p, row), IsRow(p, row), NEW col \in Columns, NEW v \in Values \cup {NULL}
    PROVE  LET q == SetValueAt(p, row, col, v) IN q = p \/ EditedOnly(p, q)
<1> DEFINE q == IF ProxyToModif(p, row) = NULL THEN AddModif(p, row, FALSE) ELSE p
           m == ProxyToModif(q, row)
           rm == q.mods[m]
           back == col \in DOMAIN rm.values /\ rm.orig # NULL /\ rm.orig[col] = v
           f == IF back THEN Without(rm.values, {col}) ELSE With(rm.values, col, v)
           r == [q EXCEPT !.mods[m].values = f]
<1>1. IsProxy(q) /\ Edits(q) /\ m \in ToSet(q.all_modifs) /\ (q = p \/ EditedOnly(p, q))
  <2>1. CASE ProxyToModif(p, row) = NULL
    <3>1. Unused(p) # {} /\ ProxyToModel(p, row) >= 0
      BY <2>1 DEF HasRoom, IsRow
    <3>2. EditedOnly(p, AddModif(p, row, FALSE))
          /\ ProxyToModif(AddModif(p, row, FALSE), row) \in ToSet(AddModif(p, row, FALSE).all_modifs)
      BY <2>1, <3>1, AddIs
    <3> QED BY <2>1, <3>2 DEF EditedOnly
  <2>2. CASE ProxyToModif(p, row) # NULL
    <3>1. ProxyToModif(p, row) \in ToSet(p.all_modifs)
      BY <2>2, ModifIs
    <3> QED BY <2>2, <3>1
  <2> QED BY <2>1, <2>2
<1> HIDE DEF q, m
<1>2. rm \in RowModif /\ m \in DOMAIN q.mods
  BY <1>1 DEF Edits, Lists
<1>3. f \in ModifValues
  <2>1. rm.values \in ModifValues
    BY <1>2, RowModifIs
  <2> HIDE DEF back, rm
  <2> QED BY <2>1, ValuesAre
<1>4. rm.model_row = -1 => f # << >>
  <2> SUFFICES ASSUME rm.model_row = -1 PROVE f # << >>
    OBVIOUS
  <2>1. rm.orig = NULL
    BY <1>1, <1>2 DEF Edits, Marked
  <2>2. f = With(rm.values, col, v)
    BY <2>1
  <2>3. col \in DOMAIN With(rm.values, col, v) /\ DOMAIN << >> = {}
    BY DEF With
  <2> HIDE DEF f, rm
  <2> QED BY <2>2, <2>3
<1> HIDE DEF f
<1>5. EditedOnly(q, r)
  BY <1>1, <1>3, <1>4, ValuesIs
<1>6. r.mods[m].values = f /\ r.mods[m].model_row = rm.model_row /\ r.all_modifs = q.all_modifs
      /\ IsProxy(r) /\ Edits(r)
  <2>1. r.mods = [q.mods EXCEPT ![m].values = f] /\ r.all_modifs = q.all_modifs
    BY <1>1 DEF IsProxy, Fields
  <2> HIDE DEF r
  <2>2. q.mods = [n \in DOMAIN q.mods |-> q.mods[n]]
    BY <1>1 DEF Edits, Lists
  <2>3. r.mods[m] = [rm EXCEPT !.values = f]
    BY <1>2, <2>1, <2>2
  <2> QED BY <1>2, <1>5, <2>1, <2>3, RowModifIs DEF EditedOnly
<1>7. SetValueAt(p, row, col, v)
        = IF Shown(p, row)[col] = v THEN p
          ELSE IF ~rm.to_be_deleted /\ r.mods[m].values = << >> /\ rm.model_row >= 0
          THEN DropModif(r, m, rm.model_row) ELSE r
  BY DEF SetValueAt, q, m, f
<1> HIDE DEF r
<1>8. rm.model_row >= 0 => EditedOnly(r, DropModif(r, m, rm.model_row))
  BY <1>1, <1>6, DropIs
<1> HIDE DEF rm
<1>9. EditedOnly(p, r)
  BY <1>1, <1>5, EditedTwice
<1>10. rm.model_row >= 0 => EditedOnly(p, DropModif(r, m, rm.model_row))
  BY <1>8, <1>9, EditedTwice
<1> QED BY <1>7, <1>9, <1>10

\* gda_data_proxy_undelete()
LEMMA UndeleteIs ==
    ASSUME NEW p, IsProxy(p), Edits(p), ShowType(p), NEW row \in Int
    PROVE  LET q == Undelete(p, row) IN q = p \/ EditedOnly(p, q)
<1> DEFINE m == ProxyToModif(p, row)
<1>1. m # NULL => m \in ToSet(p.all_modifs) /\ p.mods[m].model_row = ProxyToModel(p, row)
  BY ModifIs
<1>2. Undelete(p, row) = IF m = NULL THEN p
                         ELSE IF p.mods[m].values = << >> THEN DropModif(p, m, ProxyToModel(p, row))
                         ELSE [p EXCEPT !.mods[m].to_be_deleted = FALSE]
  BY DEF Undelete
<1> HIDE DEF m
<1>3. CASE m # NULL /\ p.mods[m].values = << >>
  <2>1. m \in DOMAIN p.mods
    BY <1>1, <1>3 DEF Edits, Lists
  <2>2. p.mods[m].model_row # -1
    BY <1>3, <2>1 DEF Edits, Marked
  <2>3. EditedOnly(p, DropModif(p, m, p.mods[m].model_row))
    BY <1>1, <1>3, <2>2, DropIs
  <2> QED BY <1>1, <1>2, <1>3, <2>3
<1>4. CASE m # NULL /\ p.mods[m].values # << >>
  <2>1. EditedOnly(p, [p EXCEPT !.mods[m].to_be_deleted = FALSE])
    BY <1>1, <1>4, MarkIs
  <2> QED BY <1>2, <1>4, <2>1
<1> QED BY <1>2, <1>3, <1>4

\* gda_data_proxy_delete(), and what is left of it for a new row.
LEMMA DeleteIs ==
    ASSUME NEW p, IsProxy(p), Edits(p), ShowType(p), Whole(p), NEW row \in Int,
           HasRoom(p, row), IsRow(p, row)
    PROVE  LET q == Delete(p, row)
               m == ProxyToModif(p, row)
           IN  \/ EditedOnly(p, q)
               \/ /\ m # NULL /\ p.mods[m].model_row = -1
                  /\ q = [UncoverNewRow(DropModif(p, m, -1), row) EXCEPT !.told = @ - 1]
<1> DEFINE m == ProxyToModif(p, row)
<1>1. m # NULL => m \in ToSet(p.all_modifs)
  BY ModifIs
<1>2. CASE m = NULL
  <2>1. EditedOnly(p, AddModif(p, row, TRUE))
    BY <1>2, AddIs DEF HasRoom, IsRow
  <2> QED BY <1>2, <2>1 DEF Delete
<1>3. CASE m # NULL /\ p.mods[m].model_row = -1
  BY <1>3 DEF Delete
<1>4. CASE m # NULL /\ p.mods[m].model_row # -1
  <2>1. EditedOnly(p, [p EXCEPT !.mods[m].to_be_deleted = TRUE])
    BY <1>1, <1>4, MarkIs
  <2> QED BY <1>4, <2>1 DEF Delete
<1> QED BY <1>2, <1>3, <1>4

\* gda_data_proxy_cancel_row_changes(), and what is left of it for a new row.
LEMMA CancelRowIs ==
    ASSUME NEW p, IsProxy(p), Edits(p), ShowType(p), NEW row \in Int, NEW cols
    PROVE  LET q == CancelRow(p, row, cols)
               m == ProxyToModif(p, row)
           IN  \/ q = p \/ EditedOnly(p, q)
               \/ /\ m # NULL /\ p.mods[m].model_row = -1
                  /\ q = [UncoverNewRow(DropModif(p, m, -1), row) EXCEPT !.told = @ - 1]
<1> DEFINE m == ProxyToModif(p, row)
           rm == p.mods[m]
           left == Without(rm.values, cols)
<1>1. CancelRow(p, row, cols)
        = IF m = NULL THEN p
          ELSE IF DOMAIN rm.values \cap cols = {} THEN p
          ELSE IF left # << >> \/ rm.to_be_deleted THEN [p EXCEPT !.mods[m].values = left]
          ELSE IF rm.model_row < 0
          THEN [UncoverNewRow(DropModif(p, m, -1), row) EXCEPT !.told = @ - 1]
          ELSE DropModif(p, m, rm.model_row)
  BY DEF CancelRow
<1> SUFFICES ASSUME m # NULL
             PROVE  LET q == CancelRow(p, row, cols)
                    IN  \/ q = p \/ EditedOnly(p, q)
                        \/ /\ p.mods[m].model_row = -1
                           /\ q = [UncoverNewRow(DropModif(p, m, -1), row) EXCEPT !.told = @ - 1]
  BY <1>1
<1>2. m \in ToSet(p.all_modifs) /\ m \in DOMAIN p.mods /\ rm \in RowModif
  <2>1. m \in ToSet(p.all_modifs)
    BY ModifIs
  <2> QED BY <2>1 DEF Edits, Lists
<1>3. rm.model_row \in Int /\ rm.model_row >= -1
  BY <1>2 DEF Edits, OfTheirRow
<1>4. left \in ModifValues
  <2>1. rm.values \in ModifValues
    BY <1>2, RowModifIs
  <2> QED BY <2>1, ValuesAre
<1>5. CASE left # << >> \/ rm.to_be_deleted
  <2>1. rm.model_row = -1 => left # << >>
    BY <1>2, <1>5 DEF Edits, Marked
  <2> HIDE DEF left, m
  <2>2. EditedOnly(p, [p EXCEPT !.mods[m].values = left])
    BY <1>2, <1>4, <2>1, ValuesIs
  <2> QED BY <1>1, <1>5, <2>2
<1>6. CASE rm.model_row >= 0
  <2>1. EditedOnly(p, DropModif(p, m, rm.model_row))
    BY <1>2, <1>6, DropIs
  <2> QED BY <1>1, <1>3, <1>5, <1>6, <2>1
<1>7. CASE rm.model_row < 0
  <2>1. rm.model_row = -1
    BY <1>3, <1>7
  <2> QED BY <1>1, <1>5, <1>7, <2>1
<1> QED BY <1>3, <1>6, <1>7

-----------------------------------------------------------------------------
(* What is shown.                                                          *)

\* The mapping of a chunk: n rows of the proxied model (or -1) that are there once, and
\* then each of the new rows.
Maps(c, n, nb, nw) ==
    /\ Len(c) = n + nw
    /\ \A k \in 1 .. n : c[k] >= -1 /\ c[k] < nb
    /\ \A j, k \in 1 .. n : c[j] = c[k] => j = k
    /\ \A k \in 1 .. nw : c[n + k] = nb + k - 1

\* A sequence of rows as a function on its positions.
LEMMA RowsAre ==
    ASSUME NEW c \in Seq(Int), NEW L \in Nat, Len(c) = L
    PROVE  \A k : /\ k \in DOMAIN c <=> k \in 1 .. L
                  /\ k \in 1 .. L => c[k] \in Int
<1>1. DOMAIN c = 1 .. Len(c) /\ \A k \in 1 .. Len(c) : c[k] \in Int
  BY ElementOfSeq
<1> QED BY <1>1

\* A mapping has no repetition; where the new rows are.
LEMMA MapsIs ==
    ASSUME NEW c \in Seq(Int), NEW n \in Nat, NEW nb \in Nat, NEW nw \in Nat, Maps(c, n, nb, nw)
    PROVE  /\ Once(c) /\ Len(c) = n + nw /\ DOMAIN c = 1 .. n + nw
           /\ \A k \in 1 .. n + nw : /\ c[k] \in Int /\ c[k] >= -1 /\ c[k] < nb + nw
                                     /\ c[k] >= nb <=> k > n
                                     /\ k > n => c[k] = nb + (k - n) - 1
           /\ \A r \in nb .. nb + nw - 1 : Position(c, r) = n + (r - nb) + 1 /\ Contains(c, r)
<1>1. n + nw \in Nat /\ Len(c) = n + nw
  BY DEF Maps
<1>2. DOMAIN c = 1 .. n + nw /\ \A k \in 1 .. n + nw : c[k] \in Int
  BY <1>1, RowsAre
<1>3. /\ \A k \in 1 .. n : c[k] >= -1 /\ c[k] < nb
      /\ \A j, k \in 1 .. n : c[j] = c[k] => j = k
      /\ \A k \in 1 .. nw : c[n + k] = nb + k - 1
  BY DEF Maps
<1>4. ASSUME NEW k \in 1 .. n + nw, k > n PROVE c[k] = nb + (k - n) - 1
  <2>1. k - n \in 1 .. nw /\ n + (k - n) = k
    BY <1>4
  <2> QED BY <1>3, <2>1
<1>5. ASSUME NEW k \in 1 .. n + nw
      PROVE  c[k] >= -1 /\ c[k] < nb + nw /\ (c[k] >= nb <=> k > n)
  <2>1. CASE k > n
    BY <1>4, <2>1
  <2>2. CASE ~(k > n)
    <3>1. k \in 1 .. n /\ c[k] \in Int
      BY <1>2, <2>2
    <3> QED BY <1>3, <2>2, <3>1
  <2> QED BY <2>1, <2>2
<1>6. ASSUME NEW j \in 1 .. n + nw, NEW k \in 1 .. n + nw, c[j] = c[k] PROVE j = k
  <2>1. j > n <=> k > n
    BY <1>5, <1>6
  <2>2. CASE j > n
    <3>1. nb + (j - n) - 1 = nb + (k - n) - 1
      BY <1>4, <1>6, <2>1, <2>2
    <3> QED BY <3>1
  <2>3. CASE ~(j > n)
    <3>1. j \in 1 .. n /\ k \in 1 .. n
      BY <2>1, <2>3
    <3> QED BY <1>3, <1>6, <3>1
  <2> QED BY <2>2, <2>3
<1>7. Once(c)
  BY <1>2, <1>6 DEF Once
<1>8. ASSUME NEW r \in nb .. nb + nw - 1 PROVE Position(c, r) = n + (r - nb) + 1 /\ Contains(c, r)
  <2> DEFINE k == n + (r - nb) + 1
  <2>1. k \in 1 .. n + nw /\ k > n /\ nb + (k - n) - 1 = r
    OBVIOUS
  <2>2. c[k] = r
    BY <1>4, <2>1
  <2> HIDE DEF k
  <2>3. r \in ToSet(c)
    BY <1>2, <2>1, <2>2 DEF ToSet
  <2>4. Contains(c, r) /\ Position(c, r) \in DOMAIN c /\ c[Position(c, r)] = r
    BY <2>3, PositionIs
  <2>5. Position(c, r) = k
    BY <1>2, <1>7, <2>1, <2>2, <2>4 DEF Once
  <2> QED BY <2>4, <2>5 DEF k
<1> QED BY <1>1, <1>2, <1>4, <1>5, <1>7, <1>8

\* A new row comes at the end.
LEMMA MapsAppend ==
    ASSUME NEW c \in Seq(Int), NEW n \in Nat, NEW nb \in Nat, NEW nw \in Nat, Maps(c, n, nb, nw)
    PROVE  Maps(Append(c, nb + nw), n, nb, nw + 1)
<1> DEFINE d == Append(c, nb + nw)
<1>1. /\ \A k \in 1 .. n : c[k] >= -1 /\ c[k] < nb
      /\ \A j, k \in 1 .. n : c[j] = c[k] => j = k
      /\ \A k \in 1 .. nw : c[n + k] = nb + k - 1
  BY DEF Maps
<1>2. Len(c) = n + nw
  BY DEF Maps
<1>3. Len(d) = n + (nw + 1) /\ d[n + nw + 1] = nb + nw /\ \A k \in 1 .. n + nw : d[k] = c[k]
  BY <1>2, AppendIs
<1> HIDE DEF d
<1>4. \A k \in 1 .. n : d[k] = c[k]
  BY <1>3
<1>5. ASSUME NEW k \in 1 .. nw + 1 PROVE d[n + k] = nb + k - 1
  <2>1. CASE k = nw + 1
    BY <1>3, <2>1
  <2>2. CASE k \in 1 .. nw
    <3>1. n + k \in 1 .. n + nw
      BY <2>2
    <3> QED BY <1>1, <1>3, <2>2, <3>1
  <2> QED BY <2>1, <2>2
<1>6. Maps(d, n, nb, nw + 1)
  BY <1>1, <1>3, <1>4, <1>5 DEF Maps
<1> QED BY <1>6 DEF d

\* A row is added to the proxied model: the new rows have the numbers after it.
LEMMA MapsShift ==
    ASSUME NEW c \in Seq(Int), NEW n \in Nat, NEW nb \in Nat, NEW nw \in Nat, Maps(c, n, nb, nw)
    PROVE  Maps([k \in DOMAIN c |-> IF c[k] >= nb THEN c[k] + 1 ELSE c[k]], n, nb + 1, nw)
<1> DEFINE d == [k \in DOMAIN c |-> IF c[k] >= nb THEN c[k] + 1 ELSE c[k]]
<1>1. /\ \A k \in 1 .. n : c[k] >= -1 /\ c[k] < nb
      /\ \A j, k \in 1 .. n : c[j] = c[k] => j = k
      /\ \A k \in 1 .. nw : c[n + k] = nb + k - 1
  BY DEF Maps
<1>2. n + nw \in Nat /\ Len(c) = n + nw
  BY DEF Maps
<1>3. DOMAIN c = 1 .. n + nw /\ \A k \in 1 .. n + nw : c[k] \in Int
  BY <1>2, RowsAre
<1>4. d = [k \in 1 .. n + nw |-> IF c[k] >= nb THEN c[k] + 1 ELSE c[k]]
  BY <1>3
<1>5. Len(d) = n + nw
  <2>1. d \in [1 .. n + nw -> Int]
    BY <1>3, <1>4
  <2> HIDE DEF d
  <2> QED BY <1>2, <2>1, LenProperties
<1>6. \A k \in 1 .. n + nw : d[k] = IF c[k] >= nb THEN c[k] + 1 ELSE c[k]
  BY <1>4
<1> HIDE DEF d
<1>7. \A k \in 1 .. n : d[k] = c[k] /\ c[k] \in Int
  <2> SUFFICES ASSUME NEW k \in 1 .. n
               PROVE  d[k] = c[k] /\ c[k] \in Int
    OBVIOUS
  <2>1. k \in 1 .. n + nw /\ c[k] \in Int /\ c[k] < nb
    BY <1>1, <1>3
  <2> QED BY <1>6, <2>1
<1>8. ASSUME NEW k \in 1 .. nw PROVE d[n + k] = nb + 1 + k - 1
  <2>1. c[n + k] = nb + k - 1
    BY <1>1
  <2>2. n + k \in 1 .. n + nw /\ nb + k - 1 >= nb /\ nb + k - 1 + 1 = nb + 1 + k - 1
    OBVIOUS
  <2> QED BY <1>6, <2>1, <2>2
<1>9. ASSUME NEW k \in 1 .. n PROVE d[k] >= -1 /\ d[k] < nb + 1
  <2>1. c[k] \in Int /\ c[k] >= -1 /\ c[k] < nb /\ d[k] = c[k]
    BY <1>1, <1>7
  <2>2. c[k] < nb + 1
    BY <2>1
  <2> QED BY <2>1, <2>2
<1>10. Maps(d, n, nb + 1, nw)
  BY <1>1, <1>5, <1>7, <1>8, <1>9 DEF Maps
<1> QED BY <1>10 DEF d

\* The rows of a mapping after one that goes have the numbers before theirs.
LEMMA MapsRemove ==
    ASSUME NEW c \in Seq(Int), NEW n \in Nat, NEW nb \in Nat, NEW nw \in Nat, Maps(c, n, nb, nw),
           NEW i \in 1 .. n + nw
    PROVE  LET d == RemoveAt([k \in DOMAIN c |-> IF c[k] > c[i] THEN c[k] - 1 ELSE c[k]], i)
           IN  /\ d \in Seq(Int)
               /\ c[i] >= nb => Maps(d, n, nb, nw - 1) /\ nw - 1 \in Nat
               /\ c[i] >= 0 /\ c[i] < nb => Maps(d, n - 1, nb - 1, nw) /\ n - 1 \in Nat
<1> DEFINE e == [k \in DOMAIN c |-> IF c[k] > c[i] THEN c[k] - 1 ELSE c[k]]
           d == RemoveAt(e, i)
           At(k) == IF k < i THEN k ELSE k + 1
           L == n + nw
<1>1. L \in Nat /\ Len(c) = L
  BY DEF Maps
<1>2. DOMAIN c = 1 .. L /\ \A k \in 1 .. L : c[k] \in Int
  BY <1>1, RowsAre
<1>3. e = [k \in 1 .. L |-> IF c[k] > c[i] THEN c[k] - 1 ELSE c[k]]
  BY <1>2
<1>4. e \in Seq(Int) /\ Len(e) = L
  <2>1. e \in [1 .. L -> Int]
    BY <1>2, <1>3
  <2> HIDE DEF e, L
  <2> QED BY <1>1, <2>1, LenProperties
<1>5. \A k \in 1 .. L : e[k] = IF c[k] > c[i] THEN c[k] - 1 ELSE c[k]
  BY <1>3
<1> HIDE DEF e
<1>6. d \in Seq(Int) /\ Len(d) = L - 1 /\ \A k \in 1 .. L - 1 : d[k] = IF k < i THEN e[k] ELSE e[k + 1]
  <2>1. i \in 1 .. Len(e)
    BY <1>4
  <2>2. d \in Seq(Int) /\ Len(d) = Len(e) - 1 /\ \A k \in 1 .. Len(e) - 1 : d[k] = IF k < i THEN e[k] ELSE e[k + 1]
    BY <1>4, <2>1, RemoveAtIs
  <2> HIDE DEF d, L
  <2> QED BY <1>4, <2>2
<1> HIDE DEF d
<1>7. /\ \A j, k \in 1 .. L : c[j] = c[k] => j = k
      /\ \A k \in 1 .. L : /\ c[k] \in Int /\ c[k] >= -1
                           /\ c[k] >= nb <=> k > n
                           /\ k > n => c[k] = nb + (k - n) - 1
  <2>1. Once(c) /\ \A k \in 1 .. n + nw : /\ c[k] \in Int /\ c[k] >= -1 /\ c[k] < nb + nw
                                          /\ c[k] >= nb <=> k > n
                                          /\ k > n => c[k] = nb + (k - n) - 1
    BY MapsIs, ZenonT(40)
  <2>3. \A k \in 1 .. L : /\ c[k] \in Int /\ c[k] >= -1
                          /\ c[k] >= nb <=> k > n
                          /\ k > n => c[k] = nb + (k - n) - 1
    BY <2>1, Zenon
  <2> HIDE DEF L
  <2>2. \A j, k \in 1 .. L : c[j] = c[k] => j = k
    BY <1>2, <2>1 DEF Once
  <2> QED BY <2>2, <2>3
<1>8. ASSUME NEW k \in 1 .. L - 1
      PROVE  /\ At(k) \in 1 .. L /\ At(k) # i /\ c[At(k)] # c[i] /\ c[At(k)] \in Int
             /\ d[k] = IF c[At(k)] > c[i] THEN c[At(k)] - 1 ELSE c[At(k)]
  <2>1. At(k) \in 1 .. L /\ At(k) # i
    OBVIOUS
  <2>2. d[k] = e[At(k)]
    BY <1>6
  <2>3. i \in 1 .. L
    OBVIOUS
  <2> HIDE DEF At, L
  <2>4. c[At(k)] # c[i] /\ c[At(k)] \in Int
    BY <1>7, <2>1, <2>3
  <2>5. e[At(k)] = IF c[At(k)] > c[i] THEN c[At(k)] - 1 ELSE c[At(k)]
    BY <1>5, <2>1
  <2> QED BY <2>1, <2>2, <2>4, <2>5
<1>9. c[i] \in Int /\ i \in 1 .. L
  BY <1>2
<1> HIDE DEF L
<1>10. ASSUME c[i] >= nb PROVE Maps(d, n, nb, nw - 1) /\ nw - 1 \in Nat
  <2>1. i > n /\ c[i] = nb + (i - n) - 1
    BY <1>7, <1>9, <1>10
  <2>2. nw - 1 \in Nat
    BY <1>9, <2>1 DEF L
  <2>3. Len(d) = n + (nw - 1)
    BY <1>6 DEF L
  <2>4. ASSUME NEW k \in 1 .. n PROVE k \in 1 .. L /\ d[k] = c[k] /\ c[k] >= -1 /\ c[k] < nb /\ c[k] \in Int
    <3>1. k \in 1 .. L - 1 /\ At(k) = k /\ k \in 1 .. L
      BY <2>1, <1>9 DEF L
    <3>2. c[k] \in Int /\ c[k] >= -1 /\ c[k] < nb
      BY <1>7, <3>1
    <3>3. ~(c[k] > c[i])
      BY <1>9, <1>10, <3>2
    <3>4. d[k] = IF c[k] > c[i] THEN c[k] - 1 ELSE c[k]
      BY <1>8, <3>1
    <3> QED BY <3>1, <3>2, <3>3, <3>4
  <2>5. \A j, k \in 1 .. n : d[j] = d[k] => j = k
    BY <1>7, <2>4
  <2>6. ASSUME NEW k \in 1 .. nw - 1 PROVE d[n + k] = nb + k - 1
    <3>1. n + k \in 1 .. L - 1 /\ n + k \in 1 .. L /\ n + k + 1 \in 1 .. L
      BY DEF L
    <3>2. c[n + k] = nb + k - 1 /\ c[n + k + 1] = nb + k
      <4>1. /\ n + k > n /\ n + k + 1 > n /\ nb + ((n + k) - n) - 1 = nb + k - 1
            /\ nb + ((n + k + 1) - n) - 1 = nb + k
        OBVIOUS
      <4> QED BY <1>7, <3>1, <4>1
    <3>3. d[n + k] = IF c[At(n + k)] > c[i] THEN c[At(n + k)] - 1 ELSE c[At(n + k)]
      BY <1>8, <3>1
    <3>4. CASE n + k < i
      <4>1. At(n + k) = n + k /\ ~(nb + k - 1 > nb + (i - n) - 1)
        BY <1>9, <3>4
      <4> QED BY <2>1, <3>2, <3>3, <4>1
    <3>5. CASE ~(n + k < i)
      <4>1. At(n + k) = n + k + 1 /\ nb + k > nb + (i - n) - 1 /\ nb + k \in Int
        BY <1>9, <3>5
      <4> QED BY <2>1, <3>2, <3>3, <4>1
    <3> QED BY <3>4, <3>5
  <2>7. \A k \in 1 .. n : d[k] >= -1 /\ d[k] < nb
    BY <2>4
  <2> QED BY <2>2, <2>3, <2>5, <2>6, <2>7 DEF Maps
<1>11. ASSUME c[i] >= 0, c[i] < nb PROVE Maps(d, n - 1, nb - 1, nw) /\ n - 1 \in Nat
  <2>1. i <= n /\ n - 1 \in Nat
    BY <1>7, <1>9, <1>11
  <2>2. Len(d) = n - 1 + nw
    BY <1>6 DEF L
  <2>3. \A k \in 1 .. n - 1 : k \in 1 .. L - 1 /\ At(k) <= n /\ At(k) \in 1 .. L
    BY <2>1 DEF L
  <2>4. ASSUME NEW k \in 1 .. n - 1 PROVE d[k] >= -1 /\ d[k] < nb - 1
    <3>1. c[At(k)] \in Int /\ c[At(k)] >= -1 /\ c[At(k)] < nb
      <4>2. At(k) \in 1 .. L /\ At(k) <= n
        BY <2>3, Zenon
      <4> HIDE DEF At
      <4>3. At(k) \in Nat
        BY <1>1, <4>2
      <4>1. At(k) \in 1 .. L /\ ~(At(k) > n)
        BY <4>2, <4>3
      <4> QED BY <1>7, <4>1
    <3>2. /\ d[k] = IF c[At(k)] > c[i] THEN c[At(k)] - 1 ELSE c[At(k)]
          /\ c[At(k)] # c[i]
      BY <1>8, <2>3
    <3> HIDE DEF At
    <3> QED BY <1>9, <1>11, <3>1, <3>2, SMTT(30)
  <2>5. ASSUME NEW j \in 1 .. n - 1, NEW k \in 1 .. n - 1, d[j] = d[k] PROVE j = k
    <3>1. /\ d[k] = (IF c[At(k)] > c[i] THEN c[At(k)] - 1 ELSE c[At(k)]) /\ c[At(k)] # c[i]
          /\ d[j] = (IF c[At(j)] > c[i] THEN c[At(j)] - 1 ELSE c[At(j)]) /\ c[At(j)] # c[i]
          /\ c[At(k)] \in Int /\ c[At(j)] \in Int
      BY <1>8, <2>3
    <3>2. c[At(k)] = c[At(j)]
      <4> HIDE DEF At
      <4> DEFINE a == c[At(k)]
                 b == c[At(j)]
                 z == c[i]
      <4>1. (IF a > z THEN a - 1 ELSE a) = (IF b > z THEN b - 1 ELSE b)
        <5>1. d[k] = (IF a > z THEN a - 1 ELSE a)
          BY <3>1, Zenon
        <5>2. d[j] = (IF b > z THEN b - 1 ELSE b)
          BY <3>1, Zenon
        <5> HIDE DEF a, b, z
        <5> QED BY <2>5, <5>1, <5>2
      <4>2. a \in Int /\ b \in Int /\ z \in Int /\ a # z /\ b # z
        BY <1>9, <3>1, Zenon
      <4> HIDE DEF a, b, z
      <4>3. a = b
        BY <4>1, <4>2
      <4> QED BY <4>3 DEF a, b
    <3>3. At(k) = At(j)
      <4> HIDE DEF At
      <4> QED BY <1>7, <2>3, <3>2
    <3> QED BY <1>9, <3>3
  <2>6. ASSUME NEW k \in 1 .. nw PROVE d[n - 1 + k] = nb - 1 + k - 1
    <3>1. n - 1 + k \in 1 .. L - 1 /\ At(n - 1 + k) = n + k /\ n + k \in 1 .. L /\ n + k > n
          /\ nb + ((n + k) - n) - 1 = nb + k - 1
      BY <1>9, <2>1 DEF L
    <3>2. c[n + k] = nb + k - 1
      BY <1>7, <3>1
    <3>3. c[n + k] > c[i] /\ c[n + k] - 1 = nb - 1 + k - 1
      BY <1>9, <1>11, <3>2
    <3>4. d[n - 1 + k] = IF c[n + k] > c[i] THEN c[n + k] - 1 ELSE c[n + k]
      BY <1>8, <3>1
    <3> QED BY <3>3, <3>4
  <2>7. \A k \in 1 .. n - 1 : d[k] >= -1 /\ d[k] < nb - 1
    BY <2>4
  <2>8. \A j, k \in 1 .. n - 1 : d[j] = d[k] => j = k
    BY <2>5
  <2>9. \A k \in 1 .. nw : d[n - 1 + k] = nb - 1 + k - 1
    BY <2>6
  <2> QED BY <2>1, <2>2, <2>7, <2>8, <2>9 DEF Maps
<1> QED BY <1>6, <1>10, <1>11 DEF d, e

\* A mapping for the rows there are.
Mapped(p, c) == \E n \in Nat : Maps(c, n, NbRows(p), Len(p.new_rows))

\* The rows synchronised so far are within those of chunk and of chunk_to.
Under(p) ==
    /\ p.chunk_sep >= 0
    /\ p.chunk # NoChunk => p.chunk_sep <= Len(p.chunk)
    /\ p.chunk_to = Direct => p.chunk # NoChunk /\ p.chunk_sep <= NbRows(p)
    /\ p.chunk_to # Direct => Mapped(p, p.chunk_to) /\ p.chunk_sep <= Len(p.chunk_to)
\* chunk_proxy_nb_rows is used instead of the length of a mapping, or not yet set.
Begun(p) ==
    /\ p.chunk = NoChunk => p.chunk_proxy_nb_rows >= 0
    /\ p.chunk_to = Direct => p.chunk_proxy_nb_rows >= NbRows(p) \/ p.chunk_sep >= NbRows(p)
Fresh(p) == p.chunk_proxy_nb_rows < 0 /\ (p.chunk = NoChunk => p.chunk_sep = 0)
Shape(p) ==
    /\ p.sample_first_row >= -1
    /\ Settled(p) => ~p.chunk_sync_idle_id /\ (p.chunk # NoChunk => Mapped(p, p.chunk))
    /\ ~Settled(p) => p.chunk_sync_idle_id /\ Under(p) /\ (Begun(p) \/ Fresh(p))

\* The rows that have been announced.
Count(p) ==
    IF p.chunk # NoChunk THEN Len(p.chunk)
    ELSE IF Settled(p) \/ p.chunk_proxy_nb_rows < 0 THEN NbRows(p) + Len(p.new_rows)
    ELSE IF p.chunk_proxy_nb_rows >= p.chunk_sep THEN p.chunk_proxy_nb_rows ELSE p.chunk_sep
Told(p) == p.told = Offset(p) + Count(p)

\* No pointer or assertion has failed.
Calm(p) == "crash" \notin p.faults
Sound(p) == /\ IsProxy(p) /\ Edits(p) /\ ShowType(p) /\ Shape(p) /\ (p.faults = {} => Told(p))
            /\ Calm(p)

\* Other changes of rows that are there leave what is shown as it is.
LEMMA EditedSound ==
    ASSUME NEW p, NEW q, Sound(p), EditedOnly(p, q)
    PROVE  Sound(q) /\ (Settled(p) => Settled(q))
<1>1. /\ IsProxy(q) /\ Edits(q) /\ NbRows(q) = NbRows(p) /\ q.new_rows = p.new_rows
      /\ Settled(q) = Settled(p) /\ Offset(q) = Offset(p)
  BY DEF EditedOnly, NbRows, Settled, Offset, SameShow, SameOptions
<1>2. /\ SameShow(p, q) /\ SameOptions(p, q)
  BY DEF EditedOnly, SameShow
<1>3. ShowType(q)
  BY <1>2 DEF Sound, ShowType, OptionsOK, SameShow, SameOptions
<1>4. \A c : Mapped(q, c) = Mapped(p, c)
  BY <1>1 DEF Mapped
<1>5. Under(q) = Under(p) /\ Begun(q) = Begun(p) /\ Fresh(q) = Fresh(p)
  BY <1>1, <1>2, <1>4 DEF Under, Begun, Fresh, SameShow
<1>6. Shape(q)
  BY <1>1, <1>2, <1>4, <1>5 DEF Sound, Shape, SameShow, SameOptions
<1>7. Told(q) = Told(p) /\ q.faults = p.faults
  BY <1>1, <1>2 DEF Told, Count, SameShow
<1> QED BY <1>1, <1>3, <1>6, <1>7 DEF Sound, Calm

\* A new row is deleted, or its changes are cancelled.
LEMMA NewRowGoes ==
    ASSUME NEW p, Sound(p), Settled(p), NEW row \in Int, ProxyToModif(p, row) # NULL,
           p.mods[ProxyToModif(p, row)].model_row = -1
    PROVE  LET q == [UncoverNewRow(DropModif(p, ProxyToModif(p, row), -1), row) EXCEPT !.told = @ - 1]
           IN  Sound(q) /\ Settled(q)
<1> DEFINE m == ProxyToModif(p, row)
           abs == ProxyToAbsolute(p, row)
           q == DropModif(p, m, -1)
           i == row - Offset(p) + 1
           d == RemoveAt([k \in DOMAIN p.chunk |-> IF p.chunk[k] > abs THEN p.chunk[k] - 1 ELSE p.chunk[k]], i)
           c == IF p.chunk = NoChunk THEN p.chunk ELSE d
           u == [q EXCEPT !.chunk = c]
           r == [u EXCEPT !.told = @ - 1]
           nb == NbRows(p)
           nw == Len(p.new_rows)
<1>1. IsProxy(p) /\ Edits(p) /\ ShowType(p) /\ Shape(p)
  BY DEF Sound
<1>2. m \in ToSet(p.all_modifs) /\ abs >= nb /\ abs >= 0 /\ abs \in Int
  <2>1. ProxyToModel(p, row) = -1
    BY <1>1, ModifIs
  <2> QED BY <1>1, <2>1, ModifIs, AbsoluteIs
<1>3. /\ IsProxy(q) /\ Edits(q) /\ SameShow(p, q) /\ q.model = p.model /\ Len(q.new_rows) = nw - 1
  <2>1. p.mods[m].model_row = -1
    OBVIOUS
  <2> HIDE DEF m
  <2>2. LET x == DropModif(p, m, p.mods[m].model_row)
        IN  IsProxy(x) /\ Edits(x) /\ SameShow(p, x) /\ x.model = p.model /\ Len(x.new_rows) = nw - 1
    BY <1>1, <1>2, <2>1, DropIs
  <2> QED BY <2>1, <2>2
<1>4. ProxyToAbsolute(q, row) = abs /\ Offset(q) = Offset(p) /\ NbRows(q) = nb
  BY <1>3, SameAbsolute DEF Offset, SameShow, SameOptions, NbRows
<1>5. nb \in Nat /\ nw \in Nat /\ Offset(p) \in {0, 1}
  BY <1>1, NRowsIs DEF Edits, Lists
<1>6. [UncoverNewRow(q, row) EXCEPT !.told = @ - 1] = r
  <2>1. UncoverNewRow(q, row) = u
    <3>1. q.chunk = p.chunk
      BY <1>3 DEF SameShow
    <3>2. CASE p.chunk = NoChunk
      <4>1. u = [q EXCEPT !.chunk = q.chunk]
        BY <3>1, <3>2
      <4>2. u = q
        BY <1>3, <4>1 DEF IsProxy, Fields
      <4>3. UncoverNewRow(q, row) = q
        BY <3>1, <3>2 DEF UncoverNewRow
      <4> QED BY <4>2, <4>3
    <3>3. CASE p.chunk # NoChunk
      <4> HIDE DEF q
      <4>1. UncoverNewRow(q, row) = [q EXCEPT !.chunk = RemoveAt([k \in DOMAIN q.chunk |-> IF q.chunk[k] > abs THEN q.chunk[k] - 1 ELSE q.chunk[k]], row - Offset(q) + 1)]
        BY <1>4, <3>1, <3>3 DEF UncoverNewRow
      <4> QED BY <1>4, <3>1, <3>3, <4>1
    <3> QED BY <3>2, <3>3
  <2> QED BY <2>1
<1> HIDE DEF m, abs, q, d, nb, nw
<1>7. /\ IsProxy(r) /\ SameEdits(q, r) /\ SameOptions(p, r) /\ r.chunk = c
      /\ r.chunk_to = p.chunk_to /\ r.chunk_sep = p.chunk_sep
      /\ r.chunk_proxy_nb_rows = p.chunk_proxy_nb_rows
      /\ r.chunk_sync_idle_id = p.chunk_sync_idle_id /\ r.told = p.told - 1 /\ r.faults = p.faults
  BY <1>3 DEF IsProxy, Fields, SameEdits, SameShow, SameOptions
<1>8. NbRows(r) = nb /\ Len(r.new_rows) = nw - 1 /\ Offset(r) = Offset(p) /\ Settled(r)
  BY <1>3, <1>4, <1>7 DEF SameEdits, SameOptions, NbRows, Offset, Settled
<1>9. Edits(r)
  BY <1>3, <1>7, SMTT(30) DEF Edits, SameEdits, Lists, News, Keyed, OfTheirRow, Marked
<1>15. p.chunk = NoChunk => c = NoChunk
  OBVIOUS
<1> HIDE DEF r, u, c
<1>10. ASSUME p.chunk # NoChunk
       PROVE  /\ c \in Seq(Int) /\ c # NoChunk /\ Mapped(r, c) /\ Len(c) = Len(p.chunk) - 1
  <2> DEFINE s == p.chunk
  <2>1. i \in DOMAIN s /\ abs = s[i] /\ s \in Seq(Int)
    BY <1>1, <1>2, <1>10, AbsoluteIs DEF abs, ShowType
  <2>2. PICK n \in Nat : Maps(s, n, nb, nw)
    BY <1>1, <1>10 DEF Shape, Mapped, nb, nw
  <2>6. c = d /\ d = RemoveAt([k \in DOMAIN s |-> IF s[k] > s[i] THEN s[k] - 1 ELSE s[k]], i)
    BY <1>10, <2>1 DEF c, d
  <2> HIDE DEF s, i
  <2>3. DOMAIN s = 1 .. n + nw /\ Len(s) = n + nw
    BY <1>5, <2>1, <2>2, MapsIs
  <2>4. d \in Seq(Int) /\ Maps(d, n, nb, nw - 1)
    <3>1. i \in 1 .. n + nw /\ s[i] >= nb
      BY <1>2, <2>1, <2>3
    <3> QED BY <1>5, <2>1, <2>2, <2>6, <3>1, MapsRemove
  <2>5. Len(d) = n + (nw - 1)
    BY <2>4 DEF Maps
  <2>7. n + (nw - 1) = n + nw - 1
    BY <1>5
  <2>8. Mapped(r, c)
    BY <1>8, <2>4, <2>6 DEF Mapped
  <2>9. Len(c) = Len(s) - 1
    <3>1. c = d /\ Len(s) = n + nw
      BY <2>3, <2>6
    <3> QED BY <1>5, <2>5, <3>1
  <2>10. c \in Seq(Int) /\ c # NoChunk
    BY <2>4, <2>6, ChunkIs
  <2> QED BY <2>8, <2>9, <2>10 DEF s
<1>11. ShowType(r)
  BY <1>1, <1>7, <1>10, <1>15 DEF ShowType, OptionsOK, SameOptions
<1>12. Shape(r)
  BY <1>1, <1>7, <1>8, <1>10, <1>15 DEF Shape, SameOptions
<1>13. ASSUME Told(p) PROVE Told(r)
  <2>1. CASE p.chunk # NoChunk
    <3>1. p.told = Offset(p) + Len(p.chunk) /\ Len(p.chunk) \in Nat
      BY <1>1, <1>13, <2>1 DEF Told, Count, ShowType
    <3>2. p.told - 1 = Offset(p) + (Len(p.chunk) - 1)
      BY <1>5, <3>1
    <3> QED BY <1>7, <1>8, <1>10, <2>1, <3>2 DEF Told, Count
  <2>2. CASE p.chunk = NoChunk
    <3>1. p.told = Offset(p) + (nb + nw)
      BY <1>13, <2>2 DEF Told, Count, nb, nw
    <3>2. p.told - 1 = Offset(p) + (nb + (nw - 1))
      BY <1>5, <3>1
    <3> QED BY <1>7, <1>8, <1>15, <2>2, <3>2 DEF Told, Count
  <2> QED BY <2>1, <2>2
<1>14. Sound(r) /\ Settled(r)
  BY <1>7, <1>8, <1>9, <1>11, <1>12, <1>13 DEF Sound, Calm
<1> QED BY <1>6, <1>14 DEF m, q

\* gda_data_proxy_append(), and the values that the new row then gets.
LEMMA AppendIsSound ==
    ASSUME NEW p, Sound(p), Settled(p), Unused(p) # {}, NEW id \in Ids,
           NEW val \in [Columns -> Values \cup {NULL}]
    PROVE  LET q == [AppendNew(p, id) EXCEPT !.mods[NewModif(p)].values = val, !.told = @ + 1]
           IN  Sound(q) /\ Settled(q)
<1> DEFINE m == NewModif(p)
           nul == [c \in Columns |-> NULL]
           new == [model_row |-> -1, to_be_deleted |-> FALSE, values |-> nul, orig |-> NULL, id |-> id]
           rm == [model_row |-> -1, to_be_deleted |-> FALSE, values |-> val, orig |-> NULL, id |-> id]
           q == [p EXCEPT !.mods = With(@, m, new), !.all_modifs = <<m>> \o @, !.new_rows = Append(@, m)]
           ch == IF p.chunk = NoChunk THEN p.chunk ELSE Append(p.chunk, ModifToAbsolute(q, m))
           u == [q EXCEPT !.chunk = ch]
           r == [u EXCEPT !.mods[m].values = val, !.told = @ + 1]
           nb == NbRows(p)
           nw == Len(p.new_rows)
<1>1. IsProxy(p) /\ Edits(p) /\ ShowType(p) /\ Shape(p)
  BY DEF Sound
<1>2. m \in Modifs /\ m \notin DOMAIN p.mods
  BY NewModifIs
<1>3. rm \in RowModif
  <2>1. val \in ModifValues
    BY ValuesAre
  <2> QED BY <2>1, RowModifIs
<1>4. nb \in Nat /\ nw \in Nat /\ Offset(p) \in {0, 1}
  BY <1>1, NRowsIs DEF Edits, Lists
<1> HIDE DEF m, nb, nw
<1>5. /\ q.mods = With(p.mods, m, new) /\ q.all_modifs = <<m>> \o p.all_modifs
      /\ q.new_rows = Append(p.new_rows, m) /\ q.modify_rows = p.modify_rows
      /\ q.cached_modifs = p.cached_modifs /\ q.cached_inserts = p.cached_inserts
      /\ q.model = p.model /\ SameShow(p, q) /\ IsProxy(q)
  BY <1>1 DEF IsProxy, Fields, SameShow, SameOptions
<1>6. AppendNew(p, id) = u
  <2>1. AppendNew(p, id) = [q EXCEPT !.chunk = IF @ = NoChunk THEN @ ELSE Append(@, ModifToAbsolute(q, m))]
    BY DEF AppendNew, m
  <2> HIDE DEF q
  <2> QED BY <1>5, <2>1 DEF SameShow
<1> HIDE DEF q, new
<1>7. /\ IsProxy(r) /\ r.mods = [With(p.mods, m, new) EXCEPT ![m].values = val]
      /\ r.all_modifs = <<m>> \o p.all_modifs
      /\ r.new_rows = Append(p.new_rows, m) /\ r.modify_rows = p.modify_rows
      /\ r.cached_modifs = p.cached_modifs /\ r.cached_inserts = p.cached_inserts
      /\ r.model = p.model /\ SameOptions(p, r) /\ r.chunk = ch
      /\ r.chunk_to = p.chunk_to /\ r.chunk_sep = p.chunk_sep
      /\ r.chunk_proxy_nb_rows = p.chunk_proxy_nb_rows
      /\ r.chunk_sync_idle_id = p.chunk_sync_idle_id /\ r.told = p.told + 1 /\ r.faults = p.faults
  BY <1>5 DEF IsProxy, Fields, SameShow, SameOptions
<1> HIDE DEF r, u
<1>8. /\ DOMAIN r.mods = DOMAIN p.mods \cup {m} /\ r.mods = [n \in DOMAIN r.mods |-> r.mods[n]]
      /\ r.mods[m] = rm /\ \A n \in DOMAIN p.mods : r.mods[n] = p.mods[n] /\ n # m
  BY <1>2, <1>7 DEF With, new
<1>9. rm.model_row = -1 /\ ~rm.to_be_deleted /\ rm.orig = NULL /\ rm.values # << >>
  <2>1. DOMAIN val # {} /\ DOMAIN << >> = {}
    BY ProxyAssumption
  <2> QED BY <2>1
<1> HIDE DEF rm
<1>10. /\ p.all_modifs \in Seq(Modifs) /\ Once(p.all_modifs) /\ p.new_rows \in Seq(Modifs)
       /\ DOMAIN p.mods = ToSet(p.all_modifs) \cup ToSet(p.cached_modifs) \cup ToSet(p.cached_inserts)
       /\ \A n \in DOMAIN p.mods : p.mods[n] \in RowModif
  BY <1>1 DEF Edits, Lists
<1>11. /\ r.all_modifs \in Seq(Modifs) /\ Once(r.all_modifs)
       /\ ToSet(r.all_modifs) = ToSet(p.all_modifs) \cup {m}
  <2>1. m \notin ToSet(p.all_modifs)
    BY <1>2, <1>10
  <2> QED BY <1>2, <1>7, <1>10, <2>1, PrependIs
<1>12. /\ r.new_rows \in Seq(Modifs) /\ Once(r.new_rows) /\ Len(r.new_rows) = nw + 1
       /\ ToSet(r.new_rows) = ToSet(p.new_rows) \cup {m} /\ r.new_rows[nw + 1] = m
  <2>1. m \notin ToSet(p.new_rows) /\ Once(p.new_rows)
    BY <1>1, <1>2, <1>10 DEF Edits, News, Lists
  <2> QED BY <1>2, <1>7, <1>10, <2>1, AppendIs DEF nw
<1>13. Lists(r)
  <2>1. /\ ToSet(r.all_modifs) \cap ToSet(r.cached_modifs) = {}
        /\ ToSet(r.all_modifs) \cap ToSet(r.cached_inserts) = {}
    BY <1>1, <1>2, <1>7, <1>10, <1>11 DEF Edits, Lists
  <2>2. DOMAIN r.mods = ToSet(r.all_modifs) \cup ToSet(r.cached_modifs) \cup ToSet(r.cached_inserts)
    BY <1>7, <1>8, <1>10, <1>11
  <2>3. \A n \in DOMAIN r.mods : r.mods[n] \in RowModif
    BY <1>3, <1>8, <1>10
  <2> QED BY <1>1, <1>7, <1>8, <1>11, <1>12, <2>1, <2>2, <2>3 DEF Edits, Lists
<1>14. News(r)
  <2>1. \A n \in ToSet(p.all_modifs) \cup ToSet(p.cached_inserts) : r.mods[n] = p.mods[n]
    BY <1>8, <1>10
  <2>2. ToSet(p.new_rows) = {n \in ToSet(p.all_modifs) : p.mods[n].model_row = -1}
    BY <1>1 DEF Edits, News
  <2>3. ToSet(r.new_rows) = {n \in ToSet(r.all_modifs) : r.mods[n].model_row = -1}
    BY <1>8, <1>9, <1>11, <1>12, <2>1, <2>2
  <2>4. \A n \in ToSet(r.cached_inserts) : r.mods[n].model_row = -1
    BY <1>1, <1>7, <2>1 DEF Edits, News
  <2> QED BY <2>3, <2>4 DEF News
<1>15. Keyed(r)
  <2>1. ASSUME NEW x \in DOMAIN r.modify_rows
        PROVE  /\ x \in Nat /\ r.modify_rows[x] \in ToSet(r.all_modifs)
               /\ r.mods[r.modify_rows[x]].model_row = x
    <3>1. x \in Nat /\ p.modify_rows[x] \in ToSet(p.all_modifs) /\ p.mods[p.modify_rows[x]].model_row = x
      BY <1>1, <1>7 DEF Edits, Keyed
    <3> QED BY <1>7, <1>8, <1>10, <1>11, <3>1, ZenonT(40)
  <2> QED BY <1>1, <1>7, <2>1 DEF Edits, Keyed
<1>16. OfTheirRow(r)
  <2>1. ASSUME NEW n \in ToSet(p.all_modifs) PROVE r.mods[n] = p.mods[n]
    BY <1>8, <1>10
  <2>2. -1 \in -1 .. Len(r.model) - 1 /\ ~(-1 >= 0)
    BY <1>4, <1>7 DEF nb, NbRows
  <2>3. ASSUME NEW n \in ToSet(p.all_modifs)
        PROVE  /\ r.mods[n].model_row \in -1 .. Len(r.model) - 1
               /\ r.mods[n].model_row >= 0 =>
                    /\ r.model[r.mods[n].model_row + 1].id = r.mods[n].id
                    /\ r.model[r.mods[n].model_row + 1].val = r.mods[n].orig
                    /\ \A x \in ToSet(p.all_modifs) : r.mods[x].model_row = r.mods[n].model_row => x = n
    BY <1>1, <1>7, <2>1 DEF Edits, OfTheirRow
  <2> QED BY <1>8, <1>9, <1>11, <2>2, <2>3 DEF OfTheirRow
<1>17. Marked(r)
  BY <1>1, <1>8, <1>9 DEF Edits, Marked
<1>18. Edits(r)
  <2>1. r.model \in Seq(ModelRow)
    BY <1>1, <1>7 DEF Edits
  <2> QED BY <1>13, <1>14, <1>15, <1>16, <1>17, <2>1 DEF Edits
<1>19. NbRows(r) = nb /\ Offset(r) = Offset(p) /\ Settled(r) /\ Len(r.new_rows) = nw + 1
  BY <1>7, <1>12 DEF nb, NbRows, Offset, Settled, SameOptions
<1>20. ModifToAbsolute(q, m) = nb + nw
  <2>1. q.new_rows = r.new_rows /\ NbRows(q) = nb /\ q.mods[m].model_row = -1
    BY <1>5, <1>7 DEF NbRows, nb, With, new
  <2>2. m \in ToSet(q.new_rows)
    BY <1>12, <2>1
  <2>3. /\ Contains(q.new_rows, m) /\ Position(q.new_rows, m) \in DOMAIN q.new_rows
        /\ q.new_rows[Position(q.new_rows, m)] = m
    BY <1>12, <2>1, <2>2, PositionIs
  <2>4. nw + 1 \in DOMAIN q.new_rows
    <3>1. nw + 1 \in 1 .. Len(r.new_rows)
      BY <1>4, <1>12
    <3> QED BY <1>12, <2>1, <3>1
  <2>5. Position(q.new_rows, m) = nw + 1
    BY <1>12, <2>1, <2>3, <2>4 DEF Once
  <2> QED BY <1>4, <2>1, <2>3, <2>5 DEF ModifToAbsolute
<1>21. p.chunk = NoChunk => ch = NoChunk
  OBVIOUS
<1>22. ASSUME p.chunk # NoChunk
       PROVE  ch \in Seq(Int) /\ ch # NoChunk /\ Mapped(r, ch) /\ Len(ch) = Len(p.chunk) + 1
  <2> DEFINE s == p.chunk
  <2>1. s \in Seq(Int) /\ ch = Append(s, nb + nw) /\ nb + nw \in Int
    BY <1>1, <1>4, <1>20, <1>22 DEF ShowType
  <2>2. PICK n \in Nat : Maps(s, n, nb, nw)
    BY <1>1, <1>22 DEF Shape, Mapped, nb, nw
  <2> HIDE DEF s, ch
  <2>3. Maps(ch, n, nb, nw + 1)
    BY <1>4, <2>1, <2>2, MapsAppend
  <2>4. ch \in Seq(Int) /\ Len(ch) = Len(s) + 1
    BY <2>1, AppendIs
  <2>5. Mapped(r, ch) /\ ch # NoChunk
    BY <1>19, <2>3, <2>4, ChunkIs DEF Mapped
  <2> QED BY <2>4, <2>5 DEF s
<1> HIDE DEF ch
<1>23. ShowType(r)
  BY <1>1, <1>7, <1>21, <1>22 DEF ShowType, OptionsOK, SameOptions
<1>24. Shape(r)
  BY <1>1, <1>7, <1>19, <1>21, <1>22 DEF Shape, SameOptions
<1>25. ASSUME Told(p) PROVE Told(r)
  <2>1. CASE p.chunk # NoChunk
    <3>1. p.told = Offset(p) + Len(p.chunk) /\ Len(p.chunk) \in Nat
      BY <1>1, <1>25, <2>1 DEF Told, Count, ShowType
    <3>2. p.told + 1 = Offset(p) + (Len(p.chunk) + 1)
      BY <1>4, <3>1
    <3> QED BY <1>7, <1>19, <1>22, <2>1, <3>2 DEF Told, Count
  <2>2. CASE p.chunk = NoChunk
    <3>1. p.told = Offset(p) + (nb + nw)
      BY <1>25, <2>2 DEF Told, Count, nb, nw
    <3>2. p.told + 1 = Offset(p) + (nb + (nw + 1))
      BY <1>4, <3>1
    <3> QED BY <1>7, <1>19, <1>21, <2>2, <3>2 DEF Told, Count
  <2> QED BY <2>1, <2>2
<1>26. Sound(r) /\ Settled(r)
  BY <1>7, <1>18, <1>19, <1>23, <1>24, <1>25 DEF Sound, Calm
<1> QED BY <1>6, <1>26 DEF r, m

-----------------------------------------------------------------------------
(* The synchronisation of what is shown.                                   *)

\* A row of a chunk is replaced, a row is inserted.
LEMMA ReplaceAtIs ==
    ASSUME NEW s \in Seq(Int), NEW i \in 1 .. Len(s), NEW e \in Int
    PROVE  ReplaceAt(s, i, e) \in Seq(Int) /\ Len(ReplaceAt(s, i, e)) = Len(s)
  BY DEF ReplaceAt

\* A list with one more element in it.
LEMMA InsertAtIs ==
    ASSUME NEW s \in Seq(Int), NEW i \in 1 .. Len(s) + 1, NEW e \in Int
    PROVE  InsertAt(s, i, e) \in Seq(Int) /\ Len(InsertAt(s, i, e)) = Len(s) + 1
<1> DEFINE a == SubSeq(s, 1, i - 1)
           b == SubSeq(s, i, Len(s))
<1>1. Len(s) \in Nat /\ i \in Nat /\ i - 1 \in Nat /\ 1 <= i /\ i <= Len(s) + 1 /\ i - 1 <= Len(s)
      /\ 1 <= (i - 1) + 1 /\ (i - 1) - 1 + 1 = i - 1 /\ 1 \in Nat /\ 1 <= 1
      /\ Len(s) <= Len(s)
  OBVIOUS
<1>2. a \in Seq(Int) /\ Len(a) = i - 1
  <2>1. SubSeq(s, 1, i - 1) \in Seq(Int) /\ Len(SubSeq(s, 1, i - 1)) = (i - 1) - 1 + 1
    BY <1>1, PartIs
  <2> QED BY <1>1, <2>1
<1>3. b \in Seq(Int) /\ Len(b) = Len(s) - i + 1
  BY <1>1, PartIs
<1>4. InsertAt(s, i, e) = (a \o <<e>>) \o b
  BY DEF InsertAt
<1> HIDE DEF a, b
<1>5. a \o <<e>> \in Seq(Int) /\ Len(a \o <<e>>) = i
  BY <1>1, <1>2
<1>6. (a \o <<e>>) \o b \in Seq(Int) /\ Len((a \o <<e>>) \o b) = i + (Len(s) - i + 1)
  <2> DEFINE d == a \o <<e>>
  <2>1. d \in Seq(Int) /\ Len(d) = i
    BY <1>5
  <2> HIDE DEF d
  <2>2. d \o b \in Seq(Int) /\ Len(d \o b) = Len(d) + Len(b)
    BY <1>3, <2>1, JoinedIs
  <2> QED BY <1>3, <2>1, <2>2 DEF d
<1> QED BY <1>1, <1>4, <1>6

\* The rows of chunk and of chunk_to, and how many turns are left.
LenCur(p) == IF p.chunk # NoChunk THEN Len(p.chunk) ELSE p.chunk_proxy_nb_rows
LenTo(p) == IF p.chunk_to = Direct THEN NbRows(p) ELSE Len(p.chunk_to)
Left(p) == IF Settled(p) THEN 0
           ELSE (IF LenCur(p) >= LenTo(p) THEN LenCur(p) ELSE LenTo(p)) - p.chunk_sep + 1

\* What a turn keeps.
RunOn(p, q) == /\ IsProxy(q) /\ SameEdits(p, q) /\ SameOptions(p, q) /\ ShowType(q)
               /\ (q.faults = {} => p.faults = {}) /\ (Calm(p) => Calm(q))

\* The rows that are counted.
HasRows(p) == p.model \in Seq(ModelRow) /\ p.new_rows \in Seq(Modifs)

\* The lists that give the number of rows are sequences.
LEMMA EditsHasRows ==
    ASSUME NEW p, Edits(p)
    PROVE  HasRows(p)
  BY DEF Edits, Lists, HasRows

\* The numbers a turn works with.
LEMMA TurnIs ==
    ASSUME NEW p, HasRows(p), ShowType(p), ~Settled(p), Under(p), Begun(p)
    PROVE  /\ p.chunk_sep \in Nat /\ LenCur(p) \in Nat /\ LenTo(p) \in Nat
           /\ p.chunk_sep <= LenTo(p) /\ (p.chunk # NoChunk => p.chunk_sep <= LenCur(p))
           /\ NbRows(p) \in Nat /\ Len(p.new_rows) \in Nat /\ Offset(p) \in {0, 1}
           /\ p.chunk # NoChunk => p.chunk \in Seq(Int)
           /\ p.chunk_to # Direct => p.chunk_to \in Seq(Int) /\ HasMapping(p.chunk_to)
           /\ p.told \in Int /\ p.chunk_proxy_nb_rows \in Int /\ p.chunk_to # NoChunk
           /\ Left(p) \in Nat \ {0} /\ p.chunk_sep \in Int
<1>1. NbRows(p) \in Nat /\ Len(p.new_rows) \in Nat /\ Offset(p) \in {0, 1}
  BY NRowsIs DEF HasRows
<1>2. /\ p.chunk # NoChunk => p.chunk \in Seq(Int)
      /\ p.chunk_to # Direct => p.chunk_to \in Seq(Int)
      /\ p.told \in Int /\ p.chunk_proxy_nb_rows \in Int /\ p.chunk_to # NoChunk /\ p.chunk_sep \in Int
  BY DEF ShowType, Settled
<1>3. p.chunk_to # Direct => HasMapping(p.chunk_to)
  BY <1>2, ChunkIs
<1>4. p.chunk_sep \in Nat
  BY <1>2 DEF Under
<1>5. LenCur(p) \in Nat /\ (p.chunk # NoChunk => p.chunk_sep <= LenCur(p))
  BY <1>2 DEF LenCur, Under, Begun
<1>6. LenTo(p) \in Nat /\ p.chunk_sep <= LenTo(p)
  BY <1>1, <1>2 DEF LenTo, Under
<1>7. Left(p) \in Nat \ {0}
  BY <1>4, <1>5, <1>6 DEF Left
<1> QED BY <1>1, <1>2, <1>3, <1>4, <1>5, <1>6, <1>7

\* One turn of the loop of chunk_sync_idle().
LEMMA SyncStepIs ==
    ASSUME NEW p, IsProxy(p), HasRows(p), ShowType(p), ~Settled(p), Under(p), Begun(p)
    PROVE  LET q == SyncStep(p)
           IN  /\ RunOn(p, q)
               /\ Settled(q) => ~q.chunk_sync_idle_id /\ (q.chunk # NoChunk => Mapped(q, q.chunk))
               /\ ~Settled(q) => /\ q.chunk_sync_idle_id = p.chunk_sync_idle_id
                                 /\ Under(q) /\ Begun(q)
               /\ Left(q) \in Int /\ Left(q) <= Left(p) - 1
               /\ Told(p) /\ q.faults = {} => Told(q)
<1> DEFINE q == SyncStep(p)
           at == p.chunk_sep
           cl == LenCur(p)
           tl == LenTo(p)
           nb == NbRows(p)
           nw == Len(p.new_rows)
           x == p.chunk_proxy_nb_rows
           new == IF p.chunk_to = Direct THEN at ELSE p.chunk_to[at + 1]
           Changed(chunk) == IF p.chunk = NoChunk THEN NoChunk ELSE chunk
<1>1. /\ at \in Nat /\ cl \in Nat /\ tl \in Nat /\ at <= tl /\ (p.chunk # NoChunk => at <= cl)
      /\ nb \in Nat /\ nw \in Nat /\ Offset(p) \in {0, 1}
      /\ p.chunk # NoChunk => p.chunk \in Seq(Int) /\ cl = Len(p.chunk)
      /\ p.chunk = NoChunk => cl = x
      /\ p.chunk_to # Direct => p.chunk_to \in Seq(Int) /\ HasMapping(p.chunk_to) /\ tl = Len(p.chunk_to)
      /\ p.chunk_to = Direct => tl = nb /\ p.chunk # NoChunk
      /\ p.told \in Int /\ x \in Int /\ p.chunk_to # NoChunk /\ Left(p) \in Nat \ {0}
  <2>1. p.chunk_to = Direct => tl = nb /\ p.chunk # NoChunk
    BY DEF LenTo, Under
  <2>2. p.chunk_to # Direct => tl = Len(p.chunk_to)
    BY DEF LenTo
  <2>3. (p.chunk # NoChunk => cl = Len(p.chunk)) /\ (p.chunk = NoChunk => cl = x)
    BY DEF LenCur
  <2>4. /\ p.chunk_sep \in Nat /\ LenCur(p) \in Nat /\ LenTo(p) \in Nat
        /\ p.chunk_sep <= LenTo(p) /\ (p.chunk # NoChunk => p.chunk_sep <= LenCur(p))
        /\ NbRows(p) \in Nat /\ Len(p.new_rows) \in Nat /\ Offset(p) \in {0, 1}
        /\ p.chunk # NoChunk => p.chunk \in Seq(Int)
        /\ p.chunk_to # Direct => p.chunk_to \in Seq(Int) /\ HasMapping(p.chunk_to)
        /\ p.told \in Int /\ p.chunk_proxy_nb_rows \in Int /\ p.chunk_to # NoChunk
        /\ Left(p) \in Nat \ {0}
    BY TurnIs
  <2> HIDE DEF at, cl, tl, nb, nw, x
  <2> QED BY <2>1, <2>2, <2>3, <2>4 DEF at, cl, tl, nb, nw, x
<1>2. Left(p) = (IF cl >= tl THEN cl ELSE tl) - at + 1
  BY DEF Left
<1>3. Told(p) => p.told = Offset(p) + (IF p.chunk # NoChunk THEN cl ELSE IF x >= at THEN x ELSE at)
  <2>1. p.chunk = NoChunk => x >= 0
    BY DEF Begun
  <2>2. p.chunk = NoChunk => ~(x < 0)
    BY <1>1, <2>1
  <2> QED BY <1>1, <2>2 DEF Told, Count
<1>4. at < tl => new \in Int
  <2> SUFFICES ASSUME at < tl, p.chunk_to # Direct
               PROVE  p.chunk_to[at + 1] \in Int
    BY <1>1
  <2>1. p.chunk_to \in Seq(Int) /\ at + 1 \in 1 .. Len(p.chunk_to)
    BY <1>1
  <2> QED BY <2>1, ElementOfSeq
<1>5. q = IF at < cl /\ at < tl
          THEN [p EXCEPT !.chunk = Changed(ReplaceAt(@, at + 1, new)), !.chunk_sep = at + 1]
          ELSE IF at < cl
          THEN [p EXCEPT !.chunk = Changed(RemoveAt(@, at + 1)), !.chunk_proxy_nb_rows = @ - 1,
                         !.told = @ - 1]
          ELSE IF at < tl
          THEN [p EXCEPT !.chunk = Changed(InsertAt(@, at + 1, new)), !.chunk_sep = at + 1,
                         !.told = @ + 1]
          ELSE [p EXCEPT !.chunk = IF p.chunk_to = Direct THEN NoChunk ELSE p.chunk_to,
                         !.chunk_to = NoChunk, !.chunk_sync_idle_id = FALSE,
                         !.chunk_sep = 0, !.chunk_proxy_nb_rows = 0,
                         !.faults = IF p.chunk # NoChunk /\ p.chunk_to = Direct /\ p.new_rows # << >>
                                    THEN @ \cup {"new rows not announced"} ELSE @]
  <2>1. at >= 0
    BY <1>1
  <2> HIDE DEF at, cl, tl, nb, x
  <2>2. (IF p.chunk # NoChunk THEN at >= 0 /\ at < Len(p.chunk) ELSE at >= 0 /\ at < x) <=> at < cl
    BY <1>1, <2>1
  <2>3. (at >= 0 /\ at < (IF p.chunk_to = Direct THEN nb ELSE Len(p.chunk_to))) <=> at < tl
    BY <1>1, <2>1
  <2> QED BY <1>1, <2>2, <2>3 DEF SyncStep, at, x, nb
<1> HIDE DEF q, cl, tl, new
<1>6. CASE at < cl /\ at < tl
  <2> DEFINE ch == Changed(ReplaceAt(p.chunk, at + 1, new))
  <2>1. /\ IsProxy(q) /\ SameEdits(p, q) /\ SameOptions(p, q) /\ q.chunk = ch /\ q.chunk_sep = at + 1
        /\ q.chunk_to = p.chunk_to /\ q.chunk_proxy_nb_rows = x
        /\ q.chunk_sync_idle_id = p.chunk_sync_idle_id /\ q.told = p.told /\ q.faults = p.faults
    BY <1>5, <1>6 DEF IsProxy, Fields, SameEdits, SameOptions
  <2>2. p.chunk # NoChunk => ch \in Seq(Int) /\ Len(ch) = cl /\ ch # NoChunk
    <3> SUFFICES ASSUME p.chunk # NoChunk
                 PROVE  ch \in Seq(Int) /\ Len(ch) = cl /\ ch # NoChunk
      OBVIOUS
    <3>1. p.chunk \in Seq(Int) /\ Len(p.chunk) = cl /\ at + 1 \in 1 .. Len(p.chunk) /\ new \in Int
      BY <1>1, <1>4, <1>6, SMTT(30)
    <3>2. ch = ReplaceAt(p.chunk, at + 1, new)
      OBVIOUS
    <3> QED BY <3>1, <3>2, ReplaceAtIs, ChunkIs
  <2>3. p.chunk = NoChunk => ch = NoChunk
    OBVIOUS
  <2> HIDE DEF ch
  <2>4. NbRows(q) = nb /\ q.new_rows = p.new_rows /\ Offset(q) = Offset(p) /\ ~Settled(q)
    BY <1>1, <2>1 DEF NbRows, SameEdits, SameOptions, Offset, Settled
  <2>5. ShowType(q)
    BY <1>1, <2>1, <2>2, <2>3 DEF ShowType, OptionsOK, SameOptions
  <2>6. LenCur(q) = cl /\ LenTo(q) = tl
    BY <1>1, <2>1, <2>2, <2>3, <2>4 DEF LenCur, LenTo
  <2>7. Left(q) \in Int /\ Left(q) <= Left(p) - 1
    <3>1. Left(q) = (IF cl >= tl THEN cl ELSE tl) - (at + 1) + 1
      BY <2>1, <2>4, <2>6 DEF Left
    <3> QED BY <1>1, <1>2, <3>1
  <2>8. Under(q)
    <3>1. p.chunk_to # Direct => Mapped(q, q.chunk_to)
      BY <2>1, <2>4 DEF Under, Mapped
    <3>2. at + 1 >= 0 /\ at + 1 <= cl /\ at + 1 <= tl
      BY <1>1, <1>6, SMTT(30)
    <3> QED BY <1>1, <2>1, <2>2, <2>3, <2>4, <3>1, <3>2 DEF Under
  <2>9. Begun(q)
    <3>1. x >= nb \/ at >= nb => x >= nb \/ at + 1 >= nb
      BY <1>1
    <3> QED BY <2>1, <2>2, <2>3, <2>4, <3>1 DEF Begun
  <2>10. Told(p) => Told(q)
    <3>1. Count(q) = IF p.chunk # NoChunk THEN cl ELSE IF x >= at THEN x ELSE at
      <4>1. CASE p.chunk # NoChunk
        BY <2>1, <2>2, <4>1 DEF Count
      <4>2. CASE p.chunk = NoChunk
        <5>1. x >= at + 1 /\ x >= at /\ ~(x < 0)
          BY <1>1, <1>6, <4>2
        <5> QED BY <2>1, <2>3, <2>4, <4>2, <5>1 DEF Count
      <4> QED BY <4>1, <4>2
    <3> QED BY <1>3, <2>1, <2>4, <3>1 DEF Told
  <2> QED BY <2>1, <2>4, <2>5, <2>7, <2>8, <2>9, <2>10 DEF RunOn, q, Calm
<1>7. CASE at < cl /\ ~(at < tl)
  <2> DEFINE ch == Changed(RemoveAt(p.chunk, at + 1))
  <2>1. /\ IsProxy(q) /\ SameEdits(p, q) /\ SameOptions(p, q) /\ q.chunk = ch /\ q.chunk_sep = at
        /\ q.chunk_to = p.chunk_to /\ q.chunk_proxy_nb_rows = x - 1
        /\ q.chunk_sync_idle_id = p.chunk_sync_idle_id /\ q.told = p.told - 1 /\ q.faults = p.faults
    BY <1>5, <1>7 DEF IsProxy, Fields, SameEdits, SameOptions
  <2>2. p.chunk # NoChunk => ch \in Seq(Int) /\ Len(ch) = cl - 1 /\ ch # NoChunk
    <3> SUFFICES ASSUME p.chunk # NoChunk
                 PROVE  ch \in Seq(Int) /\ Len(ch) = cl - 1 /\ ch # NoChunk
      OBVIOUS
    <3>1. p.chunk \in Seq(Int) /\ Len(p.chunk) = cl /\ at + 1 \in 1 .. Len(p.chunk)
      BY <1>1, <1>7
    <3>2. ch = RemoveAt(p.chunk, at + 1)
      OBVIOUS
    <3>3. RemoveAt(p.chunk, at + 1) \in Seq(Int) /\ Len(RemoveAt(p.chunk, at + 1)) = Len(p.chunk) - 1
      BY <3>1, RemoveAtIs
    <3> QED BY <3>1, <3>2, <3>3, ChunkIs
  <2>3. p.chunk = NoChunk => ch = NoChunk
    OBVIOUS
  <2> HIDE DEF ch
  <2>4. NbRows(q) = nb /\ q.new_rows = p.new_rows /\ Offset(q) = Offset(p) /\ ~Settled(q)
    BY <1>1, <2>1 DEF NbRows, SameEdits, SameOptions, Offset, Settled
  <2>5. ShowType(q)
    BY <1>1, <2>1, <2>2, <2>3 DEF ShowType, OptionsOK, SameOptions
  <2>6. LenCur(q) = cl - 1 /\ LenTo(q) = tl
    BY <1>1, <2>1, <2>2, <2>3, <2>4 DEF LenCur, LenTo
  <2>7. Left(q) \in Int /\ Left(q) <= Left(p) - 1
    <3>1. Left(q) = (IF cl - 1 >= tl THEN cl - 1 ELSE tl) - at + 1
      BY <2>1, <2>4, <2>6 DEF Left
    <3> QED BY <1>1, <1>2, <1>7, <3>1
  <2>8. Under(q)
    <3>1. p.chunk_to # Direct => Mapped(q, q.chunk_to)
      BY <2>1, <2>4 DEF Under, Mapped
    <3>2. at >= 0 /\ at <= cl - 1 /\ at <= tl
      BY <1>1, <1>7
    <3> QED BY <1>1, <2>1, <2>2, <2>3, <2>4, <3>1, <3>2 DEF Under
  <2>9. Begun(q)
    <3>1. p.chunk_to = Direct => at >= nb
      BY <1>1, <1>7
    <3>2. p.chunk = NoChunk => x - 1 >= 0
      BY <1>1, <1>7
    <3> QED BY <2>1, <2>2, <2>3, <2>4, <3>1, <3>2 DEF Begun
  <2>10. Told(p) => Told(q)
    <3>1. Count(q) = (IF p.chunk # NoChunk THEN cl ELSE IF x >= at THEN x ELSE at) - 1
      <4>1. CASE p.chunk # NoChunk
        BY <2>1, <2>2, <4>1 DEF Count
      <4>2. CASE p.chunk = NoChunk
        <5>1. x - 1 >= at /\ x >= at /\ ~(x - 1 < 0)
          BY <1>1, <1>7, <4>2
        <5> QED BY <2>1, <2>3, <2>4, <4>2, <5>1 DEF Count
      <4> QED BY <4>1, <4>2
    <3>2. Told(p) => p.told - 1 = Offset(p) + ((IF p.chunk # NoChunk THEN cl ELSE IF x >= at THEN x ELSE at) - 1)
      <4> DEFINE C == IF p.chunk # NoChunk THEN cl ELSE IF x >= at THEN x ELSE at
      <4>1. C \in Int /\ p.told \in Int /\ Offset(p) \in Int /\ (Told(p) => p.told = Offset(p) + C)
        BY <1>1, <1>3
      <4> HIDE DEF C
      <4>2. Told(p) => p.told - 1 = Offset(p) + (C - 1)
        BY <4>1
      <4> QED BY <4>2 DEF C
    <3> QED BY <2>1, <2>4, <3>1, <3>2 DEF Told
  <2> QED BY <2>1, <2>4, <2>5, <2>7, <2>8, <2>9, <2>10 DEF RunOn, q, Calm
<1>8. CASE ~(at < cl) /\ at < tl
  <2> DEFINE ch == Changed(InsertAt(p.chunk, at + 1, new))
  <2>1. /\ IsProxy(q) /\ SameEdits(p, q) /\ SameOptions(p, q) /\ q.chunk = ch /\ q.chunk_sep = at + 1
        /\ q.chunk_to = p.chunk_to /\ q.chunk_proxy_nb_rows = x
        /\ q.chunk_sync_idle_id = p.chunk_sync_idle_id /\ q.told = p.told + 1 /\ q.faults = p.faults
    BY <1>5, <1>8 DEF IsProxy, Fields, SameEdits, SameOptions
  <2>2. p.chunk # NoChunk => ch \in Seq(Int) /\ Len(ch) = cl + 1 /\ ch # NoChunk
    <3> SUFFICES ASSUME p.chunk # NoChunk
                 PROVE  ch \in Seq(Int) /\ Len(ch) = cl + 1 /\ ch # NoChunk
      OBVIOUS
    <3>1. p.chunk \in Seq(Int) /\ Len(p.chunk) = cl /\ at + 1 \in 1 .. Len(p.chunk) + 1 /\ new \in Int
      BY <1>1, <1>4, <1>8
    <3>2. ch = InsertAt(p.chunk, at + 1, new)
      OBVIOUS
    <3> QED BY <3>1, <3>2, InsertAtIs, ChunkIs
  <2>3. p.chunk = NoChunk => ch = NoChunk
    OBVIOUS
  <2> HIDE DEF ch
  <2>4. NbRows(q) = nb /\ q.new_rows = p.new_rows /\ Offset(q) = Offset(p) /\ ~Settled(q)
    BY <1>1, <2>1 DEF NbRows, SameEdits, SameOptions, Offset, Settled
  <2>5. ShowType(q)
    BY <1>1, <2>1, <2>2, <2>3 DEF ShowType, OptionsOK, SameOptions
  <2>6. LenCur(q) = (IF p.chunk # NoChunk THEN cl + 1 ELSE cl) /\ LenTo(q) = tl
    BY <1>1, <2>1, <2>2, <2>3, <2>4 DEF LenCur, LenTo
  <2>7. Left(q) \in Int /\ Left(q) <= Left(p) - 1
    <3>1. Left(q) = (IF LenCur(q) >= tl THEN LenCur(q) ELSE tl) - (at + 1) + 1
      BY <2>1, <2>4, <2>6 DEF Left
    <3>2. LenCur(q) \in Int /\ LenCur(q) <= tl
      BY <1>1, <1>8, <2>6
    <3> QED BY <1>1, <1>2, <1>8, <3>1, <3>2, SMTT(30)
  <2>8. Under(q)
    <3>1. p.chunk_to # Direct => Mapped(q, q.chunk_to)
      BY <2>1, <2>4 DEF Under, Mapped
    <3>2. at + 1 >= 0 /\ (p.chunk # NoChunk => at + 1 <= cl + 1) /\ at + 1 <= tl
      BY <1>1, <1>8
    <3> QED BY <1>1, <2>1, <2>2, <2>3, <2>4, <3>1, <3>2 DEF Under
  <2>9. Begun(q)
    <3>1. x >= nb \/ at >= nb => x >= nb \/ at + 1 >= nb
      BY <1>1
    <3> QED BY <2>1, <2>2, <2>3, <2>4, <3>1 DEF Begun
  <2>10. Told(p) => Told(q)
    <3>1. Count(q) = (IF p.chunk # NoChunk THEN cl ELSE IF x >= at THEN x ELSE at) + 1
      <4>1. CASE p.chunk # NoChunk
        BY <2>1, <2>2, <4>1 DEF Count
      <4>2. CASE p.chunk = NoChunk
        <5>1. ~(x >= at + 1) /\ ~(x < 0) /\ (x >= at => x = at)
          BY <1>1, <1>8, <4>2
        <5>2. Count(q) = at + 1
          BY <2>1, <2>3, <2>4, <4>2, <5>1 DEF Count
        <5> QED BY <4>2, <5>1, <5>2
      <4> QED BY <4>1, <4>2
    <3>2. Told(p) => p.told + 1 = Offset(p) + ((IF p.chunk # NoChunk THEN cl ELSE IF x >= at THEN x ELSE at) + 1)
      BY <1>1, <1>3, SMTT(30)
    <3> QED BY <2>1, <2>4, <3>1, <3>2 DEF Told
  <2> QED BY <2>1, <2>4, <2>5, <2>7, <2>8, <2>9, <2>10 DEF RunOn, q, Calm
<1>9. CASE ~(at < cl) /\ ~(at < tl)
  <2> DEFINE ch == IF p.chunk_to = Direct THEN NoChunk ELSE p.chunk_to
  <2>1. /\ IsProxy(q) /\ SameEdits(p, q) /\ SameOptions(p, q) /\ q.chunk = ch /\ q.chunk_sep = 0
        /\ q.chunk_to = NoChunk /\ q.chunk_proxy_nb_rows = 0
        /\ q.chunk_sync_idle_id = FALSE /\ q.told = p.told
        /\ q.faults = IF p.chunk # NoChunk /\ p.chunk_to = Direct /\ p.new_rows # << >>
                      THEN p.faults \cup {"new rows not announced"} ELSE p.faults
    BY <1>5, <1>9 DEF IsProxy, Fields, SameEdits, SameOptions
  <2>2. ch \in Seq(Int) \cup {NoChunk}
    BY <1>1
  <2>3. NbRows(q) = nb /\ q.new_rows = p.new_rows /\ Offset(q) = Offset(p) /\ Settled(q)
    BY <2>1 DEF NbRows, SameEdits, SameOptions, Offset, Settled
  <2>4. ShowType(q)
    <3> HIDE DEF ch
    <3>1. 0 \in Int /\ FALSE \in BOOLEAN
      OBVIOUS
    <3>2. OptionsOK(q)
      BY <2>1, <3>1 DEF ShowType, OptionsOK, SameOptions
    <3> QED BY <2>1, <2>2, <3>1, <3>2 DEF ShowType
  <2>5. q.chunk # NoChunk => Mapped(q, q.chunk)
    BY <2>1, <2>3 DEF Under, Mapped
  <2>6. q.faults = {} => p.faults = {} /\ (p.chunk_to = Direct => p.new_rows = << >>)
    BY <1>1, <2>1
  <2>7. Left(q) = 0
    BY <2>3 DEF Left
  <2>8. ASSUME Told(p), q.faults = {} PROVE Told(q)
    <3>1. p.told = Offset(p) + tl
      <4>1. p.chunk # NoChunk => cl = tl
        BY <1>1, <1>9
      <4>2. p.chunk = NoChunk => (IF x >= at THEN x ELSE at) = tl
        BY <1>1, <1>9
      <4> QED BY <1>3, <2>8, <4>1, <4>2
    <3>2. Count(q) = tl
      <4>1. CASE p.chunk_to = Direct
        <5>1. Len(p.new_rows) = 0
          BY <2>6, <2>8, <4>1
        <5>2. Count(q) = nb + Len(p.new_rows)
          BY <2>1, <2>3, <4>1 DEF Count
        <5> QED BY <1>1, <4>1, <5>1, <5>2
      <4>2. CASE p.chunk_to # Direct
        BY <1>1, <2>1, <4>2 DEF Count
      <4> QED BY <4>1, <4>2
    <3> QED BY <2>1, <2>3, <3>1, <3>2 DEF Told
  <2>9. RunOn(p, q)
    <3>1. Calm(p) => Calm(q)
      <4>1. q.faults = p.faults \/ q.faults = p.faults \cup {"new rows not announced"}
        BY <2>1, Zenon
      <4>2. "crash" # "new rows not announced"
        OBVIOUS
      <4> HIDE DEF q
      <4>3. "crash" \in p.faults \cup {"new rows not announced"} => "crash" \in p.faults
        BY <4>2, Zenon
      <4> QED BY <4>1, <4>3, Zenon DEF Calm
    <3> QED BY <2>1, <2>4, <2>6, <3>1 DEF RunOn
  <2>10. Left(q) \in Int /\ Left(q) <= Left(p) - 1
    BY <1>1, <2>7
  <2> QED BY <2>1, <2>3, <2>5, <2>8, <2>9, <2>10 DEF q
<1> QED BY <1>6, <1>7, <1>8, <1>9

\* The number of turns.
LEMMA MostIs ==
    ASSUME NEW a \in Int, NEW b \in Int, NEW left, left = {a, b, 0}
    PROVE  LET most == CHOOSE n \in left : \A i \in left : i <= n
           IN  most \in Nat /\ most >= a /\ most >= b
<1>1. \E n \in left : \A i \in left : i <= n
  <2>1. CASE a >= b /\ a >= 0
    BY <2>1
  <2>2. CASE b >= a /\ b >= 0
    BY <2>2
  <2>3. CASE 0 >= a /\ 0 >= b
    BY <2>3
  <2> QED BY <2>1, <2>2, <2>3
<1> DEFINE most == CHOOSE n \in left : \A i \in left : i <= n
<1>2. most \in left /\ \A i \in left : i <= most
  BY <1>1
<1> HIDE DEF most
<1>3. most \in Nat /\ most >= a /\ most >= b
  BY <1>2
<1> QED BY <1>3 DEF most

\* ... is enough to do all the rows when they are not done in the background.
LEMMA TurnsAreEnough ==
    ASSUME NEW p, HasRows(p), ShowType(p), ~Settled(p), Under(p), Begun(p), NEW deferred \in BOOLEAN
    PROVE  /\ MaxSteps(p, deferred) \in Nat
           /\ ~deferred => MaxSteps(p, deferred) >= Left(p)
<1> DEFINE at == p.chunk_sep
           cl == LenCur(p)
           tl == LenTo(p)
           x == p.chunk_proxy_nb_rows
           left == {Len(c) - at + 1 : c \in {d \in {p.chunk, p.chunk_to} : HasMapping(d)}}
                     \cup (IF HasMapping(p.chunk) /\ HasMapping(p.chunk_to) THEN {}
                           ELSE {x - at + 1}) \cup {0}
           most == CHOOSE n \in left : \A i \in left : i <= n
<1>1. /\ at \in Nat /\ cl \in Nat /\ tl \in Nat /\ at <= tl /\ (p.chunk # NoChunk => at <= cl)
      /\ NbRows(p) \in Nat /\ x \in Int
      /\ p.chunk # NoChunk => HasMapping(p.chunk) /\ p.chunk \in Seq(Int) /\ p.chunk # Direct
      /\ p.chunk = NoChunk => ~HasMapping(p.chunk)
      /\ p.chunk_to # Direct => HasMapping(p.chunk_to)
      /\ p.chunk_to = Direct => ~HasMapping(p.chunk_to)
  <2>1. /\ p.chunk_sep \in Nat /\ LenCur(p) \in Nat /\ LenTo(p) \in Nat
        /\ p.chunk_sep <= LenTo(p) /\ (p.chunk # NoChunk => p.chunk_sep <= LenCur(p))
        /\ NbRows(p) \in Nat /\ p.chunk_proxy_nb_rows \in Int
        /\ p.chunk # NoChunk => p.chunk \in Seq(Int)
        /\ p.chunk_to # Direct => HasMapping(p.chunk_to)
    BY TurnIs
  <2> QED BY <2>1, ChunkIs
<1>2. Left(p) = (IF cl >= tl THEN cl ELSE tl) - at + 1
  BY DEF Left
<1>3. /\ p.chunk # NoChunk => cl = Len(p.chunk)
      /\ p.chunk = NoChunk => cl = x
      /\ p.chunk_to # Direct => tl = Len(p.chunk_to)
      /\ p.chunk_to = Direct => tl = NbRows(p) /\ p.chunk # NoChunk /\ (x >= tl \/ at >= tl)
  BY DEF LenCur, LenTo, Under, Begun
<1>4. MaxSteps(p, deferred) = IF deferred /\ IDLE_STEP < most THEN IDLE_STEP ELSE most
  BY DEF MaxSteps
<1>5. PICK a \in Int, b \in Int : left = {a, b, 0} /\ (a >= Left(p) \/ b >= Left(p))
  <2> HIDE DEF at, cl, tl, x
  <2>1. CASE p.chunk # NoChunk /\ p.chunk_to # Direct
    <3>1. left = {cl - at + 1, tl - at + 1, 0}
      BY <1>1, <1>3, <2>1
    <3>2. cl - at + 1 \in Int /\ tl - at + 1 \in Int
      BY <1>1
    <3>3. cl - at + 1 >= Left(p) \/ tl - at + 1 >= Left(p)
      BY <1>1, <1>2
    <3> QED BY <3>1, <3>2, <3>3
  <2>2. CASE p.chunk # NoChunk /\ p.chunk_to = Direct
    <3>1. left = {cl - at + 1, x - at + 1, 0}
      BY <1>1, <1>3, <2>2
    <3>2. cl - at + 1 \in Int /\ x - at + 1 \in Int
      BY <1>1
    <3>3. cl - at + 1 >= Left(p) \/ x - at + 1 >= Left(p)
      BY <1>1, <1>2, <1>3, <2>2
    <3> QED BY <3>1, <3>2, <3>3
  <2>3. CASE p.chunk = NoChunk
    <3>1. left = {tl - at + 1, x - at + 1, 0}
      BY <1>1, <1>3, <2>3
    <3>2. tl - at + 1 \in Int /\ x - at + 1 \in Int
      BY <1>1
    <3>3. tl - at + 1 >= Left(p) \/ x - at + 1 >= Left(p)
      BY <1>1, <1>2, <1>3, <2>3
    <3> QED BY <3>1, <3>2, <3>3
  <2> QED BY <2>1, <2>2, <2>3
<1>6. most \in Nat /\ most >= a /\ most >= b
  <2> HIDE DEF left
  <2> QED BY <1>5, MostIs
<1>7. Left(p) \in Nat
  BY TurnIs
<1> HIDE DEF most
<1> QED BY <1>4, <1>5, <1>6, <1>7, ProxyAssumption

\* What is kept along the turns.
LEMMA RunOnTwice ==
    ASSUME NEW p, NEW q, NEW r, RunOn(p, q), RunOn(q, r)
    PROVE  RunOn(p, r)
  BY DEF RunOn, SameEdits, SameOptions

\* The invariants of the changes depend on the fields of the changes alone.
LEMMA SameEditsIs ==
    ASSUME NEW p, NEW q, SameEdits(p, q), Edits(p)
    PROVE  Edits(q)
<1>1. /\ q.model = p.model /\ q.mods = p.mods /\ q.all_modifs = p.all_modifs
      /\ q.new_rows = p.new_rows /\ q.modify_rows = p.modify_rows
      /\ q.cached_modifs = p.cached_modifs /\ q.cached_inserts = p.cached_inserts
  BY DEF SameEdits
<1>2. Lists(q)
  BY <1>1 DEF Edits, Lists
<1>3. News(q) /\ Keyed(q) /\ OfTheirRow(q) /\ Marked(q) /\ q.model \in Seq(ModelRow)
  BY <1>1 DEF Edits, News, Keyed, OfTheirRow, Marked
<1> QED BY <1>2, <1>3 DEF Edits

\* Where the turns lead.
Ahead(p, q) ==
    /\ RunOn(p, q)
    /\ Settled(q) => ~q.chunk_sync_idle_id /\ (q.chunk # NoChunk => Mapped(q, q.chunk))
    /\ ~Settled(q) => q.chunk_sync_idle_id = p.chunk_sync_idle_id /\ Under(q) /\ Begun(q)
    /\ Told(p) /\ q.faults = {} => Told(q)

\* n turns of the synchronisation, and enough of them: each turn brings the end nearer.
LEMMA StepsAre ==
    ASSUME NEW p, IsProxy(p), HasRows(p), ShowType(p), ~Settled(p), Under(p), Begun(p), NEW n \in Nat
    PROVE  /\ Ahead(p, Steps(p, n))
           /\ n >= Left(p) => Settled(Steps(p, n))
<1>1. PICK g : g[0] = p /\ Steps(p, n) = g[n] /\ \A k \in 1 .. n : g[k] = SyncStep(g[k - 1])
  BY SyncSteps
<1> DEFINE Good(k) == /\ Ahead(p, g[k]) /\ Left(g[k]) \in Int
                      /\ Settled(g[k]) \/ Left(g[k]) <= Left(p) - k
           B == {k \in Nat : Good(k)}
<1>2. Left(p) \in Nat
  BY TurnIs
<1>3. 0 \in B
  <2>1. RunOn(p, p)
    BY DEF RunOn, SameEdits, SameOptions
  <2> QED BY <1>1, <1>2, <2>1 DEF Ahead
<1>4. ASSUME NEW k \in 0 .. n - 1, k \in B PROVE k + 1 \in B
  <2> DEFINE q == g[k]
             r == g[k + 1]
  <2>1. k \in Nat /\ k + 1 \in Nat /\ k + 1 \in 1 .. n /\ (k + 1) - 1 = k
    OBVIOUS
  <2>2. r = SyncStep(q)
    BY <1>1, <2>1
  <2>3. Ahead(p, q) /\ Left(q) \in Int /\ (Settled(q) \/ Left(q) <= Left(p) - k)
    BY <1>4
  <2> HIDE DEF q, r
  <2>4. CASE Settled(q)
    <3>1. r = q
      BY <2>2, <2>4 DEF SyncStep, Settled
    <3> QED BY <2>1, <2>3, <2>4, <3>1 DEF r
  <2>5. CASE ~Settled(q)
    <3>1. IsProxy(q) /\ HasRows(q) /\ ShowType(q) /\ Under(q) /\ Begun(q) /\ RunOn(p, q)
      BY <2>3, <2>5 DEF Ahead, RunOn, SameEdits, HasRows
    <3>2. /\ RunOn(q, r)
          /\ Settled(r) => ~r.chunk_sync_idle_id /\ (r.chunk # NoChunk => Mapped(r, r.chunk))
          /\ ~Settled(r) => r.chunk_sync_idle_id = q.chunk_sync_idle_id /\ Under(r) /\ Begun(r)
          /\ Left(r) \in Int /\ Left(r) <= Left(q) - 1
          /\ Told(q) /\ r.faults = {} => Told(r)
      BY <2>2, <2>5, <3>1, SyncStepIs
    <3>3. RunOn(p, r)
      BY <3>1, <3>2, RunOnTwice
    <3>4. Told(p) /\ r.faults = {} => Told(r)
      BY <2>3, <3>2 DEF Ahead, RunOn
    <3>5. Ahead(p, r)
      BY <2>3, <2>5, <3>2, <3>3, <3>4 DEF Ahead
    <3>6. Left(r) <= Left(p) - (k + 1)
      BY <1>2, <2>1, <2>3, <2>5, <3>2
    <3> QED BY <2>1, <3>2, <3>5, <3>6 DEF r
  <2> QED BY <2>4, <2>5
<1>5. n \in B
  <2>1. \A k \in 0 .. n - 1 : k \in B => k + 1 \in B
    BY <1>4
  <2> HIDE DEF B
  <2>2. \A k \in 0 .. n : k \in B
    BY <1>3, <2>1, Upwards
  <2> QED BY <2>2
<1>6. ASSUME n >= Left(p) PROVE Settled(g[n])
  <2> SUFFICES ASSUME ~Settled(g[n])
               PROVE  FALSE
    OBVIOUS
  <2>1. Ahead(p, g[n]) /\ Left(g[n]) \in Int /\ Left(g[n]) <= Left(p) - n
    BY <1>5
  <2>2. Left(g[n]) \in Nat \ {0}
    <3>1. HasRows(g[n]) /\ ShowType(g[n]) /\ Under(g[n]) /\ Begun(g[n])
      BY <2>1 DEF Ahead, RunOn, SameEdits, HasRows
    <3> QED BY <3>1, TurnIs
  <2> QED BY <1>2, <1>6, <2>1, <2>2
<1> QED BY <1>1, <1>5, <1>6

\* chunk_sync_idle()
LEMMA SyncIs ==
    ASSUME NEW p, IsProxy(p), HasRows(p), ShowType(p), ~Settled(p), Under(p), Begun(p) \/ Fresh(p),
           NEW deferred \in BOOLEAN
    PROVE  LET q == Sync(p, deferred)
           IN  /\ RunOn(p, q)
               /\ Settled(q) => ~q.chunk_sync_idle_id /\ (q.chunk # NoChunk => Mapped(q, q.chunk))
               /\ ~Settled(q) => /\ deferred /\ q.chunk_sync_idle_id = p.chunk_sync_idle_id
                                 /\ Under(q) /\ Begun(q)
               /\ Told(p) /\ q.faults = {} => Told(q)
<1> DEFINE n == NbRows(p) + Len(p.new_rows)
           x == p.chunk_proxy_nb_rows
           r == [p EXCEPT !.chunk_sync_idle_id = @ /\ deferred,
                          !.chunk_proxy_nb_rows = IF @ < 0 THEN n ELSE @]
           q == Sync(p, deferred)
<1>1. q = Steps(r, MaxSteps(r, deferred))
  BY DEF Sync, Settled
<1>2. /\ NbRows(p) \in Nat /\ Len(p.new_rows) \in Nat /\ n \in Nat /\ x \in Int /\ p.chunk_sep \in Int
      /\ p.chunk_sync_idle_id \in BOOLEAN
  BY NRowsIs DEF HasRows, ShowType, OptionsOK
<1> HIDE DEF n
<1>3. /\ IsProxy(r) /\ SameEdits(p, r) /\ SameOptions(p, r) /\ r.chunk = p.chunk
      /\ r.chunk_to = p.chunk_to /\ r.chunk_sep = p.chunk_sep /\ r.told = p.told /\ r.faults = p.faults
      /\ r.chunk_proxy_nb_rows = (IF x < 0 THEN n ELSE x)
      /\ r.chunk_sync_idle_id = (p.chunk_sync_idle_id /\ deferred)
  BY DEF IsProxy, Fields, SameEdits, SameOptions
<1> HIDE DEF r, q, x
<1>4. NbRows(r) = NbRows(p) /\ r.new_rows = p.new_rows /\ Offset(r) = Offset(p) /\ ~Settled(r)
  BY <1>3 DEF NbRows, SameEdits, SameOptions, Offset, Settled
<1>5. ShowType(r)
  <2>1. r.chunk_proxy_nb_rows \in Int /\ r.chunk_sync_idle_id \in BOOLEAN
    BY <1>2, <1>3
  <2>2. OptionsOK(r)
    BY <1>3, <2>1 DEF ShowType, OptionsOK, SameOptions
  <2> QED BY <1>3, <2>1, <2>2 DEF ShowType
<1>6. HasRows(r)
  BY <1>3 DEF SameEdits, HasRows
<1>7. Under(r)
  BY <1>3, <1>4 DEF Under, Mapped
<1>8. Begun(r)
  <2>1. p.chunk = NoChunk => r.chunk_proxy_nb_rows >= 0
    BY <1>2, <1>3
  <2>2. p.chunk_to = Direct => r.chunk_proxy_nb_rows >= NbRows(p) \/ p.chunk_sep >= NbRows(p)
    <3>1. n >= NbRows(p)
      BY <1>2 DEF n
    <3>2. ~(x < 0) => Begun(p)
      BY DEF Fresh, x
    <3> QED BY <1>2, <1>3, <3>1, <3>2 DEF Begun, x
  <2> QED BY <1>3, <1>4, <2>1, <2>2 DEF Begun
<1>9. Told(p) => Told(r)
  <2>1. Count(r) = Count(p)
    <3>1. CASE p.chunk # NoChunk
      BY <1>3, <3>1 DEF Count
    <3>2. CASE p.chunk = NoChunk /\ x < 0
      <4>1. p.chunk_sep = 0
        <5>1. ~Begun(p)
          BY <1>2, <3>2 DEF Begun, x
        <5> QED BY <3>2, <5>1 DEF Fresh
      <4>2. Count(p) = n
        BY <3>2 DEF Count, n, x
      <4>3. r.chunk_proxy_nb_rows = n /\ r.chunk_sep = 0 /\ ~(n < 0) /\ n >= 0
        BY <1>2, <1>3, <3>2, <4>1
      <4>4. Count(r) = n
        BY <1>3, <1>4, <3>2, <4>3 DEF Count
      <4> QED BY <4>2, <4>4
    <3>3. CASE p.chunk = NoChunk /\ ~(x < 0)
      <4>1. r.chunk_proxy_nb_rows = x /\ x = p.chunk_proxy_nb_rows
        BY <1>3, <3>3 DEF x
      <4> QED BY <1>3, <1>4, <3>3, <4>1 DEF Count
    <3> QED BY <3>1, <3>2, <3>3
  <2> QED BY <1>3, <1>4, <2>1 DEF Told
<1> DEFINE m == MaxSteps(r, deferred)
<1>10. m \in Nat /\ (~deferred => m >= Left(r))
  BY <1>4, <1>5, <1>6, <1>7, <1>8, TurnsAreEnough
<1> HIDE DEF m
<1>11. Ahead(r, q) /\ (m >= Left(r) => Settled(q))
  BY <1>1, <1>3, <1>4, <1>5, <1>6, <1>7, <1>8, <1>10, StepsAre DEF m
<1>12. RunOn(p, q)
  <2>1. RunOn(p, r)
    BY <1>3, <1>5 DEF RunOn, Calm
  <2> QED BY <1>11, <2>1, RunOnTwice DEF Ahead
<1>13. ~Settled(q) => deferred
  BY <1>10, <1>11
<1>14. ~Settled(q) => q.chunk_sync_idle_id = p.chunk_sync_idle_id
  BY <1>2, <1>3, <1>11, <1>13 DEF Ahead
<1> QED BY <1>9, <1>11, <1>12, <1>13, <1>14 DEF Ahead, q

\* ensure_chunk_sync(), or one call in the background, and the latter keeps what is
\* sound.
LEMMA SyncSound ==
    ASSUME NEW p, Sound(p), NEW deferred \in BOOLEAN
    PROVE  LET q == Sync(p, deferred)
           IN  /\ Sound(q) /\ SameEdits(p, q) /\ SameOptions(p, q) /\ (q.faults = {} => p.faults = {})
               /\ ~deferred => Settled(q)
               /\ Settled(p) => q = p
<1> DEFINE q == Sync(p, deferred)
<1>1. IsProxy(p) /\ Edits(p) /\ ShowType(p) /\ Shape(p)
  BY DEF Sound
<1>2. CASE Settled(p)
  <2>1. ~p.chunk_sync_idle_id /\ p.chunk_sync_idle_id \in BOOLEAN
    BY <1>1, <1>2 DEF Shape, ShowType, OptionsOK
  <2>2. q = [p EXCEPT !.chunk_sync_idle_id = @ /\ deferred]
    BY <1>2 DEF Sync, Settled
  <2>3. (p.chunk_sync_idle_id /\ deferred) = p.chunk_sync_idle_id
    BY <2>1
  <2>4. q = p
    <3> HIDE DEF q
    <3>1. q = [p EXCEPT !.chunk_sync_idle_id = p.chunk_sync_idle_id]
      BY <2>2, <2>3
    <3> QED BY <1>1, <3>1 DEF IsProxy
  <2> QED BY <1>2, <2>4 DEF SameEdits, SameOptions
<1>3. CASE ~Settled(p)
  <2>1. p.chunk_sync_idle_id /\ Under(p) /\ (Begun(p) \/ Fresh(p)) /\ p.sample_first_row >= -1
    BY <1>1, <1>3 DEF Shape
  <2>2. /\ RunOn(p, q)
        /\ Settled(q) => ~q.chunk_sync_idle_id /\ (q.chunk # NoChunk => Mapped(q, q.chunk))
        /\ ~Settled(q) => /\ deferred /\ q.chunk_sync_idle_id = p.chunk_sync_idle_id
                          /\ Under(q) /\ Begun(q)
        /\ Told(p) /\ q.faults = {} => Told(q)
    BY <1>1, <1>3, <2>1, SyncIs, EditsHasRows
  <2> HIDE DEF q
  <2>3. Edits(q) /\ q.sample_first_row >= -1
    BY <1>1, <2>1, <2>2, SameEditsIs DEF RunOn, SameOptions
  <2>4. Shape(q)
    BY <2>1, <2>2, <2>3 DEF Shape
  <2>5. q.faults = {} => Told(q)
    BY <2>2 DEF Sound, RunOn
  <2> QED BY <1>3, <2>2, <2>3, <2>4, <2>5 DEF Sound, RunOn, q
<1> QED BY <1>2, <1>3

\* ensure_chunk_sync(): what is under way is finished, and nothing else is done.
LEMMA EnsureSyncIs ==
    ASSUME NEW p, Sound(p)
    PROVE  LET q == EnsureSync(p)
           IN  /\ Sound(q) /\ Settled(q) /\ SameEdits(p, q) /\ SameOptions(p, q)
               /\ q.faults = {} => p.faults = {}
               /\ Settled(p) => q = p
<1>1. CASE p.chunk_sync_idle_id
  BY <1>1, SyncSound DEF EnsureSync
<1>2. CASE ~p.chunk_sync_idle_id
  <2>1. EnsureSync(p) = p
    BY <1>2 DEF EnsureSync
  <2>2. Settled(p)
    BY <1>2 DEF Sound, Shape
  <2> QED BY <2>1, <2>2 DEF SameEdits, SameOptions
<1> QED BY <1>1, <1>2

-----------------------------------------------------------------------------
(* The sample.                                                             *)

\* A multiple of a size that is not above a number.
LEMMA MultipleIs ==
    ASSUME NEW s \in Nat \ {0}, NEW n \in Nat
    PROVE  s * (n \div s) \in Nat /\ s * (n \div s) <= n
<1>1. n \div s \in Nat
  OBVIOUS
<1>2. s * (n \div s) <= n
  OBVIOUS
<1> QED BY <1>1, <1>2

\* Where the sample starts.
LEMMA SampleFirstIs ==
    ASSUME NEW p, p.model \in Seq(ModelRow), OptionsOK(p), p.sample_first_row >= -1
    PROVE  /\ SampleFirst(p) \in Int /\ SampleFirst(p) >= -1
           /\ p.sample_size # 0 => SampleFirst(p) < NbRows(p) \/ (NbRows(p) = 0 /\ SampleFirst(p) <= 0)
<1> DEFINE s == p.sample_size
           nb == NbRows(p)
           f == p.sample_first_row
<1>1. s \in Nat /\ nb \in Nat /\ f \in Int /\ f >= -1
  BY DEF OptionsOK, NbRows
<1>2. SampleFirst(p) = IF s = 0 THEN 0 ELSE IF f >= nb THEN s * Quotient(nb - 1, s) ELSE f
  BY DEF SampleFirst
<1> HIDE DEF s, nb, f
<1>3. CASE s = 0
  BY <1>2, <1>3 DEF s
<1>4. CASE s # 0 /\ ~(f >= nb)
  BY <1>1, <1>2, <1>4 DEF s, nb
<1>5. CASE s # 0 /\ f >= nb /\ nb = 0
  <2>1. Quotient(nb - 1, s) = -(1 \div s)
    BY <1>1, <1>5 DEF Quotient
  <2>2. 1 \div s \in Nat /\ s * (1 \div s) <= 1 /\ s * (1 \div s) \in Nat
    BY <1>1, <1>5, MultipleIs
  <2> DEFINE d == 1 \div s
  <2>3. s * (-d) = -(s * d)
    BY <1>1, <2>2
  <2>4. SampleFirst(p) = -(s * d)
    BY <1>2, <1>5, <2>1, <2>3
  <2>5. SampleFirst(p) \in Int /\ SampleFirst(p) >= -1 /\ SampleFirst(p) <= 0
    <3> DEFINE e == s * d
    <3>1. e \in Nat /\ e <= 1 /\ SampleFirst(p) = -e
      BY <2>2, <2>4
    <3> HIDE DEF e
    <3> QED BY <3>1
  <2> QED BY <1>5, <2>5 DEF nb
<1>6. CASE s # 0 /\ f >= nb /\ nb # 0
  <2>1. ~(nb - 1 < 0) /\ nb - 1 \in Nat
    BY <1>1, <1>6
  <2>2. SampleFirst(p) = s * ((nb - 1) \div s)
    BY <1>2, <1>6, <2>1 DEF Quotient
  <2>3. s * ((nb - 1) \div s) \in Nat /\ s * ((nb - 1) \div s) <= nb - 1
    BY <1>1, <1>6, <2>1, MultipleIs
  <2> DEFINE e == s * ((nb - 1) \div s)
  <2>4. e \in Nat /\ e <= nb - 1 /\ SampleFirst(p) = e
    BY <2>2, <2>3
  <2> HIDE DEF e
  <2>5. SampleFirst(p) \in Int /\ SampleFirst(p) >= -1 /\ SampleFirst(p) < nb
    BY <1>1, <2>4
  <2> QED BY <2>5 DEF nb
<1> QED BY <1>3, <1>4, <1>5, <1>6

\* compute_display_chunk()
LEMMA DisplayMaps ==
    ASSUME NEW p, Edits(p), ShowType(p), p.sample_first_row >= -1
    PROVE  LET to == DisplayChunk(p)
           IN  \/ to = Direct
               \/ to \in Seq(Int) /\ Mapped(p, to)
<1> DEFINE s == p.sample_size
           nb == NbRows(p)
           nw == Len(p.new_rows)
           first == SampleFirst(p)
           last == IF first + s >= nb THEN nb - 1 ELSE first + s - 1
           n == last - first + 1
           a == [k \in 1 .. n |-> first + k - 1]
           b == [k \in DOMAIN p.new_rows |-> nb + k - 1]
<1>1. /\ s \in Nat /\ nb \in Nat /\ nw \in Nat /\ first \in Int /\ first >= -1
      /\ s # 0 => first < nb \/ (nb = 0 /\ first <= 0)
  <2>1. p.model \in Seq(ModelRow) /\ OptionsOK(p)
    BY DEF Edits, ShowType
  <2>2. NbRows(p) \in Nat /\ Len(p.new_rows) \in Nat
    BY NRowsIs DEF Edits, Lists
  <2> QED BY <2>1, <2>2, SampleFirstIs DEF OptionsOK
<1>2. DOMAIN p.new_rows = 1 .. nw
  BY DEF Edits, Lists
<1>3. SUFFICES ASSUME s # 0
               PROVE  a \o b \in Seq(Int) /\ Mapped(p, a \o b)
  BY DEF DisplayChunk
<1> HIDE DEF s, nb, nw, first
<1>4. last \in Int /\ n \in Nat /\ first + n - 1 = last /\ last <= nb - 1
  BY <1>1, <1>3
<1> HIDE DEF last, n
<1>5. a \in Seq(Int) /\ Len(a) = n /\ \A k \in 1 .. n : a[k] = first + k - 1
  <2>1. \A k \in 1 .. n : first + k - 1 \in Int
    BY <1>1, <1>4
  <2> QED BY <1>4, <2>1, IsASeq
<1>6. b \in Seq(Int) /\ Len(b) = nw /\ \A k \in 1 .. nw : b[k] = nb + k - 1
  <2>1. b = [k \in 1 .. nw |-> nb + k - 1]
    BY <1>2
  <2>2. \A k \in 1 .. nw : nb + k - 1 \in Int
    BY <1>1
  <2> HIDE DEF b
  <2> QED BY <1>1, <2>1, <2>2, IsASeq
<1> HIDE DEF a, b
<1>7. /\ a \o b \in Seq(Int) /\ Len(a \o b) = n + nw
      /\ \A k \in 1 .. n : (a \o b)[k] = a[k]
      /\ \A k \in 1 .. nw : (a \o b)[n + k] = b[k]
  <2>0. a \in Seq(Int) /\ b \in Seq(Int)
    BY <1>5, <1>6
  <2>1. /\ a \o b \in Seq(Int) /\ Len(a \o b) = Len(a) + Len(b)
        /\ \A i \in 1 .. Len(a) : (a \o b)[i] = a[i]
        /\ \A i \in 1 .. Len(b) : (a \o b)[Len(a) + i] = b[i]
    BY <2>0, JoinedIs
  <2> QED BY <1>5, <1>6, <2>1
<1> DEFINE c == a \o b
<1> HIDE DEF c
<1>8. Maps(c, n, nb, nw)
  <2>1. \A k \in 1 .. n : c[k] = first + k - 1
    BY <1>5, <1>7 DEF c
  <2>2. \A k \in 1 .. n : c[k] >= -1 /\ c[k] < nb
    BY <1>1, <1>4, <2>1
  <2>3. \A j, k \in 1 .. n : c[j] = c[k] => j = k
    BY <1>1, <1>4, <2>1
  <2>4. \A k \in 1 .. nw : c[n + k] = nb + k - 1
    BY <1>6, <1>7 DEF c
  <2>5. Len(c) = n + nw
    BY <1>7 DEF c
  <2> QED BY <2>2, <2>3, <2>4, <2>5 DEF Maps
<1> QED BY <1>4, <1>7, <1>8 DEF Mapped, c, nb, nw

\* The state of a proxy when what is shown is to be computed again.
Applied(p) == /\ IsProxy(p) /\ Edits(p) /\ ShowType(p) /\ Settled(p) /\ ~p.chunk_sync_idle_id
              /\ p.sample_first_row >= -1 /\ (p.faults = {} => Told(p)) /\ Calm(p)

\* A sound proxy with nothing under way can have its mapping computed anew.
LEMMA SoundIsApplied ==
    ASSUME NEW p, Sound(p), Settled(p)
    PROVE  Applied(p)
  BY DEF Sound, Applied, Shape

\* adjust_displayed_chunk()
LEMMA AdjustIs ==
    ASSUME NEW p, Applied(p)
    PROVE  /\ Sound(Adjust(p)) /\ SameEdits(p, Adjust(p))
           /\ Adjust(p).faults = {} => p.faults = {}
<1> DEFINE to == DisplayChunk(p)
           first == SampleFirst(p)
           q == [p EXCEPT !.sample_first_row = first, !.chunk_sync_idle_id = FALSE, !.chunk_to = to]
           r == [q EXCEPT !.chunk_to = NoChunk]
           changed == [q EXCEPT !.chunk_sep = 0, !.chunk_proxy_nb_rows = -1]
           d == [changed EXCEPT !.chunk_sync_idle_id = TRUE]
<1>1. IsProxy(p) /\ Edits(p) /\ ShowType(p) /\ Settled(p) /\ p.sample_first_row >= -1
  BY DEF Applied
<1>2. to = Direct \/ (to \in Seq(Int) /\ Mapped(p, to))
  BY <1>1, DisplayMaps
<1>3. first \in Int /\ first >= -1
  BY <1>1, SampleFirstIs DEF Edits, ShowType
<1>4. to # NoChunk /\ (to # Direct => to \in Seq(Int) /\ HasMapping(to))
  BY <1>2, ChunkIs
<1>5. Adjust(p) = IF p.chunk = to \/ (p.chunk = NoChunk /\ to = Direct) THEN r
                  ELSE IF p.defer_sync THEN d ELSE Sync(changed, FALSE)
  BY DEF Adjust
<1> HIDE DEF to, first
<1>6. /\ NbRows(p) \in Nat /\ Len(p.new_rows) \in Nat /\ p.chunk \in Seq(Int) \cup {NoChunk}
      /\ p.told \in Int /\ p.chunk_sep \in Int /\ p.chunk_proxy_nb_rows \in Int /\ OptionsOK(p)
  BY <1>1, NRowsIs DEF Edits, Lists, ShowType
<1> DEFINE Stays(u) == /\ IsProxy(u) /\ SameEdits(p, u) /\ u.chunk = p.chunk /\ u.told = p.told
                      /\ u.faults = p.faults /\ u.cache_changes = p.cache_changes
                      /\ u.add_null_entry = p.add_null_entry /\ u.defer_sync = p.defer_sync
                      /\ u.sample_size = p.sample_size /\ u.sample_first_row = first
<1>7. /\ Stays(r) /\ r.chunk_to = NoChunk /\ r.chunk_sep = p.chunk_sep
      /\ r.chunk_proxy_nb_rows = p.chunk_proxy_nb_rows /\ r.chunk_sync_idle_id = FALSE
  BY <1>1 DEF IsProxy, Fields, SameEdits
<1>8. /\ Stays(changed) /\ changed.chunk_to = to /\ changed.chunk_sep = 0
      /\ changed.chunk_proxy_nb_rows = -1 /\ changed.chunk_sync_idle_id = FALSE
  BY <1>1 DEF IsProxy, Fields, SameEdits
<1>9. /\ Stays(d) /\ d.chunk_to = to /\ d.chunk_sep = 0
      /\ d.chunk_proxy_nb_rows = -1 /\ d.chunk_sync_idle_id = TRUE
  BY <1>1 DEF IsProxy, Fields, SameEdits
<1>10. ASSUME NEW u, Stays(u)
       PROVE  /\ NbRows(u) = NbRows(p) /\ u.new_rows = p.new_rows /\ Offset(u) = Offset(p) /\ Edits(u)
              /\ \A c : Mapped(u, c) <=> Mapped(p, c)
  <2>1. NbRows(u) = NbRows(p) /\ u.new_rows = p.new_rows /\ Offset(u) = Offset(p)
    BY <1>10 DEF NbRows, SameEdits, Offset
  <2>2. Edits(u)
    BY <1>1, <1>10, SameEditsIs
  <2> QED BY <2>1, <2>2 DEF Mapped
<1>11. ASSUME NEW u, Stays(u), u.chunk_to \in Seq(Int) \cup {NoChunk, Direct},
              u.chunk_sep \in Int, u.chunk_proxy_nb_rows \in Int, u.chunk_sync_idle_id \in BOOLEAN
       PROVE  ShowType(u)
  <2>1. OptionsOK(u)
    BY <1>3, <1>6, <1>11 DEF OptionsOK
  <2> QED BY <1>6, <1>11, <2>1 DEF ShowType
<1>12. Told(p) => p.told = Offset(p) + (IF p.chunk # NoChunk THEN Len(p.chunk)
                                        ELSE NbRows(p) + Len(p.new_rows))
  BY <1>1 DEF Told, Count
<1> HIDE DEF r, changed, d, q, Stays
<1>13. CASE p.chunk = to \/ (p.chunk = NoChunk /\ to = Direct)
  <2>1. Adjust(p) = r
    BY <1>5, <1>13
  <2>2. /\ NbRows(r) = NbRows(p) /\ r.new_rows = p.new_rows /\ Offset(r) = Offset(p) /\ Edits(r)
        /\ \A c : Mapped(r, c) <=> Mapped(p, c)
    BY <1>7, <1>10
  <2>3. ShowType(r)
    BY <1>6, <1>7, <1>11
  <2>4. r.chunk = p.chunk /\ Settled(r) /\ r.told = p.told /\ r.faults = p.faults /\ IsProxy(r)
        /\ SameEdits(p, r) /\ r.sample_first_row = first
    BY <1>7 DEF Stays, Settled
  <2>5. r.chunk # NoChunk => Mapped(r, r.chunk)
    <3>1. p.chunk # NoChunk => p.chunk # Direct
      BY <1>6, ChunkIs
    <3> QED BY <1>2, <1>13, <2>2, <2>4, <3>1
  <2>6. Shape(r)
    BY <1>3, <1>7, <2>4, <2>5 DEF Shape
  <2>7. Told(p) => Told(r)
    BY <1>12, <2>2, <2>4 DEF Told, Count
  <2> QED BY <2>1, <2>2, <2>3, <2>4, <2>6, <2>7 DEF Sound, Applied, Calm
<1>14. ASSUME NEW u, Stays(u), ~(p.chunk = to \/ (p.chunk = NoChunk /\ to = Direct)), u.chunk_to = to,
              u.chunk_sep = 0, u.chunk_proxy_nb_rows = -1, u.chunk_sync_idle_id \in BOOLEAN
       PROVE  /\ IsProxy(u) /\ Edits(u) /\ ShowType(u) /\ ~Settled(u) /\ Under(u) /\ Fresh(u)
              /\ Told(p) => Told(u)
  <2>1. /\ NbRows(u) = NbRows(p) /\ u.new_rows = p.new_rows /\ Offset(u) = Offset(p) /\ Edits(u)
        /\ \A c : Mapped(u, c) <=> Mapped(p, c)
    BY <1>14, <1>10
  <2>2. 0 \in Int /\ -1 \in Int /\ -1 < 0 /\ 0 >= 0
    OBVIOUS
  <2>3. ShowType(u)
    BY <1>2, <1>11, <1>14, <2>2
  <2>4. u.chunk = p.chunk /\ ~Settled(u) /\ u.told = p.told /\ IsProxy(u)
    BY <1>4, <1>14 DEF Stays, Settled
  <2>5. Under(u)
    <3>1. p.chunk # NoChunk => 0 <= Len(p.chunk)
      BY <1>6
    <3>2. to # Direct => 0 <= Len(to)
      BY <1>4
    <3>3. 0 <= NbRows(p)
      BY <1>6
    <3> QED BY <1>2, <1>14, <2>1, <2>2, <2>4, <3>1, <3>2, <3>3 DEF Under
  <2>6. Fresh(u)
    BY <1>14, <2>2 DEF Fresh
  <2>7. Told(p) => Told(u)
    <3>1. Count(u) = IF p.chunk # NoChunk THEN Len(p.chunk) ELSE NbRows(p) + Len(p.new_rows)
      BY <1>14, <2>1, <2>2, <2>4 DEF Count
    <3> QED BY <1>12, <2>1, <2>4, <3>1 DEF Told
  <2> QED BY <2>1, <2>3, <2>4, <2>5, <2>6, <2>7
<1>15. CASE ~(p.chunk = to \/ (p.chunk = NoChunk /\ to = Direct)) /\ p.defer_sync
  <2>1. Adjust(p) = d
    BY <1>5, <1>15
  <2>2. /\ IsProxy(d) /\ Edits(d) /\ ShowType(d) /\ ~Settled(d) /\ Under(d) /\ Fresh(d)
        /\ Told(p) => Told(d)
    BY <1>9, <1>14, <1>15
  <2>3. Shape(d)
    BY <1>3, <1>9, <2>2 DEF Shape, Stays
  <2>4. d.faults = p.faults /\ SameEdits(p, d)
    BY <1>9 DEF Stays
  <2> QED BY <2>1, <2>2, <2>3, <2>4 DEF Sound, Applied, Calm
<1>16. CASE ~(p.chunk = to \/ (p.chunk = NoChunk /\ to = Direct)) /\ ~p.defer_sync
  <2> DEFINE u == Sync(changed, FALSE)
  <2>1. Adjust(p) = u
    BY <1>5, <1>16
  <2>2. /\ IsProxy(changed) /\ Edits(changed) /\ ShowType(changed) /\ ~Settled(changed)
        /\ Under(changed) /\ Fresh(changed)
        /\ Told(p) => Told(changed)
    BY <1>8, <1>14, <1>16
  <2>3. FALSE \in BOOLEAN
    OBVIOUS
  <2>4. /\ RunOn(changed, u)
        /\ Settled(u) => ~u.chunk_sync_idle_id /\ (u.chunk # NoChunk => Mapped(u, u.chunk))
        /\ Settled(u)
        /\ Told(changed) /\ u.faults = {} => Told(u)
    BY <2>2, <2>3, SyncIs, EditsHasRows
  <2> HIDE DEF u
  <2>5. Edits(u) /\ u.sample_first_row = first /\ SameEdits(p, u) /\ (u.faults = {} => p.faults = {})
    BY <1>8, <2>2, <2>4, SameEditsIs DEF Stays, RunOn, SameOptions, SameEdits
  <2>6. Shape(u)
    BY <1>3, <2>4, <2>5 DEF Shape
  <2>7. u.faults = {} => Told(u)
    BY <2>2, <2>4, <2>5 DEF Applied
  <2>8. Calm(u)
    <3>1. Calm(changed)
      BY <1>8 DEF Stays, Calm, Applied
    <3> QED BY <2>4, <3>1 DEF RunOn
  <2> QED BY <2>1, <2>4, <2>5, <2>6, <2>7, <2>8 DEF Sound, RunOn
<1> QED BY <1>13, <1>15, <1>16

-----------------------------------------------------------------------------
(* The rows of the proxied model change.                                   *)

\* What is shown does not depend on the changes, but for the number of new rows.
LEMMA ShownSame ==
    ASSUME NEW p, NEW q, SameShow(p, q), NbRows(q) = NbRows(p), q.new_rows = p.new_rows
    PROVE  /\ ShowType(p) => ShowType(q)
           /\ Shape(p) => Shape(q)
           /\ Told(p) => Told(q)
           /\ Settled(q) <=> Settled(p)
<1>1. /\ q.chunk = p.chunk /\ q.chunk_to = p.chunk_to /\ q.chunk_sep = p.chunk_sep
      /\ q.chunk_proxy_nb_rows = p.chunk_proxy_nb_rows
      /\ q.chunk_sync_idle_id = p.chunk_sync_idle_id /\ q.told = p.told
      /\ SameOptions(p, q)
  BY DEF SameShow
<1>2. ShowType(p) => ShowType(q)
  BY <1>1 DEF ShowType, OptionsOK, SameOptions
<1>3. Settled(q) <=> Settled(p)
  BY <1>1 DEF Settled
<1>4. \A c : Mapped(q, c) <=> Mapped(p, c)
  BY DEF Mapped
<1>5. Shape(p) => Shape(q)
  BY <1>1, <1>3, <1>4 DEF Shape, Under, Begun, Fresh, SameOptions
<1>6. Told(p) => Told(q)
  BY <1>1, <1>3 DEF Told, Count, Offset, SameOptions
<1> QED BY <1>2, <1>3, <1>5, <1>6

\* The RowModifs but one are about the row they were made for.
OthersOfTheirRow(p, m) ==
    \A n \in ToSet(p.all_modifs) \ {m} :
       /\ p.mods[n].model_row \in -1 .. Len(p.model) - 1
       /\ p.mods[n].model_row >= 0 =>
            /\ p.model[p.mods[n].model_row + 1].id = p.mods[n].id
            /\ p.model[p.mods[n].model_row + 1].val = p.mods[n].orig
            /\ \A l \in ToSet(p.all_modifs) \ {m} : p.mods[l].model_row = p.mods[n].model_row => l = n

\* The changes when one of them may be about a row that is no longer there.
EditsBut(p, m) == /\ p.model \in Seq(ModelRow) /\ Lists(p) /\ News(p) /\ Keyed(p) /\ Marked(p)
                  /\ OthersOfTheirRow(p, m)

\* It is dropped, if it was not before.
LEMMA EditsLeft ==
    ASSUME NEW p, IsProxy(p), NEW m, EditsBut(p, m)
    PROVE  /\ m \notin ToSet(p.all_modifs) => Edits(p)
           /\ m \in ToSet(p.all_modifs) =>
                LET q == DropModif(p, m, p.mods[m].model_row)
                IN  /\ IsProxy(q) /\ Edits(q) /\ SameShow(p, q) /\ q.model = p.model
                    /\ p.mods[m].model_row # -1 => q.new_rows = p.new_rows
                    /\ p.mods[m].model_row = -1 => Len(q.new_rows) = Len(p.new_rows) - 1
<1>1. ASSUME m \notin ToSet(p.all_modifs) PROVE Edits(p)
  <2>1. ToSet(p.all_modifs) \ {m} = ToSet(p.all_modifs)
    BY <1>1
  <2> QED BY <2>1 DEF EditsBut, Edits, OthersOfTheirRow, OfTheirRow
<1>2. ASSUME m \in ToSet(p.all_modifs)
      PROVE  LET q == DropModif(p, m, p.mods[m].model_row)
             IN  /\ IsProxy(q) /\ Edits(q) /\ SameShow(p, q) /\ q.model = p.model
                 /\ p.mods[m].model_row # -1 => q.new_rows = p.new_rows
                 /\ p.mods[m].model_row = -1 => Len(q.new_rows) = Len(p.new_rows) - 1
  <2> DEFINE q == DropModif(p, m, p.mods[m].model_row)
  <2>1. /\ IsProxy(q) /\ SameShow(p, q) /\ q.model = p.model
        /\ Lists(q) /\ News(q) /\ Keyed(q)
        /\ ToSet(q.all_modifs) = ToSet(p.all_modifs) \ {m}
        /\ \A n \in DOMAIN q.mods : n \in DOMAIN p.mods /\ q.mods[n] = p.mods[n]
        /\ Len(q.new_rows) = IF p.mods[m].model_row = -1 THEN Len(p.new_rows) - 1
                             ELSE Len(p.new_rows)
        /\ p.mods[m].model_row # -1 => q.new_rows = p.new_rows
    BY <1>2, DropKeeps DEF EditsBut
  <2> HIDE DEF q
  <2>2. \A n \in ToSet(q.all_modifs) : q.mods[n] = p.mods[n] /\ n \in ToSet(p.all_modifs) \ {m}
    BY <2>1 DEF Lists
  <2>3. OfTheirRow(q)
    BY <2>1, <2>2 DEF EditsBut, OthersOfTheirRow, OfTheirRow
  <2>4. Marked(q)
    BY <2>1 DEF EditsBut, Marked
  <2>5. Edits(q)
    BY <2>1, <2>3, <2>4 DEF EditsBut, Edits
  <2> QED BY <2>1, <2>5 DEF q
<1> QED BY <1>1, <1>2

\* The row of a RowModif that modify_rows leads to.
LEMMA DropKeyed ==
    ASSUME NEW p, IsProxy(p), Lists(p), News(p), Keyed(p), Marked(p), NEW row \in Nat
    PROVE  LET q == IF row \in DOMAIN p.modify_rows THEN DropModif(p, p.modify_rows[row], row) ELSE p
           IN  /\ IsProxy(q) /\ SameShow(p, q) /\ q.model = p.model /\ q.new_rows = p.new_rows
               /\ Lists(q) /\ News(q) /\ Keyed(q) /\ Marked(q)
               /\ \A n \in ToSet(q.all_modifs) : /\ n \in ToSet(p.all_modifs) /\ q.mods[n] = p.mods[n]
                                                 /\ p.mods[n].model_row = row => ~KeyOf(p, n)
<1> DEFINE m == p.modify_rows[row]
           q == IF row \in DOMAIN p.modify_rows THEN DropModif(p, p.modify_rows[row], row) ELSE p
<1>1. CASE row \in DOMAIN p.modify_rows
  <2>1. m \in ToSet(p.all_modifs) /\ p.mods[m].model_row = row /\ row # -1
    BY <1>1 DEF Keyed
  <2> DEFINE d == DropModif(p, m, p.mods[m].model_row)
  <2>2. q = d
    BY <1>1, <2>1
  <2> HIDE DEF m, q
  <2>6. /\ IsProxy(d) /\ SameShow(p, d) /\ d.model = p.model
        /\ Lists(d) /\ News(d) /\ Keyed(d)
        /\ ToSet(d.all_modifs) = ToSet(p.all_modifs) \ {m}
        /\ \A n \in DOMAIN d.mods : n \in DOMAIN p.mods /\ d.mods[n] = p.mods[n]
        /\ p.mods[m].model_row # -1 => d.new_rows = p.new_rows
    BY <2>1, DropKeeps, SMTT(30)
  <2> HIDE DEF d
  <2>3. /\ IsProxy(q) /\ SameShow(p, q) /\ q.model = p.model
        /\ Lists(q) /\ News(q) /\ Keyed(q)
        /\ ToSet(q.all_modifs) = ToSet(p.all_modifs) \ {m}
        /\ \A n \in DOMAIN q.mods : n \in DOMAIN p.mods /\ q.mods[n] = p.mods[n]
        /\ q.new_rows = p.new_rows
    BY <2>1, <2>2, <2>6
  <2>4. Marked(q)
    BY <2>3 DEF Marked
  <2>5. ASSUME NEW n \in ToSet(q.all_modifs)
        PROVE  /\ n \in ToSet(p.all_modifs) /\ q.mods[n] = p.mods[n]
               /\ p.mods[n].model_row = row => ~KeyOf(p, n)
    <3>1. n \in ToSet(p.all_modifs) /\ n # m /\ n \in DOMAIN q.mods
      BY <2>3 DEF Lists
    <3> QED BY <2>3, <3>1 DEF KeyOf, m
  <2> QED BY <2>1, <2>3, <2>4, <2>5 DEF q
<1>2. CASE row \notin DOMAIN p.modify_rows
  <2>1. q = p
    BY <1>2
  <2>2. SameShow(p, p)
    BY DEF SameShow, SameOptions
  <2> HIDE DEF q
  <2> QED BY <1>2, <2>1, <2>2 DEF KeyOf, q
<1> QED BY <1>1, <1>2

\* proxied_model_row_updated_cb()
LEMMA UpdatedIs ==
    ASSUME NEW p, IsProxy(p), Edits(p), NEW row \in 0 .. Len(p.model) - 1, NEW val \in Row, NEW m,
           \A n \in ToSet(p.all_modifs) : p.mods[n].model_row = row => n = m \/ KeyOf(p, n)
    PROVE  LET q == RowUpdated(p, row, val)
           IN  /\ IsProxy(q) /\ SameShow(p, q) /\ Len(q.model) = Len(p.model) /\ q.new_rows = p.new_rows
               /\ EditsBut(q, m)
               /\ \A n \in ToSet(q.all_modifs) : n \in ToSet(p.all_modifs) /\ q.mods[n] = p.mods[n]
<1> DEFINE u == [p EXCEPT !.model[row + 1].val = val]
           q == RowUpdated(p, row, val)
<1>1. /\ p.model \in Seq(ModelRow) /\ Len(p.model) \in Nat /\ row \in Nat /\ row + 1 \in 1 .. Len(p.model)
      /\ Lists(p) /\ News(p) /\ Keyed(p) /\ Marked(p) /\ OfTheirRow(p)
  BY DEF Edits
<1>2. /\ IsProxy(u) /\ SameShow(p, u) /\ u.mods = p.mods /\ u.all_modifs = p.all_modifs
      /\ u.new_rows = p.new_rows /\ u.modify_rows = p.modify_rows
      /\ u.cached_modifs = p.cached_modifs /\ u.cached_inserts = p.cached_inserts
      /\ u.model = [p.model EXCEPT ![row + 1].val = val]
  BY DEF IsProxy, Fields, SameShow, SameOptions
<1>3. q = IF row \in DOMAIN u.modify_rows THEN DropModif(u, u.modify_rows[row], row) ELSE u
  <2> HIDE DEF u
  <2>1. q = IF row \in DOMAIN p.modify_rows THEN DropModif(u, p.modify_rows[row], row) ELSE u
    BY DEF RowUpdated, u
  <2> QED BY <1>2, <2>1
<1> HIDE DEF u, q
<1>4. /\ u.model \in Seq(ModelRow) /\ Len(u.model) = Len(p.model)
      /\ \A k \in 1 .. Len(p.model) : k # row + 1 => u.model[k] = p.model[k]
  <2>1. p.model[row + 1] \in ModelRow
    BY <1>1, ElementOfSeq
  <2>2. [p.model[row + 1] EXCEPT !.val = val] \in ModelRow
    BY <2>1 DEF ModelRow
  <2>3. u.model = [p.model EXCEPT ![row + 1] = [p.model[row + 1] EXCEPT !.val = val]]
    BY <1>2
  <2> DEFINE e == [p.model[row + 1] EXCEPT !.val = val]
  <2> HIDE DEF e
  <2> QED BY <1>1, <2>2, <2>3 DEF e
<1>5. Lists(u) /\ News(u) /\ Keyed(u) /\ Marked(u)
  BY <1>1, <1>2 DEF Lists, News, Keyed, Marked
<1>6. /\ IsProxy(q) /\ SameShow(u, q) /\ q.model = u.model /\ q.new_rows = u.new_rows
      /\ Lists(q) /\ News(q) /\ Keyed(q) /\ Marked(q)
      /\ \A n \in ToSet(q.all_modifs) : /\ n \in ToSet(u.all_modifs) /\ q.mods[n] = u.mods[n]
                                        /\ u.mods[n].model_row = row => ~KeyOf(u, n)
  BY <1>1, <1>2, <1>3, <1>5, DropKeyed
<1>7. \A n \in ToSet(q.all_modifs) : /\ n \in ToSet(p.all_modifs) /\ q.mods[n] = p.mods[n]
                                     /\ p.mods[n].model_row = row => n = m
  BY <1>2, <1>6 DEF KeyOf
<1>8. OthersOfTheirRow(q, m)
  <2>1. ASSUME NEW n \in ToSet(q.all_modifs) \ {m}
        PROVE  /\ q.mods[n].model_row \in -1 .. Len(q.model) - 1
               /\ q.mods[n].model_row >= 0 =>
                    /\ q.model[q.mods[n].model_row + 1].id = q.mods[n].id
                    /\ q.model[q.mods[n].model_row + 1].val = q.mods[n].orig
                    /\ \A l \in ToSet(q.all_modifs) \ {m} :
                          q.mods[l].model_row = q.mods[n].model_row => l = n
    <3>1. n \in ToSet(p.all_modifs) /\ q.mods[n] = p.mods[n] /\ p.mods[n].model_row # row
      BY <1>7
    <3>2. p.mods[n].model_row \in -1 .. Len(p.model) - 1
      BY <1>1, <3>1 DEF OfTheirRow
    <3>3. ASSUME p.mods[n].model_row >= 0
          PROVE  q.model[p.mods[n].model_row + 1] = p.model[p.mods[n].model_row + 1]
      <4>1. p.mods[n].model_row + 1 \in 1 .. Len(p.model) /\ p.mods[n].model_row + 1 # row + 1
        BY <1>1, <3>1, <3>2, <3>3
      <4> QED BY <1>4, <1>6, <4>1
    <3>4. p.mods[n].model_row >= 0 =>
             /\ p.model[p.mods[n].model_row + 1].id = p.mods[n].id
             /\ p.model[p.mods[n].model_row + 1].val = p.mods[n].orig
             /\ \A l \in ToSet(p.all_modifs) : p.mods[l].model_row = p.mods[n].model_row => l = n
      BY <1>1, <3>1 DEF OfTheirRow
    <3>5. Len(q.model) = Len(p.model)
      BY <1>4, <1>6
    <3>6. \A l \in ToSet(q.all_modifs) \ {m} : l \in ToSet(p.all_modifs) /\ q.mods[l] = p.mods[l]
      BY <1>7
    <3> QED BY <3>1, <3>2, <3>3, <3>4, <3>5, <3>6
  <2> QED BY <2>1 DEF OthersOfTheirRow
<1>9. SameShow(p, q)
  BY <1>2, <1>6 DEF SameShow, SameOptions
<1> QED BY <1>2, <1>4, <1>6, <1>7, <1>8, <1>9 DEF EditsBut, q

\* The rows of a mapping without the row that goes.
LEMMA MapsMissing ==
    ASSUME NEW c \in Seq(Int), NEW n \in Nat, NEW nb \in Nat, NEW nw \in Nat, Maps(c, n, nb, nw),
           NEW row \in 0 .. nb - 1, row \notin ToSet(c)
    PROVE  LET d == [k \in DOMAIN c |-> IF c[k] > row THEN c[k] - 1 ELSE c[k]]
           IN  Maps(d, n, nb - 1, nw)
<1> DEFINE d == [k \in DOMAIN c |-> IF c[k] > row THEN c[k] - 1 ELSE c[k]]
           L == n + nw
<1>1. /\ DOMAIN c = 1 .. L /\ L \in Nat
      /\ \A k \in 1 .. L : /\ c[k] \in Int /\ c[k] >= -1 /\ c[k] < nb + nw
                           /\ c[k] >= nb <=> k > n
                           /\ k > n => c[k] = nb + (k - n) - 1
  BY MapsIs
<1>2. \A k \in 1 .. L : c[k] # row
  BY <1>1 DEF ToSet
<1>3. \A j, k \in 1 .. n : c[j] = c[k] => j = k
  BY DEF Maps
<1>4. d = [k \in 1 .. L |-> IF c[k] > row THEN c[k] - 1 ELSE c[k]]
  BY <1>1
<1> HIDE DEF d
<1>5. /\ d \in Seq(Int) /\ Len(d) = L
      /\ \A k \in 1 .. L : d[k] = IF c[k] > row THEN c[k] - 1 ELSE c[k]
  <2>1. \A k \in 1 .. L : (IF c[k] > row THEN c[k] - 1 ELSE c[k]) \in Int
    BY <1>1
  <2> HIDE DEF L
  <2> QED BY <1>1, <1>4, <2>1, IsASeq
<1>6. ASSUME NEW k \in 1 .. n PROVE d[k] >= -1 /\ d[k] < nb - 1
  <2>1. k \in 1 .. L /\ c[k] < nb
    BY <1>1
  <2>2. c[k] \in Int /\ c[k] >= -1 /\ c[k] # row /\ d[k] = IF c[k] > row THEN c[k] - 1 ELSE c[k]
    BY <1>1, <1>2, <1>5, <2>1
  <2> QED BY <2>1, <2>2
<1>7. ASSUME NEW j \in 1 .. n, NEW k \in 1 .. n, d[j] = d[k] PROVE j = k
  <2>1. j \in 1 .. L /\ k \in 1 .. L
    OBVIOUS
  <2>2. /\ c[k] \in Int /\ c[k] # row /\ d[k] = IF c[k] > row THEN c[k] - 1 ELSE c[k]
        /\ c[j] \in Int /\ c[j] # row /\ d[j] = IF c[j] > row THEN c[j] - 1 ELSE c[j]
    BY <1>1, <1>2, <1>5, <2>1
  <2>3. c[j] = c[k]
    BY <1>7, <2>2
  <2> QED BY <1>3, <2>3
<1>8. ASSUME NEW k \in 1 .. nw PROVE d[n + k] = (nb - 1) + k - 1
  <2>1. n + k \in 1 .. L /\ n + k > n /\ (n + k) - n = k
    OBVIOUS
  <2>2. c[n + k] = nb + k - 1 /\ d[n + k] = IF c[n + k] > row THEN c[n + k] - 1 ELSE c[n + k]
    BY <1>1, <1>5, <2>1
  <2> QED BY <2>2
<1>9. Maps(d, n, nb - 1, nw)
  BY <1>5, <1>6, <1>7, <1>8 DEF Maps
<1> QED BY <1>9 DEF d

\* A chunk without a row of the proxied model.
LEMMA UncoverIs ==
    ASSUME NEW c \in Seq(Int), NEW row \in Int
    PROVE  /\ Uncover(c, row) \in Seq(Int)
           /\ Len(Uncover(c, row)) = IF Contains(c, row) THEN Len(c) - 1 ELSE Len(c)
           /\ \A n, nb, nw \in Nat : Maps(c, n, nb, nw) /\ row \in 0 .. nb - 1 =>
                 \E l \in Nat : Maps(Uncover(c, row), l, nb - 1, nw)
<1> DEFINE moved == [k \in DOMAIN c |-> IF c[k] > row THEN c[k] - 1 ELSE c[k]]
           L == Len(c)
           i == Position(c, row)
           d == Uncover(c, row)
<1>1. d = IF Contains(c, row) THEN RemoveAt(moved, i) ELSE moved
  BY ChunkIs DEF Uncover
<1>2. L \in Nat /\ DOMAIN c = 1 .. L /\ \A k \in 1 .. L : c[k] \in Int
  <2>1. L \in Nat /\ DOMAIN c = 1 .. L
    OBVIOUS
  <2>2. \A k \in 1 .. L : c[k] \in Int
    BY RowsAre
  <2> QED BY <2>1, <2>2
<1>3. /\ Contains(c, row) <=> row \in ToSet(c)
      /\ row \in ToSet(c) => i \in DOMAIN c /\ c[i] = row
  BY PositionIs
<1> HIDE DEF i, d
<1>4. moved \in Seq(Int) /\ Len(moved) = L
  <2>1. moved = [k \in 1 .. L |-> IF c[k] > row THEN c[k] - 1 ELSE c[k]]
    BY <1>2
  <2>2. \A k \in 1 .. L : (IF c[k] > row THEN c[k] - 1 ELSE c[k]) \in Int
    BY <1>2
  <2> HIDE DEF moved, L
  <2> QED BY <1>2, <2>1, <2>2, IsASeq
<1>5. d \in Seq(Int) /\ Len(d) = IF Contains(c, row) THEN L - 1 ELSE L
  <2> HIDE DEF moved
  <2>1. CASE Contains(c, row)
    <3>1. i \in 1 .. Len(moved)
      BY <1>2, <1>3, <1>4, <2>1
    <3>2. RemoveAt(moved, i) \in Seq(Int) /\ Len(RemoveAt(moved, i)) = Len(moved) - 1
      BY <1>4, <3>1, RemoveAtIs
    <3> QED BY <1>1, <1>4, <2>1, <3>2
  <2>2. CASE ~Contains(c, row)
    BY <1>1, <1>4, <2>2
  <2> QED BY <2>1, <2>2
<1>6. ASSUME NEW n \in Nat, NEW nb \in Nat, NEW nw \in Nat, Maps(c, n, nb, nw), row \in 0 .. nb - 1
      PROVE  \E l \in Nat : Maps(d, l, nb - 1, nw)
  <2>1. CASE Contains(c, row)
    <3>1. i \in 1 .. n + nw /\ c[i] = row
      BY <1>3, <1>6, <2>1, MapsIs
    <3> DEFINE e == RemoveAt([k \in DOMAIN c |-> IF c[k] > c[i] THEN c[k] - 1 ELSE c[k]], i)
    <3>2. c[i] >= 0 /\ c[i] < nb => Maps(e, n - 1, nb - 1, nw) /\ n - 1 \in Nat
      BY <1>6, <3>1, MapsRemove
    <3>3. e = d
      BY <1>1, <2>1, <3>1
    <3> HIDE DEF e
    <3>4. row >= 0 /\ row < nb
      BY <1>6
    <3> QED BY <3>1, <3>2, <3>3, <3>4
  <2>2. CASE ~Contains(c, row)
    <3>1. row \notin ToSet(c)
      BY <1>3, <2>2
    <3>2. Maps(moved, n, nb - 1, nw)
      BY <1>6, <3>1, MapsMissing
    <3> QED BY <1>1, <2>2, <3>2
  <2> QED BY <2>1, <2>2
<1> QED BY <1>5, <1>6 DEF d

\* What proxied_model_row_removed_cb() does to what is shown.
LEMMA RemovedShow ==
    ASSUME NEW p, IsProxy(p), Edits(p), ShowType(p), NEW row \in 0 .. Len(p.model) - 1
    PROVE  LET at == AbsoluteToProxy(p, row)
               q == [p EXCEPT !.chunk = Uncover(@, row), !.chunk_to = Uncover(@, row),
                              !.chunk_sep = IF ~Settled(p) /\ at >= 0 /\ @ >= at - Offset(p)
                                            THEN @ - 1 ELSE @,
                              !.chunk_proxy_nb_rows = IF Settled(p) THEN @ ELSE @ - 1,
                              !.told = IF at >= 0 THEN @ - 1 ELSE @]
           IN  /\ IsProxy(q) /\ SameEdits(p, q) /\ SameOptions(p, q) /\ ShowType(q)
               /\ q.faults = p.faults /\ q.chunk_sync_idle_id = p.chunk_sync_idle_id
               /\ q.chunk = NoChunk <=> p.chunk = NoChunk
               /\ Settled(q) <=> Settled(p)
               /\ p.chunk # NoChunk => \A n, nb, nw \in Nat :
                     Maps(p.chunk, n, nb, nw) /\ row \in 0 .. nb - 1 =>
                        \E l \in Nat : Maps(q.chunk, l, nb - 1, nw)
               /\ Settled(p) /\ Told(p) =>
                    q.told = Offset(q) + (IF q.chunk # NoChunk THEN Len(q.chunk)
                                          ELSE NbRows(p) + Len(p.new_rows) - 1)
<1> DEFINE at == AbsoluteToProxy(p, row)
           sep == IF ~Settled(p) /\ at >= 0 /\ p.chunk_sep >= at - Offset(p)
                  THEN p.chunk_sep - 1 ELSE p.chunk_sep
           x == IF Settled(p) THEN p.chunk_proxy_nb_rows ELSE p.chunk_proxy_nb_rows - 1
           told == IF at >= 0 THEN p.told - 1 ELSE p.told
           ch == Uncover(p.chunk, row)
           to == Uncover(p.chunk_to, row)
           q == [p EXCEPT !.chunk = Uncover(@, row), !.chunk_to = Uncover(@, row),
                          !.chunk_sep = IF ~Settled(p) /\ at >= 0 /\ @ >= at - Offset(p)
                                        THEN @ - 1 ELSE @,
                          !.chunk_proxy_nb_rows = IF Settled(p) THEN @ ELSE @ - 1,
                          !.told = IF at >= 0 THEN @ - 1 ELSE @]
<1>1. /\ NbRows(p) \in Nat /\ Len(p.new_rows) \in Nat /\ Offset(p) \in {0, 1}
      /\ p.chunk \in Seq(Int) \cup {NoChunk} /\ p.chunk_to \in Seq(Int) \cup {NoChunk, Direct}
      /\ p.chunk_sep \in Int /\ p.chunk_proxy_nb_rows \in Int /\ p.told \in Int /\ OptionsOK(p)
      /\ row \in Int /\ row >= 0 /\ row < NbRows(p)
  <2>1. NbRows(p) \in Nat /\ Len(p.new_rows) \in Nat /\ Offset(p) \in {0, 1}
    BY NRowsIs DEF Edits, Lists
  <2>2. row \in Int /\ row >= 0 /\ row < NbRows(p)
    BY <2>1 DEF NbRows
  <2> QED BY <2>1, <2>2 DEF ShowType
<1>2. q = [p EXCEPT !.chunk = ch, !.chunk_to = to, !.chunk_sep = sep,
                    !.chunk_proxy_nb_rows = x, !.told = told]
  OBVIOUS
<1> HIDE DEF q
<1>3. /\ IsProxy(q) /\ SameEdits(p, q) /\ SameOptions(p, q) /\ q.faults = p.faults
      /\ q.chunk_sync_idle_id = p.chunk_sync_idle_id /\ q.chunk = ch /\ q.chunk_to = to
      /\ q.chunk_sep = sep /\ q.chunk_proxy_nb_rows = x /\ q.told = told
  <2> HIDE DEF ch, to, sep, x, told
  <2> QED BY <1>2 DEF IsProxy, Fields, SameEdits, SameOptions
<1>4. /\ p.chunk # NoChunk => ch \in Seq(Int) /\ ch # NoChunk
      /\ p.chunk = NoChunk => ch = NoChunk
      /\ p.chunk_to \in Seq(Int) => to \in Seq(Int)
      /\ p.chunk_to \notin Seq(Int) => to = p.chunk_to
  BY <1>1, UncoverIs, ChunkIs DEF Uncover
<1>5. sep \in Int /\ x \in Int /\ told \in Int
  <2>1. p.chunk_sep - 1 \in Int /\ p.chunk_proxy_nb_rows - 1 \in Int /\ p.told - 1 \in Int
    BY <1>1
  <2> QED BY <1>1, <2>1
<1>6. p.chunk # NoChunk => \A n, nb, nw \in Nat :
         Maps(p.chunk, n, nb, nw) /\ row \in 0 .. nb - 1 => \E l \in Nat : Maps(ch, l, nb - 1, nw)
  BY <1>1, UncoverIs
<1>7. ASSUME Settled(p), Told(p)
      PROVE  told = Offset(p) + (IF p.chunk # NoChunk THEN Len(ch)
                                 ELSE NbRows(p) + Len(p.new_rows) - 1)
  <2>1. CASE p.chunk # NoChunk
    <3>1. p.chunk \in Seq(Int) /\ Len(p.chunk) \in Nat
      BY <1>1, <2>1
    <3>2. Len(ch) = IF Contains(p.chunk, row) THEN Len(p.chunk) - 1 ELSE Len(p.chunk)
      BY <1>1, <3>1, UncoverIs
    <3>3. Contains(p.chunk, row) => Position(p.chunk, row) \in Nat \ {0}
      <4>1. Contains(p.chunk, row) => Position(p.chunk, row) \in DOMAIN p.chunk
        BY <3>1, PositionIs
      <4> QED BY <3>1, <4>1
    <3>4. at = IF Contains(p.chunk, row) THEN Position(p.chunk, row) - 1 + Offset(p) ELSE -1
      BY <1>1, <2>1 DEF AbsoluteToProxy
    <3> HIDE DEF at, ch
    <3>5. at >= 0 <=> Contains(p.chunk, row)
      BY <1>1, <3>3, <3>4
    <3>6. p.told = Offset(p) + Len(p.chunk)
      BY <1>7, <2>1 DEF Told, Count
    <3> QED BY <1>1, <2>1, <3>1, <3>2, <3>5, <3>6
  <2>2. CASE p.chunk = NoChunk
    <3>1. NRows(p) = Offset(p) + (NbRows(p) + Len(p.new_rows))
      BY <1>7, <2>2, ChunkIs DEF NRows, Settled
    <3>2. at = row + Offset(p)
      BY <1>1, <2>2, <3>1 DEF AbsoluteToProxy
    <3>3. p.told = Offset(p) + (NbRows(p) + Len(p.new_rows))
      BY <1>7, <2>2 DEF Told, Count
    <3> HIDE DEF at
    <3> QED BY <1>1, <2>2, <3>2, <3>3
  <2> QED BY <2>1, <2>2
<1> HIDE DEF ch, to, sep, x, told
<1>8. ShowType(q)
  <2>1. OptionsOK(q)
    BY <1>1, <1>3 DEF OptionsOK, SameOptions
  <2>2. q.chunk \in Seq(Int) \cup {NoChunk} /\ q.chunk_to \in Seq(Int) \cup {NoChunk, Direct}
    BY <1>1, <1>3, <1>4
  <2> QED BY <1>3, <1>5, <2>1, <2>2 DEF ShowType
<1>9. Settled(q) <=> Settled(p)
  BY <1>1, <1>3, <1>4, ChunkIs DEF Settled
<1>10. Offset(q) = Offset(p)
  BY <1>3 DEF Offset, SameOptions
<1>11. q.chunk = NoChunk <=> p.chunk = NoChunk
  BY <1>3, <1>4
<1> QED BY <1>3, <1>6, <1>7, <1>8, <1>9, <1>10, <1>11 DEF q, at

\* proxied_model_row_removed_cb()
LEMMA RemovedIs ==
    ASSUME NEW p, IsProxy(p), Edits(p), ShowType(p), NEW row \in 0 .. Len(p.model) - 1, NEW m,
           \A n \in ToSet(p.all_modifs) : p.mods[n].model_row = row => n = m \/ KeyOf(p, n)
    PROVE  LET q == RowRemoved(p, row)
           IN  /\ IsProxy(q) /\ ShowType(q) /\ SameOptions(p, q) /\ q.faults = p.faults
               /\ EditsBut(q, m) /\ q.new_rows = p.new_rows /\ Len(q.model) = Len(p.model) - 1
               /\ q.chunk_sync_idle_id = p.chunk_sync_idle_id
               /\ q.chunk = NoChunk <=> p.chunk = NoChunk
               /\ Settled(q) <=> Settled(p)
               /\ p.chunk # NoChunk => \A n, nb, nw \in Nat :
                     Maps(p.chunk, n, nb, nw) /\ row \in 0 .. nb - 1 =>
                        \E l \in Nat : Maps(q.chunk, l, nb - 1, nw)
               /\ Settled(p) /\ Told(p) => Told(q)
               /\ \A n \in ToSet(q.all_modifs) :
                     /\ n \in ToSet(p.all_modifs)
                     /\ p.mods[n].model_row = row => q.mods[n].model_row = row
<1> DEFINE at == AbsoluteToProxy(p, row)
           s == [p EXCEPT !.chunk = Uncover(@, row), !.chunk_to = Uncover(@, row),
                          !.chunk_sep = IF ~Settled(p) /\ at >= 0 /\ @ >= at - Offset(p)
                                        THEN @ - 1 ELSE @,
                          !.chunk_proxy_nb_rows = IF Settled(p) THEN @ ELSE @ - 1,
                          !.told = IF at >= 0 THEN @ - 1 ELSE @]
           r == IF row \in DOMAIN s.modify_rows THEN DropModif(s, s.modify_rows[row], row) ELSE s
           u == Rekey(r, row, -1)
           q == RowRemoved(p, row)
           L == Len(p.model)
<1>1. /\ p.model \in Seq(ModelRow) /\ L \in Nat /\ row \in Nat /\ row + 1 \in 1 .. L
      /\ Lists(p) /\ News(p) /\ Keyed(p) /\ Marked(p) /\ OfTheirRow(p)
  BY DEF Edits
<1>2. q = [u EXCEPT !.model = RemoveAt(@, row + 1)]
  BY DEF RowRemoved
<1>3. /\ IsProxy(s) /\ SameEdits(p, s) /\ SameOptions(p, s) /\ ShowType(s)
      /\ s.faults = p.faults /\ s.chunk_sync_idle_id = p.chunk_sync_idle_id
      /\ s.chunk = NoChunk <=> p.chunk = NoChunk
      /\ Settled(s) <=> Settled(p)
      /\ p.chunk # NoChunk => \A n, nb, nw \in Nat :
            Maps(p.chunk, n, nb, nw) /\ row \in 0 .. nb - 1 =>
               \E l \in Nat : Maps(s.chunk, l, nb - 1, nw)
      /\ Settled(p) /\ Told(p) =>
           s.told = Offset(s) + (IF s.chunk # NoChunk THEN Len(s.chunk)
                                 ELSE NbRows(p) + Len(p.new_rows) - 1)
  BY RemovedShow
<1> HIDE DEF s
<1>4. Lists(s) /\ News(s) /\ Keyed(s) /\ Marked(s)
  <2>1. Edits(s)
    BY <1>3, SameEditsIs
  <2> QED BY <2>1 DEF Edits
<1>5. /\ IsProxy(r) /\ SameShow(s, r) /\ r.model = s.model /\ r.new_rows = s.new_rows
      /\ Lists(r) /\ News(r) /\ Keyed(r) /\ Marked(r)
      /\ \A n \in ToSet(r.all_modifs) : /\ n \in ToSet(s.all_modifs) /\ r.mods[n] = s.mods[n]
                                        /\ s.mods[n].model_row = row => ~KeyOf(s, n)
  BY <1>1, <1>3, <1>4, DropKeyed
<1> HIDE DEF r
<1>6. /\ Renumbered(u, r)
      /\ \A n \in DOMAIN r.mods :
            u.mods[n] = IF n \in ToSet(r.all_modifs) /\ r.mods[n].model_row > row
                        THEN [r.mods[n] EXCEPT !.model_row = @ + (-1)] ELSE r.mods[n]
  <2>1. -1 \in {1, -1}
    OBVIOUS
  <2> QED BY <1>1, <1>5, <2>1, RekeyIs
<1> HIDE DEF u, q
<1>7. /\ IsProxy(q) /\ SameShow(u, q) /\ q.model = RemoveAt(p.model, row + 1)
      /\ q.mods = u.mods /\ q.all_modifs = u.all_modifs /\ q.new_rows = u.new_rows
      /\ q.modify_rows = u.modify_rows /\ q.cached_modifs = u.cached_modifs
      /\ q.cached_inserts = u.cached_inserts
  <2>1. u.model = p.model /\ IsProxy(u)
    BY <1>3, <1>5, <1>6 DEF Renumbered, SameEdits
  <2> QED BY <1>2, <2>1 DEF IsProxy, Fields, SameShow, SameOptions
<1>8. /\ q.model \in Seq(ModelRow) /\ Len(q.model) = L - 1
      /\ \A k \in 1 .. L - 1 : q.model[k] = IF k < row + 1 THEN p.model[k] ELSE p.model[k + 1]
  BY <1>1, <1>7, RemoveAtIs, ZenonT(40)
<1>9. ASSUME NEW n \in DOMAIN r.mods
      PROVE  /\ r.mods[n] \in RowModif /\ q.mods[n] \in RowModif
             /\ q.mods[n].id = r.mods[n].id /\ q.mods[n].orig = r.mods[n].orig
             /\ q.mods[n].to_be_deleted = r.mods[n].to_be_deleted /\ q.mods[n].values = r.mods[n].values
             /\ q.mods[n].model_row = IF n \in ToSet(r.all_modifs) /\ r.mods[n].model_row > row
                                      THEN r.mods[n].model_row - 1 ELSE r.mods[n].model_row
  <2>1. r.mods[n] \in RowModif
    BY <1>5 DEF Lists
  <2> DEFINE e == r.mods[n]
  <2>2. e.model_row \in Int
    BY <2>1 DEF RowModif
  <2>3. q.mods[n] = IF n \in ToSet(r.all_modifs) /\ e.model_row > row
                    THEN [e EXCEPT !.model_row = @ + (-1)] ELSE e
    BY <1>6, <1>7
  <2>4. e \in RowModif
    BY <2>1
  <2> HIDE DEF e
  <2>5. e.model_row - 1 \in Int /\ e.model_row + (-1) = e.model_row - 1
    BY <2>2
  <2>6. q.mods[n] = IF n \in ToSet(r.all_modifs) /\ e.model_row > row
                    THEN [e EXCEPT !.model_row = e.model_row - 1] ELSE e
    BY <2>3, <2>5
  <2>7. q.mods[n] \in RowModif
    BY <2>4, <2>5, <2>6 DEF RowModif
  <2>8. /\ q.mods[n].id = e.id /\ q.mods[n].orig = e.orig
        /\ q.mods[n].to_be_deleted = e.to_be_deleted /\ q.mods[n].values = e.values
        /\ q.mods[n].model_row = IF n \in ToSet(r.all_modifs) /\ e.model_row > row
                                 THEN e.model_row - 1 ELSE e.model_row
    BY <2>4, <2>6 DEF RowModif
  <2> QED BY <2>1, <2>7, <2>8 DEF e
<1>10. ASSUME NEW n \in DOMAIN r.mods
       PROVE  /\ q.mods[n].model_row = -1 <=> r.mods[n].model_row = -1
              /\ r.mods[n].model_row = row => q.mods[n].model_row = row
  <2>1. r.mods[n].model_row \in Int
    BY <1>9 DEF RowModif
  <2>2. q.mods[n].model_row = IF n \in ToSet(r.all_modifs) /\ r.mods[n].model_row > row
                              THEN r.mods[n].model_row - 1 ELSE r.mods[n].model_row
    BY <1>9
  <2> QED BY <1>1, <2>1, <2>2
<1>11. Lists(q)
  <2>1. DOMAIN q.mods = DOMAIN r.mods /\ q.mods = [n \in DOMAIN q.mods |-> q.mods[n]]
    BY <1>6, <1>7 DEF Renumbered
  <2>2. /\ q.all_modifs = r.all_modifs /\ q.new_rows = r.new_rows
        /\ q.cached_modifs = r.cached_modifs /\ q.cached_inserts = r.cached_inserts
    BY <1>6, <1>7 DEF Renumbered
  <2>3. \A n \in DOMAIN q.mods : q.mods[n] \in RowModif
    BY <1>9, <2>1
  <2> QED BY <1>5, <2>1, <2>2, <2>3 DEF Lists
<1>12. /\ q.all_modifs = r.all_modifs /\ q.new_rows = r.new_rows /\ q.cached_inserts = r.cached_inserts
       /\ ToSet(r.all_modifs) \subseteq DOMAIN r.mods /\ ToSet(r.cached_inserts) \subseteq DOMAIN r.mods
       /\ DOMAIN q.mods = DOMAIN r.mods
  BY <1>5, <1>6, <1>7 DEF Lists, Renumbered
<1>13. News(q)
  BY <1>5, <1>10, <1>12 DEF News
<1>14. Keyed(q)
  BY <1>6, <1>7 DEF Renumbered, Keyed
<1>15. Marked(q)
  BY <1>5, <1>9, <1>10, <1>12 DEF Marked
<1>16. \A n \in ToSet(q.all_modifs) : /\ n \in ToSet(p.all_modifs) /\ n \in DOMAIN r.mods
                                      /\ r.mods[n] = p.mods[n] /\ n \in ToSet(r.all_modifs)
                                      /\ p.mods[n].model_row = row => n = m
  BY <1>3, <1>5, <1>12 DEF KeyOf, SameEdits
<1>17. ASSUME NEW n \in ToSet(q.all_modifs)
       PROVE  /\ p.mods[n].model_row \in -1 .. L - 1
              /\ q.mods[n].model_row = IF p.mods[n].model_row > row THEN p.mods[n].model_row - 1
                                       ELSE p.mods[n].model_row
              /\ q.mods[n].id = p.mods[n].id /\ q.mods[n].orig = p.mods[n].orig
              /\ p.mods[n].model_row >= 0 =>
                    /\ p.model[p.mods[n].model_row + 1].id = p.mods[n].id
                    /\ p.model[p.mods[n].model_row + 1].val = p.mods[n].orig
                    /\ \A l \in ToSet(p.all_modifs) :
                         p.mods[l].model_row = p.mods[n].model_row => l = n
  BY <1>1, <1>9, <1>16 DEF OfTheirRow
<1>18. OthersOfTheirRow(q, m)
  <2> SUFFICES ASSUME NEW n \in ToSet(q.all_modifs) \ {m}
               PROVE  /\ q.mods[n].model_row \in -1 .. Len(q.model) - 1
                      /\ q.mods[n].model_row >= 0 =>
                           /\ q.model[q.mods[n].model_row + 1].id = q.mods[n].id
                           /\ q.model[q.mods[n].model_row + 1].val = q.mods[n].orig
                           /\ \A l \in ToSet(q.all_modifs) \ {m} :
                                 q.mods[l].model_row = q.mods[n].model_row => l = n
    BY DEF OthersOfTheirRow
  <2> DEFINE o == p.mods[n].model_row
             w == q.mods[n].model_row
  <2>1. o \in -1 .. L - 1 /\ o # row /\ w = IF o > row THEN o - 1 ELSE o
    BY <1>16, <1>17
  <2>2. w \in -1 .. L - 2 /\ (w >= 0 => o >= 0)
    <3> HIDE DEF o, w, L
    <3> QED BY <1>1, <2>1
  <2>3. ASSUME w >= 0 PROVE q.model[w + 1] = p.model[o + 1]
    <3> HIDE DEF o, w, L
    <3>1. w + 1 \in 1 .. L - 1
      BY <1>1, <2>2, <2>3
    <3>2. q.model[w + 1] = IF w + 1 < row + 1 THEN p.model[w + 1] ELSE p.model[(w + 1) + 1]
      BY <1>8, <3>1
    <3>3. CASE o > row
      <4>1. w = o - 1 /\ ~(w + 1 < row + 1) /\ (w + 1) + 1 = o + 1
        BY <1>1, <2>1, <3>3
      <4> QED BY <3>2, <4>1
    <3>4. CASE ~(o > row)
      <4>1. w = o /\ w + 1 < row + 1
        BY <1>1, <2>1, <3>4
      <4> QED BY <3>2, <4>1
    <3> QED BY <3>3, <3>4
  <2>4. ASSUME w >= 0, NEW l \in ToSet(q.all_modifs) \ {m}, q.mods[l].model_row = w PROVE l = n
    <3> DEFINE oo == p.mods[l].model_row
    <3>1. oo \in -1 .. L - 1 /\ oo # row /\ w = IF oo > row THEN oo - 1 ELSE oo
      BY <1>16, <1>17, <2>4
    <3>2. oo = o
      <4> HIDE DEF o, w, L, oo
      <4> QED BY <1>1, <2>1, <3>1
    <3>3. l \in ToSet(p.all_modifs)
      BY <1>16
    <3> QED BY <1>17, <2>2, <2>4, <3>2, <3>3
  <2>5. q.mods[n].id = p.mods[n].id /\ q.mods[n].orig = p.mods[n].orig
    BY <1>17
  <2>6. w >= 0 => p.model[o + 1].id = p.mods[n].id /\ p.model[o + 1].val = p.mods[n].orig
    BY <1>17, <2>2
  <2>7. Len(q.model) - 1 = L - 2
    BY <1>1, <1>8
  <2> QED BY <2>2, <2>3, <2>4, <2>5, <2>6, <2>7
<1>19. EditsBut(q, m)
  BY <1>8, <1>11, <1>13, <1>14, <1>15, <1>18 DEF EditsBut
<1>20. /\ SameShow(s, q) /\ q.new_rows = p.new_rows
  BY <1>3, <1>5, <1>6, <1>7 DEF SameShow, SameOptions, Renumbered, SameEdits
<1>21. ShowType(q)
  BY <1>3, <1>20 DEF SameShow, SameOptions, ShowType, OptionsOK
<1>22. Settled(p) /\ Told(p) => Told(q)
  <2> SUFFICES ASSUME Settled(p), Told(p)
               PROVE  Told(q)
    OBVIOUS
  <2>1. NbRows(q) = NbRows(p) - 1 /\ NbRows(p) \in Nat /\ Len(p.new_rows) \in Nat
    BY <1>1, <1>8 DEF NbRows, Lists
  <2>2. Count(q) = IF q.chunk # NoChunk THEN Len(q.chunk) ELSE NbRows(p) - 1 + Len(p.new_rows)
    BY <1>3, <1>20, <2>1 DEF Count, SameShow, Settled
  <2>3. NbRows(p) - 1 + Len(p.new_rows) = NbRows(p) + Len(p.new_rows) - 1
    BY <2>1
  <2> QED BY <1>3, <1>20, <2>2, <2>3 DEF Told, Offset, SameShow, SameOptions
<1>23. SameOptions(p, q) /\ q.faults = p.faults /\ q.chunk_sync_idle_id = p.chunk_sync_idle_id
       /\ q.chunk = s.chunk /\ (Settled(q) <=> Settled(p))
  BY <1>3, <1>20 DEF SameShow, SameOptions, Settled
<1>24. \A n \in ToSet(q.all_modifs) : /\ n \in ToSet(p.all_modifs)
                                      /\ p.mods[n].model_row = row => q.mods[n].model_row = row
  BY <1>10, <1>16
<1> QED BY <1>3, <1>7, <1>8, <1>19, <1>20, <1>21, <1>22, <1>23, <1>24 DEF q

\* A chunk whose rows after one have other numbers.
LEMMA ShiftIs ==
    ASSUME NEW c \in Seq(Int), NEW row \in Int, NEW by \in Int
    PROVE  /\ Shift(c, row, by) \in Seq(Int) /\ Len(Shift(c, row, by)) = Len(c)
           /\ Shift(c, row, by) = [k \in DOMAIN c |-> IF c[k] >= row THEN c[k] + by ELSE c[k]]
<1> DEFINE L == Len(c)
           d == Shift(c, row, by)
<1>1. d = [k \in DOMAIN c |-> IF c[k] >= row THEN c[k] + by ELSE c[k]]
  BY ChunkIs DEF Shift
<1>2. L \in Nat /\ DOMAIN c = 1 .. L
  OBVIOUS
<1>3. \A k \in 1 .. L : c[k] \in Int
  BY <1>2, RowsAre
<1> HIDE DEF L, d
<1>4. d = [k \in 1 .. L |-> IF c[k] >= row THEN c[k] + by ELSE c[k]]
  BY <1>1, <1>2
<1>5. \A k \in 1 .. L : (IF c[k] >= row THEN c[k] + by ELSE c[k]) \in Int
  BY <1>3
<1>6. d \in Seq(Int) /\ Len(d) = L
  BY <1>2, <1>4, <1>5, IsASeq
<1> QED BY <1>1, <1>6 DEF d, L

\* proxied_model_row_inserted_cb()
LEMMA InsertedIs ==
    ASSUME NEW p, IsProxy(p), Edits(p), ShowType(p), NEW new \in ModelRow, NEW deferred \in BOOLEAN
    PROVE  LET q == RowInserted(p, new, deferred)
           IN  /\ IsProxy(q) /\ Edits(q) /\ ShowType(q) /\ SameOptions(p, q) /\ q.faults = p.faults
               /\ q.all_modifs = p.all_modifs /\ q.mods = p.mods /\ q.new_rows = p.new_rows
               /\ Len(q.model) = Len(p.model) + 1
               /\ q.chunk_sync_idle_id = p.chunk_sync_idle_id
               /\ Settled(q) <=> Settled(p)
               /\ (p.chunk # NoChunk => Mapped(p, p.chunk)) => (q.chunk # NoChunk => Mapped(q, q.chunk))
               /\ Settled(p) /\ Told(p) /\ ~deferred => Told(q)
               /\ Settled(p) /\ Told(p) /\ deferred =>
                    q.told = Offset(q) + (IF q.chunk # NoChunk THEN Len(q.chunk)
                                          ELSE NbRows(q) + Len(q.new_rows) - 1)
<1> DEFINE row == NbRows(p)
           L == Len(p.model)
           u == Rekey(p, row, 1)
           ch == Shift(p.chunk, row, 1)
           to == Shift(p.chunk_to, row, -1)
           told == IF deferred \/ p.chunk # NoChunk \/ p.chunk_to # NoChunk
                   THEN p.told ELSE p.told + 1
           q == RowInserted(p, new, deferred)
<1>1. /\ p.model \in Seq(ModelRow) /\ L \in Nat /\ row = L /\ row \in Nat /\ row \in Int
      /\ Lists(p) /\ News(p) /\ Keyed(p) /\ Marked(p) /\ OfTheirRow(p)
      /\ Len(p.new_rows) \in Nat /\ Offset(p) \in {0, 1}
      /\ p.chunk \in Seq(Int) \cup {NoChunk} /\ p.chunk_to \in Seq(Int) \cup {NoChunk, Direct}
      /\ p.told \in Int /\ OptionsOK(p) /\ p.chunk_sep \in Int /\ p.chunk_proxy_nb_rows \in Int
  <2>1. Len(p.new_rows) \in Nat /\ Offset(p) \in {0, 1} /\ NbRows(p) \in Nat
    BY NRowsIs DEF Edits, Lists
  <2> QED BY <2>1 DEF Edits, ShowType, NbRows
<1>2. /\ Renumbered(u, p)
      /\ \A m \in DOMAIN p.mods :
            u.mods[m] = IF m \in ToSet(p.all_modifs) /\ p.mods[m].model_row > row
                        THEN [p.mods[m] EXCEPT !.model_row = @ + 1] ELSE p.mods[m]
  <2>1. 1 \in {1, -1}
    OBVIOUS
  <2> QED BY <1>1, <2>1, RekeyIs
<1>3. u.mods = p.mods
  <2>1. ASSUME NEW m \in DOMAIN p.mods PROVE u.mods[m] = p.mods[m]
    <3>1. CASE m \in ToSet(p.all_modifs)
      <4>1. p.mods[m].model_row \in -1 .. L - 1
        BY <1>1, <3>1 DEF OfTheirRow
      <4>2. ~(p.mods[m].model_row > row)
        <5> HIDE DEF row, L
        <5> QED BY <1>1, <4>1
      <4> QED BY <1>2, <4>2
    <3>2. CASE m \notin ToSet(p.all_modifs)
      BY <1>2, <3>2
    <3> QED BY <3>1, <3>2
  <2>2. u.mods = [m \in DOMAIN p.mods |-> u.mods[m]] /\ p.mods = [m \in DOMAIN p.mods |-> p.mods[m]]
    BY <1>1, <1>2 DEF Renumbered, Lists
  <2> QED BY <2>1, <2>2
<1>4. q = [u EXCEPT !.model = Append(@, new), !.chunk = Shift(@, row, 1), !.chunk_to = Shift(@, row, -1),
                    !.told = IF deferred \/ p.chunk # NoChunk \/ p.chunk_to # NoChunk
                             THEN @ ELSE @ + 1]
  BY DEF RowInserted
<1> HIDE DEF u, q
<1>5. /\ u.model = p.model /\ u.all_modifs = p.all_modifs /\ u.new_rows = p.new_rows
      /\ u.cached_modifs = p.cached_modifs /\ u.cached_inserts = p.cached_inserts
      /\ IsProxy(u) /\ Keyed(u) /\ SameShow(p, u)
  BY <1>2 DEF Renumbered
<1>6. /\ u.chunk = p.chunk /\ u.chunk_to = p.chunk_to /\ u.told = p.told
  BY <1>5 DEF SameShow
<1>7. q = [u EXCEPT !.model = Append(p.model, new), !.chunk = ch, !.chunk_to = to, !.told = told]
  BY <1>4, <1>5, <1>6
<1> HIDE DEF ch, to, told, row
<1>8. /\ IsProxy(q) /\ q.model = Append(p.model, new) /\ q.chunk = ch /\ q.chunk_to = to /\ q.told = told
      /\ q.all_modifs = p.all_modifs /\ q.new_rows = p.new_rows /\ q.mods = p.mods
      /\ q.cached_modifs = p.cached_modifs /\ q.cached_inserts = p.cached_inserts
      /\ q.modify_rows = u.modify_rows /\ SameOptions(u, q) /\ q.faults = u.faults
      /\ q.chunk_sep = u.chunk_sep /\ q.chunk_proxy_nb_rows = u.chunk_proxy_nb_rows
      /\ q.chunk_sync_idle_id = u.chunk_sync_idle_id
  BY <1>3, <1>5, <1>7 DEF IsProxy, Fields, SameOptions
<1>9. /\ SameOptions(p, q) /\ q.faults = p.faults
      /\ q.chunk_sep = p.chunk_sep /\ q.chunk_proxy_nb_rows = p.chunk_proxy_nb_rows
      /\ q.chunk_sync_idle_id = p.chunk_sync_idle_id
  BY <1>5, <1>8 DEF SameShow, SameOptions
<1>10. /\ q.model \in Seq(ModelRow) /\ Len(q.model) = L + 1
       /\ \A k \in 1 .. L : q.model[k] = p.model[k]
  BY <1>1, <1>8, AppendIs
<1>11. Edits(q)
  <2>1. Lists(q) /\ News(q) /\ Marked(q)
    BY <1>1, <1>8 DEF Lists, News, Marked
  <2>2. Keyed(q)
    BY <1>3, <1>5, <1>8 DEF Keyed
  <2>3. OfTheirRow(q)
    <3> SUFFICES ASSUME NEW m \in ToSet(p.all_modifs)
                 PROVE  /\ p.mods[m].model_row \in -1 .. Len(q.model) - 1
                        /\ p.mods[m].model_row >= 0 =>
                             /\ q.model[p.mods[m].model_row + 1].id = p.mods[m].id
                             /\ q.model[p.mods[m].model_row + 1].val = p.mods[m].orig
                             /\ \A n \in ToSet(p.all_modifs) :
                                   p.mods[n].model_row = p.mods[m].model_row => n = m
      BY <1>8 DEF OfTheirRow
    <3> DEFINE o == p.mods[m].model_row
    <3>1. /\ o \in -1 .. L - 1
          /\ o >= 0 => /\ p.model[o + 1].id = p.mods[m].id
                       /\ p.model[o + 1].val = p.mods[m].orig
                       /\ \A n \in ToSet(p.all_modifs) : p.mods[n].model_row = o => n = m
      BY <1>1 DEF OfTheirRow
    <3> HIDE DEF o, L
    <3>2. o >= 0 => o + 1 \in 1 .. L
      BY <1>1, <3>1
    <3>3. o >= 0 => q.model[o + 1] = p.model[o + 1]
      BY <1>10, <3>2
    <3>4. o \in -1 .. Len(q.model) - 1
      BY <1>1, <1>10, <3>1
    <3> QED BY <3>1, <3>3, <3>4 DEF o
  <2> QED BY <1>10, <2>1, <2>2, <2>3 DEF Edits
<1>12. /\ p.chunk # NoChunk => ch \in Seq(Int) /\ ch # NoChunk /\ Len(ch) = Len(p.chunk)
       /\ p.chunk = NoChunk => ch = NoChunk
       /\ p.chunk_to \in Seq(Int) => to \in Seq(Int)
       /\ p.chunk_to \notin Seq(Int) => to = p.chunk_to
  <2>1. 1 \in Int /\ -1 \in Int
    OBVIOUS
  <2>2. p.chunk # NoChunk => ch \in Seq(Int) /\ ch # NoChunk /\ Len(ch) = Len(p.chunk)
    BY <1>1, <2>1, ShiftIs, ChunkIs DEF ch
  <2>3. p.chunk_to \in Seq(Int) => to \in Seq(Int)
    BY <1>1, <2>1, ShiftIs DEF to
  <2>4. p.chunk = NoChunk => ch = NoChunk
    BY ChunkIs DEF ch, Shift
  <2>5. p.chunk_to \notin Seq(Int) => to = p.chunk_to
    BY <1>1, ChunkIs DEF to, Shift
  <2> QED BY <2>2, <2>3, <2>4, <2>5
<1>13. told \in Int
  BY <1>1 DEF told
<1>14. ShowType(q)
  <2>1. OptionsOK(q)
    BY <1>1, <1>9 DEF OptionsOK, SameOptions
  <2>2. q.chunk \in Seq(Int) \cup {NoChunk} /\ q.chunk_to \in Seq(Int) \cup {NoChunk, Direct}
    BY <1>1, <1>8, <1>12
  <2> QED BY <1>1, <1>8, <1>9, <1>13, <2>1, <2>2 DEF ShowType
<1>15. Settled(q) <=> Settled(p)
  BY <1>1, <1>8, <1>12, ChunkIs DEF Settled
<1>16. NbRows(q) = row + 1 /\ Offset(q) = Offset(p)
  BY <1>1, <1>9, <1>10 DEF NbRows, Offset, SameOptions
<1>17. ASSUME p.chunk # NoChunk, Mapped(p, p.chunk) PROVE Mapped(q, q.chunk)
  <2>1. PICK n \in Nat : Maps(p.chunk, n, row, Len(p.new_rows))
    BY <1>17 DEF Mapped, row
  <2>2. p.chunk \in Seq(Int)
    BY <1>1, <1>17
  <2>3. 1 \in Int
    OBVIOUS
  <2>4. ch = [k \in DOMAIN p.chunk |-> IF p.chunk[k] >= row THEN p.chunk[k] + 1 ELSE p.chunk[k]]
    BY <1>1, <2>2, <2>3, ShiftIs DEF ch
  <2>5. Maps([k \in DOMAIN p.chunk |-> IF p.chunk[k] >= row THEN p.chunk[k] + 1 ELSE p.chunk[k]],
             n, row + 1, Len(p.new_rows))
    BY <1>1, <2>1, <2>2, MapsShift
  <2>6. Maps(ch, n, row + 1, Len(p.new_rows))
    BY <2>4, <2>5
  <2> QED BY <1>8, <1>16, <2>6 DEF Mapped
<1>18. ASSUME Settled(p), Told(p)
       PROVE  /\ ~deferred => Told(q)
              /\ deferred => q.told = Offset(q) + (IF q.chunk # NoChunk THEN Len(q.chunk)
                                                   ELSE NbRows(q) + Len(q.new_rows) - 1)
  <2>1. p.told = Offset(p) + (IF p.chunk # NoChunk THEN Len(p.chunk) ELSE row + Len(p.new_rows))
    BY <1>18 DEF Told, Count, row
  <2>2. Count(q) = IF q.chunk # NoChunk THEN Len(q.chunk) ELSE (row + 1) + Len(p.new_rows)
    BY <1>8, <1>15, <1>16, <1>18 DEF Count
  <2>3. told = IF deferred \/ p.chunk # NoChunk THEN p.told ELSE p.told + 1
    BY <1>18 DEF told, Settled
  <2>4. CASE p.chunk # NoChunk
    BY <1>8, <1>12, <1>16, <2>1, <2>2, <2>3, <2>4 DEF Told
  <2>5. CASE p.chunk = NoChunk
    <3>1. Count(q) = (row + 1) + Len(p.new_rows) /\ q.chunk = NoChunk
      BY <1>8, <1>12, <2>2, <2>5
    <3> DEFINE o == Offset(p)
               w == Len(p.new_rows)
    <3>7. p.told = o + (row + w)
      BY <2>1, <2>5
    <3>4. o \in Int /\ w \in Int /\ row \in Int /\ p.told \in Int
      BY <1>1
    <3>5. (deferred => told = p.told) /\ (~deferred => told = p.told + 1)
      BY <2>3, <2>5
    <3> HIDE DEF o, w
    <3>6. p.told + 1 = o + ((row + 1) + w) /\ p.told = o + ((row + 1) + w - 1)
      BY <3>4, <3>7
    <3>2. ~deferred => told = Offset(p) + ((row + 1) + Len(p.new_rows))
      BY <3>5, <3>6 DEF o, w
    <3>3. deferred => told = Offset(p) + ((row + 1) + Len(p.new_rows) - 1)
      BY <3>5, <3>6 DEF o, w
    <3> QED BY <1>8, <1>16, <3>1, <3>2, <3>3 DEF Told
  <2> QED BY <2>4, <2>5
<1>19. Len(q.model) = Len(p.model) + 1
  BY <1>10
<1>20. (p.chunk # NoChunk => Mapped(p, p.chunk)) => (q.chunk # NoChunk => Mapped(q, q.chunk))
  BY <1>8, <1>12, <1>17
<1> QED BY <1>8, <1>9, <1>11, <1>14, <1>15, <1>18, <1>19, <1>20 DEF q

\* A row is added to the proxied model by others.
LEMMA InsertedSound ==
    ASSUME NEW p, Sound(p), Settled(p), NEW new \in ModelRow
    PROVE  Sound(RowInserted(p, new, FALSE))
<1> DEFINE q == RowInserted(p, new, FALSE)
<1>1. IsProxy(p) /\ Edits(p) /\ ShowType(p) /\ Shape(p) /\ FALSE \in BOOLEAN
  BY DEF Sound
<1>2. /\ IsProxy(q) /\ Edits(q) /\ ShowType(q) /\ SameOptions(p, q) /\ q.faults = p.faults
      /\ q.chunk_sync_idle_id = p.chunk_sync_idle_id
      /\ Settled(q) <=> Settled(p)
      /\ (p.chunk # NoChunk => Mapped(p, p.chunk)) => (q.chunk # NoChunk => Mapped(q, q.chunk))
      /\ Settled(p) /\ Told(p) /\ ~FALSE => Told(q)
  BY <1>1, InsertedIs
<1> HIDE DEF q
<1>3. Shape(q)
  BY <1>1, <1>2 DEF Shape, SameOptions
<1> QED BY <1>2, <1>3 DEF Sound, q, Calm

\* A row of the proxied model gets other values.
LEMMA UpdatedSound ==
    ASSUME NEW p, Sound(p), Whole(p), NEW row \in 0 .. Len(p.model) - 1, NEW val \in Row
    PROVE  Sound(RowUpdated(p, row, val))
<1> DEFINE q == RowUpdated(p, row, val)
<1>1. IsProxy(p) /\ Edits(p) /\ ShowType(p) /\ Shape(p) /\ row >= 0
  BY DEF Sound
<1>2. \A n \in ToSet(p.all_modifs) : p.mods[n].model_row = row => n = NULL \/ KeyOf(p, n)
  BY <1>1 DEF Whole
<1>3. /\ IsProxy(q) /\ SameShow(p, q) /\ Len(q.model) = Len(p.model) /\ q.new_rows = p.new_rows
      /\ EditsBut(q, NULL)
  BY <1>1, <1>2, UpdatedIs
<1> HIDE DEF q
<1>4. NULL \notin ToSet(q.all_modifs)
  BY <1>3, ProxyAssumption DEF EditsBut, Lists, ToSet, Modifs
<1>5. Edits(q)
  BY <1>3, <1>4, EditsLeft
<1>6. ShowType(q) /\ Shape(q) /\ (Told(p) => Told(q))
  BY <1>1, <1>3, ShownSame DEF NbRows
<1> QED BY <1>3, <1>5, <1>6 DEF Sound, SameShow, q, Calm

\* A row of the proxied model is removed by others.
LEMMA RemovedSound ==
    ASSUME NEW p, Sound(p), Whole(p), Settled(p), NEW row \in 0 .. Len(p.model) - 1
    PROVE  Sound(RowRemoved(p, row))
<1> DEFINE q == RowRemoved(p, row)
<1>1. IsProxy(p) /\ Edits(p) /\ ShowType(p) /\ Shape(p) /\ row >= 0
  BY DEF Sound
<1>2. \A n \in ToSet(p.all_modifs) : p.mods[n].model_row = row => n = NULL \/ KeyOf(p, n)
  BY <1>1 DEF Whole
<1>3. /\ IsProxy(q) /\ ShowType(q) /\ SameOptions(p, q) /\ q.faults = p.faults
      /\ EditsBut(q, NULL) /\ q.new_rows = p.new_rows /\ Len(q.model) = Len(p.model) - 1
      /\ q.chunk_sync_idle_id = p.chunk_sync_idle_id
      /\ q.chunk = NoChunk <=> p.chunk = NoChunk
      /\ Settled(q) <=> Settled(p)
      /\ p.chunk # NoChunk => \A n, nb, nw \in Nat :
            Maps(p.chunk, n, nb, nw) /\ row \in 0 .. nb - 1 => \E l \in Nat : Maps(q.chunk, l, nb - 1, nw)
      /\ Settled(p) /\ Told(p) => Told(q)
  BY <1>1, <1>2, RemovedIs
<1> HIDE DEF q
<1>4. NULL \notin ToSet(q.all_modifs)
  BY <1>3, ProxyAssumption DEF EditsBut, Lists, ToSet, Modifs
<1>5. Edits(q)
  BY <1>3, <1>4, EditsLeft
<1>6. ASSUME q.chunk # NoChunk PROVE Mapped(q, q.chunk)
  <2> DEFINE nb == NbRows(p)
             nw == Len(p.new_rows)
  <2>1. nb \in Nat /\ nw \in Nat /\ row \in 0 .. nb - 1 /\ NbRows(q) = nb - 1 /\ q.new_rows = p.new_rows
    BY <1>1, <1>3, NRowsIs DEF Edits, Lists, NbRows
  <2>2. p.chunk # NoChunk /\ Mapped(p, p.chunk)
    BY <1>1, <1>3, <1>6 DEF Shape
  <2>3. PICK n \in Nat : Maps(p.chunk, n, nb, nw)
    BY <2>2 DEF Mapped
  <2> HIDE DEF nb, nw
  <2>4. \E l \in Nat : Maps(q.chunk, l, nb - 1, nw)
    BY <1>3, <2>1, <2>2, <2>3
  <2> QED BY <2>1, <2>4 DEF Mapped, nw
<1>7. Shape(q)
  BY <1>1, <1>3, <1>6 DEF Shape, SameOptions
<1> QED BY <1>3, <1>5, <1>7 DEF Sound, q, Calm

-----------------------------------------------------------------------------
(* Changes are applied.                                                    *)

\* The values written.
LEMMA WrittenIs ==
    ASSUME NEW p, NEW rm \in RowModif, rm.model_row >= 0 => rm.orig \in Row
    PROVE  Written(p, rm) \in Row
<1>1. rm.values \in ModifValues
  BY RowModifIs
<1>2. PICK cols \in SUBSET Columns : rm.values \in [cols -> Values \cup {NULL}]
  BY <1>1 DEF ModifValues
<1>3. \A c \in Columns : c \in DOMAIN rm.values => rm.values[c] \in Values \cup {NULL}
  BY <1>2
<1>4. rm.model_row >= 0 => \A c \in Columns : rm.orig[c] \in Values \cup {NULL}
  BY DEF Row
<1> QED BY <1>3, <1>4 DEF Written, Row

\* commit_row_modif()
LEMMA CommitIs ==
    ASSUME NEW p, Applied(p), NEW m \in ToSet(p.all_modifs)
    PROVE  /\ Applied(Commit(p, m)) /\ Commit(p, m).faults = p.faults
           /\ SameOptions(p, Commit(p, m))
<1> DEFINE rm == p.mods[m]
           row == rm.model_row
           new == [id |-> rm.id, val |-> Written(p, rm)]
           done == IF rm.to_be_deleted THEN RowRemoved(p, row)
                   ELSE IF row >= 0 THEN RowUpdated(p, row, Written(p, rm))
                   ELSE RowInserted(p, new, TRUE)
           q == Commit(p, m)
           last == DropModif(done, m, done.mods[m].model_row)
<1>1. /\ IsProxy(p) /\ Edits(p) /\ ShowType(p) /\ Settled(p) /\ ~p.chunk_sync_idle_id
      /\ p.sample_first_row >= -1 /\ (p.faults = {} => Told(p))
      /\ Lists(p) /\ News(p) /\ Marked(p) /\ OfTheirRow(p) /\ p.model \in Seq(ModelRow)
  BY DEF Applied, Edits
<1>2. /\ m \in DOMAIN p.mods /\ rm \in RowModif /\ row \in -1 .. Len(p.model) - 1
      /\ rm.to_be_deleted => row # -1
      /\ row >= 0 => rm.orig \in Row /\ row \in 0 .. Len(p.model) - 1
      /\ row >= 0 => \A n \in ToSet(p.all_modifs) : p.mods[n].model_row = row => n = m \/ KeyOf(p, n)
      /\ Len(p.model) \in Nat
  <2>1. m \in DOMAIN p.mods /\ rm \in RowModif /\ Len(p.model) \in Nat
    BY <1>1, ListedIs
  <2>2. row \in -1 .. Len(p.model) - 1
    BY <1>1 DEF OfTheirRow
  <2>3. rm.to_be_deleted => row # -1
    BY <1>1, <2>1 DEF Marked
  <2>4. row >= 0 => /\ p.model[row + 1].val = rm.orig
                    /\ \A n \in ToSet(p.all_modifs) : p.mods[n].model_row = row => n = m
    BY <1>1 DEF OfTheirRow
  <2>5. ASSUME row >= 0 PROVE rm.orig \in Row /\ row \in 0 .. Len(p.model) - 1
    <3> HIDE DEF row
    <3>1. row + 1 \in 1 .. Len(p.model) /\ row \in 0 .. Len(p.model) - 1
      BY <2>1, <2>2, <2>5
    <3>2. p.model[row + 1] \in ModelRow
      BY <1>1, <3>1, ElementOfSeq
    <3> QED BY <2>4, <2>5, <3>1, <3>2 DEF ModelRow
  <2> QED BY <2>1, <2>2, <2>3, <2>4, <2>5
<1>3. Written(p, rm) \in Row /\ new \in ModelRow
  <2>1. Written(p, rm) \in Row
    BY <1>2, WrittenIs
  <2> QED BY <1>2, <2>1 DEF RowModif, ModelRow
<1>4. q = IF m \in DOMAIN done.mods /\ Contains(done.all_modifs, m) THEN last ELSE done
  BY DEF Commit
<1> HIDE DEF rm, new, q, done
<1>5. ASSUME NEW d, IsProxy(d), ShowType(d), SameOptions(p, d), d.faults = p.faults, EditsBut(d, m),
             Settled(d), d.chunk_sync_idle_id = p.chunk_sync_idle_id,
             d = done, m \in ToSet(d.all_modifs) => d.mods[m].model_row # -1, Told(p) => Told(d)
      PROVE  Applied(q) /\ q.faults = p.faults /\ SameOptions(p, q)
  <2>1. Contains(d.all_modifs, m) <=> m \in ToSet(d.all_modifs)
    BY <1>5, PositionIs DEF EditsBut, Lists
  <2>2. CASE m \in ToSet(d.all_modifs)
    <3>1. m \in DOMAIN d.mods
      BY <1>5, <2>2 DEF EditsBut, Lists
    <3> DEFINE e == DropModif(d, m, d.mods[m].model_row)
    <3>2. q = e
      BY <1>4, <1>5, <2>1, <2>2, <3>1
    <3>3. IsProxy(e) /\ Edits(e) /\ SameShow(d, e) /\ e.model = d.model /\ e.new_rows = d.new_rows
      BY <1>5, <2>2, EditsLeft
    <3> HIDE DEF e
    <3>4. ShowType(e) /\ (Told(d) => Told(e)) /\ Settled(e)
      BY <1>5, <3>3, ShownSame DEF NbRows
    <3>5. /\ SameOptions(p, e) /\ e.faults = p.faults /\ ~e.chunk_sync_idle_id
          /\ e.sample_first_row >= -1
      BY <1>1, <1>5, <3>3 DEF SameShow, SameOptions
    <3> QED BY <1>1, <1>5, <3>2, <3>3, <3>4, <3>5 DEF Applied, Calm
  <2>3. CASE m \notin ToSet(d.all_modifs)
    <3>1. q = d
      BY <1>4, <1>5, <2>1, <2>3
    <3>2. Edits(d)
      BY <1>5, <2>3, EditsLeft
    <3>3. d.sample_first_row >= -1
      BY <1>1, <1>5 DEF SameOptions
    <3> QED BY <1>1, <1>5, <3>1, <3>2, <3>3 DEF Applied, Calm
  <2> QED BY <2>2, <2>3
<1>6. CASE rm.to_be_deleted
  <2> DEFINE d == RowRemoved(p, row)
  <2>1. row \in 0 .. Len(p.model) - 1 /\ row # -1
    BY <1>2, <1>6
  <2>2. d = done
    BY <1>6 DEF done
  <2>3. /\ IsProxy(d) /\ ShowType(d) /\ SameOptions(p, d) /\ d.faults = p.faults
        /\ EditsBut(d, m) /\ d.chunk_sync_idle_id = p.chunk_sync_idle_id
        /\ Settled(d) <=> Settled(p)
        /\ Settled(p) /\ Told(p) => Told(d)
        /\ \A n \in ToSet(d.all_modifs) :
              /\ n \in ToSet(p.all_modifs)
              /\ p.mods[n].model_row = row => d.mods[n].model_row = row
    <3> HIDE DEF row
    <3>1. row >= 0
      BY <2>1
    <3>2. \A n \in ToSet(p.all_modifs) : p.mods[n].model_row = row => n = m \/ KeyOf(p, n)
      BY <1>2, <3>1
    <3>4. IsProxy(p) /\ Edits(p) /\ ShowType(p) /\ row \in 0 .. Len(p.model) - 1
      BY <1>1, <2>1
    <3>3. LET f == RowRemoved(p, row)
          IN  /\ IsProxy(f) /\ ShowType(f) /\ SameOptions(p, f) /\ f.faults = p.faults
              /\ EditsBut(f, m) /\ f.chunk_sync_idle_id = p.chunk_sync_idle_id
              /\ Settled(f) <=> Settled(p)
              /\ Settled(p) /\ Told(p) => Told(f)
              /\ \A n \in ToSet(f.all_modifs) :
                    /\ n \in ToSet(p.all_modifs)
                    /\ p.mods[n].model_row = row => f.mods[n].model_row = row
      BY <3>2, <3>4, RemovedIs, ZenonT(40)
    <3> QED BY <3>3
  <2> HIDE DEF d
  <2>4. m \in ToSet(d.all_modifs) => d.mods[m].model_row # -1
    <3>1. p.mods[m].model_row = row
      BY DEF rm
    <3> QED BY <2>1, <2>3, <3>1
  <2> QED BY <1>1, <1>5, <2>2, <2>3, <2>4 DEF q
<1>7. CASE ~rm.to_be_deleted /\ row >= 0
  <2> DEFINE d == RowUpdated(p, row, Written(p, rm))
  <2>1. row \in 0 .. Len(p.model) - 1 /\ row # -1
    BY <1>2, <1>7
  <2>2. d = done
    BY <1>7 DEF done
  <2>3. /\ IsProxy(d) /\ SameShow(p, d) /\ Len(d.model) = Len(p.model) /\ d.new_rows = p.new_rows
        /\ EditsBut(d, m)
        /\ \A n \in ToSet(d.all_modifs) : n \in ToSet(p.all_modifs) /\ d.mods[n] = p.mods[n]
    <3> DEFINE v == Written(p, rm)
    <3>1. v \in Row
      BY <1>3
    <3> HIDE DEF row, v
    <3>2. \A n \in ToSet(p.all_modifs) : p.mods[n].model_row = row => n = m \/ KeyOf(p, n)
      BY <1>2, <1>7
    <3>3. LET f == RowUpdated(p, row, v)
          IN  /\ IsProxy(f) /\ SameShow(p, f) /\ Len(f.model) = Len(p.model) /\ f.new_rows = p.new_rows
              /\ EditsBut(f, m)
              /\ \A n \in ToSet(f.all_modifs) : n \in ToSet(p.all_modifs) /\ f.mods[n] = p.mods[n]
      BY <1>1, <2>1, <3>1, <3>2, UpdatedIs, ZenonT(40)
    <3> QED BY <3>3 DEF v
  <2> HIDE DEF d
  <2>4. m \in ToSet(d.all_modifs) => d.mods[m].model_row # -1
    <3>1. p.mods[m].model_row = row
      BY DEF rm
    <3> QED BY <2>1, <2>3, <3>1
  <2>5. ShowType(d) /\ (Told(p) => Told(d)) /\ Settled(d)
    BY <1>1, <2>3, ShownSame DEF NbRows
  <2> QED BY <1>1, <1>5, <2>2, <2>3, <2>4, <2>5 DEF SameShow, q
<1>8. CASE ~rm.to_be_deleted /\ ~(row >= 0)
  <2> DEFINE d == RowInserted(p, new, TRUE)
             e == DropModif(d, m, d.mods[m].model_row)
  <2>1. row = -1
    BY <1>2, <1>8
  <2>2. d = done
    BY <1>8 DEF done
  <2>3. TRUE \in BOOLEAN
    OBVIOUS
  <2>4. /\ IsProxy(d) /\ Edits(d) /\ ShowType(d) /\ SameOptions(p, d) /\ d.faults = p.faults
        /\ d.all_modifs = p.all_modifs /\ d.mods = p.mods
        /\ d.chunk_sync_idle_id = p.chunk_sync_idle_id
        /\ Settled(d) <=> Settled(p)
        /\ Settled(p) /\ Told(p) /\ TRUE =>
             d.told = Offset(d) + (IF d.chunk # NoChunk THEN Len(d.chunk)
                                   ELSE NbRows(d) + Len(d.new_rows) - 1)
    BY <1>1, <1>3, <2>3, InsertedIs
  <2> HIDE DEF d
  <2>5. m \in ToSet(d.all_modifs) /\ m \in DOMAIN d.mods /\ d.mods[m].model_row = -1
    BY <1>2, <2>1, <2>4 DEF rm
  <2>6. Contains(d.all_modifs, m)
    BY <2>4, <2>5, PositionIs DEF Edits, Lists
  <2>7. q = e
    BY <1>4, <2>2, <2>5, <2>6
  <2>8. /\ IsProxy(e) /\ Edits(e) /\ SameShow(d, e) /\ e.model = d.model
        /\ Len(e.new_rows) = Len(d.new_rows) - 1
    BY <2>4, <2>5, DropIs
  <2> HIDE DEF e
  <2>9. ShowType(e) /\ Settled(e)
    BY <1>1, <2>4, <2>8 DEF ShowType, OptionsOK, SameShow, SameOptions, Settled
  <2>10. Told(p) => Told(e)
    <3>1. NbRows(e) = NbRows(d) /\ NbRows(d) \in Nat /\ Len(d.new_rows) \in Nat
      BY <2>4, <2>8, NRowsIs DEF NbRows, Edits, Lists
    <3>2. Count(e) = IF d.chunk # NoChunk THEN Len(d.chunk) ELSE NbRows(d) + (Len(d.new_rows) - 1)
      BY <2>8, <2>9, <3>1 DEF Count, SameShow
    <3>3. NbRows(d) + (Len(d.new_rows) - 1) = NbRows(d) + Len(d.new_rows) - 1
      BY <3>1
    <3>4. e.told = d.told /\ Offset(e) = Offset(d)
      BY <2>8 DEF SameShow, SameOptions, Offset
    <3> QED BY <1>1, <2>4, <3>2, <3>3, <3>4 DEF Told
  <2>11. /\ SameOptions(p, e) /\ e.faults = p.faults /\ ~e.chunk_sync_idle_id
         /\ e.sample_first_row >= -1
    BY <1>1, <2>4, <2>8 DEF SameShow, SameOptions
  <2> QED BY <1>1, <2>7, <2>8, <2>9, <2>10, <2>11 DEF Applied, q, Calm
<1> QED BY <1>6, <1>7, <1>8

\* gda_data_proxy_apply_all_changes()
LEMMA CommitAllIs ==
    ASSUME NEW p, Applied(p), NEW n \in Nat
    PROVE  Applied(CommitAll(p, n)) /\ CommitAll(p, n).faults = p.faults
<1>1. PICK g : g[0] = p /\ CommitAll(p, n) = g[n] /\ \A k \in 1 .. n : g[k] = CommitFirst(g[k - 1])
  BY CommitSteps
<1> DEFINE B == {k \in Nat : Applied(g[k]) /\ g[k].faults = p.faults}
<1>2. 0 \in B
  BY <1>1
<1>3. ASSUME NEW k \in 0 .. n - 1, k \in B PROVE k + 1 \in B
  <2> DEFINE q == g[k]
             r == g[k + 1]
  <2>1. k \in Nat /\ k + 1 \in Nat /\ k + 1 \in 1 .. n /\ (k + 1) - 1 = k
    OBVIOUS
  <2>2. r = CommitFirst(q)
    BY <1>1, <2>1
  <2>3. Applied(q) /\ q.faults = p.faults
    BY <1>3
  <2> HIDE DEF q, r
  <2>4. CASE q.all_modifs = << >>
    BY <2>1, <2>2, <2>3, <2>4 DEF CommitFirst, r
  <2>5. CASE q.all_modifs # << >>
    <3>1. q.all_modifs \in Seq(Modifs)
      BY <2>3 DEF Applied, Edits, Lists
    <3>2. Head(q.all_modifs) \in ToSet(q.all_modifs)
      BY <2>5, <3>1, TailIs
    <3>3. r = Commit(q, Head(q.all_modifs))
      BY <2>2, <2>5 DEF CommitFirst
    <3>4. Applied(r) /\ r.faults = p.faults
      BY <2>3, <3>2, <3>3, CommitIs
    <3> QED BY <2>1, <3>4 DEF r
  <2> QED BY <2>4, <2>5
<1>4. n \in B
  <2>1. \A k \in 0 .. n - 1 : k \in B => k + 1 \in B
    BY <1>3
  <2> HIDE DEF B
  <2>2. \A k \in 0 .. n : k \in B
    BY <1>2, <2>1, Upwards
  <2> QED BY <2>2
<1> QED BY <1>1, <1>4

-----------------------------------------------------------------------------
(* All the changes are cancelled.                                          *)

\* The chunk less the new rows, when some of them have been taken out of it.
LessRows(p, q, n, k) ==
    /\ IsProxy(q) /\ SameOptions(p, q)
    /\ q.model = p.model /\ q.mods = p.mods /\ q.all_modifs = p.all_modifs
    /\ q.modify_rows = p.modify_rows
    /\ q.cached_modifs = p.cached_modifs /\ q.cached_inserts = p.cached_inserts
    /\ q.chunk = p.chunk /\ q.chunk_sep = 0 /\ q.chunk_proxy_nb_rows = -1
    /\ q.chunk_sync_idle_id = p.chunk_sync_idle_id /\ q.told = p.told /\ q.faults = p.faults
    /\ q.new_rows \in Seq(Modifs) /\ Len(q.new_rows) = Len(p.new_rows) - k
    /\ ToSet(q.new_rows) \subseteq ToSet(p.new_rows)
    /\ q.chunk_to \in Seq(Int) /\ Len(q.chunk_to) = n + Len(p.new_rows) - k
    /\ \A j \in 1 .. n : q.chunk_to[j] = p.chunk[j]

\* The next of them is taken out.
LEMMA UncoveredIs ==
    ASSUME NEW p, Edits(p), ShowType(p), p.chunk # NoChunk, NEW n \in Nat,
           Maps(p.chunk, n, NbRows(p), Len(p.new_rows)),
           NEW k \in 0 .. Len(p.new_rows) - 1, NEW q, LessRows(p, q, n, k)
    PROVE  LessRows(p, Uncovered(q), n, k + 1)
<1> DEFINE nb == NbRows(p)
           nw == Len(p.new_rows)
           m == Head(q.new_rows)
           row == AbsoluteToProxy(q, ModifToAbsolute(q, m))
           r == Uncovered(q)
<1>1. /\ nb \in Nat /\ nw \in Nat /\ Offset(p) \in {0, 1} /\ p.chunk \in Seq(Int) /\ k \in Nat /\ nw - k >= 1
      /\ Offset(q) = Offset(p) /\ NbRows(q) = nb /\ q.chunk = p.chunk /\ q.mods = p.mods
      /\ q.new_rows \in Seq(Modifs) /\ Len(q.new_rows) = nw - k
      /\ ToSet(q.new_rows) \subseteq ToSet(p.new_rows)
      /\ q.chunk_to \in Seq(Int) /\ Len(q.chunk_to) = n + nw - k
  <2>1. nb \in Nat /\ nw \in Nat /\ Offset(p) \in {0, 1}
    BY NRowsIs DEF Edits, Lists
  <2>2. p.chunk \in Seq(Int)
    BY DEF ShowType
  <2>3. Offset(q) = Offset(p) /\ NbRows(q) = nb
    BY DEF LessRows, Offset, NbRows, SameOptions
  <2>4. k \in Nat /\ nw - k >= 1
    BY <2>1
  <2> QED BY <2>1, <2>2, <2>3, <2>4 DEF LessRows
<1>2. q.new_rows # << >>
  BY <1>1
<1>3. /\ Tail(q.new_rows) \in Seq(Modifs) /\ Len(Tail(q.new_rows)) = Len(q.new_rows) - 1
      /\ m = q.new_rows[1] /\ m \in ToSet(q.new_rows)
      /\ \A i \in 1 .. Len(q.new_rows) - 1 : Tail(q.new_rows)[i] = q.new_rows[i + 1]
  BY <1>1, <1>2, TailIs
<1>4. ToSet(Tail(q.new_rows)) \subseteq ToSet(p.new_rows)
  <2> DEFINE t == Tail(q.new_rows)
  <2>1. /\ DOMAIN t = 1 .. Len(q.new_rows) - 1 /\ DOMAIN q.new_rows = 1 .. Len(q.new_rows)
        /\ Len(q.new_rows) \in Nat
    <3>1. t \in Seq(Modifs) /\ Len(t) = Len(q.new_rows) - 1 /\ q.new_rows \in Seq(Modifs)
      BY <1>1, <1>3
    <3> HIDE DEF t
    <3> QED BY <3>1
  <2>2. \A i \in DOMAIN t : i + 1 \in DOMAIN q.new_rows /\ t[i] = q.new_rows[i + 1]
    BY <1>3, <2>1
  <2> HIDE DEF t
  <2>3. ToSet(t) \subseteq ToSet(q.new_rows)
    BY <2>2 DEF ToSet
  <2> QED BY <1>1, <2>3 DEF t
<1>5. ModifToAbsolute(q, m) = nb
  <2>1. q.mods[m].model_row = -1
    BY <1>1, <1>3 DEF Edits, News
  <2>2. Contains(q.new_rows, m) /\ Position(q.new_rows, m) = 1
    <3>1. 1 \in DOMAIN q.new_rows /\ DOMAIN q.new_rows \subseteq Nat \ {0}
      BY <1>1, SMTT(30)
    <3>2. /\ Contains(q.new_rows, m) /\ Position(q.new_rows, m) \in DOMAIN q.new_rows
          /\ \A i \in DOMAIN q.new_rows : q.new_rows[i] = m => Position(q.new_rows, m) <= i
      BY <1>1, <1>3, PositionIs
    <3>3. Position(q.new_rows, m) <= 1
      BY <1>3, <3>1, <3>2
    <3> QED BY <3>1, <3>2, <3>3
  <2>3. ModifToAbsolute(q, m) = nb + 1 - 1
    BY <1>1, <2>1, <2>2 DEF ModifToAbsolute
  <2> QED BY <1>1, <2>3
<1>6. row = n + Offset(p)
  <2> HIDE DEF nb, nw
  <2>1. nb \in nb .. nb + nw - 1
    BY <1>1
  <2>2. Position(p.chunk, nb) = n + (nb - nb) + 1 /\ Contains(p.chunk, nb)
    BY <1>1, <2>1, MapsIs DEF nb, nw
  <2>3. ~(nb < 0) /\ (n + (nb - nb) + 1) - 1 + Offset(p) = n + Offset(p)
    BY <1>1
  <2> QED BY <1>1, <1>5, <2>2, <2>3 DEF AbsoluteToProxy
<1>7. ~(row < 0) /\ row - Offset(q) + 1 = n + 1
  BY <1>1, <1>6
<1>8. r = [q EXCEPT !.new_rows = Tail(q.new_rows), !.chunk_to = RemoveAt(q.chunk_to, n + 1)]
  <2>1. r = [q EXCEPT !.new_rows = Tail(@),
                      !.chunk_to = IF row < 0 THEN @ ELSE RemoveAt(@, row - Offset(q) + 1)]
    BY DEF Uncovered
  <2> HIDE DEF row, r
  <2> QED BY <1>7, <2>1
<1> HIDE DEF r
<1>9. /\ IsProxy(r) /\ SameOptions(p, r)
      /\ r.model = p.model /\ r.mods = p.mods /\ r.all_modifs = p.all_modifs
      /\ r.modify_rows = p.modify_rows
      /\ r.cached_modifs = p.cached_modifs /\ r.cached_inserts = p.cached_inserts
      /\ r.chunk = p.chunk /\ r.chunk_sep = 0 /\ r.chunk_proxy_nb_rows = -1
      /\ r.chunk_sync_idle_id = p.chunk_sync_idle_id /\ r.told = p.told /\ r.faults = p.faults
      /\ r.new_rows = Tail(q.new_rows) /\ r.chunk_to = RemoveAt(q.chunk_to, n + 1)
  BY <1>8 DEF LessRows, IsProxy, Fields, SameOptions
<1>10. /\ r.chunk_to \in Seq(Int) /\ Len(r.chunk_to) = n + nw - (k + 1)
       /\ \A j \in 1 .. n : r.chunk_to[j] = p.chunk[j]
  <2> DEFINE t == RemoveAt(q.chunk_to, n + 1)
  <2>1. n + 1 \in 1 .. Len(q.chunk_to)
    BY <1>1
  <2>2. /\ t \in Seq(Int) /\ Len(t) = Len(q.chunk_to) - 1
        /\ \A j \in 1 .. Len(q.chunk_to) - 1 :
              t[j] = IF j < n + 1 THEN q.chunk_to[j] ELSE q.chunk_to[j + 1]
    BY <1>1, <2>1, RemoveAtIs
  <2> HIDE DEF t
  <2>3. \A j \in 1 .. n : j \in 1 .. Len(q.chunk_to) - 1 /\ j < n + 1
    BY <1>1
  <2>4. \A j \in 1 .. n : t[j] = p.chunk[j]
    BY <2>2, <2>3 DEF LessRows
  <2>5. Len(t) = n + nw - (k + 1)
    BY <1>1, <2>2
  <2> QED BY <1>9, <2>2, <2>4, <2>5 DEF t
<1>11. Len(r.new_rows) = nw - (k + 1)
  BY <1>1, <1>3, <1>9
<1> QED BY <1>3, <1>4, <1>9, <1>10, <1>11 DEF LessRows, r

\* All of them are.
LEMMA AllUncoveredIs ==
    ASSUME NEW p, IsProxy(p), Edits(p), ShowType(p), p.chunk # NoChunk, NEW n \in Nat,
           Maps(p.chunk, n, NbRows(p), Len(p.new_rows))
    PROVE  LET less == AllUncovered([p EXCEPT !.chunk_to = p.chunk, !.chunk_sep = 0,
                                              !.chunk_proxy_nb_rows = -1])
           IN  LessRows(p, less, n, Len(p.new_rows))
<1> DEFINE q == [p EXCEPT !.chunk_to = p.chunk, !.chunk_sep = 0, !.chunk_proxy_nb_rows = -1]
           nw == Len(p.new_rows)
<1>1. nw \in Nat /\ p.new_rows \in Seq(Modifs) /\ p.chunk \in Seq(Int)
  BY DEF Edits, Lists, ShowType
<1>2. /\ IsProxy(q) /\ SameEdits(p, q) /\ SameOptions(p, q) /\ q.new_rows = p.new_rows
      /\ q.chunk = p.chunk /\ q.chunk_to = p.chunk /\ q.chunk_sep = 0 /\ q.chunk_proxy_nb_rows = -1
      /\ q.chunk_sync_idle_id = p.chunk_sync_idle_id /\ q.told = p.told /\ q.faults = p.faults
  BY DEF IsProxy, Fields, SameEdits, SameOptions
<1> HIDE DEF q
<1>3. LessRows(p, q, n, 0)
  <2>1. nw - 0 = nw /\ n + nw - 0 = n + nw /\ Len(p.chunk) = n + nw
    BY <1>1 DEF Maps
  <2> QED BY <1>1, <1>2, <2>1 DEF LessRows, SameEdits
<1>4. PICK g : g[0] = q /\ AllUncovered(q) = g[nw] /\ \A k \in 1 .. nw : g[k] = Uncovered(g[k - 1])
  <2>1. Len(q.new_rows) \in Nat
    BY <1>1, <1>2
  <2> QED BY <1>2, <2>1, UncoverSteps
<1> DEFINE B == {k \in Nat : LessRows(p, g[k], n, k)}
<1>5. 0 \in B
  BY <1>3, <1>4
<1>6. ASSUME NEW k \in 0 .. nw - 1, k \in B PROVE k + 1 \in B
  <2>1. k + 1 \in Nat /\ k + 1 \in 1 .. nw /\ (k + 1) - 1 = k
    BY <1>1
  <2>2. g[k + 1] = Uncovered(g[k])
    BY <1>4, <2>1
  <2>3. LessRows(p, Uncovered(g[k]), n, k + 1)
    BY <1>6, UncoveredIs
  <2> QED BY <2>1, <2>2, <2>3
<1>7. nw \in B
  <2>1. \A k \in 0 .. nw - 1 : k \in B => k + 1 \in B
    BY <1>6
  <2> HIDE DEF B, nw
  <2>2. \A k \in 0 .. nw : k \in B
    BY <1>1, <1>5, <2>1, Upwards
  <2> QED BY <1>1, <2>2
<1> QED BY <1>4, <1>7 DEF q

\* The chunk without the new rows is synchronised.
LEMMA RidOfIs ==
    ASSUME NEW p, Sound(p), Settled(p), p.chunk # NoChunk
    PROVE  LET less == AllUncovered([p EXCEPT !.chunk_to = p.chunk, !.chunk_sep = 0,
                                              !.chunk_proxy_nb_rows = -1])
               r == Sync(less, FALSE)
           IN  /\ IsProxy(r) /\ ShowType(r) /\ Shape(r) /\ Settled(r) /\ SameOptions(p, r) /\ Calm(r)
               /\ r.faults = {} => p.faults = {} /\ Told(r)
               /\ r.model = p.model /\ r.mods = p.mods /\ r.all_modifs = p.all_modifs
               /\ r.modify_rows = p.modify_rows /\ r.new_rows = << >>
               /\ r.cached_modifs = p.cached_modifs /\ r.cached_inserts = p.cached_inserts
<1> DEFINE less == AllUncovered([p EXCEPT !.chunk_to = p.chunk, !.chunk_sep = 0,
                                          !.chunk_proxy_nb_rows = -1])
           r == Sync(less, FALSE)
           nw == Len(p.new_rows)
<1>1. /\ IsProxy(p) /\ Edits(p) /\ ShowType(p) /\ Shape(p) /\ Mapped(p, p.chunk)
      /\ p.sample_first_row >= -1
  BY DEF Sound, Shape
<1>2. PICK n \in Nat : Maps(p.chunk, n, NbRows(p), nw)
  BY <1>1 DEF Mapped
<1>3. LessRows(p, less, n, nw)
  BY <1>1, <1>2, AllUncoveredIs
<1> HIDE DEF less
<1>4. nw \in Nat /\ NbRows(p) \in Nat /\ p.model \in Seq(ModelRow) /\ p.chunk \in Seq(Int)
  BY <1>1, NRowsIs DEF Edits, Lists, ShowType
<1>5. less.new_rows = << >> /\ Len(less.new_rows) = 0
  <2>1. less.new_rows \in Seq(Modifs) /\ Len(less.new_rows) = nw - nw
    BY <1>3 DEF LessRows
  <2> QED BY <1>4, <2>1
<1>6. NbRows(less) = NbRows(p) /\ Offset(less) = Offset(p) /\ HasRows(less) /\ less.chunk = p.chunk
  BY <1>3, <1>4 DEF LessRows, NbRows, Offset, SameOptions, HasRows
<1>7. Maps(less.chunk_to, n, NbRows(less), Len(less.new_rows))
  <2>1. Len(less.chunk_to) = n + 0 /\ \A j \in 1 .. n : less.chunk_to[j] = p.chunk[j]
    <3>1. n + nw - nw = n + 0
      BY <1>4
    <3> QED BY <1>3, <3>1 DEF LessRows
  <2>2. /\ \A k \in 1 .. n : p.chunk[k] >= -1 /\ p.chunk[k] < NbRows(p)
        /\ \A j, k \in 1 .. n : p.chunk[j] = p.chunk[k] => j = k
    BY <1>2 DEF Maps
  <2> QED BY <1>5, <1>6, <2>1, <2>2 DEF Maps
<1>8. less.chunk_to \in Seq(Int) /\ ~Settled(less)
  BY <1>3, ChunkIs DEF LessRows, Settled
<1>9. ShowType(less)
  <2>1. OptionsOK(less)
    BY <1>1, <1>3 DEF LessRows, SameOptions, ShowType, OptionsOK
  <2>2. less.chunk_sep \in Int /\ less.chunk_proxy_nb_rows \in Int /\ less.told \in Int
    BY <1>1, <1>3 DEF LessRows, ShowType
  <2> QED BY <1>1, <1>6, <1>8, <2>1, <2>2 DEF ShowType
<1>10. Under(less)
  <2>1. less.chunk_sep = 0
    BY <1>3 DEF LessRows
  <2>2. 0 >= 0 /\ 0 <= Len(p.chunk) /\ 0 <= Len(less.chunk_to)
    BY <1>4, <1>8
  <2>3. Mapped(less, less.chunk_to)
    BY <1>7 DEF Mapped
  <2>4. less.chunk_to # Direct
    BY <1>8, ChunkIs
  <2> QED BY <1>6, <2>1, <2>2, <2>3, <2>4 DEF Under
<1>11. Fresh(less)
  <2>1. less.chunk_proxy_nb_rows < 0
    BY <1>3 DEF LessRows
  <2> QED BY <1>6, <2>1 DEF Fresh
<1>12. Told(p) => Told(less)
  <2>1. Count(less) = Count(p)
    BY <1>6 DEF Count
  <2> QED BY <1>3, <1>6, <2>1 DEF Told, LessRows
<1>13. FALSE \in BOOLEAN /\ IsProxy(less)
  BY <1>3 DEF LessRows
<1>14. /\ RunOn(less, r)
       /\ Settled(r) => ~r.chunk_sync_idle_id /\ (r.chunk # NoChunk => Mapped(r, r.chunk))
       /\ Settled(r)
       /\ Told(less) /\ r.faults = {} => Told(r)
  BY <1>6, <1>8, <1>9, <1>10, <1>11, <1>13, SyncIs
<1> HIDE DEF r
<1>15. /\ IsProxy(r) /\ ShowType(r) /\ (r.faults = {} => p.faults = {})
       /\ r.model = p.model /\ r.mods = p.mods /\ r.all_modifs = p.all_modifs
       /\ r.modify_rows = p.modify_rows /\ r.new_rows = << >>
       /\ r.cached_modifs = p.cached_modifs /\ r.cached_inserts = p.cached_inserts
       /\ SameOptions(p, r)
  BY <1>3, <1>5, <1>14 DEF RunOn, SameEdits, SameOptions, LessRows
<1>16. Shape(r)
  BY <1>1, <1>14, <1>15 DEF Shape, SameOptions
<1>17. r.faults = {} => p.faults = {} /\ Told(r)
  BY <1>12, <1>14, <1>15 DEF Sound
<1>18. Calm(r)
  <2>1. Calm(less)
    BY <1>3 DEF LessRows, Sound, Calm
  <2> QED BY <1>14, <2>1 DEF RunOn
<1> QED BY <1>14, <1>15, <1>16, <1>17, <1>18 DEF r, less

\* gda_data_proxy_cancel_all_changes()
LEMMA CancelAllIs ==
    ASSUME NEW p, Sound(p), Settled(p)
    PROVE  LET q == CancelAll(p)
           IN  /\ Sound(q) /\ Settled(q) /\ SameOptions(p, q) /\ q.model = p.model
               /\ q.faults = {} => p.faults = {}
               /\ q.all_modifs = << >> /\ q.new_rows = << >>
<1> DEFINE less == AllUncovered([p EXCEPT !.chunk_to = p.chunk, !.chunk_sep = 0,
                                          !.chunk_proxy_nb_rows = -1])
           u == [p EXCEPT !.new_rows = << >>, !.told = @ - Len(p.new_rows)]
           s == Sync(less, FALSE)
           r == IF p.new_rows = << >> THEN p ELSE IF p.chunk = NoChunk THEN u ELSE s
           q == CancelAll(p)
           rows == {p.mods[m].model_row : m \in ToSet(p.all_modifs)}
<1>1. /\ IsProxy(p) /\ Edits(p) /\ ShowType(p) /\ Shape(p) /\ Lists(p) /\ News(p) /\ Keyed(p) /\ Marked(p)
      /\ p.model \in Seq(ModelRow)
  BY DEF Sound, Edits
<1>2. q = [r EXCEPT !.all_modifs = << >>, !.mods = Without(@, ToSet(p.all_modifs)),
                    !.modify_rows = Without(@, rows)]
  BY DEF CancelAll
<1> HIDE DEF less, q
<1>3. /\ IsProxy(r) /\ ShowType(r) /\ Shape(r) /\ Settled(r) /\ SameOptions(p, r) /\ Calm(r)
      /\ r.faults = {} => p.faults = {} /\ Told(r)
      /\ r.model = p.model /\ r.mods = p.mods /\ r.all_modifs = p.all_modifs
      /\ r.modify_rows = p.modify_rows /\ r.new_rows = << >>
      /\ r.cached_modifs = p.cached_modifs /\ r.cached_inserts = p.cached_inserts
  <2> HIDE DEF s
  <2>1. CASE p.new_rows = << >>
    BY <1>1, <2>1 DEF Sound, SameOptions
  <2>2. CASE p.new_rows # << >> /\ p.chunk = NoChunk
    <3>1. r = u
      BY <2>2
    <3>2. /\ IsProxy(u) /\ SameOptions(p, u) /\ u.faults = p.faults
          /\ u.model = p.model /\ u.mods = p.mods /\ u.all_modifs = p.all_modifs
          /\ u.modify_rows = p.modify_rows /\ u.new_rows = << >>
          /\ u.cached_modifs = p.cached_modifs /\ u.cached_inserts = p.cached_inserts
          /\ u.chunk = p.chunk /\ u.chunk_to = p.chunk_to /\ u.chunk_sep = p.chunk_sep
          /\ u.chunk_proxy_nb_rows = p.chunk_proxy_nb_rows
          /\ u.chunk_sync_idle_id = p.chunk_sync_idle_id /\ u.told = p.told - Len(p.new_rows)
      BY <1>1 DEF IsProxy, Fields, SameOptions
    <3> HIDE DEF u, r
    <3>3. /\ NbRows(p) \in Nat /\ Len(p.new_rows) \in Nat /\ p.told \in Int /\ Offset(p) \in {0, 1}
      BY <1>1, NRowsIs DEF Lists, ShowType
    <3>4. Settled(u) /\ NbRows(u) = NbRows(p) /\ Offset(u) = Offset(p)
      BY <3>2 DEF Settled, NbRows, Offset, SameOptions
    <3>5. ShowType(u)
      <4>1. OptionsOK(u)
        BY <1>1, <3>2 DEF ShowType, OptionsOK, SameOptions
      <4>2. u.told \in Int
        BY <3>2, <3>3
      <4> QED BY <1>1, <3>2, <4>1, <4>2 DEF ShowType
    <3>6. Shape(u)
      BY <1>1, <2>2, <3>2, <3>4 DEF Shape, SameOptions
    <3>7. Told(p) => Told(u)
      <4>1. Count(p) = NbRows(p) + Len(p.new_rows)
        BY <2>2 DEF Count
      <4>2. Len(u.new_rows) = 0
        BY <3>2
      <4>3. Count(u) = NbRows(p) + 0
        BY <2>2, <3>2, <3>4, <4>2 DEF Count
      <4>4. p.told = Offset(p) + (NbRows(p) + Len(p.new_rows)) =>
              p.told - Len(p.new_rows) = Offset(p) + (NbRows(p) + 0)
        BY <3>3
      <4> QED BY <3>2, <3>4, <4>1, <4>3, <4>4 DEF Told
    <3>8. Calm(u)
      BY <3>2 DEF Sound, Calm
    <3> QED BY <3>1, <3>2, <3>4, <3>5, <3>6, <3>7, <3>8 DEF Sound
  <2>3. CASE p.new_rows # << >> /\ p.chunk # NoChunk
    <3>1. r = s
      BY <2>3
    <3> HIDE DEF r
    <3>2. /\ IsProxy(s) /\ ShowType(s) /\ Shape(s) /\ Settled(s) /\ SameOptions(p, s) /\ Calm(s)
          /\ s.faults = {} => p.faults = {} /\ Told(s)
          /\ s.model = p.model /\ s.mods = p.mods /\ s.all_modifs = p.all_modifs
          /\ s.modify_rows = p.modify_rows /\ s.new_rows = << >>
          /\ s.cached_modifs = p.cached_modifs /\ s.cached_inserts = p.cached_inserts
      BY <2>3, RidOfIs DEF s, less
    <3> QED BY <3>1, <3>2
  <2> QED BY <2>1, <2>2, <2>3
<1> HIDE DEF r, s, u, rows
<1>4. /\ IsProxy(q) /\ SameShow(r, q) /\ q.model = r.model /\ q.all_modifs = << >> /\ q.new_rows = r.new_rows
      /\ q.mods = Without(p.mods, ToSet(p.all_modifs)) /\ q.modify_rows = Without(p.modify_rows, rows)
      /\ q.cached_modifs = p.cached_modifs /\ q.cached_inserts = p.cached_inserts
  BY <1>2, <1>3 DEF IsProxy, Fields, SameShow, SameOptions
<1>5. ToSet(<< >>) = {} /\ Once(<< >>) /\ << >> \in Seq(Modifs)
  BY DEF ToSet, Once
<1>6. /\ DOMAIN q.mods = DOMAIN p.mods \ ToSet(p.all_modifs)
      /\ q.mods = [m \in DOMAIN q.mods |-> q.mods[m]]
      /\ \A m \in DOMAIN q.mods : m \in DOMAIN p.mods /\ q.mods[m] = p.mods[m]
  BY <1>4 DEF Without
<1>7. Lists(q)
  BY <1>1, <1>3, <1>4, <1>5, <1>6 DEF Lists
<1>8. News(q)
  <2>1. \A m \in ToSet(q.cached_inserts) : q.mods[m].model_row = -1
    BY <1>1, <1>4, <1>6, <1>7 DEF News, Lists
  <2> QED BY <1>3, <1>4, <1>5, <2>1 DEF News
<1>9. Keyed(q)
  <2>1. /\ DOMAIN q.modify_rows = DOMAIN p.modify_rows \ rows
        /\ q.modify_rows = [k \in DOMAIN q.modify_rows |-> q.modify_rows[k]]
    BY <1>4 DEF Without
  <2>2. \A k \in DOMAIN p.modify_rows : k \in rows
    BY <1>1 DEF Keyed, rows
  <2> QED BY <2>1, <2>2 DEF Keyed
<1>10. OfTheirRow(q)
  BY <1>4, <1>5 DEF OfTheirRow
<1>11. Marked(q)
  BY <1>1, <1>6 DEF Marked
<1>12. Edits(q)
  BY <1>1, <1>3, <1>4, <1>7, <1>8, <1>9, <1>10, <1>11 DEF Edits
<1>13. ShowType(q) /\ Shape(q) /\ (Told(r) => Told(q)) /\ Settled(q)
  BY <1>3, <1>4, ShownSame DEF NbRows
<1>14. SameOptions(p, q) /\ q.faults = r.faults
  BY <1>3, <1>4 DEF SameShow, SameOptions
<1> QED BY <1>3, <1>4, <1>12, <1>13, <1>14 DEF Sound, q, Calm
-----------------------------------------------------------------------------
(* The cache of changes.                                                   *)

\* The changes are all in the cache, or there is none.
Stored(p) ==
    /\ Calm(p) /\ IsProxy(p) /\ ShowType(p) /\ p.model \in Seq(ModelRow) /\ Lists(p) /\ Marked(p)
    /\ p.all_modifs = << >>
    /\ \A m \in ToSet(p.cached_inserts) : p.mods[m].model_row = -1

\* The changes that are left when k of them have been put in the cache.
Storing(p, q, k) ==
    /\ IsProxy(q) /\ SameShow(p, q) /\ q.model = p.model /\ q.mods = p.mods
    /\ Lists(q) /\ Len(q.all_modifs) = Len(p.all_modifs) - k
    /\ \A m \in ToSet(q.cached_inserts) : p.mods[m].model_row = -1

\* A RowModif goes from all_modifs to one of the lists of the cache.
LEMMA CachedIs ==
    ASSUME NEW p, NEW k \in Nat, Len(p.all_modifs) \in Nat, k < Len(p.all_modifs),
           NEW q, Storing(p, q, k)
    PROVE  Storing(p, Cached(q), k + 1)
<1> DEFINE m == Head(q.all_modifs)
           r == Cached(q)
           toInserts == [q EXCEPT !.all_modifs = Tail(@), !.cached_inserts = <<m>> \o @]
           toModifs == [q EXCEPT !.all_modifs = Tail(@), !.cached_modifs = <<m>> \o @]
<1>1. IsProxy(q) /\ SameShow(p, q) /\ Lists(q) /\ q.mods = p.mods /\ q.model = p.model
  BY DEF Storing
<1>2. q.all_modifs \in Seq(Modifs) /\ q.all_modifs # << >>
  <2>1. Len(q.all_modifs) # 0
    BY DEF Storing
  <2> QED BY <1>1, <2>1 DEF Lists
<1>3. /\ Tail(q.all_modifs) \in Seq(Modifs) /\ Len(Tail(q.all_modifs)) = Len(q.all_modifs) - 1
      /\ m \in Modifs /\ Once(Tail(q.all_modifs))
      /\ ToSet(Tail(q.all_modifs)) = ToSet(q.all_modifs) \ {m}
      /\ m \in ToSet(q.all_modifs)
  BY <1>1, <1>2, TailIs DEF Lists
<1>4. m \notin ToSet(q.cached_modifs) /\ m \notin ToSet(q.cached_inserts)
  BY <1>1, <1>3 DEF Lists
<1>5. r = IF q.mods[m].model_row = -1 THEN toInserts ELSE toModifs
  BY DEF Cached
<1>6. Len(Tail(q.all_modifs)) = Len(p.all_modifs) - (k + 1)
  BY <1>3 DEF Storing
<1>7. /\ <<m>> \o q.cached_inserts \in Seq(Modifs)
      /\ ToSet(<<m>> \o q.cached_inserts) = ToSet(q.cached_inserts) \cup {m}
      /\ Once(<<m>> \o q.cached_inserts)
      /\ <<m>> \o q.cached_modifs \in Seq(Modifs)
      /\ ToSet(<<m>> \o q.cached_modifs) = ToSet(q.cached_modifs) \cup {m}
      /\ Once(<<m>> \o q.cached_modifs)
  BY <1>1, <1>3, <1>4, PrependIs DEF Lists
<1> HIDE DEF m, r
<1>8. CASE q.mods[m].model_row = -1
  <2>1. /\ IsProxy(toInserts) /\ SameShow(q, toInserts) /\ toInserts.model = q.model
        /\ toInserts.mods = q.mods /\ toInserts.all_modifs = Tail(q.all_modifs)
        /\ toInserts.cached_modifs = q.cached_modifs
        /\ toInserts.cached_inserts = <<m>> \o q.cached_inserts
        /\ toInserts.new_rows = q.new_rows
    BY <1>1 DEF IsProxy, Fields, SameShow, SameOptions
  <2>2. r = toInserts
    BY <1>5, <1>8
  <2> HIDE DEF toInserts
  <2>3. Lists(r)
    BY <1>1, <1>3, <1>7, <2>1, <2>2, ZenonT(40) DEF Lists
  <2>4. SameShow(p, r)
    BY <1>1, <2>1, <2>2 DEF SameShow, SameOptions
  <2>5. \A n \in ToSet(r.cached_inserts) : p.mods[n].model_row = -1
    BY <1>1, <1>7, <1>8, <2>1, <2>2 DEF Storing
  <2> QED BY <1>1, <1>6, <2>1, <2>2, <2>3, <2>4, <2>5 DEF Storing, r
<1>9. CASE q.mods[m].model_row # -1
  <2>1. /\ IsProxy(toModifs) /\ SameShow(q, toModifs) /\ toModifs.model = q.model
        /\ toModifs.mods = q.mods /\ toModifs.all_modifs = Tail(q.all_modifs)
        /\ toModifs.cached_inserts = q.cached_inserts
        /\ toModifs.cached_modifs = <<m>> \o q.cached_modifs
        /\ toModifs.new_rows = q.new_rows
    BY <1>1 DEF IsProxy, Fields, SameShow, SameOptions
  <2>2. r = toModifs
    BY <1>5, <1>9
  <2> HIDE DEF toModifs
  <2>3. Lists(r)
    BY <1>1, <1>3, <1>7, <2>1, <2>2, ZenonT(40) DEF Lists
  <2>4. SameShow(p, r)
    BY <1>1, <2>1, <2>2 DEF SameShow, SameOptions
  <2> QED BY <1>1, <1>6, <2>1, <2>2, <2>3, <2>4 DEF Storing, r
<1> QED BY <1>8, <1>9

\* migrate_current_changes_to_cache()
LEMMA MigrateIs ==
    ASSUME NEW p, Calm(p), IsProxy(p), Edits(p), ShowType(p)
    PROVE  Stored(Migrate(p)) /\ SameShow(p, Migrate(p)) /\ Migrate(p).model = p.model
<1> DEFINE L == Len(p.all_modifs)
<1>1. Lists(p) /\ News(p) /\ Marked(p) /\ p.model \in Seq(ModelRow) /\ p.all_modifs \in Seq(Modifs)
  BY DEF Edits, Lists
<1>2. L \in Nat
  BY <1>1
<1>3. PICK g : /\ g[0] = p /\ AllCached(p) = g[L]
               /\ \A k \in 1 .. L : g[k] = Cached(g[k - 1])
  BY <1>2, CacheSteps
<1> DEFINE B == {k \in 0 .. L : Storing(p, g[k], k)}
<1>4. 0 \in B
  <2>1. Len(p.all_modifs) = Len(p.all_modifs) - 0
    BY <1>2
  <2>2. \A m \in ToSet(p.cached_inserts) : p.mods[m].model_row = -1
    BY <1>1 DEF News
  <2>3. Storing(p, p, 0)
    BY <1>1, <2>1, <2>2 DEF Storing, SameShow, SameOptions
  <2> QED BY <1>2, <1>3, <2>3
<1>5. \A k \in 0 .. L - 1 : k \in B => k + 1 \in B
  <2> SUFFICES ASSUME NEW k \in 0 .. L - 1, k \in B
               PROVE  k + 1 \in B
    OBVIOUS
  <2>1. k \in Nat /\ k < Len(p.all_modifs) /\ k + 1 \in 1 .. L /\ k + 1 - 1 = k /\ k + 1 \in 0 .. L
    BY <1>2
  <2>2. Storing(p, g[k], k)
    OBVIOUS
  <2> HIDE DEF B
  <2>3. g[k + 1] = Cached(g[k])
    BY <1>3, <2>1
  <2>4. Storing(p, Cached(g[k]), k + 1)
    BY <1>2, <2>1, <2>2, CachedIs
  <2> QED BY <2>1, <2>3, <2>4 DEF B
<1> HIDE DEF B
<1>6. Storing(p, g[L], L)
  <2>1. \A k \in 0 .. L : k \in B
    <3> HIDE DEF L
    <3> QED BY <1>2, <1>4, <1>5, Upwards
  <2>2. L \in B
    BY <1>2, <2>1
  <2> QED BY <2>2 DEF B
<1> DEFINE c == AllCached(p)
           q == Migrate(p)
<1>7. /\ IsProxy(c) /\ SameShow(p, c) /\ Lists(c) /\ c.mods = p.mods /\ c.model = p.model
      /\ Len(c.all_modifs) = L - L
      /\ \A m \in ToSet(c.cached_inserts) : p.mods[m].model_row = -1
  BY <1>3, <1>6 DEF Storing
<1>8. c.all_modifs = << >>
  <2>1. c.all_modifs \in Seq(Modifs) /\ Len(c.all_modifs) = 0
    BY <1>2, <1>7 DEF Lists
  <2> QED BY <2>1, EmptySeq
<1>9. q = [c EXCEPT !.new_rows = << >>, !.modify_rows = << >>]
  BY DEF Migrate
<1> HIDE DEF c, q
<1>10. /\ IsProxy(q) /\ SameShow(c, q) /\ q.model = c.model /\ q.mods = c.mods
       /\ q.all_modifs = c.all_modifs /\ q.new_rows = << >>
       /\ q.cached_modifs = c.cached_modifs /\ q.cached_inserts = c.cached_inserts
  BY <1>7, <1>9 DEF IsProxy, Fields, SameShow, SameOptions
<1>11. Lists(q)
  <2>1. << >> \in Seq(Modifs) /\ Once(<< >>)
    BY DEF Once
  <2> QED BY <1>7, <1>10, <2>1 DEF Lists
<1>12. SameShow(p, q)
  BY <1>7, <1>10 DEF SameShow, SameOptions
<1>13. ShowType(q)
  BY <1>12 DEF ShowType, OptionsOK, SameShow, SameOptions
<1>14. Marked(q)
  BY <1>1, <1>7, <1>10 DEF Marked
<1>15. Stored(q)
  <2>1. Calm(q)
    BY <1>12 DEF SameShow, Calm
  <2> QED BY <1>1, <1>7, <1>8, <1>10, <1>11, <1>13, <1>14, <2>1 DEF Stored
<1> QED BY <1>7, <1>10, <1>12, <1>15 DEF q

\* The changes when those of the first k rows have been taken from the cache.
Taking(p, q, k) ==
    /\ IsProxy(q) /\ SameShow(p, q) /\ q.model = p.model /\ Edits(q) /\ q.new_rows = p.new_rows
    /\ \A m \in ToSet(q.all_modifs) : q.mods[m].model_row < k

\* The place of a change for a row with these values.
LEMMA MatchIs ==
    ASSUME NEW q, NEW val, Lists(q)
    PROVE  LET k == Match(q, val)
           IN  k # 0 => k \in 1 .. Len(q.cached_modifs) /\ q.mods[q.cached_modifs[k]].orig = val
<1> DEFINE I == {i \in 1 .. Len(q.cached_modifs) : q.mods[q.cached_modifs[i]].orig = val}
<1>1. Match(q, val) = IF I # {} THEN Min(I) ELSE 0
  BY DEF Match, SelectInSeq
<1>2. q.cached_modifs \in Seq(Modifs) /\ Len(q.cached_modifs) \in Nat
  BY DEF Lists
<1>3. ASSUME I # {} PROVE Min(I) \in I
  <2>1. \E i \in I : \A j \in I : i <= j
    <3>1. I \subseteq Nat /\ I # {}
      BY <1>2, <1>3
    <3> HIDE DEF I
    <3>2. PICK i \in I : \A j \in I : ~(<<j, i>> \in OpToRel(<, Nat))
      BY <3>1, NatLessThanWellFounded, WFMin
    <3>3. \A j \in I : ~(j < i)
      BY <3>1, <3>2 DEF OpToRel
    <3> QED BY <3>1, <3>3
  <2> QED BY <2>1 DEF Min
<1>4. Match(q, val) # 0 => Match(q, val) \in I
  BY <1>1, <1>3
<1> QED BY <1>4

\* A row takes the first change that was made to a row with its values.
LEMMA TakenIs ==
    ASSUME NEW p, NEW row \in Nat \ {0}, NEW q, Taking(p, q, row - 1), row <= Len(q.model)
    PROVE  Taking(p, Taken(q, row), row)
<1> DEFINE new == q.model[row]
           k == Match(q, new.val)
           m == q.cached_modifs[k]
           r == [q EXCEPT !.cached_modifs = Fetched(q, m), !.all_modifs = <<m>> \o @,
                          !.mods[m].model_row = row - 1, !.mods[m].id = new.id,
                          !.modify_rows = With(@, row - 1, m)]
<1>1. /\ IsProxy(q) /\ SameShow(p, q) /\ q.model = p.model /\ Edits(q) /\ q.new_rows = p.new_rows
      /\ \A n \in ToSet(q.all_modifs) : q.mods[n].model_row < row - 1
  BY DEF Taking
<1>2. /\ Lists(q) /\ News(q) /\ Keyed(q) /\ OfTheirRow(q) /\ Marked(q) /\ q.model \in Seq(ModelRow)
  BY <1>1 DEF Edits
<1>3. /\ \A n \in ToSet(q.all_modifs) : n \in Modifs /\ q.mods[n].model_row \in Int /\ n \in DOMAIN q.mods
      /\ row - 1 \in Nat /\ row - 1 \in Int /\ row - 1 # -1 /\ row \in 1 .. Len(q.model)
  <2>1. \A n \in ToSet(q.all_modifs) : n \in Modifs /\ q.mods[n].model_row \in Int /\ n \in DOMAIN q.mods
    BY <1>2, ListedIs
  <2>2. Len(q.model) \in Nat
    BY <1>2
  <2> QED BY <2>1, <2>2
<1>4. Taken(q, row) = IF k = 0 THEN q ELSE r
  BY DEF Taken
<1>5. k # 0 => k \in 1 .. Len(q.cached_modifs) /\ q.mods[m].orig = new.val
  BY <1>2, MatchIs
<1>6. new \in ModelRow
  BY <1>2, <1>3
<1> HIDE DEF k, r, new
<1>7. CASE k = 0
  <2>1. \A n \in ToSet(q.all_modifs) : q.mods[n].model_row < row
    BY <1>1, <1>3
  <2> QED BY <1>1, <1>4, <1>7, <2>1 DEF Taking
<1>8. CASE k # 0
  <2>1. q.cached_modifs \in Seq(Modifs)
    BY <1>2 DEF Lists
  <2>2. m \in ToSet(q.cached_modifs) /\ m \in Modifs /\ q.mods[m].orig = new.val
    BY <1>5, <1>8, <2>1 DEF ToSet
  <2> HIDE DEF m
  <2>3. /\ m \in DOMAIN q.mods /\ m \notin ToSet(q.all_modifs) /\ m \notin ToSet(q.cached_inserts)
        /\ q.mods[m] \in RowModif
    BY <1>2, <2>2 DEF Lists
  <2> DEFINE fetched == RemoveFirst(q.cached_modifs, m)
             all == <<m>> \o q.all_modifs
             rm == [q.mods[m] EXCEPT !.model_row = row - 1, !.id = new.id]
             mods == [n \in DOMAIN q.mods |-> IF n = m THEN rm ELSE q.mods[n]]
             keys == With(q.modify_rows, row - 1, m)
  <2>4. fetched \in Seq(Modifs) /\ Once(fetched) /\ ToSet(fetched) = ToSet(q.cached_modifs) \ {m}
    BY <1>2, <2>1, RemoveFirstIs DEF Lists
  <2>5. all \in Seq(Modifs) /\ ToSet(all) = ToSet(q.all_modifs) \cup {m} /\ Once(all)
    BY <1>2, <2>2, <2>3, PrependIs DEF Lists
  <2>6. /\ rm \in RowModif /\ rm.model_row = row - 1 /\ rm.id = new.id /\ rm.orig = new.val
    BY <1>3, <1>6, <2>2, <2>3 DEF RowModif, ModelRow
  <2>7. /\ DOMAIN mods = DOMAIN q.mods /\ mods = [n \in DOMAIN mods |-> mods[n]] /\ mods[m] = rm
        /\ \A n \in DOMAIN q.mods : n # m => mods[n] = q.mods[n]
    BY <2>3
  <2>8. /\ IsProxy(r) /\ SameShow(q, r) /\ r.model = q.model /\ r.new_rows = q.new_rows
        /\ r.cached_inserts = q.cached_inserts /\ r.cached_modifs = fetched /\ r.all_modifs = all
        /\ r.mods = mods /\ r.modify_rows = keys
    <3> DEFINE half == [q.mods EXCEPT ![m].model_row = row - 1]
    <3>1. q.mods = [n \in DOMAIN q.mods |-> q.mods[n]]
      BY <1>2 DEF Lists
    <3>2. half = [n \in DOMAIN q.mods |-> IF n = m THEN [q.mods[m] EXCEPT !.model_row = row - 1] ELSE q.mods[n]]
      BY <2>3
    <3>3. [half EXCEPT ![m].id = new.id] = mods
      BY <2>3, <3>1, <3>2
    <3>4. r.mods = [half EXCEPT ![m].id = new.id]
      BY <1>1 DEF r, IsProxy, Fields
    <3> HIDE DEF mods, rm, half, all, keys, fetched
    <3>5. r.mods = mods
      BY <3>3, <3>4
    <3> DEFINE u == [q EXCEPT !.cached_modifs = fetched, !.all_modifs = all, !.mods = mods,
                              !.modify_rows = keys]
    <3>6. r = u
      <4> DEFINE w == [q EXCEPT !.cached_modifs = fetched, !.all_modifs = all]
                 x == [w EXCEPT !.mods[m].model_row = row - 1]
                 y == [x EXCEPT !.mods[m].id = new.id]
      <4>1. IsProxy(w) /\ w.mods = q.mods
        BY <1>1 DEF IsProxy, Fields
      <4>2. r = [y EXCEPT !.modify_rows = keys]
        <5>1. y.modify_rows = q.modify_rows
          BY <1>1 DEF IsProxy, Fields
        <5> QED BY <1>1, <5>1 DEF r, fetched, all, keys, Fetched, IsProxy, Fields
      <4>3. u = [[w EXCEPT !.mods = mods] EXCEPT !.modify_rows = keys]
        BY <1>1 DEF IsProxy, Fields
      <4> HIDE DEF w
      <4>4. x = [w EXCEPT !.mods = half]
        BY <4>1 DEF half, IsProxy, Fields
      <4>5. IsProxy(x) /\ x.mods = half
        BY <4>1, <4>4 DEF IsProxy, Fields
      <4> HIDE DEF x
      <4>6. y = [x EXCEPT !.mods = mods]
        BY <3>3, <4>5 DEF IsProxy, Fields
      <4>7. y = [w EXCEPT !.mods = mods]
        BY <4>1, <4>4, <4>6 DEF IsProxy, Fields
      <4> QED BY <4>2, <4>3, <4>7
    <3>7. /\ IsProxy(u) /\ SameShow(q, u) /\ u.model = q.model /\ u.new_rows = q.new_rows
          /\ u.cached_inserts = q.cached_inserts
          /\ u.cached_modifs = fetched /\ u.all_modifs = all /\ u.modify_rows = keys
      BY <1>1 DEF IsProxy, Fields, SameShow, SameOptions
    <3> QED BY <3>5, <3>6, <3>7
  <2>9. /\ DOMAIN keys = DOMAIN q.modify_rows \cup {row - 1} /\ keys[row - 1] = m
        /\ keys = [x \in DOMAIN keys |-> keys[x]]
        /\ \A x \in DOMAIN q.modify_rows : x # row - 1 => keys[x] = q.modify_rows[x]
    BY DEF With
  <2> HIDE DEF fetched, all, rm, mods, keys, r
  <2>10. Lists(r)
    <3>1. \A n \in DOMAIN r.mods : r.mods[n] \in RowModif
      BY <1>2, <2>6, <2>7, <2>8 DEF Lists
    <3>2. DOMAIN r.mods = ToSet(all) \cup ToSet(fetched) \cup ToSet(q.cached_inserts)
      BY <1>2, <2>2, <2>4, <2>5, <2>7, <2>8 DEF Lists
    <3>3. /\ ToSet(all) \cap ToSet(fetched) = {} /\ ToSet(all) \cap ToSet(q.cached_inserts) = {}
          /\ ToSet(fetched) \cap ToSet(q.cached_inserts) = {}
      BY <1>2, <2>3, <2>4, <2>5 DEF Lists
    <3> QED BY <1>2, <2>4, <2>5, <2>7, <2>8, <3>1, <3>2, <3>3 DEF Lists
  <2>11. \A n \in ToSet(q.all_modifs) : n # m /\ r.mods[n] = q.mods[n]
    BY <1>3, <2>3, <2>7, <2>8
  <2>12. r.mods[m].model_row = row - 1
    BY <2>6, <2>7, <2>8
  <2>13. News(r)
    <3>1. ToSet(r.new_rows) = {n \in ToSet(r.all_modifs) : r.mods[n].model_row = -1}
      BY <1>2, <1>3, <2>5, <2>8, <2>11, <2>12 DEF News
    <3>2. \A n \in ToSet(r.cached_inserts) : r.mods[n].model_row = -1
      BY <1>2, <2>3, <2>7, <2>8, <2>10 DEF News, Lists
    <3> QED BY <3>1, <3>2 DEF News
  <2>14. Keyed(r)
    <3>1. ASSUME NEW x \in DOMAIN keys
          PROVE  x \in Nat /\ keys[x] \in ToSet(r.all_modifs) /\ r.mods[keys[x]].model_row = x
      <4>1. CASE x = row - 1
        BY <1>3, <2>5, <2>8, <2>9, <2>12, <4>1
      <4>2. CASE x # row - 1
        BY <1>2, <2>5, <2>8, <2>9, <2>11, <4>2, SMTT(30) DEF Keyed
      <4> QED BY <4>1, <4>2
    <3> QED BY <2>8, <2>9, <3>1 DEF Keyed
  <2>15. OfTheirRow(r)
    <3>0. row - 1 + 1 = row /\ row - 1 \in -1 .. Len(q.model) - 1
      BY <1>3
    <3>1. ASSUME NEW n \in ToSet(r.all_modifs)
          PROVE  /\ r.mods[n].model_row \in -1 .. Len(r.model) - 1
                 /\ r.mods[n].model_row >= 0 =>
                      /\ r.model[r.mods[n].model_row + 1].id = r.mods[n].id
                      /\ r.model[r.mods[n].model_row + 1].val = r.mods[n].orig
                      /\ \A l \in ToSet(r.all_modifs) :
                            r.mods[l].model_row = r.mods[n].model_row => l = n
      <4>1. CASE n = m
        <5>1. \A l \in ToSet(q.all_modifs) : r.mods[l].model_row # row - 1
          BY <1>1, <1>3, <2>11
        <5>2. r.model[r.mods[n].model_row + 1] = new
          BY <2>8, <2>12, <3>0, <4>1 DEF new
        <5>3. r.mods[n].model_row = row - 1 /\ r.mods[n].id = new.id /\ r.mods[n].orig = new.val
          BY <2>6, <2>7, <2>8, <4>1
        <5>4. \A l \in ToSet(r.all_modifs) : r.mods[l].model_row = r.mods[n].model_row => l = n
          BY <2>5, <2>8, <4>1, <5>1, <5>3
        <5> HIDE DEF new
        <5> QED BY <2>8, <3>0, <5>2, <5>3, <5>4
      <4>2. CASE n \in ToSet(q.all_modifs)
        <5>1. r.mods[n] = q.mods[n] /\ q.mods[n].model_row \in Int /\ q.mods[n].model_row < row - 1
          BY <1>1, <1>3, <2>11, <4>2
        <5>2. r.mods[n].model_row # row - 1
          BY <1>3, <5>1
        <5>3. \A l \in ToSet(r.all_modifs) : r.mods[n].model_row >= 0 /\
                 r.mods[l].model_row = r.mods[n].model_row => l = n
          BY <1>2, <2>5, <2>8, <2>11, <2>12, <4>2, <5>1, <5>2 DEF OfTheirRow
        <5> QED BY <1>2, <2>8, <4>2, <5>1, <5>3 DEF OfTheirRow
      <4> QED BY <2>5, <2>8, <4>1, <4>2
    <3> QED BY <3>1 DEF OfTheirRow
  <2>16. Marked(r)
    BY <1>2, <1>3, <2>7, <2>8, <2>12 DEF Marked
  <2>17. \A n \in ToSet(r.all_modifs) : r.mods[n].model_row < row
    BY <1>1, <1>3, <2>5, <2>8, <2>11, <2>12
  <2>18. Edits(r)
    BY <1>2, <2>8, <2>10, <2>13, <2>14, <2>15, <2>16 DEF Edits
  <2>19. SameShow(p, r)
    BY <1>1, <2>8 DEF SameShow, SameOptions
  <2> QED BY <1>1, <1>4, <1>8, <2>8, <2>17, <2>18, <2>19 DEF Taking
<1> QED BY <1>7, <1>8

\* The changes are all in the cache, and nothing is found by its row.
LEMMA StoredEdits ==
    ASSUME NEW p, Stored(p), p.modify_rows = << >>, p.new_rows = << >>
    PROVE  Edits(p)
<1>1. ToSet(p.all_modifs) = {} /\ ToSet(p.new_rows) = {}
  BY DEF Stored, ToSet
<1>2. News(p)
  BY <1>1 DEF Stored, News
<1>3. Keyed(p)
  BY DEF Keyed
<1>4. OfTheirRow(p)
  BY <1>1 DEF OfTheirRow
<1> QED BY <1>2, <1>3, <1>4 DEF Stored, Edits

\* fetch_current_cached_changes()
LEMMA FetchIs ==
    ASSUME NEW p, Stored(p), p.modify_rows = << >>, p.new_rows = << >>
    PROVE  LET q == Fetch(p)
           IN  IsProxy(q) /\ SameShow(p, q) /\ q.model = p.model /\ Edits(q)
<1> DEFINE s == [p EXCEPT !.all_modifs = Reverse(p.cached_inserts) \o @,
                          !.new_rows = @ \o p.cached_inserts, !.cached_inserts = << >>]
           L == Len(p.model)
<1>1. IsProxy(p) /\ Edits(p) /\ Lists(p) /\ Marked(p) /\ News(p) /\ p.model \in Seq(ModelRow)
  BY StoredEdits DEF Stored, Edits
<1>2. /\ p.cached_inserts \in Seq(Modifs) /\ Once(p.cached_inserts) /\ p.all_modifs = << >>
      /\ << >> \in Seq(Modifs) /\ L \in Nat
  BY <1>1 DEF Lists, Stored
<1>3. /\ Reverse(p.cached_inserts) \in Seq(Modifs)
      /\ ToSet(Reverse(p.cached_inserts)) = ToSet(p.cached_inserts)
      /\ Once(Reverse(p.cached_inserts))
  BY <1>2, ReverseIs
<1>4. /\ Reverse(p.cached_inserts) \o << >> = Reverse(p.cached_inserts)
      /\ << >> \o p.cached_inserts = p.cached_inserts
  BY <1>2, <1>3, ConcatEmptySeq
<1>5. /\ IsProxy(s) /\ SameShow(p, s) /\ s.model = p.model /\ s.mods = p.mods
      /\ s.all_modifs = Reverse(p.cached_inserts) /\ s.new_rows = p.cached_inserts
      /\ s.cached_inserts = << >> /\ s.cached_modifs = p.cached_modifs
      /\ s.modify_rows = p.modify_rows
  BY <1>1, <1>2, <1>4 DEF IsProxy, Fields, SameShow, SameOptions
<1>6. Fetch(p) = AllTaken(s)
  BY DEF Fetch
<1> HIDE DEF s
<1>7. ToSet(<< >>) = {} /\ Once(<< >>)
  BY DEF ToSet, Once
<1>8. Lists(s)
  <2>1. ToSet(p.all_modifs) = {}
    BY <1>2, <1>7
  <2> QED BY <1>1, <1>2, <1>3, <1>5, <1>7, <2>1 DEF Lists
<1>9. \A m \in ToSet(s.all_modifs) : s.mods[m].model_row = -1
  BY <1>3, <1>5 DEF Stored
<1>10. News(s)
  BY <1>3, <1>5, <1>7, <1>9 DEF News
<1>11. Keyed(s)
  BY <1>5 DEF Keyed
<1>12. OfTheirRow(s)
  <2>1. Len(s.model) \in Nat
    BY <1>2, <1>5
  <2>2. -1 \in -1 .. Len(s.model) - 1 /\ ~(-1 >= 0)
    BY <2>1
  <2> QED BY <1>9, <2>2 DEF OfTheirRow
<1>13. Marked(s)
  BY <1>1, <1>5 DEF Marked
<1>14. Edits(s)
  BY <1>1, <1>5, <1>8, <1>10, <1>11, <1>12, <1>13 DEF Edits
<1>15. Taking(s, s, 0)
  <2>1. \A m \in ToSet(s.all_modifs) : s.mods[m].model_row < 0
    BY <1>9
  <2> QED BY <1>5, <1>14, <2>1 DEF Taking, SameShow, SameOptions
<1>16. PICK g : /\ g[0] = s /\ AllTaken(s) = g[L]
                /\ \A k \in 1 .. L : g[k] = Taken(g[k - 1], k)
  BY <1>2, <1>5, TakeSteps
<1> DEFINE B == {k \in 0 .. L : Taking(s, g[k], k)}
<1>17. 0 \in B
  BY <1>2, <1>15, <1>16
<1>18. \A k \in 0 .. L - 1 : k \in B => k + 1 \in B
  <2> SUFFICES ASSUME NEW k \in 0 .. L - 1, k \in B
               PROVE  k + 1 \in B
    OBVIOUS
  <2>1. /\ k + 1 \in Nat \ {0} /\ k + 1 \in 1 .. L /\ k + 1 - 1 = k /\ k + 1 \in 0 .. L
        /\ k + 1 <= L
    BY <1>2
  <2>2. Taking(s, g[k], k)
    OBVIOUS
  <2> HIDE DEF B
  <2>3. g[k + 1] = Taken(g[k], k + 1)
    BY <1>16, <2>1
  <2>4. Len(g[k].model) = L
    BY <1>5, <2>2 DEF Taking
  <2>5. k + 1 <= Len(g[k].model) /\ Taking(s, g[k], (k + 1) - 1)
    BY <2>1, <2>2, <2>4
  <2>6. Taking(s, Taken(g[k], k + 1), k + 1)
    BY <2>1, <2>5, TakenIs
  <2> QED BY <2>1, <2>3, <2>6 DEF B
<1> HIDE DEF B
<1>19. Taking(s, g[L], L)
  <2>1. \A k \in 0 .. L : k \in B
    <3> HIDE DEF L
    <3> QED BY <1>2, <1>17, <1>18, Upwards
  <2>2. L \in B
    BY <1>2, <2>1
  <2> QED BY <2>2 DEF B
<1> DEFINE q == Fetch(p)
<1>20. Taking(s, q, L)
  BY <1>6, <1>16, <1>19
<1> HIDE DEF q
<1>21. IsProxy(q) /\ SameShow(p, q) /\ q.model = p.model /\ Edits(q)
  BY <1>5, <1>20 DEF Taking, SameShow, SameOptions
<1> QED BY <1>21 DEF q

\* A proxy without changes, but for those of the cache.
LEMMA StoredIs ==
    ASSUME NEW p, Sound(p), p.all_modifs = << >>
    PROVE  Stored(p)
  BY DEF Sound, Stored, Edits, News

\* clean_proxy() and do_init()
LEMMA RenewIs ==
    ASSUME NEW p, Sound(p) \/ Stored(p), NEW model \in Seq(ModelRow)
    PROVE  Sound(Renew(p, model))
<1> DEFINE q == CancelAll(EnsureSync(p))
           r == IF p.all_modifs = << >> THEN p ELSE q
           s == [r EXCEPT !.model = model, !.modify_rows = << >>, !.new_rows = << >>,
                          !.chunk = NoChunk, !.chunk_to = NoChunk, !.chunk_sync_idle_id = FALSE,
                          !.sample_size = 0, !.sample_first_row = 0]
           t == IF p.cache_changes THEN Fetch(s) ELSE s
           u == [t EXCEPT !.told = NRows(t)]
<1>1. Renew(p, model) = u
  BY DEF Renew
<1>2. Stored(r)
  <2>1. CASE p.all_modifs = << >>
    BY <2>1, StoredIs
  <2>2. CASE p.all_modifs # << >>
    <3>1. Sound(p)
      BY <2>2 DEF Stored
    <3>2. Sound(EnsureSync(p)) /\ Settled(EnsureSync(p))
      BY <3>1, EnsureSyncIs
    <3> HIDE DEF q
    <3>3. Sound(q) /\ q.all_modifs = << >>
      BY <3>2, CancelAllIs DEF q
    <3> QED BY <2>2, <3>3, StoredIs
  <2> QED BY <2>1, <2>2
<1> HIDE DEF q, r
<1>3. /\ Calm(r) /\ IsProxy(r) /\ ShowType(r) /\ Lists(r) /\ Marked(r) /\ r.all_modifs = << >>
      /\ \A m \in ToSet(r.cached_inserts) : r.mods[m].model_row = -1
  BY <1>2 DEF Stored
<1>4. /\ IsProxy(s) /\ s.model = model /\ s.modify_rows = << >> /\ s.new_rows = << >>
      /\ s.chunk = NoChunk /\ s.chunk_to = NoChunk /\ s.chunk_sync_idle_id = FALSE
      /\ s.sample_size = 0 /\ s.sample_first_row = 0 /\ s.mods = r.mods
      /\ s.all_modifs = r.all_modifs /\ s.cached_modifs = r.cached_modifs
      /\ s.cached_inserts = r.cached_inserts /\ s.cache_changes = r.cache_changes
      /\ s.add_null_entry = r.add_null_entry /\ s.defer_sync = r.defer_sync
      /\ s.chunk_sep = r.chunk_sep /\ s.chunk_proxy_nb_rows = r.chunk_proxy_nb_rows
      /\ s.told = r.told /\ s.faults = r.faults
  BY <1>3 DEF IsProxy, Fields
<1> HIDE DEF s
<1>5. ShowType(s)
  <2>1. s.chunk_sync_idle_id \in BOOLEAN /\ s.sample_size \in Nat /\ s.sample_first_row \in Int
    <3>1. s.chunk_sync_idle_id \in {TRUE, FALSE}
      BY <1>4, Zenon
    <3>2. s.sample_size \in Nat /\ s.sample_first_row \in Int
      BY <1>4
    <3>3. BOOLEAN = {TRUE, FALSE}
      OBVIOUS
    <3> QED BY <3>1, <3>2, <3>3
  <2>2. /\ s.add_null_entry \in BOOLEAN /\ s.defer_sync \in BOOLEAN /\ s.cache_changes \in BOOLEAN
        /\ s.chunk_sep \in Int /\ s.chunk_proxy_nb_rows \in Int /\ s.told \in Int
    BY <1>3, <1>4 DEF ShowType, OptionsOK
  <2>3. OptionsOK(s)
    BY <2>1, <2>2 DEF OptionsOK
  <2> QED BY <1>4, <2>2, <2>3 DEF ShowType
<1>6. Lists(s)
  <2>1. << >> \in Seq(Modifs) /\ Once(<< >>)
    BY DEF Once
  <2> QED BY <1>3, <1>4, <2>1 DEF Lists
<1>7. Marked(s)
  BY <1>3, <1>4 DEF Marked
<1>8. Stored(s)
  BY <1>3, <1>4, <1>5, <1>6, <1>7 DEF Stored, Calm
<1>9. IsProxy(t) /\ SameShow(s, t) /\ t.model = s.model /\ Edits(t)
  <2>1. CASE p.cache_changes
    BY <1>4, <1>8, <2>1, FetchIs
  <2>2. CASE ~p.cache_changes
    BY <1>4, <1>8, <2>2, StoredEdits DEF SameShow, SameOptions
  <2> QED BY <2>1, <2>2
<1> HIDE DEF t
<1>10. ShowType(t)
  BY <1>5, <1>9 DEF ShowType, OptionsOK, SameShow, SameOptions
<1>11. t.model \in Seq(ModelRow) /\ t.new_rows \in Seq(Modifs) /\ t.chunk = NoChunk /\ t.chunk_to = NoChunk
  BY <1>4, <1>9 DEF Edits, Lists, SameShow
<1>12. NRows(t) \in Int
  BY <1>10, <1>11, NRowsIs
<1>13. NRows(t) = Offset(t) + (NbRows(t) + Len(t.new_rows))
  BY <1>11, ChunkIs DEF NRows
<1>14. /\ IsProxy(u) /\ SameEdits(t, u) /\ SameOptions(t, u) /\ u.told = NRows(t)
       /\ u.chunk = NoChunk /\ u.chunk_to = NoChunk /\ u.chunk_sync_idle_id = FALSE
       /\ u.sample_first_row = 0 /\ u.faults = s.faults
       /\ u.chunk_sep = t.chunk_sep /\ u.chunk_proxy_nb_rows = t.chunk_proxy_nb_rows
  BY <1>4, <1>9, <1>11 DEF IsProxy, Fields, SameEdits, SameShow, SameOptions
<1> HIDE DEF u
<1>15. Edits(u)
  BY <1>9, <1>14, SameEditsIs
<1>16. ShowType(u)
  BY <1>10, <1>12, <1>14 DEF ShowType, OptionsOK, SameOptions
<1>17. Shape(u)
  BY <1>14 DEF Shape, Settled
<1>18. Told(u)
  BY <1>13, <1>14 DEF Told, Count, Settled, Offset, NbRows, SameEdits, SameOptions
<1>19. Calm(u)
  BY <1>3, <1>4, <1>14 DEF Calm
<1> QED BY <1>1, <1>14, <1>15, <1>16, <1>17, <1>18, <1>19 DEF Sound

-----------------------------------------------------------------------------
(* The invariant.                                                          *)

\* A row -1 is not shown.
NoMinus(p) == p.chunk # NoChunk => -1 \notin ToSet(p.chunk)
Kept(p) ==
    /\ IsProxy(p) /\ Edits(p) /\ ShowType(p)
    /\ p.faults = {} => Whole(p) /\ Shape(p) /\ Told(p) /\ NoMinus(p)
Inv == Kept(proxy)

\* While the proxy runs everything about it is sound.
LEMMA RunningIsSound ==
    ASSUME NEW p, Kept(p), p.faults = {}
    PROVE  Sound(p) /\ Whole(p) /\ NoMinus(p)
  BY DEF Kept, Sound, Calm

\* What is broken is among the faults.
LEMMA BrokenIs ==
    ASSUME NEW p, ShowType(p), Broken(p) = {}
    PROVE  Whole(p) /\ NoMinus(p)
<1>1. ~\E m \in ToSet(p.all_modifs) : p.mods[m].model_row >= 0 /\ ~KeyOf(p, m)
  BY DEF Broken
<1>2. ~(HasMapping(p.chunk) /\ Contains(p.chunk, -1))
  BY DEF Broken
<1>3. ASSUME p.chunk # NoChunk PROVE -1 \notin ToSet(p.chunk)
  <2>1. p.chunk \in Seq(Int)
    BY <1>3 DEF ShowType
  <2>2. HasMapping(p.chunk) /\ (Contains(p.chunk, -1) <=> -1 \in ToSet(p.chunk))
    BY <2>1, ChunkIs, PositionIs
  <2> QED BY <1>2, <2>2
<1> QED BY <1>1, <1>3 DEF Whole, NoMinus

\* The same state with other faults.
LEMMA OtherFaults ==
    ASSUME NEW p, NEW f, IsProxy(p), Edits(p), ShowType(p)
    PROVE  LET q == [p EXCEPT !.faults = f]
           IN  /\ IsProxy(q) /\ Edits(q) /\ ShowType(q) /\ q.faults = f
               /\ SameEdits(p, q) /\ SameOptions(p, q)
               /\ Whole(p) => Whole(q)
               /\ Shape(p) => Shape(q)
               /\ Told(p) => Told(q)
               /\ NoMinus(p) => NoMinus(q)
               /\ Settled(q) <=> Settled(p)
<1> DEFINE q == [p EXCEPT !.faults = f]
<1>1. /\ IsProxy(q) /\ SameEdits(p, q) /\ SameOptions(p, q) /\ q.faults = f
      /\ q.chunk = p.chunk /\ q.chunk_to = p.chunk_to /\ q.chunk_sep = p.chunk_sep
      /\ q.chunk_proxy_nb_rows = p.chunk_proxy_nb_rows
      /\ q.chunk_sync_idle_id = p.chunk_sync_idle_id /\ q.told = p.told
  BY DEF IsProxy, Fields, SameEdits, SameOptions
<1> HIDE DEF q
<1>2. Edits(q)
  BY <1>1, SameEditsIs
<1>3. ShowType(q)
  BY <1>1 DEF ShowType, OptionsOK, SameOptions
<1>4. Whole(p) => Whole(q)
  BY <1>1 DEF Whole, KeyOf, SameEdits
<1>5. NbRows(q) = NbRows(p) /\ Offset(q) = Offset(p) /\ q.new_rows = p.new_rows
  BY <1>1 DEF NbRows, Offset, SameEdits, SameOptions
<1>6. Settled(q) <=> Settled(p)
  BY <1>1 DEF Settled
<1>7. Shape(p) => Shape(q)
  BY <1>1, <1>5, <1>6 DEF Shape, Mapped, Under, Begun, Fresh, SameOptions
<1>8. Told(p) => Told(q)
  BY <1>1, <1>5, <1>6 DEF Told, Count
<1>9. NoMinus(p) => NoMinus(q)
  BY <1>1 DEF NoMinus
<1> QED BY <1>1, <1>2, <1>3, <1>4, <1>6, <1>7, <1>8, <1>9 DEF q

\* A step to a state that is sound.
LEMMA BecomesIs ==
    ASSUME NEW p, IsProxy(p), Edits(p), ShowType(p), p.faults = {} => Shape(p) /\ Told(p), Becomes(p)
    PROVE  Kept(proxy') /\ (Calm(p) => Calm(proxy'))
<1> DEFINE q == [p EXCEPT !.faults = p.faults \cup Broken(p)]
<1>1. proxy' = q
  BY DEF Becomes
<1>2. /\ IsProxy(q) /\ Edits(q) /\ ShowType(q) /\ q.faults = p.faults \cup Broken(p)
      /\ Whole(p) => Whole(q)
      /\ Shape(p) => Shape(q)
      /\ Told(p) => Told(q)
      /\ NoMinus(p) => NoMinus(q)
  BY OtherFaults
<1> HIDE DEF q
<1>3. ASSUME q.faults = {} PROVE p.faults = {} /\ Broken(p) = {}
  BY <1>2, <1>3
<1>4. q.faults = {} => Whole(q) /\ Shape(q) /\ Told(q) /\ NoMinus(q)
  BY <1>2, <1>3, BrokenIs
<1>5. Calm(p) => Calm(q)
  <2>1. "crash" # "lost entry" /\ "crash" # "no row"
    OBVIOUS
  <2>2. \A f \in Broken(p) : f = "lost entry" \/ f = "no row"
    BY Zenon DEF Broken
  <2>3. "crash" \in p.faults \cup Broken(p) => "crash" \in p.faults
    BY <2>1, <2>2, Zenon
  <2> QED BY <1>2, <2>3, Zenon DEF Calm
<1> QED BY <1>1, <1>2, <1>4, <1>5 DEF Kept

\* What is said of each step: the invariant holds again, and nothing has failed unless a
\* synchronisation was under way.
StepIsGood == Inv' /\ (Settled(proxy) => Calm(proxy'))

\* What a method leaves sound is kept as such by the step.
LEMMA BecomesSound ==
    ASSUME NEW p, Sound(p), Becomes(p)
    PROVE  StepIsGood
  BY BecomesIs DEF Sound, Inv, StepIsGood

\* A pointer or an assertion fails.
LEMMA CrashIs ==
    ASSUME Inv, Crashes
    PROVE  Inv'
<1> DEFINE q == [proxy EXCEPT !.faults = {"crash"}]
<1>1. proxy' = q
  BY DEF Crashes
<1>2. IsProxy(proxy) /\ Edits(proxy) /\ ShowType(proxy)
  BY DEF Inv, Kept
<1>3. IsProxy(q) /\ Edits(q) /\ ShowType(q) /\ q.faults = {"crash"}
  BY <1>2, OtherFaults
<1> HIDE DEF q
<1>4. q.faults # {}
  BY <1>3
<1> QED BY <1>1, <1>3, <1>4 DEF Inv, Kept

\* A change of the rows by others, where the state it leads to may not be sound while a
\* synchronisation is under way.
LEMMA BecomesMovedIs ==
    ASSUME NEW p, IsProxy(p), Edits(p), ShowType(p), Settled(proxy) => Sound(p), BecomesMoved(p)
    PROVE  StepIsGood
<1>1. CASE Settled(proxy)
  <2>1. Becomes(p) /\ Sound(p)
    BY <1>1 DEF BecomesMoved
  <2> QED BY <2>1, BecomesSound
<1>2. CASE ~Settled(proxy)
  <2> DEFINE q == [p EXCEPT !.faults = p.faults \cup {"moved while syncing"}]
  <2>1. Becomes(q)
    BY <1>2 DEF BecomesMoved
  <2>2. /\ IsProxy(q) /\ Edits(q) /\ ShowType(q) /\ q.faults = p.faults \cup {"moved while syncing"}
    BY OtherFaults
  <2> HIDE DEF q
  <2>3. q.faults # {}
    BY <2>2
  <2> QED BY <1>2, <2>1, <2>2, <2>3, BecomesIs DEF Inv, StepIsGood
<1> QED BY <1>1, <1>2

-----------------------------------------------------------------------------
(* The initial state, the rows of another model, the properties.           *)

\* The elements of a finite set, in some order.
LEMMA SetToSeqIs ==
    ASSUME NEW S, IsFiniteSet(S)
    PROVE  Cardinality(S) \in Nat /\ SetToSeq(S) \in [1 .. Cardinality(S) -> S]
<1>1. Cardinality(S) \in Nat /\ ExistsBijection(1 .. Cardinality(S), S)
  BY FS_CardinalityType
<1>2. PICK f \in [1 .. Cardinality(S) -> S] : IsInjective(f)
  BY <1>1 DEF ExistsBijection, Bijection, Injection
<1> QED BY <1>1, <1>2 DEF SetToSeq

\* Rows with identities from a finite set.
LEMMA RowsWithIds ==
    ASSUME NEW S \in SUBSET Ids, NEW n \in Nat, n <= Cardinality(S), NEW val \in [1 .. n -> Row]
    PROVE  [k \in 1 .. n |-> [id |-> SetToSeq(S)[k], val |-> val[k]]] \in Seq(ModelRow)
<1> DEFINE rows == [k \in 1 .. n |-> [id |-> SetToSeq(S)[k], val |-> val[k]]]
<1>1. IsFiniteSet(S)
  BY ProxyAssumption, FS_Subset
<1>2. Cardinality(S) \in Nat /\ SetToSeq(S) \in [1 .. Cardinality(S) -> S]
  BY <1>1, SetToSeqIs
<1>3. \A k \in 1 .. n : k \in 1 .. Cardinality(S) /\ SetToSeq(S)[k] \in Ids
  BY <1>2
<1>4. \A k \in 1 .. n : rows[k] \in ModelRow
  BY <1>3 DEF ModelRow
<1>5. rows = [k \in 1 .. n |-> rows[k]]
  OBVIOUS
<1> HIDE DEF rows
<1>6. rows \in Seq(ModelRow)
  BY <1>4, <1>5
<1> QED BY <1>6 DEF rows

\* The rows there are when the model is replaced.
LEMMA RenewedIs ==
    ASSUME NEW p, p.model \in Seq(ModelRow),
           Cardinality(Ids \ {p.mods[m].id : m \in DOMAIN p.mods}) >= NbRows(p)
    PROVE  \A model \in Renewed(p) : model \in Seq(ModelRow)
<1> DEFINE S == Ids \ {p.mods[m].id : m \in DOMAIN p.mods}
           rows == {p.model[k].val : k \in DOMAIN p.model} \cup Contents
<1>1. rows \subseteq Row
  <2>1. Contents \subseteq Row
    BY DEF Contents, Row
  <2>2. \A k \in DOMAIN p.model : p.model[k] \in ModelRow
    OBVIOUS
  <2>3. \A k \in DOMAIN p.model : p.model[k].val \in Row
    BY <2>2 DEF ModelRow
  <2> QED BY <2>1, <2>3
<1>2. NbRows(p) \in Nat /\ IsFiniteSet(S) /\ S \in SUBSET Ids
  BY ProxyAssumption, FS_Subset DEF NbRows
<1>3. Cardinality(S) \in Nat
  BY <1>2, SetToSeqIs
<1> SUFFICES ASSUME NEW model \in Renewed(p)
             PROVE  model \in Seq(ModelRow)
  OBVIOUS
<1> HIDE DEF S, rows
<1>4. PICK val \in UNION {[1 .. n -> rows] : n \in 0 .. NbRows(p)} :
         model = [k \in DOMAIN val |-> [id |-> SetToSeq(S)[k], val |-> val[k]]]
  BY DEF Renewed, S, rows
<1>5. PICK n \in 0 .. NbRows(p) : val \in [1 .. n -> rows]
  OBVIOUS
<1>6. val \in [1 .. n -> Row] /\ DOMAIN val = 1 .. n
  BY <1>1, <1>5
<1>7. n \in Nat /\ n <= Cardinality(S)
  BY <1>2, <1>3 DEF S
<1>8. [k \in 1 .. n |-> [id |-> SetToSeq(S)[k], val |-> val[k]]] \in Seq(ModelRow)
  BY <1>2, <1>6, <1>7, RowsWithIds
<1> QED BY <1>4, <1>6, <1>8

\* The initial state has no changes, and shows the sample asked for.
LEMMA InitIs ==
    ASSUME Init
    PROVE  Inv
<1>1. PICK size \in SampleSizes, null \in NullEntries, defer \in Defers, cache \in Caches,
           val \in [1 .. NRowsAtStart -> Contents] :
         LET p == [model |-> [k \in 1 .. NRowsAtStart |-> [id |-> SetToSeq(Ids)[k], val |-> val[k]]],
                   mods |-> << >>, all_modifs |-> << >>, new_rows |-> << >>, modify_rows |-> << >>,
                   cached_modifs |-> << >>, cached_inserts |-> << >>, cache_changes |-> cache,
                   chunk |-> NoChunk, chunk_to |-> NoChunk, chunk_sep |-> 0,
                   chunk_proxy_nb_rows |-> 0, chunk_sync_idle_id |-> FALSE,
                   sample_size |-> size, sample_first_row |-> 0,
                   add_null_entry |-> null, defer_sync |-> defer, told |-> 0, faults |-> {}]
             q == [p EXCEPT !.chunk = IF size = 0 THEN NoChunk ELSE DisplayChunk(p),
                            !.sample_first_row = SampleFirst(p)]
         IN  proxy = [q EXCEPT !.told = NRows(q), !.faults = Broken(q)]
  BY DEF Init
<1> DEFINE model == [k \in 1 .. NRowsAtStart |-> [id |-> SetToSeq(Ids)[k], val |-> val[k]]]
           p == [model |-> model,
                 mods |-> << >>, all_modifs |-> << >>, new_rows |-> << >>, modify_rows |-> << >>,
                 cached_modifs |-> << >>, cached_inserts |-> << >>, cache_changes |-> cache,
                 chunk |-> NoChunk, chunk_to |-> NoChunk, chunk_sep |-> 0,
                 chunk_proxy_nb_rows |-> 0, chunk_sync_idle_id |-> FALSE,
                 sample_size |-> size, sample_first_row |-> 0,
                 add_null_entry |-> null, defer_sync |-> defer, told |-> 0, faults |-> {}]
           chunk == IF size = 0 THEN NoChunk ELSE DisplayChunk(p)
           q == [p EXCEPT !.chunk = chunk, !.sample_first_row = SampleFirst(p)]
           r == [q EXCEPT !.told = NRows(q)]
           s == [r EXCEPT !.faults = Broken(q)]
<1>2. proxy = [q EXCEPT !.told = NRows(q), !.faults = Broken(q)]
  BY <1>1
<1>3. model \in Seq(ModelRow)
  <2>1. NRowsAtStart \in Nat /\ NRowsAtStart <= Cardinality(Ids) /\ Ids \in SUBSET Ids
    BY ProxyAssumption, SetToSeqIs
  <2>2. val \in [1 .. NRowsAtStart -> Row]
    BY DEF Contents, Row
  <2> QED BY <2>1, <2>2, RowsWithIds
<1>4. /\ size \in Nat /\ null \in BOOLEAN /\ defer \in BOOLEAN /\ cache \in BOOLEAN
  BY ProxyAssumption
<1> HIDE DEF model
<1>5. /\ IsProxy(p) /\ p.model = model /\ p.mods = << >> /\ p.all_modifs = << >> /\ p.new_rows = << >>
      /\ p.modify_rows = << >> /\ p.cached_modifs = << >> /\ p.cached_inserts = << >>
      /\ p.cache_changes = cache /\ p.chunk = NoChunk /\ p.chunk_to = NoChunk /\ p.chunk_sep = 0
      /\ p.chunk_proxy_nb_rows = 0 /\ p.chunk_sync_idle_id = FALSE /\ p.sample_size = size
      /\ p.sample_first_row = 0 /\ p.add_null_entry = null /\ p.defer_sync = defer
      /\ p.told = 0 /\ p.faults = {}
  BY DEF IsProxy, Fields
<1> HIDE DEF p
<1>6. Edits(p)
  <2>1. ToSet(<< >>) = {} /\ Once(<< >>) /\ << >> \in Seq(Modifs) /\ DOMAIN << >> = {}
        /\ << >> = [m \in DOMAIN << >> |-> << >>[m]]
    BY DEF ToSet, Once
  <2>2. Lists(p)
    BY <1>5, <2>1 DEF Lists
  <2>3. News(p) /\ Keyed(p) /\ OfTheirRow(p) /\ Marked(p)
    BY <1>5, <2>1 DEF News, Keyed, OfTheirRow, Marked
  <2> QED BY <1>3, <1>5, <2>2, <2>3 DEF Edits
<1>7. ShowType(p)
  <2>1. FALSE \in BOOLEAN /\ 0 \in Int
    OBVIOUS
  <2> QED BY <1>4, <1>5, <2>1 DEF ShowType, OptionsOK
<1>8. chunk # NoChunk => chunk \in Seq(Int) /\ Mapped(p, chunk)
  <2>1. ASSUME size # 0 PROVE DisplayChunk(p) \in Seq(Int) /\ Mapped(p, DisplayChunk(p))
    <3>1. DisplayChunk(p) = Direct \/ (DisplayChunk(p) \in Seq(Int) /\ Mapped(p, DisplayChunk(p)))
      BY <1>5, <1>6, <1>7, DisplayMaps
    <3>2. DisplayChunk(p) # Direct
      <4> DEFINE last == IF SampleFirst(p) + p.sample_size >= NbRows(p) THEN NbRows(p) - 1
                         ELSE SampleFirst(p) + p.sample_size - 1
                 c1 == [k \in 1 .. last - SampleFirst(p) + 1 |-> SampleFirst(p) + k - 1]
                 c2 == [k \in DOMAIN p.new_rows |-> NbRows(p) + k - 1]
      <4>1. DisplayChunk(p) = c1 \o c2
        BY <1>5, <2>1 DEF DisplayChunk
      <4>2. SampleFirst(p) \in Int /\ NbRows(p) \in Nat /\ p.sample_size \in Nat
        BY <1>3, <1>5, <1>6, <1>7, SampleFirstIs DEF ShowType, OptionsOK, NbRows
      <4>3. last \in Int
        BY <4>2
      <4> HIDE DEF last
      <4>4. c1 \in Seq(Int)
        <5>1. last - SampleFirst(p) + 1 \in Int
          BY <4>2, <4>3
        <5>2. \A k \in 1 .. last - SampleFirst(p) + 1 : SampleFirst(p) + k - 1 \in Int
          BY <4>2, <4>3
        <5>3. CASE last - SampleFirst(p) + 1 >= 0
          <6>1. last - SampleFirst(p) + 1 \in Nat
            BY <5>1, <5>3
          <6> QED BY <5>2, <6>1
        <5>4. CASE last - SampleFirst(p) + 1 < 0
          <6>1. ~\E k \in 1 .. last - SampleFirst(p) + 1 : TRUE
            BY <5>1, <5>4
          <6>2. c1 = << >>
            BY <6>1
          <6>3. << >> \in Seq(Int)
            OBVIOUS
          <6> HIDE DEF c1
          <6> QED BY <6>2, <6>3
        <5> QED BY <5>1, <5>3, <5>4
      <4>5. c2 \in Seq(Int)
        <5>1. DOMAIN p.new_rows = 1 .. 0
          BY <1>5
        <5>2. \A k \in 1 .. 0 : NbRows(p) + k - 1 \in Int
          BY <4>2
        <5> QED BY <5>1, <5>2
      <4> HIDE DEF c1, c2
      <4>6. c1 \o c2 \in Seq(Int)
        BY <4>4, <4>5
      <4> QED BY <4>1, <4>6, ChunkIs
    <3> QED BY <3>1, <3>2
  <2> QED BY <2>1
<1>9. SampleFirst(p) \in Int /\ SampleFirst(p) >= -1
  BY <1>3, <1>5, <1>7, SampleFirstIs DEF ShowType
<1> HIDE DEF chunk
<1>10. /\ IsProxy(q) /\ SameEdits(p, q) /\ q.chunk = chunk /\ q.chunk_to = NoChunk /\ q.chunk_sep = 0
       /\ q.chunk_proxy_nb_rows = 0 /\ q.chunk_sync_idle_id = FALSE /\ q.sample_size = size
       /\ q.sample_first_row = SampleFirst(p) /\ q.add_null_entry = null /\ q.defer_sync = defer
       /\ q.cache_changes = cache /\ q.told = 0 /\ q.faults = {}
  BY <1>5 DEF IsProxy, Fields, SameEdits
<1> HIDE DEF q
<1>11. Edits(q)
  BY <1>6, <1>10, SameEditsIs
<1>12. ShowType(q)
  <2>1. FALSE \in BOOLEAN /\ 0 \in Int
    OBVIOUS
  <2> QED BY <1>4, <1>8, <1>9, <1>10, <2>1 DEF ShowType, OptionsOK
<1>13. NRows(q) \in Int
  BY <1>11, <1>12, NRowsIs DEF Edits, Lists
<1>14. /\ IsProxy(r) /\ SameEdits(q, r) /\ r.chunk = chunk /\ r.chunk_to = NoChunk /\ r.chunk_sep = 0
       /\ r.chunk_proxy_nb_rows = 0 /\ r.chunk_sync_idle_id = FALSE /\ r.sample_size = size
       /\ r.sample_first_row = SampleFirst(p) /\ r.add_null_entry = null /\ r.defer_sync = defer
       /\ r.cache_changes = cache /\ r.told = NRows(q) /\ r.faults = {}
  BY <1>10 DEF IsProxy, Fields, SameEdits
<1> HIDE DEF r
<1>15. Edits(r)
  BY <1>11, <1>14, SameEditsIs
<1>16. ShowType(r)
  <2>1. FALSE \in BOOLEAN /\ 0 \in Int
    OBVIOUS
  <2> QED BY <1>4, <1>8, <1>9, <1>13, <1>14, <2>1 DEF ShowType, OptionsOK
<1>17. NbRows(r) = NbRows(p) /\ r.new_rows = p.new_rows /\ Offset(r) = Offset(q) /\ NbRows(r) = NbRows(q)
       /\ r.new_rows = q.new_rows
  BY <1>10, <1>14 DEF NbRows, Offset, SameEdits
<1>18. Shape(r)
  BY <1>8, <1>9, <1>14, <1>17 DEF Shape, Settled, Mapped
<1>19. Told(r)
  BY <1>10, <1>14, <1>17, ChunkIs DEF Told, Count, Settled, NRows
<1>20. Broken(q) = Broken(r)
  BY <1>10, <1>14 DEF Broken, KeyOf, SameEdits
<1>21. proxy = s /\ s = [r EXCEPT !.faults = Broken(r)]
  <2>1. proxy = s
    BY <1>2, <1>10 DEF r, s, IsProxy, Fields
  <2> QED BY <1>20, <2>1
<1>22. /\ IsProxy(s) /\ Edits(s) /\ ShowType(s) /\ s.faults = Broken(r)
       /\ Whole(r) => Whole(s)
       /\ Shape(r) => Shape(s)
       /\ Told(r) => Told(s)
       /\ NoMinus(r) => NoMinus(s)
  BY <1>14, <1>15, <1>16, <1>21, OtherFaults
<1> HIDE DEF s
<1>23. s.faults = {} => Whole(s) /\ Shape(s) /\ Told(s) /\ NoMinus(s)
  BY <1>16, <1>18, <1>19, <1>22, BrokenIs
<1> QED BY <1>21, <1>22, <1>23 DEF Inv, Kept

\* The state once what was under way is done.
LEMMA SyncedIs ==
    ASSUME Inv, Running
    PROVE  /\ Sound(proxy) /\ Whole(proxy) /\ NoMinus(proxy)
           /\ Sound(Synced) /\ Settled(Synced) /\ Whole(Synced) /\ Applied(Synced)
           /\ IsProxy(Synced) /\ Edits(Synced) /\ ShowType(Synced)
           /\ SameEdits(proxy, Synced) /\ SameOptions(proxy, Synced)
           /\ Settled(proxy) => Synced = proxy
<1>1. Sound(proxy) /\ Whole(proxy) /\ NoMinus(proxy)
  BY RunningIsSound DEF Inv, Running
<1>2. /\ Sound(Synced) /\ Settled(Synced) /\ SameEdits(proxy, Synced) /\ SameOptions(proxy, Synced)
      /\ Settled(proxy) => Synced = proxy
  BY <1>1, EnsureSyncIs DEF Synced
<1>3. Whole(Synced)
  BY <1>1, <1>2 DEF Whole, KeyOf, SameEdits
<1>4. Applied(Synced)
  BY <1>2, SoundIsApplied
<1>5. IsProxy(Synced) /\ Edits(Synced) /\ ShowType(Synced)
  BY <1>2 DEF Sound
<1> QED BY <1>1, <1>2, <1>3, <1>4, <1>5

\* The rows of the proxy are numbers.
LEMMA RowsAreInt ==
    ASSUME Inv
    PROVE  Rows \subseteq Int /\ NRows(proxy) \in Int
<1>1. NRows(proxy) \in Int
  BY NRowsIs DEF Inv, Kept, Edits, Lists
<1> QED BY <1>1 DEF Rows

\* A row of the proxy is a row of the model or a new one.
LEMMA RowIsThere ==
    ASSUME Inv, Running, Settled(proxy), NEW row \in Rows, ~IsNullEntry(row)
    PROVE  IsRow(proxy, row)
<1>1. Sound(proxy) /\ NoMinus(proxy) /\ Edits(proxy) /\ ShowType(proxy) /\ Shape(proxy)
  BY SyncedIs DEF Sound
<1> DEFINE nb == NbRows(proxy)
           nw == Len(proxy.new_rows)
           k == row - Offset(proxy)
           abs == ProxyToAbsolute(proxy, row)
           count == IF proxy.chunk # NoChunk THEN Len(proxy.chunk) ELSE nb + nw
<1>2. nb \in Nat /\ nw \in Nat /\ Offset(proxy) \in {0, 1} /\ row \in Int /\ NRows(proxy) \in Int
  BY <1>1, NRowsIs, RowsAreInt DEF Edits, Lists
<1>3. count \in Nat
  BY <1>1, <1>2 DEF ShowType
<1>4. NRows(proxy) = Offset(proxy) + count
  BY ChunkIs DEF NRows, Settled
<1>5. k \in 0 .. count - 1
  <2>1. row >= 0 /\ row <= NRows(proxy) - 1
    BY <1>2 DEF Rows
  <2>2. Offset(proxy) = 1 => row # 0
    BY DEF Offset, IsNullEntry
  <2> HIDE DEF count
  <2> QED BY <1>2, <1>3, <1>4, <2>1, <2>2
<1>6. abs \in 0 .. nb + nw - 1
  <2>1. CASE proxy.chunk # NoChunk
    <3>1. proxy.chunk \in Seq(Int) /\ Mapped(proxy, proxy.chunk)
      BY <1>1, <2>1 DEF ShowType, Shape
    <3>2. PICK n \in Nat : Maps(proxy.chunk, n, nb, nw)
      BY <3>1 DEF Mapped
    <3>3. /\ Len(proxy.chunk) = n + nw /\ DOMAIN proxy.chunk = 1 .. n + nw
          /\ \A j \in 1 .. n + nw : /\ proxy.chunk[j] \in Int /\ proxy.chunk[j] >= -1
                                    /\ proxy.chunk[j] < nb + nw
      <4> DEFINE c == proxy.chunk
      <4>1. c \in Seq(Int) /\ n \in Nat /\ nb \in Nat /\ nw \in Nat /\ Maps(c, n, nb, nw)
        BY <1>2, <3>1, <3>2
      <4> HIDE DEF nb, nw, k, abs, count, c
      <4>2. /\ Once(c) /\ Len(c) = n + nw /\ DOMAIN c = 1 .. n + nw
            /\ \A j \in 1 .. n + nw : /\ c[j] \in Int /\ c[j] >= -1 /\ c[j] < nb + nw
                                      /\ c[j] >= nb <=> j > n
                                      /\ j > n => c[j] = nb + (j - n) - 1
        BY <4>1, MapsIs
      <4> QED BY <4>2 DEF c
    <3>4. count = n + nw
      BY <2>1, <3>3
    <3>5. /\ k + 1 \in 1 .. n + nw /\ k < Len(proxy.chunk) /\ ~(k < 0)
      BY <1>2, <1>5, <3>3, <3>4
    <3>6. abs = proxy.chunk[k + 1]
      BY <2>1, <3>5 DEF ProxyToAbsolute
    <3>7. proxy.chunk[k + 1] # -1
      BY <1>1, <2>1, <3>3, <3>5 DEF NoMinus, ToSet
    <3> HIDE DEF abs, k, count
    <3>8. abs \in Int /\ abs >= -1 /\ abs < nb + nw /\ abs # -1
      BY <3>3, <3>5, <3>6, <3>7
    <3> QED BY <1>2, <3>8
  <2>2. CASE proxy.chunk = NoChunk
    <3>1. count = nb + nw
      BY <2>2
    <3>2. ~(k < 0)
      BY <1>2, <1>5
    <3>3. abs = k
      BY <2>2, <3>2, ChunkIs DEF ProxyToAbsolute, Settled
    <3> HIDE DEF abs, k, count
    <3> QED BY <1>2, <1>5, <3>1, <3>3
  <2> QED BY <2>1, <2>2
<1> HIDE DEF abs, k, count
<1>7. CASE abs < nb
  <2>1. ProxyToModel(proxy, row) = abs
    BY <1>7 DEF ProxyToModel, AbsoluteToModel, abs
  <2> QED BY <1>2, <1>6, <2>1 DEF IsRow
<1>8. CASE ~(abs < nb)
  <2>1. ~(abs < 0) /\ abs - nb < nw /\ abs - nb + 1 \in 1 .. nw
    BY <1>2, <1>6, <1>8
  <2>2. ProxyToModif(proxy, row) = proxy.new_rows[abs - nb + 1]
    BY <1>8, <2>1 DEF ProxyToModif, AbsoluteToModif, abs
  <2>3. proxy.new_rows[abs - nb + 1] \in Modifs
    BY <1>1, <2>1 DEF Edits, Lists
  <2> HIDE DEF nb
  <2>4. ProxyToModif(proxy, row) # NULL
    BY <2>2, <2>3, ProxyAssumption DEF Modifs
  <2> QED BY <2>4 DEF IsRow
<1> QED BY <1>7, <1>8

\* A row's values are changed, it is deleted, its changes are cancelled.
LEMMA SetValueKeeps ==
    ASSUME Inv, NEW row \in Rows, NEW col \in Columns, NEW v \in Values \cup {NULL},
           SetValue(row, col, v)
    PROVE  StepIsGood
<1>1. Running /\ HasRoom(Synced, row) /\ row \in Int
  BY RowsAreInt DEF SetValue
<1>2. /\ Sound(Synced) /\ Settled(Synced) /\ Whole(Synced)
      /\ IsProxy(Synced) /\ Edits(Synced) /\ ShowType(Synced)
  BY <1>1, SyncedIs
<1>3. CASE Becomes(Synced)
  BY <1>2, <1>3, BecomesSound
<1>4. CASE IsRow(Synced, row) /\ Becomes(SetValueAt(Synced, row, col, v))
  <2> DEFINE q == SetValueAt(Synced, row, col, v)
  <2>1. q = Synced \/ EditedOnly(Synced, q)
    BY <1>1, <1>2, <1>4, SetValueIs
  <2> HIDE DEF q
  <2>2. Sound(q)
    BY <1>2, <2>1, EditedSound
  <2>3. Becomes(q)
    BY <1>4 DEF q
  <2> QED BY <2>2, <2>3, BecomesSound
<1>5. CASE ~IsNullEntry(row) /\ ~IsRow(Synced, row) /\ Crashes
  <2>1. ~Settled(proxy)
    BY <1>1, <1>5, SyncedIs, RowIsThere
  <2> QED BY <1>5, <2>1, CrashIs DEF StepIsGood
<1> QED BY <1>3, <1>4, <1>5 DEF SetValue

\* gda_data_proxy_delete()
LEMMA DeleteKeeps ==
    ASSUME Inv, NEW row \in Rows, DeleteRow(row)
    PROVE  StepIsGood
<1>1. Running /\ HasRoom(Synced, row) /\ row \in Int
  BY RowsAreInt DEF DeleteRow
<1>2. /\ Sound(Synced) /\ Settled(Synced) /\ Whole(Synced)
      /\ IsProxy(Synced) /\ Edits(Synced) /\ ShowType(Synced)
  BY <1>1, SyncedIs
<1>3. CASE Becomes(Synced)
  BY <1>2, <1>3, BecomesSound
<1>4. CASE IsRow(Synced, row) /\ Becomes(Delete(Synced, row))
  <2> DEFINE q == Delete(Synced, row)
             m == ProxyToModif(Synced, row)
             u == [UncoverNewRow(DropModif(Synced, m, -1), row) EXCEPT !.told = @ - 1]
  <2>1. EditedOnly(Synced, q) \/ (m # NULL /\ Synced.mods[m].model_row = -1 /\ q = u)
    BY <1>1, <1>2, <1>4, DeleteIs
  <2>2. m # NULL /\ Synced.mods[m].model_row = -1 => Sound(u)
    BY <1>1, <1>2, NewRowGoes
  <2>3. Becomes(q)
    BY <1>4
  <2> HIDE DEF q, u, m
  <2>4. Sound(q)
    BY <1>2, <2>1, <2>2, EditedSound
  <2> QED BY <2>3, <2>4, BecomesSound
<1>5. CASE ~IsNullEntry(row) /\ ~IsRow(Synced, row) /\ Crashes
  <2>1. ~Settled(proxy)
    BY <1>1, <1>5, SyncedIs, RowIsThere
  <2> QED BY <1>5, <2>1, CrashIs DEF StepIsGood
<1> QED BY <1>3, <1>4, <1>5 DEF DeleteRow

\* gda_data_proxy_undelete()
LEMMA UndeleteKeeps ==
    ASSUME Inv, NEW row \in Rows, UndeleteRow(row)
    PROVE  StepIsGood
<1>1. Running /\ row \in Int
  BY RowsAreInt DEF UndeleteRow
<1>2. Sound(Synced) /\ IsProxy(Synced) /\ Edits(Synced) /\ ShowType(Synced)
  BY <1>1, SyncedIs
<1> DEFINE q == Undelete(Synced, row)
<1>3. q = Synced \/ EditedOnly(Synced, q)
  BY <1>1, <1>2, UndeleteIs
<1>4. Becomes(q)
  BY DEF UndeleteRow
<1> HIDE DEF q
<1>5. Sound(q)
  BY <1>2, <1>3, EditedSound
<1> QED BY <1>4, <1>5, BecomesSound

\* gda_data_proxy_cancel_row_changes()
LEMMA CancelRowKeeps ==
    ASSUME Inv, NEW row \in Rows, NEW cols, CancelRowChanges(row, cols)
    PROVE  StepIsGood
<1>1. Running /\ row \in Int
  BY RowsAreInt DEF CancelRowChanges
<1>2. Sound(Synced) /\ Settled(Synced) /\ IsProxy(Synced) /\ Edits(Synced) /\ ShowType(Synced)
  BY <1>1, SyncedIs
<1> DEFINE q == CancelRow(Synced, row, cols)
           m == ProxyToModif(Synced, row)
           u == [UncoverNewRow(DropModif(Synced, m, -1), row) EXCEPT !.told = @ - 1]
<1>3. \/ q = Synced \/ EditedOnly(Synced, q)
      \/ (m # NULL /\ Synced.mods[m].model_row = -1 /\ q = u)
  BY <1>1, <1>2, CancelRowIs
<1>4. m # NULL /\ Synced.mods[m].model_row = -1 => Sound(u)
  BY <1>1, <1>2, NewRowGoes
<1>5. Becomes(q)
  BY DEF CancelRowChanges
<1> HIDE DEF q, u, m
<1>6. Sound(q)
  BY <1>2, <1>3, <1>4, EditedSound
<1> QED BY <1>5, <1>6, BecomesSound

\* An identity for a new row.
LEMMA FreshIs ==
    ASSUME Edits(proxy), UsedIds # Ids
    PROVE  FreshId \in Ids
<1>1. UsedIds \subseteq Ids
  <2>1. \A k \in DOMAIN proxy.model : proxy.model[k].id \in Ids
    <3>1. proxy.model \in Seq(ModelRow)
      BY DEF Edits
    <3>2. \A k \in DOMAIN proxy.model : proxy.model[k] \in ModelRow
      BY <3>1
    <3> QED BY <3>2 DEF ModelRow
  <2>2. \A m \in DOMAIN proxy.mods : proxy.mods[m].id \in Ids
    BY DEF Edits, Lists, RowModif
  <2> QED BY <2>1, <2>2 DEF UsedIds
<1> QED BY <1>1 DEF FreshId

\* A row is appended.
LEMMA AppendKeeps ==
    ASSUME Inv, NEW val \in Contents \cup {NullRow}, AppendRow(val)
    PROVE  StepIsGood
<1>1. Running /\ Unused(proxy) # {} /\ UsedIds # Ids
  BY DEF AppendRow
<1>2. Sound(Synced) /\ Settled(Synced) /\ SameEdits(proxy, Synced) /\ Edits(proxy)
  BY <1>1, SyncedIs DEF Sound
<1>3. Unused(Synced) # {}
  BY <1>1, <1>2 DEF Unused, SameEdits
<1>5. FreshId \in Ids
  BY <1>1, <1>2, FreshIs
<1>6. val \in [Columns -> Values \cup {NULL}]
  BY DEF Contents, NullRow
<1> DEFINE q == [AppendNew(Synced, FreshId) EXCEPT !.mods[NewModif(Synced)].values = val, !.told = @ + 1]
<1>7. Sound(q)
  BY <1>2, <1>3, <1>5, <1>6, AppendIsSound
<1>8. Becomes(q)
  BY DEF AppendRow
<1> HIDE DEF q
<1> QED BY <1>7, <1>8, BecomesSound

\* Changes are cancelled, or applied.
LEMMA CancelAllKeeps ==
    ASSUME Inv, CancelAllChanges
    PROVE  StepIsGood
<1>1. Running /\ Becomes(CancelAll(Synced))
  BY DEF CancelAllChanges
<1>2. Sound(Synced) /\ Settled(Synced)
  BY <1>1, SyncedIs
<1>3. Sound(CancelAll(Synced))
  BY <1>2, CancelAllIs
<1> QED BY <1>1, <1>3, BecomesSound

\* gda_data_proxy_apply_row_changes()
LEMMA ApplyRowKeeps ==
    ASSUME Inv, NEW row \in Rows, ApplyRowChanges(row)
    PROVE  StepIsGood
<1> DEFINE m == ProxyToModif(proxy, row)
<1>1. /\ Running /\ m # NULL /\ row \in Int
      /\ Becomes(Synced) \/ Becomes(Adjust(Synced)) \/ Becomes(Adjust(Commit(Synced, m)))
  BY RowsAreInt DEF ApplyRowChanges
<1>2. Sound(proxy) /\ Sound(Synced) /\ Applied(Synced) /\ SameEdits(proxy, Synced)
  BY <1>1, SyncedIs
<1>3. m \in ToSet(Synced.all_modifs)
  <2>1. Edits(proxy) /\ ShowType(proxy)
    BY <1>2 DEF Sound
  <2>2. m \in ToSet(proxy.all_modifs)
    BY <1>1, <2>1, ModifIs
  <2> QED BY <1>2, <2>2 DEF SameEdits
<1> HIDE DEF m
<1>4. Sound(Adjust(Synced))
  BY <1>2, AdjustIs
<1>5. Sound(Adjust(Commit(Synced, m)))
  BY <1>2, <1>3, CommitIs, AdjustIs
<1> QED BY <1>1, <1>2, <1>4, <1>5, BecomesSound

\* gda_data_proxy_apply_all_changes()
LEMMA ApplyAllKeeps ==
    ASSUME Inv, NEW n \in 0 .. Len(Synced.all_modifs), ApplyAllChanges(n)
    PROVE  StepIsGood
<1>1. Running /\ Becomes(Adjust(CommitAll(Synced, n)))
  BY DEF ApplyAllChanges
<1>2. Applied(Synced) /\ n \in Nat
  <2>1. Applied(Synced) /\ Edits(Synced)
    BY <1>1, SyncedIs
  <2>2. Len(Synced.all_modifs) \in Nat
    BY <2>1 DEF Edits, Lists
  <2> QED BY <2>1, <2>2
<1>3. Sound(Adjust(CommitAll(Synced, n)))
  BY <1>2, CommitAllIs, AdjustIs
<1> QED BY <1>1, <1>3, BecomesSound

\* The sample is another one.
LEMMA ResampledIs ==
    ASSUME NEW p, Applied(p), NEW n \in Nat, NEW k \in Nat
    PROVE  Applied([p EXCEPT !.sample_size = n]) /\ Applied([p EXCEPT !.sample_first_row = k])
<1> DEFINE q == [p EXCEPT !.sample_size = n]
           r == [p EXCEPT !.sample_first_row = k]
<1>1. IsProxy(p) /\ Edits(p) /\ ShowType(p) /\ Settled(p) /\ ~p.chunk_sync_idle_id /\ p.sample_first_row >= -1
  BY DEF Applied
<1>2. /\ IsProxy(q) /\ SameEdits(p, q) /\ q.chunk = p.chunk /\ q.chunk_to = p.chunk_to
      /\ q.chunk_sep = p.chunk_sep /\ q.chunk_proxy_nb_rows = p.chunk_proxy_nb_rows
      /\ q.chunk_sync_idle_id = p.chunk_sync_idle_id /\ q.told = p.told /\ q.faults = p.faults
      /\ q.sample_size = n /\ q.sample_first_row = p.sample_first_row
      /\ q.add_null_entry = p.add_null_entry /\ q.defer_sync = p.defer_sync
      /\ q.cache_changes = p.cache_changes
  BY <1>1 DEF IsProxy, Fields, SameEdits
<1>3. /\ IsProxy(r) /\ SameEdits(p, r) /\ r.chunk = p.chunk /\ r.chunk_to = p.chunk_to
      /\ r.chunk_sep = p.chunk_sep /\ r.chunk_proxy_nb_rows = p.chunk_proxy_nb_rows
      /\ r.chunk_sync_idle_id = p.chunk_sync_idle_id /\ r.told = p.told /\ r.faults = p.faults
      /\ r.sample_size = p.sample_size /\ r.sample_first_row = k
      /\ r.add_null_entry = p.add_null_entry /\ r.defer_sync = p.defer_sync
      /\ r.cache_changes = p.cache_changes
  BY <1>1 DEF IsProxy, Fields, SameEdits
<1> HIDE DEF q, r
<1>4. Applied(q)
  <2>1. Edits(q)
    BY <1>1, <1>2, SameEditsIs
  <2>2. ShowType(q)
    BY <1>1, <1>2 DEF ShowType, OptionsOK
  <2>3. Settled(q) /\ (Told(p) => Told(q))
    BY <1>1, <1>2 DEF Settled, Told, Count, Offset, NbRows, SameEdits
  <2> QED BY <1>1, <1>2, <2>1, <2>2, <2>3 DEF Applied, Calm
<1>5. Applied(r)
  <2>1. Edits(r)
    BY <1>1, <1>3, SameEditsIs
  <2>2. ShowType(r)
    BY <1>1, <1>3 DEF ShowType, OptionsOK
  <2>3. Settled(r) /\ (Told(p) => Told(r))
    BY <1>1, <1>3 DEF Settled, Told, Count, Offset, NbRows, SameEdits
  <2>4. r.sample_first_row >= -1
    BY <1>3
  <2> QED BY <1>1, <1>3, <2>1, <2>2, <2>3, <2>4 DEF Applied, Calm
<1> QED BY <1>4, <1>5 DEF q, r

\* gda_data_proxy_set_sample_size()
LEMMA SampleSizeKeeps ==
    ASSUME Inv, NEW n \in SampleSizes, SetSampleSize(n)
    PROVE  StepIsGood
<1> DEFINE q == [Synced EXCEPT !.sample_size = n]
<1>1. Running /\ (Becomes(Synced) \/ Becomes(Adjust(q)))
  BY DEF SetSampleSize
<1>2. Sound(Synced) /\ Applied(Synced)
  BY <1>1, SyncedIs
<1>3. n \in Nat
  BY ProxyAssumption
<1>4. Applied(q)
  BY <1>2, <1>3, ResampledIs
<1> HIDE DEF q
<1>5. Sound(Adjust(q))
  BY <1>4, AdjustIs
<1> QED BY <1>1, <1>2, <1>5, BecomesSound

\* gda_data_proxy_set_sample_start()
LEMMA SampleStartKeeps ==
    ASSUME Inv, NEW k \in 0 .. NRowsAtStart, SetSampleStart(k)
    PROVE  StepIsGood
<1> DEFINE q == [Synced EXCEPT !.sample_first_row = k]
<1>1. Running /\ (Becomes(Synced) \/ Becomes(Adjust(q)))
  BY DEF SetSampleStart
<1>2. Sound(Synced) /\ Applied(Synced)
  BY <1>1, SyncedIs
<1>3. k \in Nat
  BY ProxyAssumption
<1>4. Applied(q)
  BY <1>2, <1>3, ResampledIs
<1> HIDE DEF q
<1>5. Sound(Adjust(q))
  BY <1>4, AdjustIs
<1> QED BY <1>1, <1>2, <1>5, BecomesSound

\* The properties "prepend-null-entry", "defer-sync" and "cache-changes".
LEMMA PrependKeeps ==
    ASSUME Inv, NEW b \in NullEntries, SetPrependNull(b)
    PROVE  StepIsGood
<1> DEFINE q == [proxy EXCEPT !.add_null_entry = b, !.told = IF b THEN @ + 1 ELSE @ - 1]
<1>1. Running /\ b # proxy.add_null_entry /\ Becomes(q) /\ b \in BOOLEAN
  BY ProxyAssumption DEF SetPrependNull
<1>2. Sound(proxy) /\ IsProxy(proxy) /\ Edits(proxy) /\ ShowType(proxy) /\ Shape(proxy) /\ Told(proxy)
  BY <1>1, SyncedIs DEF Sound, Running
<1>3. /\ IsProxy(q) /\ SameEdits(proxy, q) /\ q.chunk = proxy.chunk /\ q.chunk_to = proxy.chunk_to
      /\ q.chunk_sep = proxy.chunk_sep /\ q.chunk_proxy_nb_rows = proxy.chunk_proxy_nb_rows
      /\ q.chunk_sync_idle_id = proxy.chunk_sync_idle_id /\ q.faults = proxy.faults
      /\ q.sample_size = proxy.sample_size /\ q.sample_first_row = proxy.sample_first_row
      /\ q.add_null_entry = b /\ q.defer_sync = proxy.defer_sync
      /\ q.cache_changes = proxy.cache_changes
      /\ q.told = IF b THEN proxy.told + 1 ELSE proxy.told - 1
  BY <1>2 DEF IsProxy, Fields, SameEdits
<1> HIDE DEF q
<1>4. Edits(q)
  BY <1>2, <1>3, SameEditsIs
<1>5. proxy.told \in Int /\ q.told \in Int /\ proxy.add_null_entry \in BOOLEAN
  BY <1>2, <1>3 DEF ShowType, OptionsOK
<1>6. ShowType(q)
  BY <1>1, <1>2, <1>3, <1>5 DEF ShowType, OptionsOK
<1>7. NbRows(q) = NbRows(proxy) /\ q.new_rows = proxy.new_rows /\ (Settled(q) <=> Settled(proxy))
  BY <1>3 DEF NbRows, Settled, SameEdits
<1>8. Shape(q)
  BY <1>2, <1>3, <1>7 DEF Shape, Mapped, Under, Begun, Fresh
<1>9. Told(q)
  <2>1. Count(q) = Count(proxy)
    BY <1>3, <1>7 DEF Count
  <2>2. Count(proxy) \in Int
    <3>1. /\ Len(proxy.new_rows) \in Nat /\ NbRows(proxy) \in Nat /\ proxy.chunk_sep \in Int
          /\ proxy.chunk_proxy_nb_rows \in Int
      BY <1>2 DEF Edits, Lists, NbRows, ShowType
    <3>2. proxy.chunk # NoChunk => Len(proxy.chunk) \in Nat
      BY <1>2 DEF ShowType
    <3> QED BY <3>1, <3>2 DEF Count
  <2>3. Offset(q) = IF b THEN Offset(proxy) + 1 ELSE Offset(proxy) - 1
    BY <1>1, <1>3, <1>5 DEF Offset
  <2>4. Offset(proxy) \in Int
    BY DEF Offset
  <2> QED BY <1>2, <1>3, <2>1, <2>2, <2>3, <2>4 DEF Told
<1> QED BY <1>1, <1>3, <1>4, <1>6, <1>8, <1>9, BecomesIs DEF Inv, StepIsGood, Calm, Running

\* The property "defer-sync".
LEMMA DeferKeeps ==
    ASSUME Inv, NEW b \in Defers, SetDeferSync(b)
    PROVE  StepIsGood
<1> DEFINE q == [proxy EXCEPT !.defer_sync = b]
<1>1. Running /\ (Becomes(q) \/ Becomes(Sync(q, FALSE))) /\ b \in BOOLEAN
  BY ProxyAssumption DEF SetDeferSync
<1>2. Sound(proxy) /\ IsProxy(proxy) /\ Edits(proxy) /\ ShowType(proxy) /\ Shape(proxy) /\ Told(proxy)
      /\ Calm(proxy)
  BY <1>1, SyncedIs DEF Sound, Running
<1>3. /\ IsProxy(q) /\ SameEdits(proxy, q) /\ q.chunk = proxy.chunk /\ q.chunk_to = proxy.chunk_to
      /\ q.chunk_sep = proxy.chunk_sep /\ q.chunk_proxy_nb_rows = proxy.chunk_proxy_nb_rows
      /\ q.chunk_sync_idle_id = proxy.chunk_sync_idle_id /\ q.faults = proxy.faults
      /\ q.sample_size = proxy.sample_size /\ q.sample_first_row = proxy.sample_first_row
      /\ q.add_null_entry = proxy.add_null_entry /\ q.defer_sync = b
      /\ q.cache_changes = proxy.cache_changes /\ q.told = proxy.told
  BY <1>2 DEF IsProxy, Fields, SameEdits
<1> HIDE DEF q
<1>4. Edits(q)
  BY <1>2, <1>3, SameEditsIs
<1>5. ShowType(q)
  BY <1>1, <1>2, <1>3 DEF ShowType, OptionsOK
<1>6. NbRows(q) = NbRows(proxy) /\ q.new_rows = proxy.new_rows /\ (Settled(q) <=> Settled(proxy))
      /\ Offset(q) = Offset(proxy)
  BY <1>3 DEF NbRows, Settled, SameEdits, Offset
<1>7. Shape(q)
  BY <1>2, <1>3, <1>6 DEF Shape, Mapped, Under, Begun, Fresh
<1>8. Told(q)
  BY <1>2, <1>3, <1>6 DEF Told, Count
<1>9. Sound(q)
  BY <1>2, <1>3, <1>4, <1>5, <1>7, <1>8 DEF Sound, Calm
<1>10. Sound(Sync(q, FALSE))
  BY <1>9, SyncSound
<1> QED BY <1>1, <1>9, <1>10, BecomesSound

\* The lists of the cache are dropped with their RowModifs.
LEMMA UncachedIs ==
    ASSUME NEW p, IsProxy(p), Edits(p)
    PROVE  LET q == [p EXCEPT !.cache_changes = FALSE, !.cached_modifs = << >>, !.cached_inserts = << >>,
                              !.mods = Without(@, ToSet(p.cached_modifs \o p.cached_inserts))]
           IN  Edits(q)
<1> DEFINE q == [p EXCEPT !.cache_changes = FALSE, !.cached_modifs = << >>, !.cached_inserts = << >>,
                          !.mods = Without(@, ToSet(p.cached_modifs \o p.cached_inserts))]
           S == ToSet(p.cached_modifs) \cup ToSet(p.cached_inserts)
<1>1. Lists(p) /\ News(p) /\ Keyed(p) /\ OfTheirRow(p) /\ Marked(p) /\ p.model \in Seq(ModelRow)
  BY DEF Edits
<1>2. ToSet(p.cached_modifs \o p.cached_inserts) = S
  BY <1>1, JoinedSet DEF Lists
<1> HIDE DEF S
<1>3. /\ q.model = p.model /\ q.all_modifs = p.all_modifs /\ q.new_rows = p.new_rows
      /\ q.modify_rows = p.modify_rows /\ q.cached_modifs = << >> /\ q.cached_inserts = << >>
      /\ q.mods = Without(p.mods, S)
  BY <1>2 DEF IsProxy, Fields
<1> HIDE DEF q
<1>4. /\ DOMAIN q.mods = DOMAIN p.mods \ S /\ q.mods = [m \in DOMAIN q.mods |-> q.mods[m]]
      /\ \A m \in DOMAIN q.mods : m \in DOMAIN p.mods /\ q.mods[m] = p.mods[m]
  BY <1>3 DEF Without
<1>5. ToSet(<< >>) = {} /\ Once(<< >>) /\ << >> \in Seq(Modifs)
  BY DEF ToSet, Once
<1>6. DOMAIN q.mods = ToSet(p.all_modifs)
  BY <1>1, <1>4 DEF Lists, S
<1>7. Lists(q)
  BY <1>1, <1>3, <1>4, <1>5, <1>6 DEF Lists
<1>8. News(q)
  BY <1>1, <1>3, <1>4, <1>5, <1>6 DEF News
<1>9. Keyed(q)
  BY <1>1, <1>3, <1>4, <1>6 DEF Keyed
<1>10. OfTheirRow(q)
  BY <1>1, <1>3, <1>4, <1>6 DEF OfTheirRow
<1>11. Marked(q)
  BY <1>1, <1>4 DEF Marked
<1>12. Edits(q)
  BY <1>1, <1>3, <1>7, <1>8, <1>9, <1>10, <1>11 DEF Edits
<1> QED BY <1>12 DEF q

\* The property "cache-changes".
LEMMA CacheKeeps ==
    ASSUME Inv, NEW b \in Caches, SetCacheChanges(b)
    PROVE  StepIsGood
<1> DEFINE q == [proxy EXCEPT !.cache_changes = b,
                   !.cached_modifs = IF b THEN @ ELSE << >>, !.cached_inserts = IF b THEN @ ELSE << >>,
                   !.mods = IF b THEN @ ELSE Without(@, ToSet(proxy.cached_modifs \o proxy.cached_inserts))]
<1>1. Running /\ Becomes(q) /\ b \in BOOLEAN
  BY ProxyAssumption DEF SetCacheChanges
<1>2. Sound(proxy) /\ IsProxy(proxy) /\ Edits(proxy) /\ ShowType(proxy) /\ Shape(proxy) /\ Told(proxy)
  BY <1>1, SyncedIs DEF Sound, Running
<1>3. /\ IsProxy(q) /\ q.chunk = proxy.chunk /\ q.chunk_to = proxy.chunk_to
      /\ q.chunk_sep = proxy.chunk_sep /\ q.chunk_proxy_nb_rows = proxy.chunk_proxy_nb_rows
      /\ q.chunk_sync_idle_id = proxy.chunk_sync_idle_id /\ q.faults = proxy.faults
      /\ q.sample_size = proxy.sample_size /\ q.sample_first_row = proxy.sample_first_row
      /\ q.add_null_entry = proxy.add_null_entry /\ q.defer_sync = proxy.defer_sync
      /\ q.cache_changes = b /\ q.told = proxy.told
      /\ q.model = proxy.model /\ q.new_rows = proxy.new_rows
  BY <1>2 DEF IsProxy, Fields
<1>4. Edits(q)
  <2>1. CASE b
    <3>1. SameEdits(proxy, q)
      BY <1>2, <2>1 DEF IsProxy, Fields, SameEdits
    <3> HIDE DEF q
    <3> QED BY <1>2, <3>1, SameEditsIs
  <2>2. CASE ~b
    <3> DEFINE r == [proxy EXCEPT !.cache_changes = FALSE, !.cached_modifs = << >>,
                       !.cached_inserts = << >>,
                       !.mods = Without(@, ToSet(proxy.cached_modifs \o proxy.cached_inserts))]
    <3>1. Edits(r)
      BY <1>2, UncachedIs
    <3>2. SameEdits(r, q)
      BY <1>2, <2>2 DEF IsProxy, Fields, SameEdits
    <3> HIDE DEF q, r
    <3> QED BY <3>1, <3>2, SameEditsIs
  <2> QED BY <1>1, <2>1, <2>2
<1> HIDE DEF q
<1>5. ShowType(q)
  BY <1>1, <1>2, <1>3 DEF ShowType, OptionsOK
<1>6. NbRows(q) = NbRows(proxy) /\ (Settled(q) <=> Settled(proxy)) /\ Offset(q) = Offset(proxy)
  BY <1>3 DEF NbRows, Settled, Offset
<1>7. Shape(q)
  BY <1>2, <1>3, <1>6 DEF Shape, Mapped, Under, Begun, Fresh
<1>8. Told(q)
  BY <1>2, <1>3, <1>6 DEF Told, Count
<1> QED BY <1>1, <1>3, <1>4, <1>5, <1>7, <1>8, BecomesIs DEF Inv, StepIsGood, Calm, Running

\* A synchronisation goes on in the background.
LEMMA IdleKeeps ==
    ASSUME Inv, IdleSync
    PROVE  StepIsGood
<1>1. Running /\ Becomes(Sync(proxy, proxy.defer_sync))
  BY DEF IdleSync
<1>2. Sound(proxy) /\ proxy.defer_sync \in BOOLEAN
  BY <1>1, SyncedIs DEF Sound, ShowType, OptionsOK
<1>3. Sound(Sync(proxy, proxy.defer_sync))
  BY <1>2, SyncSound
<1> QED BY <1>1, <1>3, BecomesSound

\* The proxied model is changed by others.
LEMMA InsertKeeps ==
    ASSUME Inv, NEW val \in Contents, OutsideInsert(val)
    PROVE  StepIsGood
<1>1. Running /\ UsedIds # Ids
  BY DEF OutsideInsert
<1>2. CASE NullMapping(proxy) /\ Crashes
  <2>1. ~Settled(proxy)
    BY <1>2 DEF NullMapping, Settled
  <2> QED BY <1>2, <2>1, CrashIs DEF StepIsGood
<1> DEFINE new == [id |-> FreshId, val |-> val]
           q == RowInserted(proxy, new, FALSE)
<1>3. CASE BecomesMoved(q)
  <2>1. Sound(proxy) /\ IsProxy(proxy) /\ Edits(proxy) /\ ShowType(proxy)
    BY <1>1, SyncedIs DEF Sound
  <2>2. new \in ModelRow
    <3>1. FreshId \in Ids
      BY <1>1, <2>1, FreshIs
    <3> QED BY <3>1 DEF ModelRow, Contents, Row
  <2> HIDE DEF new
  <2>3. IsProxy(q) /\ Edits(q) /\ ShowType(q)
    BY <2>1, <2>2, InsertedIs
  <2>4. Settled(proxy) => Sound(q)
    BY <2>1, <2>2, InsertedSound
  <2> HIDE DEF q
  <2> QED BY <1>3, <2>3, <2>4, BecomesMovedIs
<1> QED BY <1>2, <1>3 DEF OutsideInsert

\* proxied_model_row_updated_cb()
LEMMA UpdateKeeps ==
    ASSUME Inv, NEW k \in DOMAIN proxy.model, NEW val \in Contents, OutsideUpdate(k - 1, val)
    PROVE  StepIsGood
<1>1. Running
  BY DEF OutsideUpdate
<1>2. CASE proxy.chunk = NoChunk /\ HasMapping(proxy.chunk_to) /\ Crashes
  <2>1. ~Settled(proxy)
    BY <1>2, ChunkIs DEF Settled
  <2> QED BY <1>2, <2>1, CrashIs DEF StepIsGood
<1> DEFINE q == RowUpdated(proxy, k - 1, val)
<1>3. CASE Becomes(q)
  <2>1. Sound(proxy) /\ Whole(proxy)
    BY <1>1, SyncedIs
  <2>2. k - 1 \in 0 .. Len(proxy.model) - 1 /\ val \in Row
    BY <2>1 DEF Sound, Edits, Contents, Row
  <2>3. Sound(q)
    BY <2>1, <2>2, UpdatedSound
  <2> HIDE DEF q
  <2> QED BY <1>3, <2>3, BecomesSound
<1> QED BY <1>2, <1>3 DEF OutsideUpdate

\* proxied_model_row_removed_cb()
LEMMA RemoveKeeps ==
    ASSUME Inv, NEW k \in DOMAIN proxy.model, OutsideRemove(k - 1)
    PROVE  StepIsGood
<1>1. Running
  BY DEF OutsideRemove
<1>2. CASE (NullMapping(proxy) \/ Repeated(proxy, k - 1)) /\ Crashes
  <2>1. Shape(proxy) /\ ShowType(proxy) /\ Edits(proxy)
    BY <1>1, SyncedIs DEF Sound
  <2>2. ASSUME Settled(proxy) PROVE ~NullMapping(proxy) /\ ~Repeated(proxy, k - 1)
    <3>1. ~NullMapping(proxy) /\ ~HasMapping(proxy.chunk_to)
      BY <2>2, ChunkIs DEF NullMapping, Settled
    <3>2. ASSUME HasMapping(proxy.chunk) PROVE Once(proxy.chunk)
      <4>1. proxy.chunk \in Seq(Int) /\ Mapped(proxy, proxy.chunk)
        BY <2>1, <2>2, <3>2 DEF HasMapping, ShowType, Shape
      <4>2. NbRows(proxy) \in Nat /\ Len(proxy.new_rows) \in Nat
        BY <2>1 DEF Edits, Lists, NbRows
      <4> QED BY <4>1, <4>2, MapsIs DEF Mapped
    <3> QED BY <3>1, <3>2 DEF Repeated, Once
  <2> QED BY <1>2, <2>2, CrashIs DEF StepIsGood
<1> DEFINE q == RowRemoved(proxy, k - 1)
<1>3. CASE BecomesMoved(q)
  <2>1. Sound(proxy) /\ Whole(proxy) /\ IsProxy(proxy) /\ Edits(proxy) /\ ShowType(proxy)
    BY <1>1, SyncedIs DEF Sound
  <2>2. k - 1 \in 0 .. Len(proxy.model) - 1
    BY <2>1 DEF Edits
  <2>3. \A n \in ToSet(proxy.all_modifs) : proxy.mods[n].model_row = k - 1 => KeyOf(proxy, n)
    BY <2>1, <2>2 DEF Whole
  <2>4. /\ IsProxy(q) /\ ShowType(q) /\ EditsBut(q, NULL)
    <3>1. \A n \in ToSet(proxy.all_modifs) : proxy.mods[n].model_row = k - 1 => n = NULL \/ KeyOf(proxy, n)
      BY <2>3
    <3> QED BY <2>1, <2>2, <3>1, RemovedIs
  <2>5. Settled(proxy) => Sound(q)
    BY <2>1, <2>2, RemovedSound
  <2> HIDE DEF q
  <2>6. Edits(q)
    <3>1. q.all_modifs \in Seq(Modifs)
      BY <2>4 DEF EditsBut, Lists
    <3>2. NULL \notin ToSet(q.all_modifs)
      BY <3>1, ProxyAssumption DEF ToSet, Modifs
    <3> QED BY <2>4, <3>2, EditsLeft
  <2> QED BY <1>3, <2>4, <2>5, <2>6, BecomesMovedIs
<1> QED BY <1>2, <1>3 DEF OutsideRemove

\* The proxied model is reset, or replaced by another.
LEMMA ResetKeeps ==
    ASSUME Inv, Reset
    PROVE  StepIsGood
<1>1. Running /\ Cardinality(Ids \ {proxy.mods[m].id : m \in DOMAIN proxy.mods}) >= NbRows(proxy)
  BY DEF Reset
<1>2. PICK model \in Renewed(proxy) : Becomes(Renew(proxy, model))
  BY DEF Reset
<1>3. Sound(proxy) /\ proxy.model \in Seq(ModelRow)
  BY <1>1, SyncedIs DEF Sound, Edits
<1>4. model \in Seq(ModelRow)
  BY <1>1, <1>3, RenewedIs
<1>5. Sound(Renew(proxy, model))
  BY <1>3, <1>4, RenewIs
<1> QED BY <1>2, <1>5, BecomesSound

\* The property "model": the changes are cached and another model is shown.
LEMMA SetModelKeeps ==
    ASSUME Inv, SetModel
    PROVE  StepIsGood
<1>1. Running /\ Cardinality(Ids \ {proxy.mods[m].id : m \in DOMAIN proxy.mods}) >= NbRows(proxy)
  BY DEF SetModel
<1> DEFINE p == IF proxy.cache_changes THEN Migrate(proxy) ELSE proxy
<1>2. PICK model \in Renewed(proxy) : Becomes(Renew(p, model))
  BY DEF SetModel
<1>3. /\ Sound(proxy) /\ IsProxy(proxy) /\ Edits(proxy) /\ ShowType(proxy) /\ Calm(proxy)
      /\ proxy.model \in Seq(ModelRow)
  BY <1>1, SyncedIs DEF Sound, Edits
<1>4. model \in Seq(ModelRow)
  BY <1>1, <1>3, RenewedIs
<1>5. Sound(p) \/ Stored(p)
  BY <1>3, MigrateIs
<1> HIDE DEF p
<1>6. Sound(Renew(p, model))
  BY <1>4, <1>5, RenewIs
<1> QED BY <1>2, <1>6, BecomesSound

\* No step disturbs the invariant.
LEMMA NextIsGood == Inv /\ Next => StepIsGood
<1> SUFFICES ASSUME Inv, Next
             PROVE  StepIsGood
  OBVIOUS
<1>1. CASE Editing
  <2>1. CASE \E row \in Rows, col \in Columns, v \in Values \cup {NULL} : SetValue(row, col, v)
    BY <2>1, SetValueKeeps
  <2>2. CASE \E row \in Rows : DeleteRow(row) \/ UndeleteRow(row) \/ ApplyRowChanges(row)
    BY <2>2, DeleteKeeps, UndeleteKeeps, ApplyRowKeeps
  <2>3. CASE \E row \in Rows, cols \in {Columns} \cup {{c} : c \in Columns} : CancelRowChanges(row, cols)
    BY <2>3, CancelRowKeeps
  <2>4. CASE \E val \in Contents \cup {NullRow} : AppendRow(val)
    BY <2>4, AppendKeeps
  <2>5. CASE CancelAllChanges
    BY <2>5, CancelAllKeeps
  <2>6. CASE \E n \in 0 .. Len(Synced.all_modifs) : ApplyAllChanges(n)
    BY <2>6, ApplyAllKeeps
  <2> QED BY <1>1, <2>1, <2>2, <2>3, <2>4, <2>5, <2>6 DEF Editing
<1>2. CASE Showing
  <2>1. CASE \E n \in SampleSizes : SetSampleSize(n)
    BY <2>1, SampleSizeKeeps
  <2>2. CASE \E k \in 0 .. NRowsAtStart : SetSampleStart(k)
    BY <2>2, SampleStartKeeps
  <2>3. CASE \E b \in NullEntries : SetPrependNull(b)
    BY <2>3, PrependKeeps
  <2>4. CASE \E b \in Defers : SetDeferSync(b)
    BY <2>4, DeferKeeps
  <2>5. CASE \E b \in Caches : SetCacheChanges(b)
    BY <2>5, CacheKeeps
  <2>6. CASE IdleSync
    BY <2>6, IdleKeeps
  <2> QED BY <1>2, <2>1, <2>2, <2>3, <2>4, <2>5, <2>6 DEF Showing
<1>3. CASE Outside
  <2>1. CASE \E val \in Contents : OutsideInsert(val) \/ \E k \in DOMAIN proxy.model : OutsideUpdate(k - 1, val)
    BY <2>1, InsertKeeps, UpdateKeeps
  <2>2. CASE \E k \in DOMAIN proxy.model : OutsideRemove(k - 1)
    BY <2>2, RemoveKeeps
  <2>3. CASE Reset
    BY <2>3, ResetKeeps
  <2>4. CASE SetModel
    BY <2>4, SetModelKeeps
  <2> QED BY <1>3, <2>1, <2>2, <2>3, <2>4 DEF Outside
<1> QED BY <1>1, <1>2, <1>3 DEF Next

\* No step disturbs the invariant.
LEMMA NextInv == Inv /\ [Next]_vars => Inv'
<1>1. ASSUME UNCHANGED vars PROVE proxy' = proxy
  BY <1>1 DEF vars
<1>2. Inv /\ proxy' = proxy => Inv'
  BY DEF Inv
<1> QED BY <1>1, <1>2, NextIsGood DEF StepIsGood

\* The invariant holds at all times.
THEOREM InvHolds == Spec => []Inv
<1>1. Init => Inv
  BY InitIs
<1> QED BY <1>1, NextInv, PTL DEF Spec

\* Pointers and assertions only fail in a call made while a synchronisation was under way:
\* otherwise each row number is that of a row, no row is shown twice, and the callbacks
\* have the mappings they look at.
THEOREM CrashesOnlyWhilePending == Spec => CrashNeedsPendingSync
<1>1. Inv /\ Inv' /\ [Next]_vars => ["crash" \in proxy'.faults => ~Settled(proxy)]_vars
  <2> SUFFICES ASSUME Inv, [Next]_vars
               PROVE  ["crash" \in proxy'.faults => ~Settled(proxy)]_vars
    OBVIOUS
  <2>1. CASE Next
    BY <2>1, NextIsGood DEF StepIsGood, Calm
  <2>2. CASE UNCHANGED vars
    BY <2>2
  <2> QED BY <2>1, <2>2
<1> QED BY <1>1, InvHolds, PTL DEF Spec, CrashNeedsPendingSync

-----------------------------------------------------------------------------
(* The properties.                                                         *)

\* A list without repetition has as many elements as places.
LEMMA OnceIsNoRepeat ==
    ASSUME NEW S, NEW s \in Seq(S), Once(s)
    PROVE  NoRepeat(s)
<1> DEFINE n == Len(s)
           T == ToSet(s)
<1>1. n \in Nat /\ DOMAIN s = 1 .. n /\ s = [k \in 1 .. n |-> s[k]]
  OBVIOUS
<1>2. s \in [1 .. n -> T] /\ IsInjective(s) /\ \A t \in T : \E k \in 1 .. n : s[k] = t
  BY <1>1 DEF Once, IsInjective, ToSet
<1> HIDE DEF n, T
<1>3. s \in Bijection(1 .. n, T)
  BY <1>2 DEF Bijection, Injection, Surjection
<1>4. ExistsBijection(1 .. n, T)
  BY <1>3 DEF ExistsBijection
<1>5. Cardinality(T) = n
  BY <1>1, <1>4, FS_CountingElements
<1> QED BY <1>5 DEF NoRepeat, n, T

\* The state of the proxy has its type: no row number in all_modifs or in the hash table
\* is beyond the rows of the proxied model.
THEOREM TypeCorrect == Spec => []TypeOK
<1>1. Inv => TypeOK
  <2> SUFFICES ASSUME Inv
               PROVE  TypeOK
    OBVIOUS
  <2>1. /\ Lists(proxy) /\ News(proxy) /\ Keyed(proxy) /\ OfTheirRow(proxy) /\ ShowType(proxy)
        /\ proxy.model \in Seq(ModelRow)
    BY DEF Inv, Kept, Edits
  <2>2. proxy.model \in Seq([id : Ids, val : Row])
    BY <2>1 DEF ModelRow
  <2>3. DOMAIN proxy.mods \subseteq Modifs /\ \A m \in DOMAIN proxy.mods : proxy.mods[m] \in RowModif
    BY <2>1 DEF Lists, ToSet
  <2>4. \A m \in ToSet(proxy.all_modifs) : proxy.mods[m].model_row \in -1 .. NbRows(proxy) - 1
    BY <2>1 DEF OfTheirRow, NbRows
  <2>5. {proxy.all_modifs, proxy.new_rows, proxy.cached_modifs, proxy.cached_inserts} \subseteq Seq(Modifs)
    BY <2>1 DEF Lists
  <2>6. DOMAIN proxy.modify_rows \subseteq 0 .. NbRows(proxy) - 1
    <3> SUFFICES ASSUME NEW r \in DOMAIN proxy.modify_rows
                 PROVE  r \in 0 .. NbRows(proxy) - 1
      OBVIOUS
    <3>1. r \in Nat /\ r \in -1 .. NbRows(proxy) - 1
      BY <2>1, <2>4 DEF Keyed
    <3>2. NbRows(proxy) \in Nat
      BY <2>1 DEF NbRows
    <3> QED BY <3>1, <3>2
  <2>7. /\ proxy.chunk \in Seq(Int) \cup {NoChunk} /\ proxy.chunk_to \in Seq(Int) \cup {NoChunk, Direct}
        /\ {proxy.chunk_sep, proxy.chunk_proxy_nb_rows, proxy.told, proxy.sample_first_row} \subseteq Int
        /\ proxy.sample_size \in Nat
        /\ {proxy.cache_changes, proxy.chunk_sync_idle_id, proxy.add_null_entry, proxy.defer_sync}
              \subseteq BOOLEAN
    BY <2>1 DEF ShowType, OptionsOK
  <2> QED BY <2>2, <2>3, <2>4, <2>5, <2>6, <2>7 DEF TypeOK
<1> QED BY <1>1, InvHolds, PTL

\* A RowModif is in one of the lists, once, for as long as it is alive; new_rows and
\* modify_rows lead to those of all_modifs.  No method uses one after it has been freed.
THEOREM ModifsAreAlive == Spec => []NoDanglingModif
<1>1. Inv => NoDanglingModif
  <2> SUFFICES ASSUME Inv
               PROVE  NoDanglingModif
    OBVIOUS
  <2> DEFINE all == proxy.all_modifs
             cm == proxy.cached_modifs
             ci == proxy.cached_inserts
  <2>1. Lists(proxy) /\ News(proxy) /\ Keyed(proxy)
    BY DEF Inv, Kept, Edits
  <2>2. /\ all \in Seq(Modifs) /\ cm \in Seq(Modifs) /\ ci \in Seq(Modifs) /\ Once(all) /\ Once(cm) /\ Once(ci)
        /\ ToSet(all) \cap ToSet(cm) = {} /\ ToSet(all) \cap ToSet(ci) = {} /\ ToSet(cm) \cap ToSet(ci) = {}
        /\ DOMAIN proxy.mods = ToSet(all) \cup ToSet(cm) \cup ToSet(ci)
    BY <2>1 DEF Lists
  <2> HIDE DEF all, cm, ci
  <2>3. all \o cm \in Seq(Modifs) /\ ToSet(all \o cm) = ToSet(all) \cup ToSet(cm) /\ Once(all \o cm)
    BY <2>2, JoinedSet, JoinedIs
  <2>4. /\ (all \o cm) \o ci \in Seq(Modifs) /\ Once((all \o cm) \o ci)
        /\ ToSet((all \o cm) \o ci) = DOMAIN proxy.mods
    <3>1. ToSet(all \o cm) \cap ToSet(ci) = {}
      BY <2>2, <2>3
    <3> DEFINE d == all \o cm
    <3>2. d \in Seq(Modifs) /\ ToSet(d) = ToSet(all) \cup ToSet(cm) /\ Once(d) /\ ToSet(d) \cap ToSet(ci) = {}
      BY <2>3, <3>1
    <3> HIDE DEF d
    <3>3. d \o ci \in Seq(Modifs)
      BY <2>2, <3>2, JoinedIs
    <3>4. Once(d \o ci) /\ ToSet(d \o ci) = ToSet(d) \cup ToSet(ci)
      BY <2>2, <3>2, JoinedSet
    <3> QED BY <2>2, <3>2, <3>3, <3>4 DEF d
  <2>5. NoRepeat((all \o cm) \o ci)
    BY <2>4, OnceIsNoRepeat
  <2>6. NoRepeat(proxy.new_rows)
    BY <2>1, OnceIsNoRepeat DEF Lists
  <2>7. ToSet(proxy.new_rows) = {m \in ToSet(proxy.all_modifs) : proxy.mods[m].model_row = -1}
    BY <2>1 DEF News
  <2>8. \A r \in DOMAIN proxy.modify_rows :
          /\ proxy.modify_rows[r] \in ToSet(proxy.all_modifs)
          /\ proxy.mods[proxy.modify_rows[r]].model_row = r
    BY <2>1 DEF Keyed
  <2> QED BY <2>4, <2>5, <2>6, <2>7, <2>8 DEF NoDanglingModif, all, cm, ci
<1> QED BY <1>1, InvHolds, PTL

\* Whatever rows come and go, a change stays with the row it was made to.
THEOREM ChangesStay == Spec => []EditsStayWithTheirRow
<1>1. Inv => EditsStayWithTheirRow
  BY DEF Inv, Kept, Edits, OfTheirRow, EditsStayWithTheirRow
<1> QED BY <1>1, InvHolds, PTL

\* Out of a synchronisation the rows shown exist, each once, and the new rows are shown.
THEOREM RowsShownExist == Spec => []ShownRowsExist
<1>1. Inv => ShownRowsExist
  <2> SUFFICES ASSUME Inv, Settled(proxy), Running, proxy.chunk # NoChunk
               PROVE  /\ NoRepeat(proxy.chunk)
                      /\ ToSet(proxy.chunk) \subseteq 0 .. NbRows(proxy) + Len(proxy.new_rows) - 1
                      /\ \A k \in DOMAIN proxy.new_rows : NbRows(proxy) + k - 1 \in ToSet(proxy.chunk)
    BY DEF ShownRowsExist
  <2> DEFINE c == proxy.chunk
             nb == NbRows(proxy)
             nw == Len(proxy.new_rows)
  <2>1. Shape(proxy) /\ ShowType(proxy) /\ Edits(proxy) /\ NoMinus(proxy)
    BY SyncedIs DEF Sound
  <2>2. c \in Seq(Int) /\ Mapped(proxy, c) /\ nb \in Nat /\ nw \in Nat /\ DOMAIN proxy.new_rows = 1 .. nw
    BY <2>1 DEF ShowType, Shape, Edits, Lists, NbRows
  <2>3. PICK n \in Nat : Maps(c, n, nb, nw)
    BY <2>2 DEF Mapped
  <2>4. -1 \notin ToSet(c)
    BY <2>1 DEF NoMinus
  <2> HIDE DEF c, nb, nw
  <2>5. /\ Once(c) /\ Len(c) = n + nw /\ DOMAIN c = 1 .. n + nw
        /\ \A j \in 1 .. n + nw : /\ c[j] \in Int /\ c[j] >= -1 /\ c[j] < nb + nw
                                  /\ c[j] >= nb <=> j > n
                                  /\ j > n => c[j] = nb + (j - n) - 1
    BY <2>2, <2>3, MapsIs
  <2>6. NoRepeat(c)
    BY <2>2, <2>5, OnceIsNoRepeat
  <2>7. ToSet(c) \subseteq 0 .. nb + nw - 1
    <3> SUFFICES ASSUME NEW j \in 1 .. n + nw
                 PROVE  c[j] \in 0 .. nb + nw - 1
      BY <2>5 DEF ToSet
    <3>1. c[j] # -1
      BY <2>4, <2>5 DEF ToSet
    <3>2. c[j] \in Int /\ c[j] >= -1 /\ c[j] < nb + nw
      BY <2>5
    <3> QED BY <2>2, <3>1, <3>2
  <2>8. \A k \in 1 .. nw : nb + k - 1 \in ToSet(c)
    <3> SUFFICES ASSUME NEW k \in 1 .. nw
                 PROVE  nb + k - 1 \in ToSet(c)
      OBVIOUS
    <3>1. n + k \in 1 .. n + nw /\ n + k > n /\ nb + ((n + k) - n) - 1 = nb + k - 1
      BY <2>2
    <3>2. c[n + k] = nb + k - 1
      BY <2>5, <3>1
    <3> QED BY <2>5, <3>1, <3>2 DEF ToSet
  <2> QED BY <2>2, <2>6, <2>7, <2>8 DEF c, nb, nw
<1> QED BY <1>1, InvHolds, PTL

\* Who follows the signals knows the number of rows when no synchronisation is under way.
THEOREM ListenersKnow == Spec => []ListenersInSync
<1>1. Inv => ListenersInSync
  <2> SUFFICES ASSUME Inv, Settled(proxy), Running
               PROVE  proxy.told = NRows(proxy)
    BY DEF ListenersInSync
  <2>1. Told(proxy)
    BY SyncedIs DEF Sound, Running
  <2> QED BY <2>1, ChunkIs DEF Told, Count, NRows, Settled
<1> QED BY <1>1, InvHolds, PTL

=============================================================================
