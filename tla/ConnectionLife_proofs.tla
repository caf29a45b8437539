------------------------- MODULE ConnectionLife_proofs -------------------------
(***************************************************************************)
(* Theorems about ConnectionLife, for any set of threads, whatever         *)
(* open_connection() makes of "thread-owner" and any number of sessions:   *)
(* the one in the connection may be there, a call leaves nothing locked,   *)
(* and the signals tell whether the connection is opened.                  *)
(***************************************************************************)
EXTENDS ConnectionLife, SequenceTheorems, TLAPS

-----------------------------------------------------------------------------
(* What is left of a call fits the state it is executed in.  The invariant *)
(* has to relate the rest of a call to the number of times its thread has  *)
(* locked the connection, and to the signal it still has to send, if any.  *)

Operation == [op : {"return if opened", "return if closed", "lock", "trylock", "unlock", "owner",
                    "meta store", "open", "close", "opened", "closed"},
              value : Owners]

Depths == 0 .. 2
Dues   == {"no", "opened", "closed"}

\* What thread t may do with the connection locked d times and the signal u due.
Allowed(t, o, d, u) ==
    /\ o.op \in {"return if opened", "return if closed", "trylock"} => d = 0
    /\ o.op = "lock" => d < 2
    /\ o.op = "unlock" => d > 0 /\ (u # "no" => d > 1)
    /\ o.op = "open" => d = 1
    /\ o.op = "close" => d = 2
    /\ o.op \in {"opened", "closed"} => u = o.op
    /\ o.op \in {"open", "close", "lock", "trylock", "return if opened", "return if closed",
                 "meta store"} => u = "no"
    /\ o.op = "owner" => (d = 0 /\ u = "no") \/ o.value \in {NoThread, t}

DepthAfter(o, d) == IF o.op \in {"lock", "trylock"} THEN d + 1
                    ELSE IF o.op = "unlock" THEN d - 1 ELSE d
DueAfter(o, u) == IF o.op = "open" THEN "opened" ELSE IF o.op = "close" THEN "closed"
                  ELSE IF o.op \in {"opened", "closed"} THEN "no" ELSE u

\* The operations s can be executed from depth d with u due, and end with nothing
\* locked and nothing due: h and g say how deep and what is due before each.
Balanced(t, s, d, u) ==
    \E h \in [Nat -> Depths], g \in [Nat -> Dues] :
       /\ h[1] = d /\ h[Len(s) + 1] = 0
       /\ g[1] = u /\ g[Len(s) + 1] = "no"
       /\ \A k \in 1 .. Len(s) : /\ Allowed(t, s[k], h[k], g[k])
                                 /\ h[k + 1] = DepthAfter(s[k], h[k])
                                 /\ g[k + 1] = DueAfter(s[k], g[k])

\* The first operation of what is left is allowed, and the rest fits what it leads to.
LEMMA BalancedTail ==
    ASSUME NEW t, NEW s \in Seq(Operation), s # << >>, NEW d, NEW u, Balanced(t, s, d, u)
    PROVE  /\ Head(s) \in Operation /\ Tail(s) \in Seq(Operation)
           /\ d \in Depths /\ u \in Dues /\ Allowed(t, Head(s), d, u)
           /\ DepthAfter(Head(s), d) \in Depths /\ DueAfter(Head(s), u) \in Dues
           /\ Balanced(t, Tail(s), DepthAfter(Head(s), d), DueAfter(Head(s), u))
<1>1. PICK h \in [Nat -> Depths], g \in [Nat -> Dues] :
         /\ h[1] = d /\ h[Len(s) + 1] = 0
         /\ g[1] = u /\ g[Len(s) + 1] = "no"
         /\ \A k \in 1 .. Len(s) : /\ Allowed(t, s[k], h[k], g[k])
                                   /\ h[k + 1] = DepthAfter(s[k], h[k])
                                   /\ g[k + 1] = DueAfter(s[k], g[k])
  BY DEF Balanced
<1>2. /\ Head(s) = s[1] /\ Head(s) \in Operation /\ Tail(s) \in Seq(Operation)
      /\ Len(s) \in Nat /\ Len(s) > 0 /\ Len(Tail(s)) = Len(s) - 1
      /\ \A k \in 1 .. Len(s) - 1 : Tail(s)[k] = s[k + 1]
  BY HeadTailProperties, EmptySeq, LenProperties
<1>3. /\ Allowed(t, Head(s), d, u)
      /\ h[2] = DepthAfter(Head(s), d) /\ g[2] = DueAfter(Head(s), u)
  <2>1. 1 \in 1 .. Len(s) /\ 1 + 1 = 2
    BY <1>2
  <2> QED BY <1>1, <1>2, <2>1
<1> DEFINE h1 == [k \in Nat |-> h[k + 1]]
           g1 == [k \in Nat |-> g[k + 1]]
<1>4. h1 \in [Nat -> Depths] /\ g1 \in [Nat -> Dues]
  BY <1>1
<1>5. /\ h1[1] = DepthAfter(Head(s), d) /\ h1[Len(Tail(s)) + 1] = 0
      /\ g1[1] = DueAfter(Head(s), u) /\ g1[Len(Tail(s)) + 1] = "no"
  BY <1>1, <1>2, <1>3
<1>6. ASSUME NEW k \in 1 .. Len(Tail(s))
      PROVE  /\ Allowed(t, Tail(s)[k], h1[k], g1[k])
             /\ h1[k + 1] = DepthAfter(Tail(s)[k], h1[k])
             /\ g1[k + 1] = DueAfter(Tail(s)[k], g1[k])
  <2>1. k \in Nat /\ k + 1 \in Nat /\ k + 1 \in 1 .. Len(s) /\ Tail(s)[k] = s[k + 1]
    BY <1>2
  <2>2. h1[k] = h[k + 1] /\ h1[k + 1] = h[(k + 1) + 1]
        /\ g1[k] = g[k + 1] /\ g1[k + 1] = g[(k + 1) + 1]
    BY <2>1
  <2> QED BY <1>1, <2>1, <2>2
<1> HIDE DEF h1, g1
<1>7. Balanced(t, Tail(s), DepthAfter(Head(s), d), DueAfter(Head(s), u))
  BY <1>4, <1>5, <1>6 DEF Balanced
<1>8. h[1] \in Depths /\ h[2] \in Depths /\ g[1] \in Dues /\ g[2] \in Dues
  BY <1>1
<1> QED BY <1>1, <1>2, <1>3, <1>7, <1>8

\* The converse, to build what is left of a call from its end.
LEMMA BalancedCons ==
    ASSUME NEW t, NEW s \in Seq(Operation), s # << >>, NEW d \in Depths, NEW u \in Dues,
           Allowed(t, Head(s), d, u),
           Balanced(t, Tail(s), DepthAfter(Head(s), d), DueAfter(Head(s), u))
    PROVE  Balanced(t, s, d, u)
<1>1. PICK h1 \in [Nat -> Depths], g1 \in [Nat -> Dues] :
         /\ h1[1] = DepthAfter(Head(s), d) /\ h1[Len(Tail(s)) + 1] = 0
         /\ g1[1] = DueAfter(Head(s), u) /\ g1[Len(Tail(s)) + 1] = "no"
         /\ \A k \in 1 .. Len(Tail(s)) : /\ Allowed(t, Tail(s)[k], h1[k], g1[k])
                                         /\ h1[k + 1] = DepthAfter(Tail(s)[k], h1[k])
                                         /\ g1[k + 1] = DueAfter(Tail(s)[k], g1[k])
  BY DEF Balanced
<1>2. /\ Head(s) = s[1] /\ Len(s) \in Nat /\ Len(s) > 0 /\ Len(Tail(s)) = Len(s) - 1
      /\ \A k \in 1 .. Len(s) - 1 : Tail(s)[k] = s[k + 1]
  BY HeadTailProperties, EmptySeq, LenProperties
<1> DEFINE h == [k \in Nat |-> IF k <= 1 THEN d ELSE h1[k - 1]]
           g == [k \in Nat |-> IF k <= 1 THEN u ELSE g1[k - 1]]
<1>3. h \in [Nat -> Depths] /\ g \in [Nat -> Dues]
  <2>1. ASSUME NEW k \in Nat, ~(k <= 1) PROVE k - 1 \in Nat
    BY <2>1
  <2> QED BY <1>1, <2>1
<1>4. /\ h[1] = d /\ g[1] = u
      /\ \A k \in Nat \ {0} : h[k + 1] = h1[k] /\ g[k + 1] = g1[k]
  <2>1. h[1] = d /\ g[1] = u
    OBVIOUS
  <2>2. ASSUME NEW k \in Nat \ {0} PROVE h[k + 1] = h1[k] /\ g[k + 1] = g1[k]
    <3>1. k + 1 \in Nat /\ ~(k + 1 <= 1) /\ (k + 1) - 1 = k
      OBVIOUS
    <3> QED BY <3>1
  <2> QED BY <2>1, <2>2
<1> HIDE DEF h, g
<1>5. h[Len(s) + 1] = 0 /\ g[Len(s) + 1] = "no"
  BY <1>1, <1>2, <1>4
<1>6. ASSUME NEW k \in 1 .. Len(s)
      PROVE  /\ Allowed(t, s[k], h[k], g[k])
             /\ h[k + 1] = DepthAfter(s[k], h[k])
             /\ g[k + 1] = DueAfter(s[k], g[k])
  <2>1. CASE k = 1
    BY <1>1, <1>2, <1>4, <2>1
  <2>2. CASE k # 1
    <3>1. PICK m \in 1 .. Len(Tail(s)) : k = m + 1
      BY <1>2, <2>2
    <3>2. m \in Nat \ {0} /\ m + 1 \in Nat \ {0} /\ Tail(s)[m] = s[k]
      BY <1>2, <3>1
    <3>3. /\ Allowed(t, Tail(s)[m], h1[m], g1[m])
          /\ h1[m + 1] = DepthAfter(Tail(s)[m], h1[m])
          /\ g1[m + 1] = DueAfter(Tail(s)[m], g1[m])
      BY <1>1, <3>1
    <3>4. h[k] = h1[m] /\ g[k] = g1[m] /\ h[k + 1] = h1[m + 1] /\ g[k + 1] = g1[m + 1]
      BY <1>4, <3>1, <3>2
    <3> QED BY <3>2, <3>3, <3>4
  <2> QED BY <2>1, <2>2
<1> QED BY <1>3, <1>4, <1>5, <1>6 DEF Balanced

\* A call that is over has nothing locked and nothing due.
LEMMA BalancedEmpty ==
    ASSUME NEW t
    PROVE  Balanced(t, << >>, 0, "no")
<1>1. Len(<< >>) = 0 /\ 1 .. 0 = {}
  OBVIOUS
<1> DEFINE h == [k \in Nat |-> 0]
           g == [k \in Nat |-> "no"]
<1>2. h \in [Nat -> Depths] /\ g \in [Nat -> Dues]
  BY DEF Depths, Dues
<1>3. h[1] = 0 /\ g[1] = "no"
  OBVIOUS
<1> HIDE DEF h, g
<1> QED BY <1>1, <1>2, <1>3 DEF Balanced

\* ... and nothing else.
LEMMA OnlyEmpty ==
    ASSUME NEW t, NEW d, NEW u, Balanced(t, << >>, d, u)
    PROVE  d = 0 /\ u = "no"
<1>1. Len(<< >>) = 0
  OBVIOUS
<1> QED BY <1>1 DEF Balanced

-----------------------------------------------------------------------------
(* The calls, and what a failed open and a useless close leave to do.      *)

\* Locking and unlocking.
LEMMA BeforeLock ==
    ASSUME NEW t, NEW r \in Seq(Operation), r # << >>, NEW d \in {1, 2}
    PROVE  /\ Head(r) = Op("unlock") /\ Balanced(t, Tail(r), d - 1, "no")
                => Balanced(t, r, d, "no")
           /\ Head(r) = Op("unlock") /\ Balanced(t, Tail(r), 1, "closed")
                => Balanced(t, r, 2, "closed")
           /\ Head(r) = Op("lock") /\ Balanced(t, Tail(r), d, "no")
                => Balanced(t, r, d - 1, "no")
           /\ Head(r) = Op("trylock") /\ Balanced(t, Tail(r), 1, "no")
                => Balanced(t, r, 0, "no")
<1>1. d \in Depths /\ d - 1 \in Depths /\ 0 \in Depths /\ "no" \in Dues /\ "closed" \in Dues
      /\ 2 \in Depths
  BY DEF Depths, Dues
<1>2. /\ Allowed(t, Op("unlock"), d, "no") /\ Allowed(t, Op("unlock"), 2, "closed")
      /\ Allowed(t, Op("lock"), d - 1, "no") /\ Allowed(t, Op("trylock"), 0, "no")
  BY DEF Allowed, Op
<1>3. /\ DepthAfter(Op("unlock"), d) = d - 1 /\ DepthAfter(Op("unlock"), 2) = 1
      /\ DepthAfter(Op("lock"), d - 1) = d /\ DepthAfter(Op("trylock"), 0) = 1
      /\ \A u \in Dues : /\ DueAfter(Op("unlock"), u) = u /\ DueAfter(Op("lock"), u) = u
                         /\ DueAfter(Op("trylock"), u) = u
  BY DEF DepthAfter, DueAfter, Op
<1> QED BY <1>1, <1>2, <1>3, BalancedCons

\* The connection opened or closed, and the signals.
LEMMA BeforeSession ==
    ASSUME NEW t, NEW r \in Seq(Operation), r # << >>
    PROVE  /\ Head(r) = Op("open") /\ Balanced(t, Tail(r), 1, "opened") => Balanced(t, r, 1, "no")
           /\ Head(r) = Op("close") /\ Balanced(t, Tail(r), 2, "closed") => Balanced(t, r, 2, "no")
           /\ \A u \in {"opened", "closed"} :
                Head(r) = Op(u) /\ Balanced(t, Tail(r), 1, "no") => Balanced(t, r, 1, u)
           /\ \A name \in {"return if opened", "return if closed"} :
                Head(r) = Op(name) /\ Balanced(t, Tail(r), 0, "no") => Balanced(t, r, 0, "no")
           /\ Head(r) = Op("meta store") /\ Balanced(t, Tail(r), 1, "no") => Balanced(t, r, 1, "no")
<1>1. 1 \in Depths /\ 0 \in Depths /\ 2 \in Depths /\ \A u \in {"no", "opened", "closed"} : u \in Dues
  BY DEF Depths, Dues
<1>2. /\ Allowed(t, Op("open"), 1, "no") /\ Allowed(t, Op("close"), 2, "no")
      /\ Allowed(t, Op("meta store"), 1, "no")
      /\ \A u \in {"opened", "closed"} : Allowed(t, Op(u), 1, u)
      /\ \A name \in {"return if opened", "return if closed"} : Allowed(t, Op(name), 0, "no")
  BY DEF Allowed, Op
<1>3. /\ DepthAfter(Op("open"), 1) = 1 /\ DueAfter(Op("open"), "no") = "opened"
      /\ DepthAfter(Op("close"), 2) = 2 /\ DueAfter(Op("close"), "no") = "closed"
      /\ DepthAfter(Op("meta store"), 1) = 1 /\ DueAfter(Op("meta store"), "no") = "no"
      /\ \A u \in {"opened", "closed"} : DepthAfter(Op(u), 1) = 1 /\ DueAfter(Op(u), u) = "no"
      /\ \A name \in {"return if opened", "return if closed"} :
           DepthAfter(Op(name), 0) = 0 /\ DueAfter(Op(name), "no") = "no"
  BY DEF DepthAfter, DueAfter, Op
<1>4. Head(r) = Op("open") /\ Balanced(t, Tail(r), 1, "opened") => Balanced(t, r, 1, "no")
  BY <1>1, <1>2, <1>3, BalancedCons
<1>5. Head(r) = Op("close") /\ Balanced(t, Tail(r), 2, "closed") => Balanced(t, r, 2, "no")
  BY <1>1, <1>2, <1>3, BalancedCons
<1>6. ASSUME NEW u \in {"opened", "closed"}, Head(r) = Op(u), Balanced(t, Tail(r), 1, "no")
      PROVE  Balanced(t, r, 1, u)
  BY <1>1, <1>2, <1>3, <1>6, BalancedCons
<1>7. ASSUME NEW name \in {"return if opened", "return if closed"},
             Head(r) = Op(name), Balanced(t, Tail(r), 0, "no")
      PROVE  Balanced(t, r, 0, "no")
  BY <1>1, <1>2, <1>3, <1>7, BalancedCons
<1>8. Head(r) = Op("meta store") /\ Balanced(t, Tail(r), 1, "no") => Balanced(t, r, 1, "no")
  BY <1>1, <1>2, <1>3, BalancedCons
<1> QED BY <1>4, <1>5, <1>6, <1>7, <1>8

\* The property "thread-owner", set by a thread out of the connection or, when it
\* opens it, in the connection.
LEMMA BeforeOwner ==
    ASSUME NEW t, NEW v \in Owners, NEW r \in Seq(Operation), r # << >>,
           Head(r) = [op |-> "owner", value |-> v]
    PROVE  /\ Balanced(t, Tail(r), 0, "no") => Balanced(t, r, 0, "no")
           /\ v \in {NoThread, t} /\ Balanced(t, Tail(r), 1, "opened") => Balanced(t, r, 1, "opened")
<1> DEFINE o == [op |-> "owner", value |-> v]
<1>1. 1 \in Depths /\ 0 \in Depths /\ "no" \in Dues /\ "opened" \in Dues
  BY DEF Depths, Dues
<1>2. /\ Allowed(t, o, 0, "no") /\ (v \in {NoThread, t} => Allowed(t, o, 1, "opened"))
      /\ \A d : DepthAfter(o, d) = d
      /\ \A u \in {"no", "opened"} : DueAfter(o, u) = u
  BY DEF Allowed, DepthAfter, DueAfter
<1> QED BY <1>1, <1>2, BalancedCons

\* The operations of the calls are operations.
LEMMA Operations ==
    /\ \A name \in {"return if opened", "return if closed", "lock", "trylock", "unlock", "owner",
                     "meta store", "open", "close", "opened", "closed"} : Op(name) \in Operation
    /\ \A v \in Owners : [op |-> "owner", value |-> v] \in Operation
BY DEF Op, Operation, Owners

\* The ends of a call, and of one that found nothing to do.
LEMMA BalancedEnds ==
    ASSUME NEW t
    PROVE  /\ << Op("unlock") >> \in Seq(Operation)
           /\ << Op("unlock"), Op("unlock") >> \in Seq(Operation)
           /\ << Op("opened"), Op("unlock") >> \in Seq(Operation)
           /\ Balanced(t, << Op("unlock") >>, 1, "no")
           /\ Balanced(t, << Op("unlock"), Op("unlock") >>, 2, "no")
           /\ Balanced(t, << Op("opened"), Op("unlock") >>, 1, "opened")
           /\ Balanced(t, << Op("closed"), Op("unlock") >>, 1, "closed")
<1> DEFINE U == Op("unlock")
           O == Op("opened")
           C == Op("closed")
<1>1. U \in Operation /\ O \in Operation /\ C \in Operation
  BY Operations
<1>2. /\ Balanced(t, << >>, 0, "no") /\ 1 - 1 = 0 /\ 2 - 1 = 1 /\ 1 \in {1, 2} /\ 2 \in {1, 2}
      /\ "opened" \in {"opened", "closed"} /\ "closed" \in {"opened", "closed"}
  BY BalancedEmpty
<1> HIDE DEF U, O, C
<1>3. << U >> \in Seq(Operation) /\ Head(<< U >>) = U /\ Tail(<< U >>) = << >> /\ << U >> # << >>
  BY <1>1
<1>4. Balanced(t, << U >>, 1, "no")
  BY <1>2, <1>3, BeforeLock DEF U
<1>5. /\ << U, U >> \in Seq(Operation) /\ Head(<< U, U >>) = U /\ Tail(<< U, U >>) = << U >>
      /\ << U, U >> # << >>
  BY <1>1
<1>6. Balanced(t, << U, U >>, 2, "no")
  BY <1>2, <1>4, <1>5, BeforeLock DEF U
<1>7. /\ << O, U >> \in Seq(Operation) /\ Head(<< O, U >>) = O /\ Tail(<< O, U >>) = << U >>
      /\ << O, U >> # << >>
  BY <1>1
<1>8. Balanced(t, << O, U >>, 1, "opened")
  BY <1>2, <1>4, <1>7, BeforeSession DEF O
<1>9. /\ << C, U >> \in Seq(Operation) /\ Head(<< C, U >>) = C /\ Tail(<< C, U >>) = << U >>
      /\ << C, U >> # << >>
  BY <1>1
<1>10. Balanced(t, << C, U >>, 1, "closed")
  BY <1>2, <1>4, <1>9, BeforeSession DEF C
<1> QED BY <1>3, <1>4, <1>5, <1>6, <1>7, <1>8, <1>10 DEF U, O, C

\* What gda_connection_open() amounts to for each value of OwnerAtOpen.
LEMMA OpenCalls ==
    ASSUME NEW t
    PROVE  \/ Open(t) = << Op("return if opened"), Op("lock"), Op("open"), Op("opened"), Op("unlock") >>
           \/ \E v \in {NoThread, t} :
                Open(t) = << Op("return if opened"), Op("lock"), Op("open"),
                             [op |-> "owner", value |-> v], Op("opened"), Op("unlock") >>
<1> DEFINE X == Op("return if opened")
           L == Op("lock")
           P == Op("open")
           O == Op("opened")
           U == Op("unlock")
           W(v) == [op |-> "owner", value |-> v]
<1>1. ASSUME NEW x, NEW l, NEW p, NEW o, NEW u
      PROVE  << x, l, p >> \o << >> \o << o, u >> = << x, l, p, o, u >>
  <2>1. << x, l, p >> \o << >> = << x, l, p >>
    OBVIOUS
  <2> DEFINE s == << x, l, p >> \o << o, u >>
  <2>2. Len(s) = 5 /\ s \in Seq({x, l, p, o, u})
    OBVIOUS
  <2>3. s[1] = x /\ s[2] = l /\ s[3] = p /\ s[4] = o /\ s[5] = u
    OBVIOUS
  <2> HIDE DEF s
  <2>4. s = << x, l, p, o, u >>
    BY <2>2, <2>3
  <2> QED BY <2>1, <2>4 DEF s
<1>2. ASSUME NEW x, NEW l, NEW p, NEW w, NEW o, NEW u
      PROVE  << x, l, p >> \o << w >> \o << o, u >> = << x, l, p, w, o, u >>
  <2> DEFINE r == << x, l, p >> \o << w >>
             s == << x, l, p, w >> \o << o, u >>
  <2>1. Len(r) = 4 /\ r \in Seq({x, l, p, w}) /\ r[1] = x /\ r[2] = l /\ r[3] = p /\ r[4] = w
    OBVIOUS
  <2>2. Len(s) = 6 /\ s \in Seq({x, l, p, w, o, u})
    OBVIOUS
  <2>3. s[1] = x /\ s[2] = l /\ s[3] = p /\ s[4] = w /\ s[5] = o /\ s[6] = u
    OBVIOUS
  <2> HIDE DEF r, s
  <2>4. r = << x, l, p, w >>
    BY <2>1
  <2>5. s = << x, l, p, w, o, u >>
    BY <2>2, <2>3
  <2> QED BY <2>4, <2>5 DEF r, s
<1>3. CASE OwnerAtOpen = "unchanged"
  BY <1>1, <1>3 DEF Open
<1>4. CASE OwnerAtOpen = "none"
  <2>1. Open(t) = << X, L, P >> \o << W(NoThread) >> \o << O, U >>
    BY <1>4 DEF Open, Op
  <2> HIDE DEF X, L, P, O, U, W
  <2>2. Open(t) = << X, L, P, W(NoThread), O, U >>
    BY <1>2, <2>1
  <2> QED BY <2>2 DEF X, L, P, O, U, W
<1>5. CASE OwnerAtOpen = "self"
  <2>1. Open(t) = << X, L, P >> \o << W(t) >> \o << O, U >>
    BY <1>5 DEF Open
  <2> HIDE DEF X, L, P, O, U, W
  <2>2. Open(t) = << X, L, P, W(t), O, U >>
    BY <1>2, <2>1
  <2> QED BY <2>2 DEF X, L, P, O, U, W
<1> QED BY <1>3, <1>4, <1>5, LifeAssumption

\* Every call unlocks what it locks and sends the signal of what it did.
LEMMA BalancedCalls ==
    ASSUME NEW t \in Threads, NEW c \in Calls(t)
    PROVE  c \in Seq(Operation) /\ Balanced(t, c, 0, "no")
<1> DEFINE U == Op("unlock")
           L == Op("lock")
           T == Op("trylock")
           S == Op("meta store")
           X == Op("return if opened")
           Y == Op("return if closed")
           P == Op("open")
           Q == Op("close")
           O == Op("opened")
           C == Op("closed")
           W(v) == [op |-> "owner", value |-> v]
<1>1. /\ U \in Operation /\ L \in Operation /\ T \in Operation /\ S \in Operation /\ X \in Operation
      /\ Y \in Operation /\ P \in Operation /\ Q \in Operation /\ O \in Operation /\ C \in Operation
      /\ \A v \in Owners : W(v) \in Operation
  BY Operations
<1>2. /\ Balanced(t, << >>, 0, "no") /\ Balanced(t, << U >>, 1, "no")
      /\ Balanced(t, << U, U >>, 2, "no") /\ Balanced(t, << O, U >>, 1, "opened")
      /\ Balanced(t, << C, U >>, 1, "closed")
      /\ 2 - 1 = 1 /\ 1 - 1 = 0 /\ 1 \in {1, 2} /\ 2 \in {1, 2}
      /\ "return if opened" \in {"return if opened", "return if closed"}
      /\ "return if closed" \in {"return if opened", "return if closed"}
      /\ NoThread \in Owners /\ t \in Owners
  BY BalancedEmpty, BalancedEnds DEF Owners
<1> HIDE DEF U, L, T, S, X, Y, P, Q, O, C, W
<1>3. /\ << U, C, U >> \in Seq(Operation) /\ << U, C, U >> # << >>
      /\ Head(<< U, C, U >>) = U /\ Tail(<< U, C, U >>) = << C, U >>
  BY <1>1
<1>4. Balanced(t, << U, C, U >>, 2, "closed")
  BY <1>2, <1>3, BeforeLock DEF U
<1>5. /\ << Q, U, C, U >> \in Seq(Operation) /\ << Q, U, C, U >> # << >>
      /\ Head(<< Q, U, C, U >>) = Q /\ Tail(<< Q, U, C, U >>) = << U, C, U >>
  BY <1>1
<1>6. Balanced(t, << Q, U, C, U >>, 2, "no")
  BY <1>2, <1>5, <1>4, BeforeSession DEF Q
<1>7. /\ << L, Q, U, C, U >> \in Seq(Operation) /\ << L, Q, U, C, U >> # << >>
      /\ Head(<< L, Q, U, C, U >>) = L /\ Tail(<< L, Q, U, C, U >>) = << Q, U, C, U >>
  BY <1>1
<1>8. Balanced(t, << L, Q, U, C, U >>, 1, "no")
  BY <1>2, <1>7, <1>6, BeforeLock DEF L
<1>9. /\ << L, L, Q, U, C, U >> \in Seq(Operation) /\ << L, L, Q, U, C, U >> # << >>
      /\ Head(<< L, L, Q, U, C, U >>) = L /\ Tail(<< L, L, Q, U, C, U >>) = << L, Q, U, C, U >>
  BY <1>1
<1>10. Balanced(t, << L, L, Q, U, C, U >>, 0, "no")
  BY <1>2, <1>9, <1>8, BeforeLock DEF L
<1>11. /\ << Y, L, L, Q, U, C, U >> \in Seq(Operation) /\ << Y, L, L, Q, U, C, U >> # << >>
      /\ Head(<< Y, L, L, Q, U, C, U >>) = Y /\ Tail(<< Y, L, L, Q, U, C, U >>) = << L, L, Q, U, C, U >>
  BY <1>1
<1>12. Balanced(t, << Y, L, L, Q, U, C, U >>, 0, "no")
  BY <1>2, <1>11, <1>10, BeforeSession DEF Y
<1>13. /\ << L, U, U >> \in Seq(Operation) /\ << L, U, U >> # << >>
      /\ Head(<< L, U, U >>) = L /\ Tail(<< L, U, U >>) = << U, U >>
  BY <1>1
<1>14. Balanced(t, << L, U, U >>, 1, "no")
  BY <1>2, <1>13, BeforeLock DEF L
<1>15. /\ << L, L, U, U >> \in Seq(Operation) /\ << L, L, U, U >> # << >>
      /\ Head(<< L, L, U, U >>) = L /\ Tail(<< L, L, U, U >>) = << L, U, U >>
  BY <1>1
<1>16. Balanced(t, << L, L, U, U >>, 0, "no")
  BY <1>2, <1>15, <1>14, BeforeLock DEF L
<1>17. /\ << T, U >> \in Seq(Operation) /\ << T, U >> # << >>
      /\ Head(<< T, U >>) = T /\ Tail(<< T, U >>) = << U >>
  BY <1>1
<1>18. Balanced(t, << T, U >>, 0, "no")
  BY <1>2, <1>17, BeforeLock DEF T
<1>19. /\ << S, U >> \in Seq(Operation) /\ << S, U >> # << >>
      /\ Head(<< S, U >>) = S /\ Tail(<< S, U >>) = << U >>
  BY <1>1
<1>20. Balanced(t, << S, U >>, 1, "no")
  BY <1>2, <1>19, BeforeSession DEF S
<1>21. /\ << L, S, U >> \in Seq(Operation) /\ << L, S, U >> # << >>
      /\ Head(<< L, S, U >>) = L /\ Tail(<< L, S, U >>) = << S, U >>
  BY <1>1
<1>22. Balanced(t, << L, S, U >>, 0, "no")
  BY <1>2, <1>21, <1>20, BeforeLock DEF L
<1>23. /\ << P, O, U >> \in Seq(Operation) /\ << P, O, U >> # << >>
      /\ Head(<< P, O, U >>) = P /\ Tail(<< P, O, U >>) = << O, U >>
  BY <1>1
<1>24. Balanced(t, << P, O, U >>, 1, "no")
  BY <1>2, <1>23, BeforeSession DEF P
<1>25. /\ << L, P, O, U >> \in Seq(Operation) /\ << L, P, O, U >> # << >>
      /\ Head(<< L, P, O, U >>) = L /\ Tail(<< L, P, O, U >>) = << P, O, U >>
  BY <1>1
<1>26. Balanced(t, << L, P, O, U >>, 0, "no")
  BY <1>2, <1>25, <1>24, BeforeLock DEF L
<1>27. /\ << X, L, P, O, U >> \in Seq(Operation) /\ << X, L, P, O, U >> # << >>
      /\ Head(<< X, L, P, O, U >>) = X /\ Tail(<< X, L, P, O, U >>) = << L, P, O, U >>
  BY <1>1
<1>28. Balanced(t, << X, L, P, O, U >>, 0, "no")
  BY <1>2, <1>27, <1>26, BeforeSession DEF X
<1>29. ASSUME NEW v \in {NoThread, t}
      PROVE  /\ << X, L, P, W(v), O, U >> \in Seq(Operation)
             /\ Balanced(t, << X, L, P, W(v), O, U >>, 0, "no")
  <2> DEFINE w == W(v)
  <2>1. w \in Operation /\ v \in Owners
    BY <1>1, <1>2
  <2> HIDE DEF w
  <2>2. /\ << w, O, U >> \in Seq(Operation) /\ << w, O, U >> # << >>
        /\ Head(<< w, O, U >>) = w /\ Tail(<< w, O, U >>) = << O, U >>
    BY <1>1, <1>2, <2>1
  <2>3. Balanced(t, << w, O, U >>, 1, "opened")
    BY <1>2, <2>2, <2>1, BeforeOwner DEF w, W
  <2>4. /\ << P, w, O, U >> \in Seq(Operation) /\ << P, w, O, U >> # << >>
        /\ Head(<< P, w, O, U >>) = P /\ Tail(<< P, w, O, U >>) = << w, O, U >>
    BY <1>1, <1>2, <2>1
  <2>5. Balanced(t, << P, w, O, U >>, 1, "no")
    BY <1>2, <2>4, <2>3, <2>1, BeforeSession DEF P
  <2>6. /\ << L, P, w, O, U >> \in Seq(Operation) /\ << L, P, w, O, U >> # << >>
        /\ Head(<< L, P, w, O, U >>) = L /\ Tail(<< L, P, w, O, U >>) = << P, w, O, U >>
    BY <1>1, <1>2, <2>1
  <2>7. Balanced(t, << L, P, w, O, U >>, 0, "no")
    BY <1>2, <2>6, <2>5, <2>1, BeforeLock DEF L
  <2>8. /\ << X, L, P, w, O, U >> \in Seq(Operation) /\ << X, L, P, w, O, U >> # << >>
        /\ Head(<< X, L, P, w, O, U >>) = X /\ Tail(<< X, L, P, w, O, U >>) = << L, P, w, O, U >>
    BY <1>1, <1>2, <2>1
  <2>9. Balanced(t, << X, L, P, w, O, U >>, 0, "no")
    BY <1>2, <2>8, <2>7, <2>1, BeforeSession DEF X
  <2> QED BY <2>8, <2>9 DEF w
<1>30. ASSUME NEW v \in Owners
      PROVE  << W(v) >> \in Seq(Operation) /\ Balanced(t, << W(v) >>, 0, "no")
  <2> DEFINE w == W(v)
  <2>1. w \in Operation
    BY <1>1
  <2> HIDE DEF w
  <2>2. /\ << w >> \in Seq(Operation) /\ << w >> # << >>
        /\ Head(<< w >>) = w /\ Tail(<< w >>) = << >>
    BY <1>1, <1>2, <2>1
  <2>3. Balanced(t, << w >>, 0, "no")
    BY <1>2, <2>2, <2>1, BeforeOwner DEF w, W
  <2> QED BY <2>2, <2>3 DEF w
<1>31. Open(t) \in Seq(Operation) /\ Balanced(t, Open(t), 0, "no")
  <2>1. \/ Open(t) = << X, L, P, O, U >>
        \/ \E v \in {NoThread, t} : Open(t) = << X, L, P, W(v), O, U >>
    BY OpenCalls DEF X, L, P, O, U, W
  <2> QED BY <1>27, <1>28, <1>29, <2>1
<1>32. /\ Close = << Y, L, L, Q, U, C, U >> /\ Use = << L, L, U, U >> /\ TryToUse = << T, U >>
      /\ UpdateMetaStore = << L, S, U >> /\ \A v \in Owners : SetOwner(v) = << W(v) >>
  BY DEF Close, Use, TryToUse, UpdateMetaStore, SetOwner, U, L, T, S, Y, Q, C, W
<1> QED BY <1>11, <1>12, <1>15, <1>16, <1>17, <1>18, <1>21, <1>22,
           <1>30, <1>31, <1>32 DEF Calls

-----------------------------------------------------------------------------
(* The inductive invariant.                                                *)

\* How many times thread t has locked the connection in the operations that it
\* has finished: the one it is in may have taken the mutex without being through.
Depth(t) == IF rmutex.by # t THEN 0
            ELSE IF at[t] = "locked" THEN rmutex.count - 1 ELSE rmutex.count

WellFormed == /\ todo \in [Threads -> Seq(Operation)]
              /\ rmutex \in [by : Owners, count : 0 .. 3]

\* Where a thread is, and what it then has; the mutex is only held by a thread
\* that may use the connection, once it has looked.
InPlace(t) ==
    /\ at[t] \in {"locked", "kept out", "testing", "trying", "waiting", "late", "woken"}
         => IsFor(t, "lock")
    /\ at[t] = "setting" => IsFor(t, "owner")
    /\ at[t] = "locked" => rmutex.by = t
    /\ object_mutex = t <=> at[t] \in {"testing", "trying", "setting"}
    /\ at[t] = "trying" => MayUse(t)
    /\ Depth(t) # 0 => MayUse(t)

\* The rest of the call fits, with the signal u due: it tells what the connection is.
Fits(t, u) == /\ Balanced(t, todo[t], Depth(t), u)
              /\ u = "opened" => provider_data
              /\ u = "closed" => ~provider_data
              /\ u # "no" => Depth(t) # 0

AllInPlace == \A t \in Threads : InPlace(t)
CallsFit   == \A t \in Threads : \E u \in Dues : Fits(t, u)
WillBeTold == told # provider_data => \E t \in Threads, u \in {"opened", "closed"} : Fits(t, u)
SessionsCounted == /\ raced \/ sessions = (IF provider_data THEN 1 ELSE 0)
                   /\ provider_data => sessions > 0

LifeInv == TypeOK /\ WellFormed /\ AllInPlace /\ CallsFit /\ WillBeTold /\ SessionsCounted

\* What the runs check follows from the invariant.
LEMMA LifeInvImplies == LifeInv => UserIsOwner /\ NothingLeftLocked /\ OpennessAgrees
<1> SUFFICES ASSUME LifeInv PROVE UserIsOwner /\ NothingLeftLocked /\ OpennessAgrees
  OBVIOUS
<1>0. /\ TypeOK /\ WellFormed /\ AllInPlace /\ CallsFit /\ WillBeTold /\ SessionsCounted
      /\ NoThread \notin Threads
  BY LifeAssumption DEF LifeInv
<1>1. ASSUME NEW t \in Threads, rmutex.by = t
      PROVE  rmutex.count # 0
  <2>1. rmutex.count \in 0 .. 3 /\ rmutex.by # NoThread
    BY <1>0, <1>1 DEF TypeOK
  <2>2. rmutex.count # 0
    BY <1>0, <2>1 DEF TypeOK
  <2> QED BY <2>1, <2>2
<1>2. UserIsOwner
  BY <1>0, <1>1 DEF UserIsOwner, AllInPlace, InPlace, Depth
<1>3. ASSUME NEW t \in Threads, todo[t] = << >>
      PROVE  rmutex.by # t /\ object_mutex # t
  <2>1. at[t] = "start"
    BY <1>0, <1>3 DEF AllInPlace, InPlace, IsFor, TypeOK
  <2>2. PICK u \in Dues : Balanced(t, << >>, Depth(t), u)
    BY <1>0, <1>3 DEF CallsFit, Fits
  <2>3. Depth(t) = 0
    BY <2>2, OnlyEmpty
  <2>4. rmutex.by # t
    BY <1>1, <2>1, <2>3 DEF Depth
  <2> QED BY <1>0, <2>1, <2>4 DEF AllInPlace, InPlace
<1>4. NothingLeftLocked
  BY <1>3 DEF NothingLeftLocked
<1>5. OpennessAgrees
  BY <1>0 DEF OpennessAgrees, WillBeTold, Fits, Depth, SessionsCounted
<1> QED BY <1>2, <1>4, <1>5

\* No thread is in a call.
LEMMA InitLife == Init => LifeInv
<1> SUFFICES ASSUME Init PROVE LifeInv
  OBVIOUS
<1>0. NoThread \notin Threads /\ MaxSessions \in Nat
  BY LifeAssumption
<1>1. TypeOK /\ WellFormed
  <2>1. << >> \in Seq(Operation) /\ 0 \in 0 .. 3 /\ 0 \in 0 .. MaxSessions
    BY <1>0
  <2> QED BY <1>0, <2>1 DEF Init, TypeOK, WellFormed, Free, Owners
<1>2. \A t \in Threads : Depth(t) = 0
  BY <1>0 DEF Init, Depth, Free
<1>3. AllInPlace
  <2>1. \A t \in Threads : at[t] = "start" /\ object_mutex # t /\ Depth(t) = 0
    BY <1>0, <1>2 DEF Init
  <2> QED BY <2>1 DEF AllInPlace, InPlace
<1>4. CallsFit
  BY <1>2, BalancedEmpty DEF Init, CallsFit, Fits, Dues
<1>5. WillBeTold /\ SessionsCounted
  BY DEF Init, WillBeTold, SessionsCounted
<1> QED BY <1>1, <1>3, <1>4, <1>5 DEF LifeInv

-----------------------------------------------------------------------------
(* What a step of one thread does to the calls.                            *)

\* Whatever fits before, something fits after, and what is not told yet is due.
GoesOn(t) ==
    \A u \in Dues : Fits(t, u) =>
       \E v \in Dues : /\ Fits(t, v)'
                       /\ v = "no" => \/ told' = provider_data'
                                      \/ u = "no" /\ UNCHANGED <<told, provider_data>>

\* When one thread goes on, the calls of the others still fit.
LEMMA StepFits ==
    ASSUME LifeInv, NEW t \in Threads, GoesOn(t),
           \A w \in Threads \ {t} : /\ todo'[w] = todo[w] /\ Depth(w)' = Depth(w)
                                    /\ provider_data' = provider_data \/ Depth(w) = 0
    PROVE  CallsFit' /\ WillBeTold'
<1>0. CallsFit /\ WillBeTold
  BY DEF LifeInv
<1>1. ASSUME NEW w \in Threads \ {t}, NEW u \in Dues, Fits(w, u)
      PROVE  Fits(w, u)'
  BY <1>1 DEF Fits, Dues
<1>2. CallsFit'
  <2>1. \E v \in Dues : Fits(t, v)'
    BY <1>0 DEF CallsFit, GoesOn
  <2> QED BY <1>0, <1>1, <2>1 DEF CallsFit
<1>3. WillBeTold'
  <2> SUFFICES ASSUME told' # provider_data'
               PROVE  \E w \in Threads, u \in {"opened", "closed"} : Fits(w, u)'
    BY DEF WillBeTold
  <2>1. CASE \E v \in {"opened", "closed"} : Fits(t, v)'
    BY <2>1
  <2>2. CASE \A v \in {"opened", "closed"} : ~Fits(t, v)'
    <3>1. \A u \in Dues : Fits(t, u) => u = "no" /\ UNCHANGED <<told, provider_data>>
      BY <2>2 DEF GoesOn, Dues
    <3>2. UNCHANGED <<told, provider_data>>
      BY <1>0, <3>1 DEF CallsFit
    <3>3. PICK w \in Threads, u \in {"opened", "closed"} : Fits(w, u)
      BY <1>0, <3>2 DEF WillBeTold
    <3>4. u \in Dues /\ w # t
      BY <3>1, <3>3 DEF Dues
    <3> QED BY <1>1, <3>3, <3>4
  <2> QED BY <2>1, <2>2
<1> QED BY <1>2, <1>3

\* The thread has finished an operation.
LEMMA Finished ==
    ASSUME LifeInv, NEW t \in Threads, NEW u \in Dues, Fits(t, u), todo[t] # << >>
    PROVE  /\ Head(todo[t]) \in Operation /\ Tail(todo[t]) \in Seq(Operation)
           /\ Depth(t) \in Depths /\ Allowed(t, Head(todo[t]), Depth(t), u)
           /\ DepthAfter(Head(todo[t]), Depth(t)) \in Depths /\ DueAfter(Head(todo[t]), u) \in Dues
           /\ Balanced(t, Tail(todo[t]), DepthAfter(Head(todo[t]), Depth(t)),
                       DueAfter(Head(todo[t]), u))
<1>1. todo[t] \in Seq(Operation) /\ Balanced(t, todo[t], Depth(t), u)
  BY DEF LifeInv, WellFormed, Fits
<1> QED BY <1>1, BalancedTail

\* No call goes on and nothing changes for the connection.
LEMMA StillFits ==
    ASSUME LifeInv, UNCHANGED <<todo, provider_data, told>>,
           \A w \in Threads : Depth(w)' = Depth(w)
    PROVE  CallsFit' /\ WillBeTold'
<1>1. ASSUME NEW w \in Threads, NEW u, Fits(w, u)
      PROVE  Fits(w, u)'
  BY <1>1 DEF Fits
<1> QED BY <1>1 DEF LifeInv, CallsFit, WillBeTold

\* A thread that is kept out looks again, tries or waits; or it is about to set
\* the property.
LEMMA WaitLife ==
    ASSUME LifeInv, NEW t \in Threads,
           \/ LockObject(t) \/ LockRetest(t) \/ LockDeadline(t) \/ LockWaitAgain(t)
           \/ OwnerBegin(t)
    PROVE  LifeInv'
<1>0. /\ TypeOK /\ WellFormed /\ AllInPlace /\ SessionsCounted /\ NoThread \notin Threads
      /\ at \in [Threads -> {"start", "locked", "kept out", "testing", "trying", "waiting",
                             "late", "woken", "setting"}]
  BY LifeAssumption DEF LifeInv, TypeOK
<1>1. UNCHANGED <<todo, rmutex, owner, missed, provider_data, sessions, told, raced>>
  BY DEF LockObject, LockRetest, LockDeadline, LockWaitAgain, OwnerBegin, Goes, cond, life
<1>2. \/ /\ at[t] \in {"kept out", "woken"} /\ at' = [at EXCEPT ![t] = "testing"]
         /\ object_mutex = NoThread /\ object_mutex' = t
      \/ /\ at[t] = "testing" /\ MayUse(t) /\ at' = [at EXCEPT ![t] = "trying"]
         /\ object_mutex' = object_mutex
      \/ /\ at[t] = "testing" /\ at' = [at EXCEPT ![t] = "waiting"]
         /\ object_mutex' = NoThread
      \/ /\ at[t] = "waiting" /\ at' = [at EXCEPT ![t] = "late"]
         /\ object_mutex' = object_mutex
      \/ /\ at[t] = "late" /\ at' = [at EXCEPT ![t] = "waiting"]
         /\ object_mutex' = object_mutex
      \/ /\ at[t] = "start" /\ IsFor(t, "owner") /\ at' = [at EXCEPT ![t] = "setting"]
         /\ object_mutex = NoThread /\ object_mutex' = t
  BY DEF LockObject, LockRetest, LockDeadline, LockWaitAgain, OwnerBegin, Goes, TakeObject,
         ReleaseObject
<1>3. TypeOK' /\ WellFormed' /\ SessionsCounted'
  BY <1>0, <1>1, <1>2 DEF TypeOK, WellFormed, SessionsCounted, Owners
<1>4. \A w \in Threads : Depth(w)' = Depth(w)
  BY <1>0, <1>1, <1>2 DEF Depth
<1>5. \A w \in Threads : MayUse(w)' = MayUse(w) /\ \A name : IsFor(w, name)' = IsFor(w, name)
  BY <1>1 DEF MayUse, IsFor
<1>6. ASSUME NEW w \in Threads
      PROVE  InPlace(w)'
  <2>1. InPlace(w) /\ InPlace(t) /\ w # NoThread
    BY <1>0 DEF AllInPlace
  <2>2. CASE w = t
    BY <1>0, <1>1, <1>2, <1>4, <1>5, <2>1, <2>2 DEF InPlace
  <2>3. CASE w # t
    <3>1. at'[w] = at[w]
      BY <1>0, <1>2, <2>3
    <3>2. object_mutex' = w <=> object_mutex = w
      BY <1>0, <1>2, <2>1, <2>3 DEF InPlace, AllInPlace
    <3> QED BY <1>0, <1>1, <1>4, <1>5, <2>1, <3>1, <3>2 DEF InPlace
  <2> QED BY <2>2, <2>3
<1>7. CallsFit' /\ WillBeTold'
  BY <1>1, <1>4, StillFits
<1> QED BY <1>3, <1>6, <1>7 DEF LifeInv, AllInPlace

-----------------------------------------------------------------------------
(* The mutex taken and released.                                           *)

\* What the steps below use of the invariant.
LEMMA Mutex ==
    ASSUME LifeInv
    PROVE  /\ rmutex \in [by : Owners, count : 0 .. 3] /\ NoThread \notin Threads
           /\ rmutex.by \in Owners /\ rmutex.count \in 0 .. 3
           /\ rmutex.by \in Threads => rmutex.count \in 1 .. 3
           /\ rmutex.by = NoThread => rmutex.count = 0
           /\ at \in [Threads -> {"start", "locked", "kept out", "testing", "trying", "waiting",
                                  "late", "woken", "setting"}]
           /\ todo \in [Threads -> Seq(Operation)]
           /\ \A t \in Threads : InPlace(t)
<1>1. /\ rmutex \in [by : Owners, count : 0 .. 3] /\ NoThread \notin Threads
      /\ rmutex.by = NoThread <=> rmutex.count = 0
  BY LifeAssumption DEF LifeInv, TypeOK, WellFormed
<1>2. rmutex.by \in Threads => rmutex.count \in 1 .. 3
  <2>1. rmutex.count \in 0 .. 3
    BY <1>1
  <2> QED BY <1>1, <2>1
<1> QED BY <1>1, <1>2 DEF LifeInv, TypeOK, WellFormed, AllInPlace

\* The mutex is taken, for the first time or once more.
LEMMA Taken ==
    ASSUME LifeInv, NEW t \in Threads, Take(t), rmutex.count < 3
    PROVE  /\ rmutex' \in [by : Owners, count : 0 .. 3]
           /\ rmutex'.by = t /\ rmutex'.count \in 1 .. 3
           /\ rmutex.by = t => rmutex'.count = rmutex.count + 1
           /\ rmutex.by # t => rmutex'.count = 1
           /\ \A w \in Threads \ {t} : rmutex.by # w /\ rmutex'.by # w
<1>1. /\ rmutex' = [by |-> t, count |-> rmutex.count + 1] /\ rmutex.by \in {NoThread, t}
      /\ rmutex.count \in 0 .. 3 /\ t \in Owners
  BY Mutex DEF Take, CanTake, Owners
<1>2. rmutex.count + 1 \in 1 .. 3 /\ rmutex.count + 1 \in 0 .. 3
  BY <1>1
<1>3. ASSUME rmutex.by # t
      PROVE  rmutex.count + 1 = 1
  <2>1. rmutex.count = 0
    BY <1>1, <1>3, Mutex
  <2> QED BY <2>1
<1> QED BY <1>1, <1>2, <1>3, Mutex

\* The mutex is released, for the last time or not.
LEMMA Released ==
    ASSUME LifeInv, NEW t \in Threads, Release(t), rmutex.by = t
    PROVE  /\ rmutex' \in [by : Owners, count : 0 .. 3]
           /\ rmutex.count = 1 => rmutex'.by = NoThread /\ rmutex'.count = 0
           /\ rmutex.count # 1 => /\ rmutex'.by = t /\ rmutex'.count = rmutex.count - 1
                                  /\ rmutex'.count \in 1 .. 3
           /\ \A w \in Threads \ {t} : rmutex.by # w /\ rmutex'.by # w
<1>1. /\ rmutex.count \in 1 .. 3 /\ t # NoThread
      /\ rmutex' = IF rmutex.count = 1 THEN Free ELSE [rmutex EXCEPT !.count = @ - 1]
  BY Mutex DEF Release
<1>2. CASE rmutex.count = 1
  <2>1. rmutex' = Free /\ Free \in [by : Owners, count : 0 .. 3]
    BY <1>1, <1>2 DEF Free, Owners
  <2> QED BY <1>2, <2>1, Mutex DEF Free
<1>3. CASE rmutex.count # 1
  <2>1. rmutex.count - 1 \in 1 .. 3 /\ rmutex.count - 1 \in 0 .. 3
    BY <1>1, <1>3
  <2>2. rmutex' = [rmutex EXCEPT !.count = rmutex.count - 1]
    BY <1>1, <1>3
  <2> QED BY <1>1, <1>3, <2>1, <2>2, Mutex
<1> QED BY <1>2, <1>3

\* The other threads are where they were.
LEMMA OthersInPlace ==
    ASSUME LifeInv, NEW t \in Threads, owner' = owner,
           \A w \in Threads \ {t} : /\ at'[w] = at[w] /\ todo'[w] = todo[w]
                                    /\ Depth(w)' = Depth(w)
                                    /\ object_mutex' = w <=> object_mutex = w
                                    /\ rmutex.by = w => rmutex'.by = w
    PROVE  \A w \in Threads \ {t} : InPlace(w)'
<1>1. ASSUME NEW w \in Threads \ {t}
      PROVE  InPlace(w)'
  <2>1. InPlace(w)
    BY Mutex
  <2>2. /\ at'[w] = at[w] /\ Depth(w)' = Depth(w) /\ (object_mutex' = w <=> object_mutex = w)
        /\ (rmutex.by = w => rmutex'.by = w)
    OBVIOUS
  <2>3. /\ MayUse(w)' <=> MayUse(w)
        /\ IsFor(w, "lock")' <=> IsFor(w, "lock")
        /\ IsFor(w, "owner")' <=> IsFor(w, "owner")
    BY DEF MayUse, IsFor
  <2> QED BY <2>1, <2>2, <2>3 DEF InPlace
<1> QED BY <1>1

\* What a step that leaves the owner and the sessions alone must do.
LEMMA StepLife ==
    ASSUME LifeInv, NEW t \in Threads, UNCHANGED <<owner, missed, provider_data, sessions, raced>>,
           told' \in BOOLEAN, rmutex' \in [by : Owners, count : 0 .. 3],
           rmutex'.by = NoThread <=> rmutex'.count = 0,
           object_mutex' \in Owners,
           todo' \in [Threads -> Seq(Operation)],
           at' \in [Threads -> {"start", "locked", "kept out", "testing", "trying", "waiting",
                                "late", "woken", "setting"}],
           \A w \in Threads \ {t} : /\ at'[w] = at[w] /\ todo'[w] = todo[w]
                                    /\ object_mutex' = w <=> object_mutex = w
                                    /\ rmutex.by = w => rmutex' = rmutex
                                    /\ rmutex.by # w => rmutex'.by # w,
           InPlace(t)', GoesOn(t)
    PROVE  LifeInv'
<1>1. \A w \in Threads \ {t} : Depth(w)' = Depth(w)
  BY DEF Depth
<1>2. AllInPlace'
  BY <1>1, OthersInPlace DEF AllInPlace
<1>3. CallsFit' /\ WillBeTold'
  BY <1>1, StepFits
<1>4. TypeOK' /\ WellFormed' /\ SessionsCounted'
  BY DEF LifeInv, TypeOK, WellFormed, SessionsCounted
<1> QED BY <1>2, <1>3, <1>4 DEF LifeInv

\* The call stays where it is.
LEMMA StaysGoesOn ==
    ASSUME NEW t, todo'[t] = todo[t], Depth(t)' = Depth(t), UNCHANGED <<provider_data, told>>
    PROVE  GoesOn(t)
<1>1. ASSUME NEW u \in Dues, Fits(t, u)
      PROVE  Fits(t, u)'
  BY <1>1 DEF Fits
<1> QED BY <1>1 DEF GoesOn

\* An operation that changes the mutex or nothing is finished.
LEMMA FinishGoesOn ==
    ASSUME LifeInv, NEW t \in Threads, todo[t] # << >>, todo'[t] = Tail(todo[t]),
           Head(todo[t]).op \notin {"open", "close", "opened", "closed"},
           Depth(t)' = DepthAfter(Head(todo[t]), Depth(t)), UNCHANGED <<provider_data, told>>
    PROVE  GoesOn(t)
<1>1. ASSUME NEW u \in Dues, Fits(t, u)
      PROVE  Fits(t, u)'
  <2>1. /\ Depth(t) \in Depths /\ Allowed(t, Head(todo[t]), Depth(t), u)
        /\ Balanced(t, Tail(todo[t]), DepthAfter(Head(todo[t]), Depth(t)),
                    DueAfter(Head(todo[t]), u))
    BY <1>1, Finished
  <2>2. DueAfter(Head(todo[t]), u) = u
    BY DEF DueAfter
  <2>3. u # "no" => DepthAfter(Head(todo[t]), Depth(t)) # 0
    <3> DEFINE d == Depth(t)
               o == Head(todo[t])
    <3>1. d \in 0 .. 2 /\ (u # "no" => d # 0)
      BY <1>1, <2>1 DEF Depths, Fits
    <3> HIDE DEF d, o
    <3>2. Allowed(t, o, d, u)
      BY <2>1 DEF d, o
    <3>3. ASSUME u # "no"
          PROVE  DepthAfter(o, d) # 0
      <4>1. o.op \notin {"lock", "trylock"} /\ (o.op = "unlock" => d > 1)
        BY <3>2, <3>3 DEF Allowed
      <4>2. d - 1 = 0 => d = 1
        BY <3>1
      <4> QED BY <3>1, <3>3, <4>1, <4>2 DEF DepthAfter
    <3> QED BY <3>3 DEF d, o
  <2> QED BY <1>1, <2>1, <2>2, <2>3 DEF Fits
<1> QED BY <1>1 DEF GoesOn

\* What is known of the call that goes on.
LEMMA Entered ==
    ASSUME LifeInv, NEW t \in Threads, NEW name, IsFor(t, name)
    PROVE  /\ todo[t] # << >> /\ Head(todo[t]).op = name
           /\ Head(todo[t]) \in Operation /\ Tail(todo[t]) \in Seq(Operation)
           /\ Depth(t) \in 0 .. 2
           /\ \E u \in Dues : Fits(t, u) /\ Allowed(t, Head(todo[t]), Depth(t), u)
<1>1. PICK u \in Dues : Fits(t, u)
  BY DEF LifeInv, CallsFit
<1>2. todo[t] # << >> /\ Head(todo[t]).op = name
  BY DEF IsFor
<1> QED BY <1>1, <1>2, Finished DEF Depths

\* gda_connection_lock() takes the mutex before it looks at the owner.
LEMMA LockMutexLife ==
    ASSUME LifeInv, NEW t \in Threads, LockMutex(t)
    PROVE  LifeInv'
<1>1. /\ IsFor(t, "lock") /\ at[t] = "start" /\ Take(t)
      /\ at' = [at EXCEPT ![t] = "locked"]
      /\ UNCHANGED <<todo, object_mutex, owner, missed, provider_data, sessions, told, raced>>
  BY DEF LockMutex, Goes, cond, life
<1>2. rmutex.count < 3
  <2> DEFINE d == Depth(t)
  <2>1. d \in 0 .. 2 /\ (rmutex.by = t => d = rmutex.count)
    BY <1>1, Entered DEF Depth
  <2> HIDE DEF d
  <2>2. CASE rmutex.by = t
    BY <2>1, <2>2
  <2>3. CASE rmutex.by = NoThread
    <3>1. rmutex.count = 0
      BY <2>3, Mutex
    <3> QED BY <3>1
  <2> QED BY <1>1, <2>2, <2>3 DEF Take, CanTake
<1>3. /\ rmutex' \in [by : Owners, count : 0 .. 3]
      /\ rmutex'.by = t /\ rmutex'.count \in 1 .. 3
      /\ rmutex.by = t => rmutex'.count = rmutex.count + 1
      /\ rmutex.by # t => rmutex'.count = 1
      /\ \A w \in Threads \ {t} : rmutex.by # w /\ rmutex'.by # w
  BY <1>1, <1>2, Taken
<1>4. at'[t] = "locked" /\ \A w \in Threads \ {t} : at'[w] = at[w]
  BY <1>1, Mutex
<1>5. Depth(t)' = Depth(t)
  <2>1. rmutex.count \in 0 .. 3
    BY Mutex
  <2>2. rmutex.by = t => rmutex'.count - 1 = rmutex.count
    BY <1>3, <2>1
  <2>3. rmutex.by # t => rmutex'.count - 1 = 0
    BY <1>3
  <2> QED BY <1>1, <1>3, <1>4, <2>2, <2>3 DEF Depth
<1>6. InPlace(t)'
  <2>1. InPlace(t)
    BY Mutex
  <2>2. /\ MayUse(t)' <=> MayUse(t)
        /\ IsFor(t, "lock")' <=> IsFor(t, "lock")
    BY <1>1 DEF MayUse, IsFor
  <2> QED BY <1>1, <1>3, <1>4, <1>5, <2>1, <2>2 DEF InPlace
<1>7. GoesOn(t)
  BY <1>1, <1>5, StaysGoesOn
<1>8. /\ rmutex'.by = NoThread <=> rmutex'.count = 0
      /\ object_mutex' \in Owners /\ told' \in BOOLEAN
      /\ todo' \in [Threads -> Seq(Operation)]
      /\ at' \in [Threads -> {"start", "locked", "kept out", "testing", "trying", "waiting",
                              "late", "woken", "setting"}]
  <2>1. rmutex'.count # 0
    BY <1>3
  <2> QED BY <1>1, <1>3, <2>1, Mutex DEF LifeInv, TypeOK
<1> QED BY <1>1, <1>3, <1>4, <1>6, <1>7, <1>8, StepLife

\* Then it goes on, or gives the mutex back: a thread that is kept out had not
\* locked the connection before.
LEMMA LockTestLife ==
    ASSUME LifeInv, NEW t \in Threads, LockTest(t)
    PROVE  LifeInv'
<1>1. /\ at[t] = "locked" /\ rmutex.by = t /\ IsFor(t, "lock") /\ rmutex.count \in 1 .. 3
      /\ UNCHANGED <<object_mutex, owner, missed, provider_data, sessions, told, raced>>
  BY Mutex DEF LockTest, InPlace, cond, life
<1>2. /\ Depth(t) = rmutex.count - 1 /\ todo[t] # << >> /\ Head(todo[t]).op = "lock"
      /\ Tail(todo[t]) \in Seq(Operation) /\ InPlace(t)
  BY <1>1, Entered, Mutex DEF Depth
<1>3. CASE MayUse(t)
  <2>1. /\ rmutex' = rmutex /\ at' = [at EXCEPT ![t] = "start"]
        /\ todo' = [todo EXCEPT ![t] = Tail(@)]
    BY <1>3 DEF LockTest, Finishes
  <2>2. /\ at'[t] = "start" /\ todo'[t] = Tail(todo[t])
        /\ \A w \in Threads \ {t} : at'[w] = at[w] /\ todo'[w] = todo[w]
    BY <2>1, Mutex
  <2>3. Depth(t)' = DepthAfter(Head(todo[t]), Depth(t))
    <3>1. rmutex.count - 1 + 1 = rmutex.count
      BY <1>1
    <3>2. Depth(t)' = rmutex.count
      BY <1>1, <2>1, <2>2 DEF Depth
    <3> QED BY <1>2, <3>1, <3>2 DEF DepthAfter
  <2>4. InPlace(t)'
    BY <1>1, <1>2, <1>3, <2>1, <2>2 DEF InPlace, MayUse
  <2>5. GoesOn(t)
    BY <1>1, <1>2, <2>2, <2>3, FinishGoesOn
  <2>6. /\ object_mutex' \in Owners /\ told' \in BOOLEAN
        /\ rmutex' \in [by : Owners, count : 0 .. 3]
        /\ rmutex'.by = NoThread <=> rmutex'.count = 0
        /\ todo' \in [Threads -> Seq(Operation)]
        /\ at' \in [Threads -> {"start", "locked", "kept out", "testing", "trying", "waiting",
                                "late", "woken", "setting"}]
    BY <1>1, <1>2, <2>1, Mutex DEF LifeInv, TypeOK
  <2> QED BY <1>1, <2>1, <2>2, <2>4, <2>5, <2>6, StepLife
<1>4. CASE ~MayUse(t)
  <2>1. /\ Release(t) /\ at' = [at EXCEPT ![t] = "kept out"] /\ todo' = todo
    BY <1>4 DEF LockTest, Goes
  <2>2. at'[t] = "kept out" /\ \A w \in Threads \ {t} : at'[w] = at[w]
    BY <2>1, Mutex
  <2>3. Depth(t) = 0 /\ rmutex.count = 1
    <3>1. Depth(t) = 0
      BY <1>2, <1>4 DEF InPlace
    <3> QED BY <1>1, <1>2, <3>1
  <2>4. /\ rmutex'.by = NoThread /\ rmutex'.count = 0
        /\ rmutex' \in [by : Owners, count : 0 .. 3]
        /\ \A w \in Threads \ {t} : rmutex.by # w /\ rmutex'.by # w
    BY <1>1, <2>1, <2>3, Released
  <2>5. Depth(t)' = Depth(t)
    BY <2>3, <2>4, Mutex DEF Depth
  <2>6. InPlace(t)'
    <3>1. IsFor(t, "lock")' <=> IsFor(t, "lock")
      BY <2>1 DEF IsFor
    <3> QED BY <1>1, <1>2, <2>2, <2>3, <2>5, <3>1 DEF InPlace
  <2>7. GoesOn(t)
    BY <1>1, <2>1, <2>5, StaysGoesOn
  <2>8. /\ object_mutex' \in Owners /\ told' \in BOOLEAN
        /\ todo' \in [Threads -> Seq(Operation)]
        /\ at' \in [Threads -> {"start", "locked", "kept out", "testing", "trying", "waiting",
                                "late", "woken", "setting"}]
    BY <1>1, <2>1, Mutex DEF LifeInv, TypeOK
  <2> QED BY <1>1, <2>1, <2>2, <2>4, <2>6, <2>7, <2>8, StepLife
<1> QED BY <1>3, <1>4

\* The thread that tries the mutex with object_mutex gets it.
LEMMA LockTryLife ==
    ASSUME LifeInv, NEW t \in Threads, LockTry(t)
    PROVE  LifeInv'
<1>1. /\ at[t] = "trying" /\ Take(t) /\ IsFor(t, "lock") /\ MayUse(t) /\ object_mutex = t
      /\ object_mutex' = NoThread /\ at' = [at EXCEPT ![t] = "start"]
      /\ todo' = [todo EXCEPT ![t] = Tail(@)]
      /\ UNCHANGED <<owner, missed, provider_data, sessions, told, raced>>
  BY Mutex DEF LockTry, Finishes, ReleaseObject, InPlace, cond, life
<1>2. /\ todo[t] # << >> /\ Head(todo[t]).op = "lock" /\ Tail(todo[t]) \in Seq(Operation)
      /\ at'[t] = "start" /\ todo'[t] = Tail(todo[t])
      /\ \A w \in Threads \ {t} : at'[w] = at[w] /\ todo'[w] = todo[w]
  BY <1>1, Entered, Mutex
<1>3. /\ Depth(t) \in 0 .. 1 /\ rmutex.count < 3
      /\ rmutex.by = t => Depth(t) = rmutex.count
      /\ rmutex.by # t => Depth(t) = 0
  <2> DEFINE d == Depth(t)
  <2>1. /\ d \in 0 .. 2 /\ (rmutex.by = t => d = rmutex.count) /\ (rmutex.by # t => d = 0)
        /\ \E u \in Dues : Allowed(t, Head(todo[t]), d, u)
    BY <1>1, Entered DEF Depth
  <2> HIDE DEF d
  <2>2. d < 2
    BY <1>2, <2>1 DEF Allowed
  <2>3. CASE rmutex.by = t
    BY <2>1, <2>2, <2>3 DEF d
  <2>4. CASE rmutex.by = NoThread
    <3>1. rmutex.count = 0
      BY <2>4, Mutex
    <3> QED BY <2>1, <2>2, <3>1 DEF d
  <2> QED BY <1>1, <2>3, <2>4 DEF Take, CanTake
<1>4. /\ rmutex' \in [by : Owners, count : 0 .. 3]
      /\ rmutex'.by = t /\ rmutex'.count \in 1 .. 3
      /\ rmutex.by = t => rmutex'.count = rmutex.count + 1
      /\ rmutex.by # t => rmutex'.count = 1
      /\ \A w \in Threads \ {t} : rmutex.by # w /\ rmutex'.by # w
  BY <1>1, <1>3, Taken
<1>5. Depth(t)' = DepthAfter(Head(todo[t]), Depth(t))
  <2>1. Depth(t)' = rmutex'.count
    BY <1>2, <1>4 DEF Depth
  <2>2. DepthAfter(Head(todo[t]), Depth(t)) = Depth(t) + 1
    BY <1>2 DEF DepthAfter
  <2> QED BY <1>3, <1>4, <2>1, <2>2
<1>6. InPlace(t)'
  <2>1. object_mutex' # t
    BY <1>1, Mutex
  <2> QED BY <1>1, <1>2, <2>1 DEF InPlace, MayUse
<1>7. GoesOn(t)
  BY <1>1, <1>2, <1>5, FinishGoesOn
<1>8. /\ object_mutex' \in Owners /\ told' \in BOOLEAN
      /\ rmutex'.by = NoThread <=> rmutex'.count = 0
      /\ todo' \in [Threads -> Seq(Operation)]
      /\ at' \in [Threads -> {"start", "locked", "kept out", "testing", "trying", "waiting",
                              "late", "woken", "setting"}]
  <2>1. rmutex'.count # 0
    BY <1>4
  <2> QED BY <1>1, <1>2, <1>4, <2>1, Mutex DEF LifeInv, TypeOK, Owners
<1>9. \A w \in Threads \ {t} : /\ at'[w] = at[w] /\ todo'[w] = todo[w]
                               /\ object_mutex' = w <=> object_mutex = w
                               /\ rmutex.by = w => rmutex' = rmutex
                               /\ rmutex.by # w => rmutex'.by # w
  <2>1. \A w \in Threads \ {t} : object_mutex' # w /\ object_mutex # w
    BY <1>1, Mutex
  <2> QED BY <1>2, <1>4, <2>1
<1> QED BY <1>1, <1>2, <1>4, <1>6, <1>7, <1>8, <1>9, StepLife

\* gda_connection_trylock(): it gives up while another thread is in the connection
\* or owns it.
LEMMA TrylockLife ==
    ASSUME LifeInv, NEW t \in Threads, Trylock(t)
    PROVE  LifeInv'
<1>1. /\ IsFor(t, "trylock")
      /\ UNCHANGED <<object_mutex, owner, missed, provider_data, sessions, told, raced>>
      /\ at' = [at EXCEPT ![t] = "start"]
      /\ \/ rmutex' = rmutex /\ todo' = [todo EXCEPT ![t] = << >>]
         \/ MayUse(t) /\ Take(t) /\ todo' = [todo EXCEPT ![t] = Tail(@)]
  BY DEF Trylock, Returns, Finishes, cond, life
<1>2. /\ todo[t] # << >> /\ Head(todo[t]).op = "trylock" /\ Tail(todo[t]) \in Seq(Operation)
      /\ at'[t] = "start" /\ \A w \in Threads \ {t} : at'[w] = at[w] /\ todo'[w] = todo[w]
      /\ InPlace(t) /\ << >> \in Seq(Operation)
  <2>1. /\ todo[t] # << >> /\ Head(todo[t]).op = "trylock" /\ Tail(todo[t]) \in Seq(Operation)
    BY <1>1, Entered
  <2>2. at'[t] = "start" /\ \A w \in Threads \ {t} : at'[w] = at[w] /\ todo'[w] = todo[w]
    <3>1. at \in [Threads -> {"start", "locked", "kept out", "testing", "trying", "waiting",
                             "late", "woken", "setting"}] /\ todo \in [Threads -> Seq(Operation)]
      BY Mutex
    <3> QED BY <1>1, <3>1
  <2>3. InPlace(t)
    BY Mutex
  <2>4. << >> \in Seq(Operation)
    OBVIOUS
  <2> QED BY <2>1, <2>2, <2>3, <2>4
<1>3. /\ Depth(t) = 0 /\ rmutex.by # t /\ \A u \in Dues : Fits(t, u) => u = "no"
  <2>1. \E u \in Dues : Allowed(t, Head(todo[t]), Depth(t), u)
    BY <1>1, Entered
  <2>2. Depth(t) = 0
    BY <1>2, <2>1 DEF Allowed
  <2>3. at[t] # "locked"
    BY <1>1, <1>2 DEF InPlace, IsFor
  <2>4. rmutex.by # t
    <3>1. ASSUME rmutex.by = t
          PROVE  rmutex.count # 0
      <4>1. rmutex.count \in 1 .. 3
        BY <3>1, Mutex
      <4> QED BY <4>1
    <3> QED BY <2>2, <2>3, <3>1 DEF Depth
  <2> QED BY <2>2, <2>4 DEF Fits
<1>4. object_mutex # t
  BY <1>1, <1>2 DEF InPlace, IsFor
<1>5. /\ object_mutex' \in Owners /\ told' \in BOOLEAN
      /\ todo' \in [Threads -> Seq(Operation)]
      /\ at' \in [Threads -> {"start", "locked", "kept out", "testing", "trying", "waiting",
                              "late", "woken", "setting"}]
  BY <1>1, <1>2, Mutex, ZenonT(40) DEF LifeInv, TypeOK
<1>6. CASE rmutex' = rmutex /\ todo' = [todo EXCEPT ![t] = << >>]
  <2>1. Depth(t)' = 0 /\ todo'[t] = << >>
    BY <1>2, <1>3, <1>6, Mutex DEF Depth
  <2>2. Balanced(t, todo'[t], Depth(t)', "no")
    BY <2>1, BalancedEmpty
  <2>3. GoesOn(t)
    BY <1>1, <1>3, <2>2 DEF GoesOn, Fits, Dues
  <2>4. InPlace(t)'
    BY <1>1, <1>2, <1>4, <2>1 DEF InPlace
  <2>5. /\ rmutex' \in [by : Owners, count : 0 .. 3]
        /\ rmutex'.by = NoThread <=> rmutex'.count = 0
    BY <1>6, Mutex DEF LifeInv, TypeOK
  <2> QED BY <1>1, <1>2, <1>5, <1>6, <2>3, <2>4, <2>5, StepLife
<1>7. CASE MayUse(t) /\ Take(t) /\ todo' = [todo EXCEPT ![t] = Tail(@)]
  <2>1. rmutex.by = NoThread /\ rmutex.count = 0
    BY <1>3, <1>7, Mutex DEF Take, CanTake
  <2>2. /\ rmutex' \in [by : Owners, count : 0 .. 3]
        /\ rmutex'.by = t /\ rmutex'.count = 1
        /\ \A w \in Threads \ {t} : rmutex.by # w /\ rmutex'.by # w
    <3>1. rmutex.count < 3
      BY <2>1
    <3> QED BY <1>3, <1>7, <3>1, Taken
  <2>3. todo'[t] = Tail(todo[t])
    BY <1>7, Mutex
  <2>4. Depth(t)' = DepthAfter(Head(todo[t]), Depth(t))
    BY <1>2, <1>3, <2>2 DEF Depth, DepthAfter
  <2>5. GoesOn(t)
    BY <1>1, <1>2, <2>3, <2>4, FinishGoesOn
  <2>6. InPlace(t)'
    BY <1>1, <1>2, <1>4, <1>7 DEF InPlace, MayUse
  <2>7. rmutex'.by = NoThread <=> rmutex'.count = 0
    <3>1. t # NoThread
      BY Mutex
    <3>2. rmutex'.count # 0
      BY <2>2
    <3> QED BY <2>2, <3>1, <3>2
  <2> QED BY <1>1, <1>2, <1>5, <2>2, <2>5, <2>6, <2>7, StepLife
<1> QED BY <1>1, <1>6, <1>7

\* gda_connection_unlock()
LEMMA UnlockLife ==
    ASSUME LifeInv, NEW t \in Threads, Unlock(t)
    PROVE  LifeInv'
<1>1. /\ IsFor(t, "unlock") /\ Release(t)
      /\ UNCHANGED <<object_mutex, owner, missed, provider_data, sessions, told, raced>>
      /\ at' = [at EXCEPT ![t] = "start"] /\ todo' = [todo EXCEPT ![t] = Tail(@)]
  BY DEF Unlock, Finishes, cond, life
<1>2. /\ todo[t] # << >> /\ Head(todo[t]).op = "unlock" /\ Tail(todo[t]) \in Seq(Operation)
      /\ at'[t] = "start" /\ todo'[t] = Tail(todo[t])
      /\ \A w \in Threads \ {t} : at'[w] = at[w] /\ todo'[w] = todo[w]
      /\ InPlace(t)
  BY <1>1, Entered, Mutex
<1>3. rmutex.by = t /\ Depth(t) = rmutex.count /\ rmutex.count \in 1 .. 3 /\ MayUse(t)
  <2>1. PICK u \in Dues : Allowed(t, Head(todo[t]), Depth(t), u)
    BY <1>1, Entered
  <2>2. Depth(t) > 0
    BY <1>2, <2>1 DEF Allowed
  <2>3. at[t] # "locked"
    BY <1>1, <1>2 DEF InPlace, IsFor
  <2>4. rmutex.by = t
    BY <2>2 DEF Depth
  <2>5. Depth(t) = rmutex.count /\ rmutex.count \in 1 .. 3
    BY <2>3, <2>4, Mutex DEF Depth
  <2>6. Depth(t) # 0
    BY <2>5
  <2> QED BY <1>2, <2>4, <2>5, <2>6 DEF InPlace
<1>4. object_mutex # t
  BY <1>1, <1>2 DEF InPlace, IsFor
<1>5. /\ rmutex' \in [by : Owners, count : 0 .. 3]
      /\ rmutex.count = 1 => rmutex'.by = NoThread /\ rmutex'.count = 0
      /\ rmutex.count # 1 => /\ rmutex'.by = t /\ rmutex'.count = rmutex.count - 1
                             /\ rmutex'.count \in 1 .. 3
      /\ \A w \in Threads \ {t} : rmutex.by # w /\ rmutex'.by # w
  BY <1>1, <1>3, Released
<1>6. Depth(t)' = DepthAfter(Head(todo[t]), Depth(t))
  <2>1. DepthAfter(Head(todo[t]), Depth(t)) = rmutex.count - 1
    BY <1>2, <1>3 DEF DepthAfter
  <2>2. CASE rmutex.count = 1
    <3>1. Depth(t)' = 0
      BY <1>5, <2>2, Mutex DEF Depth
    <3> QED BY <2>1, <2>2, <3>1
  <2>3. CASE rmutex.count # 1
    BY <1>2, <1>5, <2>1, <2>3 DEF Depth
  <2> QED BY <2>2, <2>3
<1>7. GoesOn(t)
  BY <1>1, <1>2, <1>6, FinishGoesOn
<1>8. InPlace(t)'
  BY <1>1, <1>2, <1>3, <1>4 DEF InPlace, MayUse
<1>9. /\ object_mutex' \in Owners /\ told' \in BOOLEAN
      /\ rmutex'.by = NoThread <=> rmutex'.count = 0
      /\ todo' \in [Threads -> Seq(Operation)]
      /\ at' \in [Threads -> {"start", "locked", "kept out", "testing", "trying", "waiting",
                              "late", "woken", "setting"}]
  <2>1. rmutex'.by = NoThread <=> rmutex'.count = 0
    <3>1. rmutex.count # 1 => rmutex'.count # 0
      BY <1>5
    <3> QED BY <1>5, <3>1, Mutex
  <2> QED BY <1>1, <1>2, <2>1, Mutex DEF LifeInv, TypeOK
<1> QED BY <1>1, <1>2, <1>5, <1>7, <1>8, <1>9, StepLife

-----------------------------------------------------------------------------
(* The steps that do not involve the mutexes.                              *)

\* What a step that leaves the mutexes and the owner alone must do; a thread opens
\* and closes the connection with its mutex.
LEMMA QuietLife ==
    ASSUME LifeInv, NEW t \in Threads, at[t] = "start",
           UNCHANGED <<at, rmutex, object_mutex, owner, missed>>,
           todo' \in [Threads -> Seq(Operation)], \A w \in Threads \ {t} : todo'[w] = todo[w],
           told' \in BOOLEAN, provider_data' \in BOOLEAN, sessions' \in 0 .. MaxSessions,
           SessionsCounted', provider_data' = provider_data \/ Depth(t) # 0, GoesOn(t)
    PROVE  LifeInv'
<1>1. \A w \in Threads : Depth(w)' = Depth(w)
  BY DEF Depth
<1>2. AllInPlace'
  <2>1. \A w \in Threads \ {t} : InPlace(w)'
    BY <1>1, OthersInPlace
  <2>2. InPlace(t)
    BY Mutex
  <2>3. InPlace(t)'
    BY <1>1, <2>2 DEF InPlace, MayUse
  <2> QED BY <2>1, <2>3 DEF AllInPlace
<1>3. CallsFit' /\ WillBeTold'
  <2>1. \A w \in Threads \ {t} : provider_data' = provider_data \/ Depth(w) = 0
    BY DEF Depth
  <2> QED BY <1>1, <2>1, StepFits
<1>4. TypeOK' /\ WellFormed'
  BY DEF LifeInv, TypeOK, WellFormed
<1> QED BY <1>2, <1>3, <1>4 DEF LifeInv

\* A thread that is in no operation that takes several steps is at the start of it.
LEMMA AtStart ==
    ASSUME LifeInv, NEW t \in Threads, ~IsFor(t, "lock"), ~IsFor(t, "owner")
    PROVE  at[t] = "start" /\ at = [at EXCEPT ![t] = "start"]
<1>1. InPlace(t)
  BY Mutex
<1>2. at \in [Threads -> {"start", "locked", "kept out", "testing", "trying", "waiting",
                          "late", "woken", "setting"}]
  BY Mutex
<1>3. at[t] = "start"
  BY <1>1, <1>2 DEF InPlace
<1> QED BY <1>2, <1>3

\* gda_connection_get_meta_store(), and a look at provider_data.
LEMMA LookLife ==
    ASSUME LifeInv, NEW t \in Threads, MetaStore(t) \/ TestOpened(t)
    PROVE  LifeInv'
<1>1. /\ UNCHANGED <<rmutex, object_mutex, owner, missed, provider_data, sessions, told, raced>>
      /\ at' = [at EXCEPT ![t] = "start"]
      /\ \/ /\ IsFor(t, "meta store") \/ IsFor(t, "return if opened") \/ IsFor(t, "return if closed")
            /\ todo' = [todo EXCEPT ![t] = Tail(@)]
         \/ /\ IsFor(t, "return if opened") \/ IsFor(t, "return if closed")
            /\ todo' = [todo EXCEPT ![t] = << >>]
  BY DEF MetaStore, TestOpened, Returns, Finishes, cond, life
<1>2. at[t] = "start" /\ at' = at
  <2>1. ~IsFor(t, "lock") /\ ~IsFor(t, "owner")
    BY <1>1 DEF IsFor
  <2> QED BY <1>1, <2>1, AtStart
<1>3. PICK name \in {"meta store", "return if opened", "return if closed"} : IsFor(t, name)
  BY <1>1
<1>4. /\ todo[t] # << >> /\ Head(todo[t]).op = name /\ Tail(todo[t]) \in Seq(Operation)
      /\ todo \in [Threads -> Seq(Operation)] /\ << >> \in Seq(Operation)
  <2>1. << >> \in Seq(Operation)
    BY EmptySeq
  <2> QED BY <1>3, <2>1, Entered, Mutex
<1>5. Depth(t)' = Depth(t)
  BY <1>1, <1>2 DEF Depth
<1>6. GoesOn(t)
  <2>1. CASE todo' = [todo EXCEPT ![t] = Tail(@)]
    <3>1. Depth(t)' = DepthAfter(Head(todo[t]), Depth(t)) /\ todo'[t] = Tail(todo[t])
      BY <1>4, <1>5, <2>1 DEF DepthAfter
    <3> QED BY <1>1, <1>4, <3>1, FinishGoesOn
  <2>2. CASE /\ IsFor(t, "return if opened") \/ IsFor(t, "return if closed")
             /\ todo' = [todo EXCEPT ![t] = << >>]
    <3>1. todo'[t] = << >>
      BY <1>4, <2>2
    <3>2. ASSUME NEW u \in Dues, Fits(t, u)
          PROVE  u = "no" /\ Fits(t, "no")'
      <4>1. Allowed(t, Head(todo[t]), Depth(t), u)
        BY <1>4, <3>2, Finished
      <4>2. Depth(t) = 0 /\ u = "no"
        BY <2>2, <4>1 DEF Allowed, IsFor
      <4>3. Balanced(t, << >>, 0, "no")
        BY BalancedEmpty
      <4> QED BY <1>5, <3>1, <4>2, <4>3 DEF Fits
    <3> QED BY <1>1, <3>2 DEF GoesOn, Dues
  <2> QED BY <1>1, <2>1, <2>2
<1>7. /\ todo' \in [Threads -> Seq(Operation)] /\ \A w \in Threads \ {t} : todo'[w] = todo[w]
  BY <1>1, <1>4
<1>8. SessionsCounted' /\ sessions' \in 0 .. MaxSessions /\ told' \in BOOLEAN /\ provider_data' \in BOOLEAN
  BY <1>1 DEF LifeInv, SessionsCounted, TypeOK
<1> QED BY <1>1, <1>2, <1>6, <1>7, <1>8, QuietLife

\* The signal tells what the thread has made of the connection.
LEMMA AnnounceLife ==
    ASSUME LifeInv, NEW t \in Threads, Announce(t)
    PROVE  LifeInv'
<1>1. /\ UNCHANGED <<rmutex, object_mutex, owner, missed, provider_data, sessions, raced>>
      /\ at' = [at EXCEPT ![t] = "start"] /\ todo' = [todo EXCEPT ![t] = Tail(@)]
      /\ \/ IsFor(t, "opened") /\ told' = TRUE
         \/ IsFor(t, "closed") /\ told' = FALSE
  BY DEF Announce, Finishes, cond
<1>2. at[t] = "start" /\ at' = at
  <2>1. ~IsFor(t, "lock") /\ ~IsFor(t, "owner")
    BY <1>1 DEF IsFor
  <2> QED BY <1>1, <2>1, AtStart
<1>3. PICK name \in {"opened", "closed"} : IsFor(t, name)
  BY <1>1
<1>4. /\ todo[t] # << >> /\ Head(todo[t]).op = name /\ Tail(todo[t]) \in Seq(Operation)
      /\ todo \in [Threads -> Seq(Operation)]
  BY <1>3, Entered, Mutex
<1>5. Depth(t)' = Depth(t) /\ DepthAfter(Head(todo[t]), Depth(t)) = Depth(t)
  BY <1>1, <1>2, <1>4 DEF Depth, DepthAfter
<1>6. provider_data \in BOOLEAN /\ told' \in BOOLEAN
  BY <1>1 DEF LifeInv, TypeOK
<1>7. ASSUME NEW u \in Dues, Fits(t, u)
      PROVE  Fits(t, "no")' /\ told' = provider_data'
  <2>1. /\ Allowed(t, Head(todo[t]), Depth(t), u)
        /\ Balanced(t, Tail(todo[t]), DepthAfter(Head(todo[t]), Depth(t)), DueAfter(Head(todo[t]), u))
    BY <1>4, <1>7, Finished
  <2>2. u = name /\ DueAfter(Head(todo[t]), u) = "no"
    BY <1>4, <2>1 DEF Allowed, DueAfter
  <2>3. told' = provider_data
    BY <1>1, <1>3, <1>4, <1>6, <1>7, <2>2 DEF Fits, IsFor
  <2>4. todo'[t] = Tail(todo[t])
    BY <1>1, <1>4
  <2> QED BY <1>1, <1>5, <2>1, <2>2, <2>3, <2>4 DEF Fits
<1>8. GoesOn(t)
  BY <1>7 DEF GoesOn, Dues
<1>9. /\ todo' \in [Threads -> Seq(Operation)] /\ \A w \in Threads \ {t} : todo'[w] = todo[w]
  BY <1>1, <1>4
<1>10. SessionsCounted' /\ sessions' \in 0 .. MaxSessions
  BY <1>1 DEF LifeInv, SessionsCounted, TypeOK
<1> QED BY <1>1, <1>2, <1>6, <1>8, <1>9, <1>10, QuietLife

\* A thread between two calls makes one.
LEMMA CallLife ==
    ASSUME LifeInv, NEW t \in Threads, Call(t)
    PROVE  LifeInv'
<1>1. /\ UNCHANGED <<at, rmutex, object_mutex, owner, missed, provider_data, sessions, told, raced>>
      /\ todo[t] = << >>
  BY DEF Call, cond, life
<1>2. PICK c \in Calls(t) : todo' = [todo EXCEPT ![t] = c]
  BY DEF Call
<1>3. c \in Seq(Operation) /\ Balanced(t, c, 0, "no")
  BY BalancedCalls
<1>4. at[t] = "start"
  <2>1. ~IsFor(t, "lock") /\ ~IsFor(t, "owner")
    BY <1>1 DEF IsFor
  <2> QED BY <2>1, AtStart
<1>5. Depth(t)' = Depth(t)
  BY <1>1 DEF Depth
<1>6. todo \in [Threads -> Seq(Operation)]
  BY Mutex
<1>7. ASSUME NEW u \in Dues, Fits(t, u)
      PROVE  u = "no" /\ Fits(t, "no")'
  <2>1. Balanced(t, << >>, Depth(t), u)
    BY <1>1, <1>7 DEF Fits
  <2>2. Depth(t) = 0 /\ u = "no"
    BY <2>1, OnlyEmpty
  <2>3. todo'[t] = c
    BY <1>2, <1>6
  <2> QED BY <1>3, <1>5, <2>2, <2>3 DEF Fits
<1>8. GoesOn(t)
  BY <1>1, <1>7 DEF GoesOn, Dues
<1>9. /\ todo' \in [Threads -> Seq(Operation)] /\ \A w \in Threads \ {t} : todo'[w] = todo[w]
  BY <1>2, <1>3, <1>6
<1>10. SessionsCounted' /\ sessions' \in 0 .. MaxSessions /\ told' \in BOOLEAN /\ provider_data' \in BOOLEAN
  BY <1>1 DEF LifeInv, SessionsCounted, TypeOK
<1> QED BY <1>1, <1>4, <1>8, <1>9, <1>10, QuietLife

-----------------------------------------------------------------------------
(* The sessions.                                                           *)

\* What is due is told before the call ends, and the provider's part of opening
\* the connection can fail.
LEMMA OpenLife ==
    ASSUME LifeInv, NEW t \in Threads, OpenSession(t)
    PROVE  LifeInv'
<1>1. /\ IsFor(t, "open") /\ UNCHANGED <<rmutex, object_mutex, owner, missed, told>>
      /\ \/ /\ sessions < MaxSessions
            /\ provider_data' = TRUE /\ sessions' = sessions + 1
            /\ raced' = (raced \/ provider_data)
            /\ at' = [at EXCEPT ![t] = "start"] /\ todo' = [todo EXCEPT ![t] = Tail(@)]
         \/ /\ todo' = [todo EXCEPT ![t] = IF provider_data THEN << Op("opened"), Op("unlock") >>
                                           ELSE << Op("unlock") >>]
            /\ UNCHANGED <<at, provider_data, sessions, raced>>
  BY DEF OpenSession, Finishes, cond
<1>2. at[t] = "start" /\ at' = at
  <2>1. ~IsFor(t, "lock") /\ ~IsFor(t, "owner")
    BY <1>1 DEF IsFor
  <2> QED BY <1>1, <2>1, AtStart
<1>3. /\ todo[t] # << >> /\ Head(todo[t]).op = "open" /\ Tail(todo[t]) \in Seq(Operation)
      /\ \E u \in Dues : Fits(t, u) /\ Allowed(t, Head(todo[t]), Depth(t), u)
  BY <1>1, Entered
<1>4. todo \in [Threads -> Seq(Operation)]
  BY Mutex
<1>5. Depth(t) = 1 /\ Depth(t)' = 1
  <2>1. Depth(t) = 1
    BY <1>3 DEF Allowed
  <2> QED BY <1>1, <1>2, <2>1 DEF Depth
<1>6. ASSUME NEW u \in Dues, Fits(t, u)
      PROVE  u = "no" /\ Balanced(t, Tail(todo[t]), 1, "opened")
  <2>1. /\ Allowed(t, Head(todo[t]), Depth(t), u)
        /\ Balanced(t, Tail(todo[t]), DepthAfter(Head(todo[t]), Depth(t)), DueAfter(Head(todo[t]), u))
    BY <1>3, <1>6, Finished
  <2> QED BY <1>3, <1>5, <2>1 DEF Allowed, DepthAfter, DueAfter
<1>7. /\ sessions \in Nat /\ sessions \in 0 .. MaxSessions /\ MaxSessions \in Nat
      /\ provider_data \in BOOLEAN /\ told \in BOOLEAN
      /\ raced \/ sessions = (IF provider_data THEN 1 ELSE 0)
      /\ provider_data => sessions > 0
  <2>1. /\ sessions \in 0 .. MaxSessions /\ MaxSessions \in Nat
        /\ provider_data \in BOOLEAN /\ told \in BOOLEAN
    BY LifeAssumption DEF LifeInv, TypeOK
  <2>2. sessions \in Nat
    BY <2>1
  <2> QED BY <2>1, <2>2 DEF LifeInv, SessionsCounted
<1>8. /\ << Op("unlock") >> \in Seq(Operation) /\ << Op("opened"), Op("unlock") >> \in Seq(Operation)
      /\ Balanced(t, << Op("unlock") >>, 1, "no")
      /\ Balanced(t, << Op("opened"), Op("unlock") >>, 1, "opened")
  BY BalancedEnds
<1> DEFINE Told == << Op("opened"), Op("unlock") >>
           Unlocked == << Op("unlock") >>
<1> HIDE DEF Told, Unlocked
<1>9. /\ Told \in Seq(Operation) /\ Balanced(t, Told, 1, "opened")
      /\ Unlocked \in Seq(Operation) /\ Balanced(t, Unlocked, 1, "no")
  BY <1>8 DEF Told, Unlocked
<1>10. CASE /\ sessions < MaxSessions
            /\ provider_data' = TRUE /\ sessions' = sessions + 1
            /\ raced' = (raced \/ provider_data)
            /\ todo' = [todo EXCEPT ![t] = Tail(@)]
  <2>1. todo'[t] = Tail(todo[t])
    BY <1>4, <1>10
  <2>2. GoesOn(t)
    <3>1. ASSUME NEW u \in Dues, Fits(t, u) PROVE Fits(t, "opened")'
      BY <1>5, <1>6, <1>10, <2>1, <3>1 DEF Fits
    <3> QED BY <3>1 DEF GoesOn, Dues
  <2>3. sessions' \in 0 .. MaxSessions /\ sessions' > 0
    BY <1>7, <1>10
  <2>4. SessionsCounted'
    <3>1. CASE provider_data
      BY <1>10, <2>3, <3>1 DEF SessionsCounted
    <3>2. CASE ~provider_data
      <4>1. raced \/ sessions' = 1
        BY <1>7, <1>10, <3>2
      <4> QED BY <1>10, <2>3, <4>1 DEF SessionsCounted
    <3> QED BY <3>1, <3>2
  <2>5. /\ todo' \in [Threads -> Seq(Operation)] /\ \A w \in Threads \ {t} : todo'[w] = todo[w]
    BY <1>3, <1>4, <1>10
  <2>6. told' \in BOOLEAN /\ provider_data' \in BOOLEAN /\ Depth(t) # 0
    BY <1>1, <1>5, <1>7, <1>10
  <2> QED BY <1>1, <1>2, <2>2, <2>3, <2>4, <2>5, <2>6, QuietLife
<1>11. CASE /\ todo' = [todo EXCEPT ![t] = IF provider_data THEN Told ELSE Unlocked]
            /\ UNCHANGED <<provider_data, sessions, raced>>
  <2>1. todo'[t] = IF provider_data THEN Told ELSE Unlocked
    BY <1>4, <1>11
  <2>2. GoesOn(t)
    <3>1. CASE provider_data
      <4>1. Fits(t, "opened")'
        BY <1>5, <1>9, <1>11, <2>1, <3>1 DEF Fits
      <4> QED BY <4>1 DEF GoesOn, Dues
    <3>2. CASE ~provider_data
      <4>1. Fits(t, "no")'
        BY <1>5, <1>9, <1>11, <2>1, <3>2 DEF Fits
      <4> QED BY <1>1, <1>6, <1>11, <4>1 DEF GoesOn, Dues
    <3> QED BY <3>1, <3>2
  <2>3. SessionsCounted' /\ sessions' \in 0 .. MaxSessions /\ told' \in BOOLEAN /\ provider_data' \in BOOLEAN
    BY <1>1, <1>7, <1>11 DEF SessionsCounted
  <2>4. /\ todo' \in [Threads -> Seq(Operation)] /\ \A w \in Threads \ {t} : todo'[w] = todo[w]
    BY <1>4, <1>9, <1>11
  <2> QED BY <1>1, <1>2, <1>11, <2>2, <2>3, <2>4, QuietLife
<1> QED BY <1>1, <1>10, <1>11 DEF Told, Unlocked

\* Closing what another thread has just closed is not told, and unlocks.
LEMMA CloseLife ==
    ASSUME LifeInv, NEW t \in Threads, CloseSession(t)
    PROVE  LifeInv'
<1>1. /\ IsFor(t, "close") /\ UNCHANGED <<rmutex, object_mutex, owner, missed, told, raced>>
      /\ \/ /\ provider_data
            /\ provider_data' = FALSE /\ sessions' = sessions - 1
            /\ at' = [at EXCEPT ![t] = "start"] /\ todo' = [todo EXCEPT ![t] = Tail(@)]
         \/ /\ todo' = [todo EXCEPT ![t] = << Op("unlock"), Op("unlock") >>]
            /\ UNCHANGED <<at, provider_data, sessions>>
  BY DEF CloseSession, StillOpened, WhenClosed, Finishes, cond
<1>2. at[t] = "start" /\ at' = at
  <2>1. ~IsFor(t, "lock") /\ ~IsFor(t, "owner")
    BY <1>1 DEF IsFor
  <2> QED BY <1>1, <2>1, AtStart
<1>3. /\ todo[t] # << >> /\ Head(todo[t]).op = "close" /\ Tail(todo[t]) \in Seq(Operation)
      /\ \E u \in Dues : Fits(t, u) /\ Allowed(t, Head(todo[t]), Depth(t), u)
  BY <1>1, Entered
<1>4. todo \in [Threads -> Seq(Operation)]
  BY Mutex
<1>5. Depth(t) = 2 /\ Depth(t)' = 2
  <2>1. Depth(t) = 2
    BY <1>3 DEF Allowed
  <2> QED BY <1>1, <1>2, <2>1 DEF Depth
<1>6. ASSUME NEW u \in Dues, Fits(t, u)
      PROVE  u = "no" /\ Balanced(t, Tail(todo[t]), 2, "closed")
  <2>1. /\ Allowed(t, Head(todo[t]), Depth(t), u)
        /\ Balanced(t, Tail(todo[t]), DepthAfter(Head(todo[t]), Depth(t)), DueAfter(Head(todo[t]), u))
    BY <1>3, <1>6, Finished
  <2> QED BY <1>3, <1>5, <2>1 DEF Allowed, DepthAfter, DueAfter
<1>7. /\ sessions \in Nat /\ sessions \in 0 .. MaxSessions /\ MaxSessions \in Nat
      /\ provider_data \in BOOLEAN /\ told \in BOOLEAN
      /\ raced \/ sessions = (IF provider_data THEN 1 ELSE 0)
      /\ provider_data => sessions > 0
  <2>1. /\ sessions \in 0 .. MaxSessions /\ MaxSessions \in Nat
        /\ provider_data \in BOOLEAN /\ told \in BOOLEAN
    BY LifeAssumption DEF LifeInv, TypeOK
  <2>2. sessions \in Nat
    BY <2>1
  <2> QED BY <2>1, <2>2 DEF LifeInv, SessionsCounted
<1> DEFINE Unlocked == << Op("unlock"), Op("unlock") >>
<1>8. Unlocked \in Seq(Operation) /\ Balanced(t, Unlocked, 2, "no")
  BY BalancedEnds
<1> HIDE DEF Unlocked
<1>9. CASE /\ provider_data
           /\ provider_data' = FALSE /\ sessions' = sessions - 1
           /\ todo' = [todo EXCEPT ![t] = Tail(@)]
  <2>1. todo'[t] = Tail(todo[t])
    BY <1>4, <1>9
  <2>2. GoesOn(t)
    <3>1. ASSUME NEW u \in Dues, Fits(t, u) PROVE Fits(t, "closed")'
      BY <1>5, <1>6, <1>9, <2>1, <3>1 DEF Fits
    <3> QED BY <3>1 DEF GoesOn, Dues
  <2>3. sessions' \in 0 .. MaxSessions
    BY <1>7, <1>9
  <2>4. SessionsCounted'
    <3>1. raced \/ sessions' = 0
      BY <1>7, <1>9
    <3> QED BY <1>1, <1>9, <3>1 DEF SessionsCounted
  <2>5. /\ todo' \in [Threads -> Seq(Operation)] /\ \A w \in Threads \ {t} : todo'[w] = todo[w]
    BY <1>3, <1>4, <1>9
  <2>6. told' \in BOOLEAN /\ provider_data' \in BOOLEAN /\ Depth(t) # 0
    <3>1. Depth(t) # 0
      BY <1>5
    <3> QED BY <1>1, <1>7, <1>9, <3>1
  <2> QED BY <1>1, <1>2, <2>2, <2>3, <2>4, <2>5, <2>6, QuietLife
<1>10. CASE /\ todo' = [todo EXCEPT ![t] = Unlocked]
            /\ UNCHANGED <<provider_data, sessions>>
  <2>1. todo'[t] = Unlocked
    BY <1>4, <1>10
  <2>2. GoesOn(t)
    <3>1. Fits(t, "no")'
      BY <1>5, <1>8, <2>1 DEF Fits
    <3> QED BY <1>1, <1>6, <1>10, <3>1 DEF GoesOn, Dues
  <2>3. SessionsCounted' /\ sessions' \in 0 .. MaxSessions /\ told' \in BOOLEAN /\ provider_data' \in BOOLEAN
    BY <1>1, <1>7, <1>10 DEF SessionsCounted
  <2>4. /\ todo' \in [Threads -> Seq(Operation)] /\ \A w \in Threads \ {t} : todo'[w] = todo[w]
    BY <1>4, <1>8, <1>10
  <2> QED BY <1>1, <1>2, <1>10, <2>2, <2>3, <2>4, QuietLife
<1> QED BY <1>1, <1>9, <1>10 DEF Unlocked

-----------------------------------------------------------------------------
(* The owner.                                                              *)

\* The property is set when no other thread is in the connection, and by a thread
\* that is in it only so that it may stay there; the threads that wait wake up.
LEMMA OwnerLife ==
    ASSUME LifeInv, NEW t \in Threads, OwnerSet(t)
    PROVE  LifeInv'
<1>1. /\ at[t] = "setting" /\ rmutex.by \in {NoThread, t}
      /\ owner' = Head(todo[t]).value
      /\ at' = [u \in Threads |-> IF u = t THEN "start" ELSE Woken(at[u])]
      /\ missed' = {u \in Threads : at[u] = "late"}
      /\ todo' = [todo EXCEPT ![t] = Tail(@)] /\ object_mutex' = NoThread
      /\ UNCHANGED <<rmutex, provider_data, sessions, told, raced>>
  BY DEF OwnerSet, OwnerNeeds, CanTake, ReleaseObject, life
<1>2. /\ InPlace(t) /\ IsFor(t, "owner") /\ object_mutex = t /\ t # NoThread
      /\ at \in [Threads -> {"start", "locked", "kept out", "testing", "trying", "waiting",
                             "late", "woken", "setting"}]
      /\ todo \in [Threads -> Seq(Operation)]
  BY <1>1, Mutex DEF InPlace
<1>3. /\ todo[t] # << >> /\ Head(todo[t]).op = "owner" /\ Head(todo[t]) \in Operation
      /\ Tail(todo[t]) \in Seq(Operation)
  BY <1>2, Entered
<1>4. /\ at'[t] = "start" /\ \A w \in Threads \ {t} : at'[w] = Woken(at[w]) /\ todo'[w] = todo[w]
      /\ todo'[t] = Tail(todo[t])
  BY <1>1, <1>2
<1>5. Depth(t)' = Depth(t) /\ Depth(t) = DepthAfter(Head(todo[t]), Depth(t))
  BY <1>1, <1>3, <1>4 DEF Depth, DepthAfter
<1>6. \A w \in Threads \ {t} : rmutex.by # w /\ Depth(w) = 0 /\ Depth(w)' = 0
  BY <1>1, <1>2, Mutex DEF Depth
<1>7. CallsFit' /\ WillBeTold'
  <2>1. GoesOn(t)
    BY <1>1, <1>3, <1>4, <1>5, FinishGoesOn
  <2> QED BY <1>1, <1>4, <1>6, <2>1, StepFits
<1>8. InPlace(t)'
  <2>1. Depth(t) # 0 => owner' \in {NoThread, t}
    <3>1. PICK u \in Dues : Allowed(t, Head(todo[t]), Depth(t), u)
      BY <1>2, Entered
    <3> QED BY <1>1, <1>3, <3>1 DEF Allowed
  <2> QED BY <1>1, <1>2, <1>4, <1>5, <2>1 DEF InPlace, MayUse
<1>9. ASSUME NEW w \in Threads \ {t}
      PROVE  InPlace(w)'
  <2>1. InPlace(w) /\ object_mutex # w /\ rmutex.by # w /\ w # NoThread
    BY <1>2, <1>6, Mutex
  <2>2. /\ IsFor(w, "lock")' <=> IsFor(w, "lock")
        /\ IsFor(w, "owner")' <=> IsFor(w, "owner")
    BY <1>4 DEF IsFor
  <2>3. at[w] \notin {"locked", "testing", "trying", "setting"}
    BY <2>1 DEF InPlace
  <2>4. at'[w] = IF at[w] = "waiting" THEN "woken" ELSE at[w]
    BY <1>4 DEF Woken
  <2> QED BY <1>1, <1>6, <2>1, <2>2, <2>3, <2>4 DEF InPlace
<1>10. TypeOK' /\ WellFormed' /\ SessionsCounted'
  <2>1. owner' \in Owners
    BY <1>1, <1>3 DEF Operation
  <2>2. at' \in [Threads -> {"start", "locked", "kept out", "testing", "trying", "waiting",
                             "late", "woken", "setting"}]
    BY <1>1, <1>2 DEF Woken
  <2>3. todo' \in [Threads -> Seq(Operation)]
    BY <1>1, <1>2, <1>3
  <2>4. missed' \subseteq Threads /\ object_mutex' \in Owners
    BY <1>1 DEF Owners
  <2> QED BY <1>1, <2>1, <2>2, <2>3, <2>4 DEF LifeInv, TypeOK, WellFormed, SessionsCounted
<1> QED BY <1>7, <1>8, <1>9, <1>10 DEF LifeInv, AllInPlace

-----------------------------------------------------------------------------
(* The theorems.                                                           *)

\* Every step keeps the invariant.
LEMMA NextLife == LifeInv /\ [Next]_vars => LifeInv'
<1> SUFFICES ASSUME LifeInv, [Next]_vars PROVE LifeInv'
  OBVIOUS
<1>1. CASE Next
  <2>1. PICK t \in Threads : Call(t) \/ Continues(t) \/ LockDeadline(t)
    BY <1>1 DEF Next
  <2>2. CASE Call(t)
    BY <2>2, CallLife
  <2>3. CASE \/ LockObject(t) \/ LockRetest(t) \/ LockDeadline(t) \/ LockWaitAgain(t)
             \/ OwnerBegin(t)
    BY <2>3, WaitLife
  <2>4. CASE LockMutex(t) \/ LockTest(t) \/ LockTry(t)
    BY <2>4, LockMutexLife, LockTestLife, LockTryLife
  <2>5. CASE Trylock(t) \/ Unlock(t)
    BY <2>5, TrylockLife, UnlockLife
  <2>6. CASE OwnerSet(t)
    BY <2>6, OwnerLife
  <2>7. CASE MetaStore(t) \/ TestOpened(t)
    BY <2>7, LookLife
  <2>8. CASE OpenSession(t) \/ CloseSession(t)
    BY <2>8, OpenLife, CloseLife
  <2>9. CASE Announce(t)
    BY <2>9, AnnounceLife
  <2> QED BY <2>1, <2>2, <2>3, <2>4, <2>5, <2>6, <2>7, <2>8, <2>9 DEF Continues
<1>2. CASE UNCHANGED vars
  <2>1. /\ UNCHANGED <<todo, at, rmutex, object_mutex, owner, provider_data, sessions, told, raced,
                       missed>>
    BY <1>2 DEF vars
  <2>2. \A w \in Threads : Depth(w)' = Depth(w) /\ (InPlace(w) => InPlace(w)')
    BY <2>1 DEF Depth, InPlace, MayUse, IsFor
  <2>3. CallsFit' /\ WillBeTold'
    BY <2>1, <2>2, StillFits
  <2> QED BY <2>1, <2>2, <2>3 DEF LifeInv, TypeOK, WellFormed, AllInPlace, SessionsCounted
<1> QED BY <1>1, <1>2

\* The invariant holds for any set of threads, any OwnerAtOpen and any number of sessions.
THEOREM LifeInvariant == Spec => []LifeInv
<1> QED BY InitLife, NextLife, PTL DEF Spec

\* A thread that is in the connection may use it: nobody makes another thread the
\* owner while it is there, and a thread that is kept out never gets through.
THEOREM UserOwns == Spec => []UserIsOwner
<1>1. LifeInv => UserIsOwner
  BY LifeInvImplies
<1> QED BY <1>1, LifeInvariant, PTL

\* A call leaves neither mutex locked, whichever way it ended.
THEOREM CallsUnlock == Spec => []NothingLeftLocked
<1>1. LifeInv => NothingLeftLocked
  BY LifeInvImplies
<1> QED BY <1>1, LifeInvariant, PTL

\* Outside of any call the signals have told whether the connection is opened, and
\* the server has the session it needs, or none.
THEOREM OpennessTold == Spec => []OpennessAgrees
<1>1. LifeInv => OpennessAgrees
  BY LifeInvImplies
<1> QED BY <1>1, LifeInvariant, PTL
=============================================================================
