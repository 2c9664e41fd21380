---------------------------- MODULE PlayerProofs -----------------------------
(***************************************************************************)
(* For every number of songs but two, whatever their ranks, whichever do   *)
(* not open or have no sound, and whatever the user does to the player,    *)
(* the card and the power: the list stays one cycle while it is sorted in  *)
(* place, the three sorts order it, the display and the commands agree     *)
(* with what is played, and the song that was on is on again after the     *)
(* power was off.                                                          *)
(***************************************************************************)
EXTENDS Player, SequenceTheorems, FiniteSetTheorems, TLAPS

\* Songs enough for each to have two neighbours, or the one that is its own.
Playable == IsFiniteSet(Songs) /\ Cardinality(Songs) \notin {0, 2}

N == Cardinality(Songs)
Orders == SetToSeqs(Songs)
Follower(i) == IF i = N THEN 1 ELSE i + 1

\* The songs of l stand in the order o.
InOrder(l, o) ==
    /\ l \in Lists /\ l.num_files = N /\ l.list_start = o[1]
    /\ \A i \in 1 .. N : l.next[o[i]] = o[Follower(i)] /\ l.prev[o[Follower(i)]] = o[i]

-----------------------------------------------------------------------------
(* Lists and orders. *)

(* A set of numbers has a least one.                                       *)
LEMMA LeastOf ==
    ASSUME NEW S \in SUBSET Nat, S # {}
    PROVE  \E m \in S : \A k \in S : m <= k
<1>1. \E m \in S : \A k \in S : ~(<<k, m>> \in OpToRel(<, Nat))
  BY WFMin, NatLessThanWellFounded
<1>2. \A k, m \in Nat : <<k, m>> \in OpToRel(<, Nat) <=> k < m
  BY DEF OpToRel
<1>3. PICK m \in S : \A k \in S : ~(<<k, m>> \in OpToRel(<, Nat))
  BY <1>1
<1>4. \A k \in S : ~(k < m)
  BY <1>2, <1>3, Zenon
<1>5. QED
  BY <1>4

(* What holds of a number and passes on to the next one.                   *)
LEMMA UpFrom ==
    ASSUME NEW a \in Nat, NEW b \in Nat, NEW D \in SUBSET Nat, a \in D,
           \A k \in a + 1 .. b : k - 1 \in D => k \in D
    PROVE  \A k \in a .. b : k \in D
<1> DEFINE S == {k \in a .. b : k \notin D}
<1>1. SUFFICES ASSUME S # {} PROVE FALSE
  OBVIOUS
<1>2. PICK m \in S : \A k \in S : m <= k
  <2>1. S \in SUBSET Nat
    OBVIOUS
  <2>2. QED
    BY <1>1, <2>1, LeastOf
<1>3. m \in a .. b /\ m \notin D
  OBVIOUS
<1>4. m \in a + 1 .. b
  BY <1>3
<1>5. m - 1 \in a .. b /\ ~(m <= m - 1)
  BY <1>4
<1>6. m - 1 \in D
  BY <1>2, <1>5
<1>7. QED
  BY <1>3, <1>4, <1>6

(* An order of the songs has every song once.                              *)
LEMMA OrderFacts ==
    ASSUME Playable, NEW o \in Orders
    PROVE  /\ N \in Nat \ {0, 2}
           /\ o \in [1 .. N -> Songs] /\ o \in Seq(Songs) /\ Len(o) = N /\ o # << >>
           /\ \A i, j \in 1 .. N : o[i] = o[j] => i = j
           /\ \A s \in Songs : \E i \in 1 .. N : o[i] = s
           /\ {o[i] : i \in 1 .. N} = Songs
<1>1. N \in Nat \ {0, 2}
  BY FS_CardinalityType DEF Playable, N
<1>2. o \in [1 .. N -> Songs] /\ \A i, j \in 1 .. N : i # j => o[i] # o[j]
  BY Zenon DEF Orders, SetToSeqs, N
<1>3. \A s \in Songs : \E i \in 1 .. N : o[i] = s
  <2>1. o \in Injection(1 .. N, Songs)
    BY <1>2 DEF Injection, IsInjective
  <2>2. Cardinality(1 .. N) = N
    BY <1>1, FS_Interval
  <2>3. o \in Surjection(1 .. N, Songs)
    BY <2>1, <2>2, FS_Injection DEF Playable, N
  <2>4. QED
    BY <2>3 DEF Surjection
<1>4. o \in Seq(Songs) /\ Len(o) = N
  BY <1>1, <1>2, SeqDef, LenProperties
<1>5. o # << >>
  BY <1>1, <1>4
<1>6. {o[i] : i \in 1 .. N} = Songs
  BY <1>2, <1>3
<1>7. QED
  BY <1>1, <1>2, <1>3, <1>4, <1>5, <1>6

(* What the code meets walking a list that stands in an order.             *)
LEMMA OrderIs ==
    ASSUME Playable, NEW o \in Orders, NEW l, InOrder(l, o)
    PROVE  Order(l) = o
<1>1. l.num_files = N /\ l.list_start = o[1] /\ N \in Nat /\ N >= 1
  <2>1. N \in Nat \ {0, 2}
    BY OrderFacts, Zenon
  <2>2. QED
    BY <2>1 DEF InOrder
<1>2. \A i \in 2 .. N : o[i] = l.next[o[i - 1]]
  <2>1. \A i \in 1 .. N : l.next[o[i]] = o[Follower(i)]
    BY Zenon DEF InOrder
  <2>2. \A i \in 2 .. N : i - 1 \in 1 .. N /\ i - 1 # N /\ (i - 1) + 1 = i
    BY <1>1
  <2>3. QED
    BY <2>1, <2>2, Zenon DEF Follower
<1> DEFINE Walk(g) == [i \in 1 .. l.num_files |-> IF i = 1 THEN l.list_start ELSE l.next[g[i - 1]]]
<1>3. o = Walk(o)
  <2>1. \A i \in 1 .. N : o[i] = (IF i = 1 THEN l.list_start ELSE l.next[o[i - 1]])
    BY <1>1, <1>2
  <2>2. o = [i \in 1 .. N |-> o[i]]
    BY OrderFacts, Zenon
  <2>3. QED
    BY <1>1, <2>1, <2>2, Zenon
<1>4. ASSUME NEW g, g = Walk(g) PROVE g = o
  <2>1. \A i \in 1 .. N : g[i] = (IF i = 1 THEN l.list_start ELSE l.next[g[i - 1]])
    BY <1>1, <1>4, Zenon
  <2>2. g[1] = o[1]
    BY <1>1, <2>1
  <2>3. \A k \in 1 + 1 .. N : g[k - 1] = o[k - 1] => g[k] = o[k]
    BY <1>1, <1>2, <2>1
  <2>4. \A k \in 1 .. N : g[k] = o[k]
    <3> DEFINE D == {k \in Nat : g[k] = o[k]}
    <3>1. 1 \in Nat /\ D \in SUBSET Nat /\ 1 \in D
      BY <2>2
    <3>2. \A k \in 1 + 1 .. N : k - 1 \in D => k \in D
      BY <1>1, <2>3
    <3>3. \A k \in 1 .. N : k \in D
      <4> HIDE DEF D, Walk
      <4>1. QED
        BY <1>1, <3>1, <3>2, UpFrom
    <3>4. QED
      BY <3>3
  <2>5. g = [i \in 1 .. N |-> g[i]]
    BY <1>1, <1>4, Zenon
  <2>6. o = [i \in 1 .. N |-> o[i]]
    BY OrderFacts, Zenon
  <2>7. QED
    BY <2>4, <2>5, <2>6, Zenon
<1>5. Order(l) = (CHOOSE g : g = Walk(g))
  BY DEF Order
<1>6. QED
  BY <1>3, <1>4, <1>5, Zenon

\* The place of a song in an order, and the list of the first n songs of it.
PlaceOf(o, s) == CHOOSE i \in 1 .. N : o[i] = s
ChainNext(o, n, i) == IF i < n THEN o[i + 1] ELSE IF i = n THEN o[1] ELSE Null
ChainPrev(o, n, i) == IF i > n THEN Null ELSE IF i = 1 THEN o[n] ELSE o[i - 1]
Chain(o, n) ==
    [next |-> [s \in Songs |-> ChainNext(o, n, PlaceOf(o, s))],
     prev |-> [s \in Songs |-> ChainPrev(o, n, PlaceOf(o, s))],
     list_start |-> IF n = 0 THEN Null ELSE o[1], num_files |-> n]

(* A song has one place in an order.                                       *)
LEMMA PlaceIs ==
    ASSUME Playable, NEW o \in Orders
    PROVE  /\ \A s \in Songs : PlaceOf(o, s) \in 1 .. N /\ o[PlaceOf(o, s)] = s
           /\ \A i \in 1 .. N : PlaceOf(o, o[i]) = i /\ o[i] \in Songs
<1>1. \A s \in Songs : PlaceOf(o, s) \in 1 .. N /\ o[PlaceOf(o, s)] = s
  <2>1. \A s \in Songs : \E i \in 1 .. N : o[i] = s
    BY OrderFacts, Zenon
  <2>2. QED
    BY <2>1, Zenon DEF PlaceOf
<1>2. \A i \in 1 .. N : o[i] \in Songs
  <2>1. o \in [1 .. N -> Songs]
    BY OrderFacts, Zenon
  <2>2. QED
    BY <2>1, Zenon
<1>3. \A i, j \in 1 .. N : o[i] = o[j] => i = j
  BY OrderFacts, Zenon
<1>4. QED
  BY <1>1, <1>2, <1>3, Zenon

(* One more song at the bottom of the list.                                *)
LEMMA ChainStep ==
    ASSUME Playable, NEW o \in Orders, NEW n \in 0 .. N - 1
    PROVE  AddEntryToBottom(Chain(o, n), o[n + 1]) = Chain(o, n + 1)
<1> DEFINE l == Chain(o, n)
           m == Chain(o, n + 1)
           new == o[n + 1]
           last == l.prev[l.list_start]
<1>1. N \in Nat
  BY OrderFacts, Zenon
<1>2. /\ \A s \in Songs : PlaceOf(o, s) \in 1 .. N /\ o[PlaceOf(o, s)] = s
      /\ \A i \in 1 .. N : PlaceOf(o, o[i]) = i /\ o[i] \in Songs
  BY PlaceIs, Zenon
<1>3. /\ l.next = [s \in Songs |-> ChainNext(o, n, PlaceOf(o, s))]
      /\ l.prev = [s \in Songs |-> ChainPrev(o, n, PlaceOf(o, s))]
      /\ l.list_start = (IF n = 0 THEN Null ELSE o[1]) /\ l.num_files = n
  BY DEF Chain
<1>4. CASE n = 0
  <2>1. \A i \in 1 .. N : /\ ChainNext(o, 1, i) = IF i = 1 THEN o[1] ELSE ChainNext(o, 0, i)
                          /\ ChainPrev(o, 1, i) = IF i = 1 THEN o[1] ELSE ChainPrev(o, 0, i)
    BY <1>1 DEF ChainNext, ChainPrev
  <2>2. 1 \in 1 .. N /\ n + 1 = 1
    BY <1>1, <1>4
  <2>3. \A s \in Songs : s = o[1] <=> PlaceOf(o, s) = 1
    BY <1>2, <2>2
  <2>4. [l.next EXCEPT ![o[1]] = o[1]] = [s \in Songs |-> ChainNext(o, 1, PlaceOf(o, s))]
    BY <1>2, <1>3, <1>4, <2>1, <2>3
  <2>5. [l.prev EXCEPT ![o[1]] = o[1]] = [s \in Songs |-> ChainPrev(o, 1, PlaceOf(o, s))]
    BY <1>2, <1>3, <1>4, <2>1, <2>3
  <2>6. AddEntryToBottom(l, o[1])
          = [next |-> [l.next EXCEPT ![o[1]] = o[1]], prev |-> [l.prev EXCEPT ![o[1]] = o[1]],
             list_start |-> o[1], num_files |-> 1]
    BY <1>3, <1>4 DEF AddEntryToBottom
  <2>7. Chain(o, 1)
          = [next |-> [s \in Songs |-> ChainNext(o, 1, PlaceOf(o, s))],
             prev |-> [s \in Songs |-> ChainPrev(o, 1, PlaceOf(o, s))],
             list_start |-> o[1], num_files |-> 1]
    BY DEF Chain
  <2>8. QED
    BY <1>4, <2>2, <2>4, <2>5, <2>6, <2>7, Zenon
<1>5. CASE n > 0
  <2>1. n \in 1 .. N /\ n + 1 \in 1 .. N /\ 1 \in 1 .. N /\ n # n + 1 /\ n + 1 # 1 /\ ~(1 > n)
    BY <1>1, <1>5
  <2>2. last = o[n] /\ l.list_start = o[1]
    <3>1. l.list_start = o[1] /\ o[1] \in Songs /\ PlaceOf(o, o[1]) = 1
      BY <1>2, <1>3, <2>1
    <3>2. ChainPrev(o, n, 1) = o[n]
      BY <2>1 DEF ChainPrev
    <3>3. QED
      BY <1>3, <3>1, <3>2
  <2>3. \A i \in 1 .. N :
          /\ ChainNext(o, n + 1, i) = IF i = n + 1 THEN o[1] ELSE IF i = n THEN new ELSE ChainNext(o, n, i)
          /\ ChainPrev(o, n + 1, i) = IF i = n + 1 THEN o[n] ELSE IF i = 1 THEN new ELSE ChainPrev(o, n, i)
    BY <1>1, <1>5 DEF ChainNext, ChainPrev
  <2>4. \A s \in Songs : /\ s = o[n] <=> PlaceOf(o, s) = n
                         /\ s = new <=> PlaceOf(o, s) = n + 1
                         /\ s = o[1] <=> PlaceOf(o, s) = 1
    BY <1>2, <2>1
  <2>5. [l.next EXCEPT ![o[n]] = new, ![new] = o[1]]
          = [s \in Songs |-> ChainNext(o, n + 1, PlaceOf(o, s))]
    BY <1>2, <1>3, <2>1, <2>3, <2>4
  <2>6. [l.prev EXCEPT ![o[1]] = new, ![new] = o[n]]
          = [s \in Songs |-> ChainPrev(o, n + 1, PlaceOf(o, s))]
    BY <1>2, <1>3, <2>1, <2>3, <2>4
  <2>7. AddEntryToBottom(l, new)
          = [next |-> [l.next EXCEPT ![o[n]] = new, ![new] = o[1]],
             prev |-> [l.prev EXCEPT ![o[1]] = new, ![new] = o[n]],
             list_start |-> o[1], num_files |-> n + 1]
    BY <1>3, <1>5, <2>2 DEF AddEntryToBottom
  <2>8. m = [next |-> [s \in Songs |-> ChainNext(o, n + 1, PlaceOf(o, s))],
             prev |-> [s \in Songs |-> ChainPrev(o, n + 1, PlaceOf(o, s))],
             list_start |-> o[1], num_files |-> n + 1]
    BY <1>5 DEF Chain
  <2>9. QED
    BY <2>5, <2>6, <2>7, <2>8, Zenon
<1>6. QED
  BY <1>4, <1>5

(* A list built from the songs in an order stands in that order.           *)
LEMMA BuiltIs ==
    ASSUME Playable, NEW o \in Orders
    PROVE  InOrder(Built(o), o)
<1>1. N \in Nat /\ N >= 1 /\ Len(o) = N
  BY OrderFacts
<1> DEFINE Add(g) == [i \in 0 .. Len(o) |-> IF i = 0 THEN EmptyList ELSE AddEntryToBottom(g[i - 1], o[i])]
           f == [i \in 0 .. N |-> Chain(o, i)]
<1>2. Chain(o, 0) = EmptyList
  <2>1. \A i \in 1 .. N : ChainNext(o, 0, i) = Null /\ ChainPrev(o, 0, i) = Null
    BY DEF ChainNext, ChainPrev
  <2>2. \A s \in Songs : PlaceOf(o, s) \in 1 .. N
    BY PlaceIs, Zenon
  <2>3. QED
    BY <2>1, <2>2, Zenon DEF Chain, EmptyList
<1>3. \A i \in 1 .. N : AddEntryToBottom(Chain(o, i - 1), o[i]) = Chain(o, i)
  <2>1. \A i \in 1 .. N : i - 1 \in 0 .. N - 1 /\ (i - 1) + 1 = i
    BY <1>1
  <2>2. \A n \in 0 .. N - 1 : AddEntryToBottom(Chain(o, n), o[n + 1]) = Chain(o, n + 1)
    BY ChainStep, Zenon
  <2>3. QED
    BY <2>1, <2>2, Zenon
<1>4. f = Add(f)
  <2>1. \A i \in 0 .. N : Chain(o, i) = IF i = 0 THEN EmptyList ELSE AddEntryToBottom(f[i - 1], o[i])
    <3>1. \A i \in 0 .. N : i # 0 => i \in 1 .. N /\ i - 1 \in 0 .. N
      BY <1>1
    <3>2. QED
      BY <1>2, <1>3, <3>1, Zenon
  <2>2. QED
    BY <1>1, <2>1, Zenon
<1>5. ASSUME NEW g, g = Add(g) PROVE g[N] = Chain(o, N)
  <2>1. \A i \in 0 .. N : g[i] = (IF i = 0 THEN EmptyList ELSE AddEntryToBottom(g[i - 1], o[i]))
    BY <1>1, <1>5, Zenon
  <2>2. g[0] = Chain(o, 0)
    BY <1>1, <1>2, <2>1
  <2>3. \A k \in 0 + 1 .. N : g[k - 1] = Chain(o, k - 1) => g[k] = Chain(o, k)
    BY <1>1, <1>3, <2>1
  <2>4. \A k \in 0 .. N : g[k] = Chain(o, k)
    <3> DEFINE D == {k \in Nat : g[k] = Chain(o, k)}
    <3>1. 0 \in Nat /\ D \in SUBSET Nat /\ 0 \in D
      BY <2>2
    <3>2. \A k \in 0 + 1 .. N : k - 1 \in D => k \in D
      BY <1>1, <2>3
    <3>3. \A k \in 0 .. N : k \in D
      <4> HIDE DEF D, Add, f
      <4>1. QED
        BY <1>1, <3>1, <3>2, UpFrom
    <3>4. QED
      BY <3>3
  <2>5. QED
    BY <1>1, <2>4
<1>6. Built(o) = Chain(o, N)
  <2>1. Built(o) = (CHOOSE g : g = Add(g))[Len(o)]
    BY DEF Built
  <2>2. QED
    BY <1>1, <1>4, <1>5, <2>1, Zenon
<1>7. InOrder(Chain(o, N), o)
  <2>1. /\ \A s \in Songs : PlaceOf(o, s) \in 1 .. N
        /\ \A i \in 1 .. N : PlaceOf(o, o[i]) = i /\ o[i] \in Songs
    BY PlaceIs, Zenon
  <2>2. \A i \in 1 .. N : /\ Follower(i) \in 1 .. N
                          /\ ChainNext(o, N, i) = o[Follower(i)] /\ ChainPrev(o, N, Follower(i)) = o[i]
    BY <1>1 DEF ChainNext, ChainPrev, Follower
  <2>3. \A i \in 1 .. N : ChainNext(o, N, i) \in Songs /\ ChainPrev(o, N, i) \in Songs
    BY <1>1, <2>1 DEF ChainNext, ChainPrev
  <2>4. Chain(o, N) \in Lists
    BY <1>1, <2>1, <2>3 DEF Chain, Lists
  <2>5. \A i \in 1 .. N : /\ Chain(o, N).next[o[i]] = o[Follower(i)]
                          /\ Chain(o, N).prev[o[Follower(i)]] = o[i]
    BY <2>1, <2>2 DEF Chain
  <2>6. Chain(o, N).num_files = N /\ Chain(o, N).list_start = o[1]
    BY <1>1 DEF Chain
  <2>7. QED
    BY <2>4, <2>5, <2>6, Zenon DEF InOrder
<1>8. QED
  BY <1>6, <1>7

-----------------------------------------------------------------------------
(* The exchange of a song and the next one. *)

Swapped(o, i) == [o EXCEPT ![i] = o[i + 1], ![i + 1] = o[i]]

(* The exchanged songs are an order again.                                 *)
LEMMA SwappedIs ==
    ASSUME Playable, NEW o \in Orders, NEW i \in 1 .. N - 1
    PROVE  /\ Swapped(o, i) \in Orders
           /\ \A j \in 1 .. N :
                Swapped(o, i)[j] = IF j = i THEN o[i + 1] ELSE IF j = i + 1 THEN o[i] ELSE o[j]
<1>1. /\ N \in Nat /\ o \in [1 .. N -> Songs]
      /\ \A j, k \in 1 .. N : o[j] = o[k] => j = k
  BY OrderFacts, Zenon
<1>2. i \in 1 .. N /\ i + 1 \in 1 .. N /\ i # i + 1
  BY <1>1
<1>3. /\ Swapped(o, i) \in [1 .. N -> Songs]
      /\ \A j \in 1 .. N :
           Swapped(o, i)[j] = IF j = i THEN o[i + 1] ELSE IF j = i + 1 THEN o[i] ELSE o[j]
  BY <1>1, <1>2 DEF Swapped
<1>4. \A j, k \in 1 .. N : j # k => Swapped(o, i)[j] # Swapped(o, i)[k]
  BY <1>1, <1>2, <1>3
<1>5. QED
  BY <1>3, <1>4, Zenon DEF Orders, SetToSeqs, N

(* The exchange leaves the list in the order with the two songs exchanged, *)
(* if there are three songs or more.                                       *)
LEMMA SwapIs ==
    ASSUME Playable, N > 2, NEW o \in Orders, NEW i \in 1 .. N - 1, NEW l, InOrder(l, o)
    PROVE  InOrder(SwapWithNext(l, o[i]), Swapped(o, i))
<1> DEFINE A == o[i]
           B == o[i + 1]
           h == IF i = 1 THEN N ELSE i - 1
           k == Follower(i + 1)
           P == o[h]
           Q == o[k]
           q == Swapped(o, i)
           r == SwapWithNext(l, A)
<1>1. /\ N \in Nat
      /\ \A j, m \in 1 .. N : o[j] = o[m] => j = m
      /\ \A j \in 1 .. N : o[j] \in Songs
  <2>1. o \in [1 .. N -> Songs]
    BY OrderFacts, Zenon
  <2>2. QED
    BY <2>1, OrderFacts, Zenon
<1>2. /\ i \in 1 .. N /\ i + 1 \in 1 .. N /\ h \in 1 .. N /\ k \in 1 .. N
      /\ i # i + 1 /\ h # i /\ h # i + 1 /\ k # i /\ k # i + 1
      /\ Follower(h) = i /\ Follower(i) = i + 1
  BY <1>1 DEF Follower
<1>3. /\ {A, B, P, Q} \subseteq Songs
      /\ A # B /\ P # A /\ P # B /\ Q # A /\ Q # B
  BY <1>1, <1>2
<1>4. /\ l \in Lists /\ l.num_files = N /\ l.list_start = o[1]
      /\ \A j \in 1 .. N : l.next[o[j]] = o[Follower(j)] /\ l.prev[o[Follower(j)]] = o[j]
  BY DEF InOrder
<1>5. l.next[A] = B /\ l.next[B] = Q /\ l.prev[A] = P /\ l.next[P] = A /\ l.prev[Q] = B /\ l.prev[B] = A
  BY <1>2, <1>4
<1>6. /\ l.next \in [Songs -> Songs \cup {Null}] /\ l.prev \in [Songs -> Songs \cup {Null}]
      /\ l = [next |-> l.next, prev |-> l.prev, list_start |-> l.list_start, num_files |-> l.num_files]
  BY <1>4 DEF Lists
<1> HIDE DEF A, B, P, Q, h, k, q, r
<1>7. /\ r.next = [l.next EXCEPT ![P] = B, ![A] = Q, ![B] = A]
      /\ r.prev = [l.prev EXCEPT ![Q] = A, ![B] = P, ![A] = B]
      /\ r.list_start = IF l.list_start = A THEN B ELSE IF l.list_start = B THEN A ELSE l.list_start
      /\ r.num_files = l.num_files
  <2> DEFINE n1 == [l.next EXCEPT ![P] = B]
             p1 == [l.prev EXCEPT ![Q] = A]
             n2 == [n1 EXCEPT ![A] = Q]
             p2 == [p1 EXCEPT ![B] = P]
  <2>1. n1[B] = Q /\ p1[A] = P
    BY <1>3, <1>5, <1>6
  <2>2. r = [l EXCEPT !.next = [n2 EXCEPT ![B] = A], !.prev = [p2 EXCEPT ![A] = B],
                      !.list_start = IF @ = A THEN B ELSE IF @ = B THEN A ELSE @]
    BY <1>5, <2>1, Zenon DEF r, SwapWithNext
  <2>3. QED
    BY <1>6, <2>2
<1>8. /\ \A s \in Songs :
           /\ r.next[s] = IF s = P THEN B ELSE IF s = A THEN Q ELSE IF s = B THEN A ELSE l.next[s]
           /\ r.prev[s] = IF s = Q THEN A ELSE IF s = B THEN P ELSE IF s = A THEN B ELSE l.prev[s]
      /\ r.next \in [Songs -> Songs \cup {Null}] /\ r.prev \in [Songs -> Songs \cup {Null}]
  BY <1>3, <1>6, <1>7
<1>9. r \in Lists /\ r.num_files = N
  BY <1>3, <1>4, <1>6, <1>7, <1>8 DEF Lists, SwapWithNext, r
<1>10. \A j \in 1 .. N : q[j] = IF j = i THEN B ELSE IF j = i + 1 THEN A ELSE o[j]
  BY SwappedIs, Zenon DEF q, A, B
<1>11. r.list_start = q[1]
  <2>1. 1 \in 1 .. N
    BY <1>1
  <2>2. o[1] = A <=> i = 1
    BY <1>1, <1>2, <2>1 DEF A
  <2>3. o[1] # B
    BY <1>1, <1>2, <2>1 DEF B
  <2>4. q[1] = IF 1 = i THEN B ELSE o[1]
    BY <1>2, <1>10, <2>1
  <2>5. QED
    BY <1>4, <1>7, <2>2, <2>3, <2>4
<1>12. ASSUME NEW j \in 1 .. N
       PROVE  r.next[q[j]] = q[Follower(j)] /\ r.prev[q[Follower(j)]] = q[j]
  <2>1. Follower(j) \in 1 .. N
    BY <1>1 DEF Follower
  <2>2. CASE j = h
    <3>1. Follower(j) = i
      BY <1>2, <2>2
    <3>2. q[h] = P /\ q[i] = B
      BY <1>2, <1>10 DEF P
    <3>3. QED
      BY <1>3, <1>8, <2>2, <3>1, <3>2
  <2>3. CASE j = i
    <3>1. Follower(j) = i + 1 /\ q[i] = B /\ q[i + 1] = A
      BY <1>2, <1>10, <2>3
    <3>2. QED
      BY <1>3, <1>8, <2>3, <3>1
  <2>4. CASE j = i + 1
    <3>1. Follower(j) = k /\ q[i + 1] = A /\ q[k] = Q
      BY <1>2, <1>10, <2>4 DEF k, Q
    <3>2. QED
      BY <1>3, <1>8, <2>4, <3>1
  <2>5. CASE j # h /\ j # i /\ j # i + 1
    <3>1. q[j] = o[j] /\ o[j] # A /\ o[j] # B /\ o[j] # P /\ o[j] \in Songs
      BY <1>1, <1>2, <1>10, <2>5 DEF A, B, P
    <3>2. Follower(j) # i /\ Follower(j) # i + 1 /\ Follower(j) # k
      BY <1>1, <2>5 DEF Follower, h, k
    <3>3. /\ q[Follower(j)] = o[Follower(j)] /\ o[Follower(j)] \in Songs
          /\ o[Follower(j)] # A /\ o[Follower(j)] # B /\ o[Follower(j)] # Q
      BY <1>1, <1>2, <1>10, <2>1, <3>2 DEF A, B, Q
    <3>4. QED
      BY <1>4, <1>8, <3>1, <3>3
  <2>6. QED
    BY <2>2, <2>3, <2>4, <2>5
<1>13. QED
  BY <1>9, <1>11, <1>12, Zenon DEF InOrder, r, q, A

-----------------------------------------------------------------------------
(* The sort. *)

\* The songs by the first f fields sorted by: the last of these fields decides, and
\* the ones before it among songs alike in it.
Key(f, s) == Rank[SortFields[f]][s]
Before(f, a, b) ==
    \E i \in 1 .. f : Key(i, a) < Key(i, b) /\ \A j \in i + 1 .. f : Key(j, a) = Key(j, b)
SortedBy(f, o) == \A i, j \in 1 .. N : Before(f, o[i], o[j]) => i < j

\* Turn t of the sort is in round Round(t) of the outer loop, at place Place(t).
Round(t) == t \div (N - 1)
Place(t) == (t % (N - 1)) + 1

\* In each round the greatest song left sinks to its place: the songs behind are in
\* theirs, the one at the present place is the greatest so far, and songs with the
\* same key stand as they did.
Greatest(f, o, k) == \A i \in 1 .. k : Key(f, o[i]) <= Key(f, o[k])
Settled(t, k) == k = Place(t) \/ k > N - Round(t) \/ (k = N - Round(t) /\ k <= Place(t))
Sinking(f, t, o) == \A k \in 1 .. N : Settled(t, k) => Greatest(f, o, k)
Stable(f, o) ==
    \A i, j \in 1 .. N : Key(f, o[i]) = Key(f, o[j]) /\ Before(f - 1, o[i], o[j]) => i < j

(* A key is a number.                                                      *)
LEMMA KeyType == \A f \in 1 .. 3, s \in Songs : Key(f, s) \in Nat
<1>1. \A f \in 1 .. 3 : SortFields[f] \in Fields
  BY DEF SortFields, Fields
<1>2. QED
  BY <1>1, RankAssumption, Zenon DEF Key

(* The last field decides, or they are alike in it and the others do.      *)
LEMMA BeforeOneMore ==
    ASSUME NEW f \in 1 .. 3, NEW a \in Songs, NEW b \in Songs
    PROVE  Before(f, a, b) <=> \/ Key(f, a) < Key(f, b)
                               \/ Key(f, a) = Key(f, b) /\ Before(f - 1, a, b)
<1> DEFINE less(i) == Key(i, a) < Key(i, b)
           same(i) == Key(i, a) = Key(i, b)
<1>1. Before(f, a, b) <=> \E i \in 1 .. f : less(i) /\ \A j \in i + 1 .. f : same(j)
  BY Zenon DEF Before
<1>2. Before(f - 1, a, b) <=> \E i \in 1 .. f - 1 : less(i) /\ \A j \in i + 1 .. f - 1 : same(j)
  BY Zenon DEF Before
<1> HIDE DEF less, same
<1>3. CASE less(f)
  <2>1. f \in 1 .. f /\ \A j \in f + 1 .. f : same(j)
    OBVIOUS
  <2>2. QED
    BY <1>1, <1>3, <2>1, Zenon DEF less
<1>4. CASE ~less(f)
  <2>1. ASSUME NEW i \in 1 .. f, less(i), \A j \in i + 1 .. f : same(j)
        PROVE  same(f) /\ Before(f - 1, a, b)
    <3>1. i \in 1 .. f - 1 /\ f \in i + 1 .. f
      <4>1. i # f
        BY <1>4, <2>1
      <4>2. QED
        BY <4>1
    <3>2. \A j \in i + 1 .. f - 1 : j \in i + 1 .. f
      OBVIOUS
    <3>3. QED
      BY <1>2, <2>1, <3>1, <3>2, Zenon
  <2>2. ASSUME same(f), NEW i \in 1 .. f - 1, less(i), \A j \in i + 1 .. f - 1 : same(j)
        PROVE  Before(f, a, b)
    <3>1. i \in 1 .. f
      OBVIOUS
    <3>2. \A j \in i + 1 .. f : j = f \/ j \in i + 1 .. f - 1
      OBVIOUS
    <3>3. QED
      BY <1>1, <2>2, <3>1, <3>2, Zenon
  <2>3. Before(f, a, b) <=> same(f) /\ Before(f - 1, a, b)
    BY <1>1, <1>2, <2>1, <2>2, Zenon
  <2>4. QED
    BY <1>4, <2>3, Zenon DEF less, same
<1>5. QED
  BY <1>3, <1>4

(* The quotient and the remainder.                                         *)
LEMMA Division ==
    \A m \in Nat \ {0}, n \in Nat :
        n \div m \in Nat /\ n % m \in 0 .. m - 1 /\ n = (n \div m) * m + (n % m)
<1> SUFFICES ASSUME NEW m \in Nat \ {0}, NEW n \in Nat
             PROVE  n \div m \in Nat /\ n % m \in 0 .. m - 1 /\ n = (n \div m) * m + (n % m)
  OBVIOUS
<1> DEFINE q == n \div m
           r == n % m
<1>1. q \in Int /\ r \in Int /\ 0 <= r /\ r < m /\ n = q * m + r
  OBVIOUS
<1> HIDE DEF q, r
<1>2. q < 0 => q * m <= 0 - m
  BY <1>1
<1>3. q >= 0
  <2> DEFINE a == q * m
  <2>1. q < 0 => a <= 0 - m
    BY <1>2
  <2>2. n = a + r /\ a \in Int
    BY <1>1
  <2> HIDE DEF a
  <2>3. QED
    BY <1>1, <2>1, <2>2
<1>4. q \in Nat /\ r \in 0 .. m - 1 /\ n = q * m + r
  BY <1>1, <1>3
<1>5. QED
  BY <1>4 DEF q, r

(* From one turn to the next.                                              *)
LEMMA TurnFacts ==
    ASSUME N \in Nat, N > 2, NEW t \in Nat
    PROVE  /\ Round(t) \in Nat /\ Place(t) \in 1 .. N - 1
           /\ Place(t) < N - 1 => Round(t + 1) = Round(t) /\ Place(t + 1) = Place(t) + 1
           /\ Place(t) = N - 1 => Round(t + 1) = Round(t) + 1 /\ Place(t + 1) = 1
           /\ t = N * (N - 1) => Round(t) = N /\ Place(t) = 1
           /\ t = 0 => Round(t) = 0 /\ Place(t) = 1
<1> DEFINE m == N - 1
           r(n) == n \div m
           p(n) == n % m
<1>1. m \in Nat \ {0}
  OBVIOUS
<1>2. \A n \in Nat : r(n) \in Nat /\ p(n) \in 0 .. m - 1 /\ n = r(n) * m + p(n)
  BY <1>1, Division
<1>3. ASSUME NEW n \in Nat, NEW q \in Nat, NEW s \in 0 .. m - 1, n = q * m + s
      PROVE  r(n) = q /\ p(n) = s
  <2> DEFINE a == q * m
             b == r(n) * m
  <2>1. r(n) \in Nat /\ p(n) \in 0 .. m - 1 /\ n = b + p(n)
    BY <1>2
  <2> HIDE DEF r, p, m
  <2>2. a \in Int /\ b \in Int /\ (q + 1) * m = a + m /\ (r(n) + 1) * m = b + m
    BY <1>1, <2>1
  <2>3. (q < r(n) => (q + 1) * m <= r(n) * m) /\ (r(n) < q => (r(n) + 1) * m <= q * m)
    BY <1>1, <2>1
  <2>4. (q < r(n) => a + m <= b) /\ (r(n) < q => b + m <= a)
    BY <2>2, <2>3, Zenon
  <2>5. n = a + s
    BY <1>3
  <2>6. r(n) = q => a = b
    OBVIOUS
  <2> HIDE DEF a, b
  <2>7. r(n) = q
    BY <1>1, <1>3, <2>1, <2>2, <2>4, <2>5
  <2>8. p(n) = s
    BY <1>1, <2>1, <2>2, <2>5, <2>6, <2>7
  <2>9. QED
    BY <2>7, <2>8
<1>4. Round(t) = r(t) /\ Place(t) = p(t) + 1 /\ Round(t + 1) = r(t + 1) /\ Place(t + 1) = p(t + 1) + 1
  BY Zenon DEF Round, Place
<1>5. r(t) \in Nat /\ p(t) \in 0 .. m - 1 /\ t = r(t) * m + p(t)
  BY <1>2
<1> HIDE DEF r, p
<1>6. ASSUME p(t) + 1 < m PROVE r(t + 1) = r(t) /\ p(t + 1) = p(t) + 1
  <2>1. t + 1 = r(t) * m + (p(t) + 1) /\ p(t) + 1 \in 0 .. m - 1 /\ t + 1 \in Nat
    BY <1>1, <1>5, <1>6
  <2>2. QED
    BY <1>3, <1>5, <2>1
<1>7. ASSUME p(t) + 1 = m PROVE r(t + 1) = r(t) + 1 /\ p(t + 1) = 0
  <2>1. (r(t) + 1) * m = r(t) * m + m
    BY <1>1, <1>5
  <2>2. t + 1 = (r(t) + 1) * m + 0 /\ 0 \in 0 .. m - 1 /\ t + 1 \in Nat /\ r(t) + 1 \in Nat
    BY <1>1, <1>5, <1>7, <2>1
  <2>3. QED
    BY <1>3, <2>2
<1>8. t = N * (N - 1) => r(t) = N /\ p(t) = 0
  <2>1. N * (N - 1) = N * m + 0 /\ 0 \in 0 .. m - 1 /\ N * m + 0 \in Nat
    BY <1>1
  <2>2. QED
    BY <1>3, <2>1
<1>9. t = 0 => r(t) = 0 /\ p(t) = 0
  <2>1. 0 = 0 * m + 0 /\ 0 \in 0 .. m - 1
    BY <1>1
  <2>2. QED
    BY <1>3, <2>1
<1>10. QED
  BY <1>1, <1>4, <1>5, <1>6, <1>7, <1>8, <1>9

\* The order behind a turn of the sort that is at place p.
Turned(f, o, p) == IF Key(f, o[p]) > Key(f, o[p + 1]) THEN Swapped(o, p) ELSE o

(* A turn takes the greatest song so far one place on, and changes nothing *)
(* behind it.                                                              *)
LEMMA SinkStep ==
    ASSUME Playable, N > 2, NEW f \in 1 .. 3, NEW o \in Orders, NEW t \in Nat, Sinking(f, t, o)
    PROVE  Sinking(f, t + 1, Turned(f, o, Place(t)))
<1> DEFINE p == Place(t)
           R == Round(t)
           q == Turned(f, o, p)
           key(i) == Key(f, o[i])
           qkey(i) == Key(f, q[i])
<1>1. N \in Nat /\ o \in [1 .. N -> Songs]
  BY OrderFacts, Zenon
<1>2. /\ R \in Nat /\ p \in 1 .. N - 1
      /\ p < N - 1 => Round(t + 1) = R /\ Place(t + 1) = p + 1
      /\ p = N - 1 => Round(t + 1) = R + 1 /\ Place(t + 1) = 1
  BY <1>1, TurnFacts
<1>3. p \in 1 .. N /\ p + 1 \in 1 .. N
  BY <1>1, <1>2
<1>4. \A i \in 1 .. N : key(i) \in Nat
  BY <1>1, KeyType, Zenon
<1>5. \A k \in 1 .. N : Settled(t, k) => \A i \in 1 .. k : key(i) <= key(k)
  BY Zenon DEF Sinking, Greatest
<1>6. /\ key(p) > key(p + 1) =>
           \A i \in 1 .. N : qkey(i) = IF i = p THEN key(p + 1) ELSE IF i = p + 1 THEN key(p) ELSE key(i)
      /\ ~(key(p) > key(p + 1)) => \A i \in 1 .. N : qkey(i) = key(i)
  <2>1. p \in 1 .. N - 1
    BY <1>2, Zenon
  <2>2. \A i \in 1 .. N :
          Swapped(o, p)[i] = IF i = p THEN o[p + 1] ELSE IF i = p + 1 THEN o[p] ELSE o[i]
    BY <2>1, SwappedIs, Zenon
  <2>3. q = IF key(p) > key(p + 1) THEN Swapped(o, p) ELSE o
    BY Zenon DEF Turned
  <2>4. ASSUME key(p) > key(p + 1), NEW i \in 1 .. N
        PROVE  qkey(i) = IF i = p THEN key(p + 1) ELSE IF i = p + 1 THEN key(p) ELSE key(i)
    <3>1. q = Swapped(o, p)
      BY <2>3, <2>4, Zenon
    <3>2. q[i] = IF i = p THEN o[p + 1] ELSE IF i = p + 1 THEN o[p] ELSE o[i]
      BY <2>2, <3>1, Zenon
    <3>3. QED
      BY <3>2, Zenon
  <2>5. ASSUME ~(key(p) > key(p + 1)), NEW i \in 1 .. N
        PROVE  qkey(i) = key(i)
    BY <2>3, <2>5, Zenon
  <2>6. QED
    BY <2>4, <2>5, Zenon
<1>7. \A k \in 1 .. N : Settled(t, k) <=> k = p \/ k > N - R \/ (k = N - R /\ k <= p)
  BY Zenon DEF Settled
<1>8. \A k \in 1 .. N : Settled(t + 1, k) =>
        k = 1 \/ k = p + 1 \/ k > N - R \/ (k = N - R /\ k <= p + 1)
  <2>1. \A k \in 1 .. N : Settled(t + 1, k) <=>
          \/ k = Place(t + 1) \/ k > N - Round(t + 1)
          \/ k = N - Round(t + 1) /\ k <= Place(t + 1)
    BY Zenon DEF Settled
  <2> HIDE DEF p, R
  <2>2. QED
    BY <1>1, <1>2, <2>1
<1> HIDE DEF p, R, q, key, qkey
<1>9. \A i \in 1 .. N : qkey(i) \in Nat
  BY <1>3, <1>4, <1>6
<1>10. ASSUME NEW k \in 1 .. N, k = 1 \/ k = p + 1 \/ k > N - R \/ (k = N - R /\ k <= p + 1)
       PROVE  \A i \in 1 .. k : qkey(i) <= qkey(k)
  <2>1. CASE k = 1
    <3>1. \A i \in 1 .. k : i = k
      BY <2>1
    <3>2. QED
      BY <1>9, <3>1
  <2>2. CASE k = p + 1
    <3>1. \A i \in 1 .. p : key(i) <= key(p)
      BY <1>3, <1>5, <1>7
    <3>2. \A i \in 1 .. k : i = p + 1 \/ i \in 1 .. p
      BY <1>3, <2>2
    <3>3. \A i \in 1 .. k : i \in 1 .. N
      BY <1>1
    <3>4. CASE key(p) > key(p + 1)
      <4>1. qkey(k) = key(p) /\ key(p) \in Nat
        BY <1>2, <1>3, <1>4, <1>6, <2>2, <3>4
      <4>2. \A i \in 1 .. k : qkey(i) = IF i = p THEN key(p + 1) ELSE IF i = p + 1 THEN key(p) ELSE key(i)
        BY <1>6, <3>3, <3>4
      <4>3. QED
        BY <1>3, <1>4, <3>1, <3>2, <3>3, <3>4, <4>1, <4>2
    <3>5. CASE ~(key(p) > key(p + 1))
      <4>1. \A i \in 1 .. k : qkey(i) = key(i) /\ key(i) \in Nat
        BY <1>4, <1>6, <3>3, <3>5
      <4>2. QED
        BY <1>3, <1>4, <2>2, <3>1, <3>2, <3>5, <4>1
    <3>6. QED
      BY <3>4, <3>5
  <2>3. CASE k # p + 1 /\ (k > N - R \/ (k = N - R /\ k <= p + 1))
    <3>1. k > N - R \/ (k = N - R /\ k <= p)
      BY <1>1, <1>2, <2>3
    <3>2. \A i \in 1 .. k : key(i) <= key(k)
      BY <1>5, <1>7, <3>1
    <3>3. \A i \in 1 .. k : i \in 1 .. N /\ key(i) \in Nat
      BY <1>1, <1>4
    <3>4. CASE key(p) > key(p + 1)
      <4>1. k > p + 1
        <5>1. ~(p + 1 > N - R)
          <6>1. SUFFICES ASSUME p + 1 > N - R PROVE FALSE
            OBVIOUS
          <6>2. \A i \in 1 .. p + 1 : key(i) <= key(p + 1)
            BY <1>3, <1>5, <1>7, <6>1
          <6>3. QED
            BY <1>3, <1>4, <3>4, <6>2
        <5>2. p + 1 <= N - R
          <6>2. p \in Int /\ R \in Int
            BY <1>1, <1>2
          <6>3. QED
            BY <1>1, <5>1, <6>2
        <5>3. CASE k > N - R
          BY <1>1, <1>2, <5>2, <5>3
        <5>4. CASE k = N - R /\ k <= p
          BY <1>1, <1>2, <5>2, <5>4
        <5>5. QED
          BY <3>1, <5>3, <5>4
      <4>2. qkey(k) = key(k) /\ p \in 1 .. k /\ p + 1 \in 1 .. k
        BY <1>2, <1>3, <1>6, <3>4, <4>1
      <4>3. \A i \in 1 .. k : qkey(i) = IF i = p THEN key(p + 1) ELSE IF i = p + 1 THEN key(p) ELSE key(i)
        BY <1>6, <3>3, <3>4
      <4>4. QED
        BY <3>2, <4>2, <4>3
    <3>5. CASE ~(key(p) > key(p + 1))
      BY <1>6, <3>2, <3>3, <3>5
    <3>6. QED
      BY <3>4, <3>5
  <2>4. QED
    BY <1>10, <2>1, <2>2, <2>3
<1>11. \A k \in 1 .. N : Settled(t + 1, k) => \A i \in 1 .. k : qkey(i) <= qkey(k)
  BY <1>8, <1>10, Zenon
<1>12. QED
  BY <1>11, Zenon DEF Sinking, Greatest, qkey, q, p

(* A turn exchanges songs of different keys only, so those of the same key *)
(* stand as they did.                                                      *)
LEMMA StableStep ==
    ASSUME Playable, NEW f \in 1 .. 3, NEW o \in Orders, NEW p \in 1 .. N - 1, Stable(f, o)
    PROVE  Stable(f, Turned(f, o, p))
<1> DEFINE q == Turned(f, o, p)
           from(i) == IF i = p THEN p + 1 ELSE IF i = p + 1 THEN p ELSE i
<1>1. N \in Nat /\ o \in [1 .. N -> Songs] /\ p \in 1 .. N /\ p + 1 \in 1 .. N
  <2>1. N \in Nat /\ o \in [1 .. N -> Songs]
    BY OrderFacts, Zenon
  <2>2. QED
    BY <2>1
<1>2. CASE ~(Key(f, o[p]) > Key(f, o[p + 1]))
  BY <1>2, Zenon DEF Turned
<1>3. CASE Key(f, o[p]) > Key(f, o[p + 1])
  <2>1. \A i \in 1 .. N : q[i] = o[from(i)] /\ from(i) \in 1 .. N
    <3>1. q = Swapped(o, p)
      BY <1>3, Zenon DEF Turned
    <3>2. \A i \in 1 .. N :
            Swapped(o, p)[i] = IF i = p THEN o[p + 1] ELSE IF i = p + 1 THEN o[p] ELSE o[i]
      BY SwappedIs, Zenon
    <3>3. QED
      BY <1>1, <3>1, <3>2, Zenon
  <2>2. \A i, j \in 1 .. N : from(i) < from(j) /\ ~(from(i) = p /\ from(j) = p + 1) => i < j
    BY <1>1
  <2>3. ASSUME NEW i \in 1 .. N, NEW j \in 1 .. N,
               Key(f, q[i]) = Key(f, q[j]), Before(f - 1, q[i], q[j])
        PROVE  i < j
    <3>1. q[i] = o[from(i)] /\ q[j] = o[from(j)] /\ from(i) \in 1 .. N /\ from(j) \in 1 .. N
      BY <2>1, Zenon
    <3> HIDE DEF from, q
    <3>2. from(i) < from(j)
      BY <2>3, <3>1, Zenon DEF Stable
    <3>3. ~(from(i) = p /\ from(j) = p + 1)
      <4>1. Key(f, o[p]) \in Nat /\ Key(f, o[p + 1]) \in Nat
        BY <1>1, KeyType, Zenon
      <4>2. SUFFICES ASSUME from(i) = p, from(j) = p + 1 PROVE FALSE
        OBVIOUS
      <4>3. Key(f, o[p]) = Key(f, o[p + 1])
        BY <2>3, <3>1, <4>2, Zenon
      <4>4. QED
        BY <1>3, <4>1, <4>3
    <3>4. QED
      BY <2>2, <3>2, <3>3, Zenon
  <2>4. QED
    BY <2>3, Zenon DEF Stable
<1>4. QED
  BY <1>2, <1>3

(* Behind the last turn the songs are sorted by the field too.             *)
LEMMA TurnsDone ==
    ASSUME Playable, NEW f \in 1 .. 3, NEW o \in Orders, Stable(f, o),
           N > 2 => Sinking(f, N * (N - 1), o)
    PROVE  SortedBy(f, o)
<1>1. N \in Nat \ {0, 2} /\ o \in [1 .. N -> Songs]
  BY OrderFacts, Zenon
<1>2. ASSUME NEW i \in 1 .. N, NEW j \in 1 .. N, j <= i
      PROVE  Key(f, o[j]) <= Key(f, o[i])
  <2>1. CASE N > 2
    <3>1. Round(N * (N - 1)) = N /\ Place(N * (N - 1)) = 1
      <4>1. N * (N - 1) \in Nat
        BY <1>1
      <4>2. QED
        BY <1>1, <2>1, <4>1, TurnFacts
    <3>2. i > N - N
      BY <1>1
    <3>3. Greatest(f, o, i)
      BY <2>1, <3>1, <3>2, Zenon DEF Sinking, Settled
    <3>4. j \in 1 .. i
      BY <1>1, <1>2
    <3>5. QED
      BY <3>3, <3>4, Zenon DEF Greatest
  <2>2. CASE ~(N > 2)
    <3>1. j = i
      BY <1>1, <2>2
    <3>2. Key(f, o[i]) \in Nat
      BY <1>1, KeyType, Zenon
    <3>3. QED
      BY <3>1, <3>2
  <2>3. QED
    BY <2>1, <2>2
<1>3. ASSUME NEW i \in 1 .. N, NEW j \in 1 .. N, Before(f, o[i], o[j])
      PROVE  i < j
  <2>1. o[i] \in Songs /\ o[j] \in Songs
    BY <1>1, Zenon
  <2>2. Key(f, o[i]) \in Nat /\ Key(f, o[j]) \in Nat
    BY <2>1, KeyType, Zenon
  <2>3. CASE Key(f, o[i]) < Key(f, o[j])
    BY <1>1, <1>2, <2>2, <2>3
  <2>4. CASE Key(f, o[i]) = Key(f, o[j]) /\ Before(f - 1, o[i], o[j])
    BY <2>4, Zenon DEF Stable
  <2>5. QED
    BY <1>3, <2>1, <2>3, <2>4, BeforeOneMore, Zenon
<1>4. QED
  BY <1>3, Zenon DEF SortedBy

(* The sort by the next field starts from songs sorted by the ones before. *)
LEMMA TurnsStart ==
    ASSUME Playable, NEW f \in 1 .. 3, NEW o \in Orders, f = 1 \/ SortedBy(f - 1, o)
    PROVE  Stable(f, o) /\ (N > 2 => Sinking(f, 0, o))
<1>1. N \in Nat \ {0, 2} /\ o \in [1 .. N -> Songs]
  BY OrderFacts, Zenon
<1>2. Stable(f, o)
  <2>1. f = 1 => \A a, b : ~Before(f - 1, a, b)
    <3>1. \A i : ~(i \in 1 .. 1 - 1)
      OBVIOUS
    <3>2. QED
      BY <3>1, Zenon DEF Before
  <2>2. QED
    BY <2>1, Zenon DEF Stable, SortedBy
<1>3. ASSUME N > 2 PROVE Sinking(f, 0, o)
  <2>1. Round(0) = 0 /\ Place(0) = 1
    BY <1>1, <1>3, TurnFacts
  <2>2. \A k \in 1 .. N : Settled(0, k) => k = 1
    <3>1. \A k \in 1 .. N : ~(k > N - 0) /\ (k = N - 0 /\ k <= 1 => k = 1)
      BY <1>1
    <3>2. QED
      BY <2>1, <3>1, Zenon DEF Settled
  <2>3. Greatest(f, o, 1)
    <3>1. 1 \in 1 .. N /\ \A i \in 1 .. 1 : i = 1
      BY <1>1
    <3>2. Key(f, o[1]) \in Nat
      BY <1>1, <3>1, KeyType, Zenon
    <3>3. Key(f, o[1]) <= Key(f, o[1])
      BY <3>2
    <3>4. QED
      BY <3>1, <3>3, Zenon DEF Greatest
  <2>4. QED
    BY <2>2, <2>3, Zenon DEF Sinking
<1>4. QED
  BY <1>2, <1>3

(* Sorted by the three fields is sorted by artist, then album, then track. *)
LEMMA SortedIs ==
    \A a, b \in Songs : Precedes(a, b) <=> Before(3, a, b)
<1> SUFFICES ASSUME NEW a \in Songs, NEW b \in Songs PROVE Precedes(a, b) <=> Before(3, a, b)
  OBVIOUS
<1> DEFINE key(s) == <<Rank["artist"][s], Rank["album"][s], Rank["track"][s]>>
<1>1. \A s \in Songs : key(s)[1] = Key(3, s) /\ key(s)[2] = Key(2, s) /\ key(s)[3] = Key(1, s)
  BY DEF Key, SortFields
<1>2. Precedes(a, b) <=> \E i \in 1 .. 3 : key(a)[i] < key(b)[i] /\ \A j \in 1 .. i - 1 : key(a)[j] = key(b)[j]
  BY Zenon DEF Precedes
<1> HIDE DEF key
<1>3. Precedes(a, b) <=> \/ key(a)[1] < key(b)[1]
                         \/ key(a)[2] < key(b)[2] /\ key(a)[1] = key(b)[1]
                         \/ key(a)[3] < key(b)[3] /\ key(a)[1] = key(b)[1] /\ key(a)[2] = key(b)[2]
  <2>1. \A i \in 1 .. 3 : i = 1 \/ i = 2 \/ i = 3
    OBVIOUS
  <2>2. (\A j : ~(j \in 1 .. 1 - 1)) /\ (\A j : j \in 1 .. 2 - 1 <=> j = 1) /\ (\A j : j \in 1 .. 3 - 1 <=> j = 1 \/ j = 2)
    OBVIOUS
  <2>3. 1 \in 1 .. 3 /\ 2 \in 1 .. 3 /\ 3 \in 1 .. 3
    OBVIOUS
  <2>4. QED
    BY <1>2, <2>1, <2>2, <2>3, Zenon
<1>4. Before(3, a, b) <=> \/ Key(3, a) < Key(3, b)
                          \/ Key(2, a) < Key(2, b) /\ Key(3, a) = Key(3, b)
                          \/ Key(1, a) < Key(1, b) /\ Key(3, a) = Key(3, b) /\ Key(2, a) = Key(2, b)
  <2>1. \A i \in 1 .. 3 : i = 1 \/ i = 2 \/ i = 3
    OBVIOUS
  <2>2. (\A j : ~(j \in 3 + 1 .. 3)) /\ (\A j : j \in 2 + 1 .. 3 <=> j = 3) /\ (\A j : j \in 1 + 1 .. 3 <=> j = 2 \/ j = 3)
    OBVIOUS
  <2>3. 1 \in 1 .. 3 /\ 2 \in 1 .. 3 /\ 3 \in 1 .. 3
    OBVIOUS
  <2>4. QED
    BY <2>1, <2>2, <2>3, Zenon DEF Before
<1>5. QED
  BY <1>1, <1>3, <1>4

-----------------------------------------------------------------------------
(* The list and the index on the card. *)

\* The sort has come as far as its field, its turn and its song say.
SortInv(o) ==
    /\ InOrder(list, o) /\ Stable(sorting.field, o)
    /\ sorting.turn \in 0 .. N * (N - 1)
    /\ N > 2 =>
         /\ Sinking(sorting.field, sorting.turn, o)
         /\ Place(sorting.turn) > 1 => sorting.current = o[Place(sorting.turn)]

\* The list is empty, sorted, or in the order of the index on the card.
ListInv ==
    /\ pc = "index" => list = EmptyList /\ sorting = NoSort
    /\ pc = "sort" => database = << >> /\ \E o \in Orders : SortInv(o)
    /\ pc \notin {"index", "sort"} => database # << >> /\ InOrder(list, database)
    /\ database # << >> => database \in Orders /\ SortedBy(3, database)

(* A turn of the sort.                                                     *)
LEMMA SortTurnIs ==
    ASSUME Playable, TypeOK, NEW o \in Orders, SortInv(o), SortTurn
    PROVE  /\ \E q \in Orders : SortInv(q)'
           /\ list' \in Lists
           /\ sorting' \in [field : 1 .. 3, turn : Nat, current : Songs \cup {Null}]
<1> DEFINE f == sorting.field
           t == sorting.turn
           p == Place(t)
           q == Turned(f, o, p)
           c == CurrentAt(list, t, sorting.current)
<1>1. N \in Nat \ {0, 2} /\ o \in [1 .. N -> Songs]
  BY OrderFacts, Zenon
<1>2. /\ sorting \in [field : 1 .. 3, turn : Nat, current : Songs \cup {Null}]
      /\ f \in 1 .. 3 /\ t \in Nat
  BY DEF TypeOK
<1>3. /\ InOrder(list, o) /\ Stable(f, o) /\ t \in 0 .. N * (N - 1)
      /\ N > 2 => Sinking(f, t, o) /\ (p > 1 => sorting.current = o[p])
  BY Zenon DEF SortInv
<1>4. /\ list.num_files = N /\ list.list_start = o[1] /\ list \in Lists
      /\ \A i \in 1 .. N : list.next[o[i]] = o[Follower(i)]
  BY <1>3, Zenon DEF InOrder
<1>5. t < N * (N - 1) /\ N > 2
  <2>1. t < N * (N - 1)
    BY <1>4, Zenon DEF SortTurn, Turns
  <2>2. N # 1
    <3>1. SUFFICES ASSUME N = 1 PROVE FALSE
      OBVIOUS
    <3>2. t < 0
      BY <2>1, <3>1
    <3>3. QED
      BY <1>2, <3>2
  <2>3. QED
    BY <1>1, <2>1, <2>2
<1>6. p \in 1 .. N - 1 /\ p \in 1 .. N /\ p + 1 \in 1 .. N
  <2>1. N \in Nat
    BY <1>1
  <2>2. p \in 1 .. N - 1
    BY <1>2, <1>5, <2>1, TurnFacts, Zenon
  <2>3. QED
    BY <2>1, <2>2
<1>7. c = o[p] /\ o[p] \in Songs /\ o[p + 1] \in Songs
  <2>1. p = (t % (N - 1)) + 1
    BY Zenon DEF Place
  <2>2. t % (N - 1) \in Int
    BY <1>1, <1>2, <1>5
  <2>3. t % (N - 1) = 0 <=> p = 1
    BY <2>1, <2>2
  <2>4. c = IF p = 1 THEN o[1] ELSE sorting.current
    BY <1>4, <2>3, Zenon DEF CurrentAt
  <2>5. p = 1 \/ p > 1
    BY <1>6
  <2>6. QED
    BY <1>1, <1>3, <1>5, <1>6, <2>4, <2>5, Zenon
<1>8. list.next[c] = o[p + 1]
  <2>1. Follower(p) = p + 1
    BY <1>6 DEF Follower
  <2>2. QED
    BY <1>4, <1>6, <1>7, <2>1, Zenon
<1> DEFINE swaps == Key(f, o[p]) > Key(f, o[p + 1])
<1>9. NodesAreOutOfOrder(c, list.next[c], SortFields[f]) <=> swaps
  BY <1>7, <1>8, Zenon DEF NodesAreOutOfOrder, Key
<1>10. /\ list' = IF swaps THEN SwapWithNext(list, o[p]) ELSE list
       /\ sorting' = [sorting EXCEPT !.turn = @ + 1, !.current = IF swaps THEN o[p] ELSE o[p + 1]]
  <2>1. /\ list' = SortedOnce(list, c, SortFields[f])
        /\ sorting' = [sorting EXCEPT !.turn = @ + 1, !.current = CurrentAfter(list, c, SortFields[f])]
    BY Zenon DEF SortTurn
  <2>2. SortedOnce(list, c, SortFields[f]) = IF swaps THEN SwapWithNext(list, o[p]) ELSE list
    BY <1>7, <1>9, Zenon DEF SortedOnce
  <2>3. CurrentAfter(list, c, SortFields[f]) = IF swaps THEN o[p] ELSE o[p + 1]
    BY <1>7, <1>8, <1>9, Zenon DEF CurrentAfter
  <2>4. QED
    BY <2>1, <2>2, <2>3, Zenon
<1>11. q \in Orders /\ q[p + 1] = (IF swaps THEN o[p] ELSE o[p + 1]) /\ InOrder(list', q)
  <2>1. CASE swaps
    <3>1. q = Swapped(o, p) /\ list' = SwapWithNext(list, o[p])
      BY <1>10, <2>1, Zenon DEF Turned
    <3>2. /\ Swapped(o, p) \in Orders
          /\ Swapped(o, p)[p + 1] = IF p + 1 = p THEN o[p + 1] ELSE IF p + 1 = p + 1 THEN o[p] ELSE o[p + 1]
      BY <1>6, SwappedIs, Zenon
    <3>3. p + 1 # p
      BY <1>6
    <3>4. InOrder(SwapWithNext(list, o[p]), Swapped(o, p))
      BY <1>3, <1>5, <1>6, SwapIs, Zenon
    <3>5. QED
      BY <2>1, <3>1, <3>2, <3>3, <3>4, Zenon
  <2>2. CASE ~swaps
    BY <1>3, <1>10, <2>2, Zenon DEF Turned
  <2>3. QED
    BY <2>1, <2>2, Zenon
<1>12. Stable(f, q) /\ Sinking(f, t + 1, q)
  BY <1>2, <1>3, <1>5, <1>6, StableStep, SinkStep, Zenon
<1>13. Place(t + 1) > 1 => Place(t + 1) = p + 1
  <2>1. /\ p < N - 1 => Place(t + 1) = p + 1
        /\ p = N - 1 => Place(t + 1) = 1
    BY <1>1, <1>2, <1>5, TurnFacts
  <2>2. p < N - 1 \/ p = N - 1
    BY <1>1, <1>6
  <2>3. QED
    BY <2>1, <2>2
<1> HIDE DEF swaps, p, q, c
<1>14. /\ sorting'.field = f /\ sorting'.turn = t + 1
       /\ sorting'.current = IF swaps THEN o[p] ELSE o[p + 1]
       /\ sorting' \in [field : 1 .. 3, turn : Nat, current : Songs \cup {Null}]
  <2> DEFINE x == IF swaps THEN o[p] ELSE o[p + 1]
  <2>1. x \in Songs
    BY <1>7, Zenon
  <2>2. sorting' = [sorting EXCEPT !.turn = @ + 1, !.current = x]
    BY <1>10, Zenon
  <2> HIDE DEF x
  <2>3. sorting' = [field |-> f, turn |-> t + 1, current |-> x]
    BY <1>2, <2>2
  <2>4. t + 1 \in Nat
    BY <1>2
  <2> HIDE DEF f, t
  <2>5. /\ sorting'.field = f /\ sorting'.turn = t + 1 /\ sorting'.current = x
        /\ sorting' \in [field : 1 .. 3, turn : Nat, current : Songs \cup {Null}]
    BY <1>2, <2>1, <2>3, <2>4
  <2>6. QED
    BY <2>5, Zenon DEF x
<1>15. sorting'.turn \in 0 .. N * (N - 1)
  <2> DEFINE all == N * (N - 1)
  <2>1. all \in Nat /\ t < all
    BY <1>1, <1>5
  <2> HIDE DEF all
  <2>2. t + 1 \in 0 .. all
    BY <1>2, <2>1
  <2>3. QED
    BY <1>14, <2>2, Zenon DEF all
<1>16. \E r \in Orders : SortInv(r)'
  <2>1. PICK r \in Orders : r = q
    BY <1>11, Zenon
  <2>2. /\ InOrder(list', r) /\ Stable(sorting'.field, r) /\ Sinking(sorting'.field, sorting'.turn, r)
        /\ Place(sorting'.turn) > 1 => sorting'.current = r[Place(sorting'.turn)]
    BY <1>11, <1>12, <1>13, <1>14, <2>1, Zenon
  <2>3. SortInv(r)'
    BY <1>15, <2>2, Zenon DEF SortInv
  <2>4. QED
    BY <2>3, Zenon
<1>17. list' \in Lists
  BY <1>11, Zenon DEF InOrder
<1>18. QED
  BY <1>14, <1>16, <1>17, Zenon

(* Every other step leaves the list and the index alone.                   *)
LEMMA ListLeftAlone ==
    ASSUME [Next]_vars
    PROVE  \/ Index \/ SortTurn \/ NextField \/ PowerCycle \/ UNCHANGED vars
           \/ /\ UNCHANGED <<list, database, sorting>>
              /\ pc \notin {"index", "sort"} /\ pc' \notin {"index", "sort"}
<1> DEFINE Alone == /\ UNCHANGED <<list, database, sorting>>
                    /\ pc \notin {"index", "sort"} /\ pc' \notin {"index", "sort"}
<1>1. Resume \/ OpenFile \/ OpenFails \/ EndOfSong => Alone
  BY DEF Resume, OpenFile, OpenFails, EndOfSong, disk
<1>2. PassOver \/ FrameAccepted \/ LeavePause \/ Exit => Alone
  BY DEF PassOver, FrameAccepted, LeavePause, Exit, AfterFrame, Returned, disk
<1>r. ReadPiece \/ ReadFails \/ SeekFails \/ Retry \/ SeekIgnored \/ DecodeAgain => Alone
  BY DEF ReadPiece, ReadFails, SeekFails, Retry, SeekIgnored, DecodeAgain, WantsPiece, disk
<1>3. \A song, pausing : Proceed(song, pausing) => Alone
  BY DEF Proceed
<1>4. AdvanceForward \/ AdvanceRandom \/ AdvanceBack \/ AdvanceSpecific => Alone
  BY <1>3, Zenon DEF AdvanceForward, AdvanceRandom, AdvanceBack, AdvanceSpecific
<1>5. UpdateGUIMain \/ MoveCard => Alone
  BY DEF UpdateGUIMain, MoveCard, InGUI, disk
<1>6. QED
  BY <1>1, <1>2, <1>r, <1>4, <1>5, Zenon DEF Next, Program

(* Every step keeps the list, the sort and the index as they should be.    *)
LEMMA ListStep ==
    ASSUME Playable, TypeOK, ListInv, [Next]_vars
    PROVE  /\ ListInv' /\ list' \in Lists
           /\ sorting' \in [field : 1 .. 3, turn : Nat, current : Songs \cup {Null}]
           /\ database' \in Seq(Songs)
<1>1. /\ list \in Lists /\ database \in Seq(Songs)
      /\ sorting \in [field : 1 .. 3, turn : Nat, current : Songs \cup {Null}]
  BY DEF TypeOK
<1>2. EmptyList \in Lists /\ NoSort \in [field : 1 .. 3, turn : Nat, current : Songs \cup {Null}]
  BY DEF EmptyList, Lists, NoSort
<1>3. CASE Index
  <2>1. /\ pc = "index" /\ sorting' = sorting /\ database' = database /\ sorting = NoSort
    BY <1>3 DEF Index, disk, ListInv
  <2>2. CASE database # << >> /\ list' = Built(database) /\ pc' = "resume"
    <3>1. database \in Orders /\ SortedBy(3, database)
      BY <2>2, Zenon DEF ListInv
    <3>2. InOrder(list', database)
      BY <2>2, <3>1, BuiltIs, Zenon
    <3>3. ListInv'
      BY <2>1, <2>2, <3>1, <3>2 DEF ListInv
    <3>4. QED
      BY <1>1, <2>1, <3>2, <3>3, Zenon DEF InOrder
  <2>3. CASE database = << >> /\ pc' = "sort" /\ \E directory \in SetToSeqs(Songs) : list' = Built(directory)
    <3>1. PICK o \in Orders : list' = Built(o)
      BY <2>3, Zenon DEF Orders
    <3>2. InOrder(list', o)
      BY <3>1, BuiltIs, Zenon
    <3>3. /\ sorting'.field = 1 /\ sorting'.turn = 0
      BY <2>1 DEF NoSort
    <3>4. Stable(1, o) /\ (N > 2 => Sinking(1, 0, o))
      <4>1. 1 \in 1 .. 3
        OBVIOUS
      <4>2. QED
        BY <4>1, TurnsStart, Zenon
    <3>5. 0 \in 0 .. N * (N - 1) /\ (N > 2 => Place(0) = 1) /\ ~(1 > 1)
      <4>1. N \in Nat \ {0, 2}
        BY OrderFacts, Zenon
      <4>2. N \in Nat /\ N * (N - 1) \in Nat
        BY <4>1
      <4>3. N > 2 => Place(0) = 1
        BY <4>2, TurnFacts
      <4>4. QED
        BY <4>2, <4>3
    <3>6. SortInv(o)'
      BY <3>2, <3>3, <3>4, <3>5, Zenon DEF SortInv
    <3>7. ListInv'
      BY <2>1, <2>3, <3>6 DEF ListInv
    <3>8. QED
      BY <1>1, <2>1, <3>2, <3>7, Zenon DEF InOrder
  <2>4. QED
    BY <1>3, <2>2, <2>3, Zenon DEF Index
<1>4. CASE SortTurn
  <2>1. pc = "sort" /\ pc' = "sort" /\ database' = database
    BY <1>4 DEF SortTurn, disk
  <2>2. PICK o \in Orders : SortInv(o)
    BY <2>1, Zenon DEF ListInv
  <2>3. /\ \E q \in Orders : SortInv(q)'
        /\ list' \in Lists
        /\ sorting' \in [field : 1 .. 3, turn : Nat, current : Songs \cup {Null}]
    BY <1>4, <2>2, SortTurnIs, Zenon
  <2>4. ListInv'
    <3>1. database = << >>
      BY <2>1, Zenon DEF ListInv
    <3>2. pc' # "index" /\ pc' \in {"index", "sort"}
      BY <2>1
    <3>3. QED
      BY <2>1, <2>3, <3>1, <3>2, Zenon DEF ListInv
  <2>5. QED
    BY <1>1, <2>1, <2>3, <2>4, Zenon
<1>5. CASE NextField
  <2>1. pc = "sort" /\ list' = list /\ sorting.turn = Turns(list) /\ database = << >>
    BY <1>5 DEF NextField, ListInv
  <2>2. PICK o \in Orders : SortInv(o)
    BY <2>1, Zenon DEF ListInv
  <2>3. sorting.field \in 1 .. 3 /\ sorting.turn = N * (N - 1)
    <3>1. list.num_files = N
      BY <2>2, Zenon DEF SortInv, InOrder
    <3>2. QED
      BY <1>1, <2>1, <3>1 DEF Turns
  <2>4. InOrder(list, o) /\ SortedBy(sorting.field, o)
    <3>1. /\ InOrder(list, o) /\ Stable(sorting.field, o)
          /\ N > 2 => Sinking(sorting.field, N * (N - 1), o)
      BY <2>2, <2>3, Zenon DEF SortInv
    <3>2. QED
      BY <2>3, <3>1, TurnsDone, Zenon
  <2>5. CASE sorting.field < 3
    <3>1. /\ sorting' = [field |-> sorting.field + 1, turn |-> 0, current |-> Null]
          /\ database' = database /\ pc' = "sort"
      BY <1>5, <2>1, <2>5 DEF NextField, SortFields
    <3>2. sorting.field + 1 \in 1 .. 3 /\ (sorting.field + 1) - 1 = sorting.field
      BY <2>3, <2>5
    <3>3. /\ sorting'.field = sorting.field + 1 /\ sorting'.turn = 0
          /\ sorting' \in [field : 1 .. 3, turn : Nat, current : Songs \cup {Null}]
      BY <3>1, <3>2
    <3>4. Stable(sorting.field + 1, o) /\ (N > 2 => Sinking(sorting.field + 1, 0, o))
      BY <2>4, <3>2, TurnsStart, Zenon
    <3>5. 0 \in 0 .. N * (N - 1) /\ (N > 2 => Place(0) = 1) /\ ~(1 > 1)
      <4>1. N \in Nat \ {0, 2}
        BY OrderFacts, Zenon
      <4>2. N \in Nat /\ N * (N - 1) \in Nat
        BY <4>1
      <4>3. N > 2 => Place(0) = 1
        BY <4>2, TurnFacts
      <4>4. QED
        BY <4>2, <4>3
    <3>6. SortInv(o)'
      BY <2>1, <2>4, <3>3, <3>4, <3>5, Zenon DEF SortInv
    <3>7. ListInv'
      BY <2>1, <3>1, <3>6 DEF ListInv
    <3>8. QED
      BY <1>1, <2>1, <3>1, <3>3, <3>7, Zenon
  <2>6. CASE ~(sorting.field < 3)
    <3>1. sorting' = NoSort /\ database' = Order(list) /\ pc' = "resume" /\ sorting.field = 3
      BY <1>5, <2>1, <2>3, <2>6 DEF NextField, SortFields
    <3>2. Order(list) = o
      BY <2>4, OrderIs, Zenon
    <3>3. o # << >> /\ o \in Seq(Songs)
      BY OrderFacts, Zenon
    <3>4. ListInv'
      <4>1. InOrder(list', database') /\ database' # << >> /\ database' \in Orders /\ SortedBy(3, database')
        BY <2>1, <2>4, <3>1, <3>2, <3>3, Zenon
      <4>2. pc' # "index" /\ pc' # "sort"
        BY <3>1
      <4>3. QED
        BY <4>1, <4>2, Zenon DEF ListInv
    <3>5. QED
      BY <1>1, <1>2, <2>1, <3>1, <3>2, <3>3, <3>4, Zenon
  <2>7. QED
    BY <2>5, <2>6
<1>6. CASE PowerCycle
  <2>1. pc' = "index" /\ list' = EmptyList /\ sorting' = NoSort /\ database' = database
    BY <1>6 DEF PowerCycle, disk
  <2>2. ListInv'
    BY <2>1 DEF ListInv
  <2>3. QED
    BY <1>1, <1>2, <2>1, <2>2, Zenon
<1>7. CASE UNCHANGED vars
  <2>1. UNCHANGED <<list, database, sorting, pc>>
    BY <1>7 DEF vars, disk
  <2>2. ListInv'
    BY <2>1 DEF ListInv, SortInv
  <2>3. QED
    BY <1>1, <2>1, <2>2, Zenon
<1>8. CASE /\ UNCHANGED <<list, database, sorting>>
           /\ pc \notin {"index", "sort"} /\ pc' \notin {"index", "sort"}
  <2>1. ListInv'
    BY <1>8 DEF ListInv
  <2>2. QED
    BY <1>1, <1>8, <2>1, Zenon
<1>9. QED
  BY <1>3, <1>4, <1>5, <1>6, <1>7, <1>8, ListLeftAlone, Zenon

-----------------------------------------------------------------------------
(* The player. *)

\* The types of all but the list, the sort and the index.
PlayTypes ==
    /\ saved \in [song : Songs \cup {None}, sequence : {"FORWARD", "RANDOM"}, repeat : BOOLEAN]
    /\ card \in {"ready", "out", "back"}
    /\ rest \in BOOLEAN /\ repeat_playlist \in BOOLEAN /\ unsaved \in BOOLEAN
    /\ now_playing \in Songs \cup {Null} /\ file_handle \in Songs \cup {None}
    /\ command_target \in Songs \cup {None}
    /\ heard \in Songs \cup {None} /\ expected \in Songs \cup {None}
    /\ pc \in {"index", "sort", "resume", "open", "wait", "input", "retry", "error", "write",
               "pause", "advance", "exit", "undefined"}
    /\ command \in Commands /\ sequence_mode \in {"FORWARD", "RANDOM"} /\ flow \in {"CONTINUE", "STOP"}
    /\ file_position \in 0 .. Length /\ bad_files \in 0 .. 3
    /\ played \in 0 .. Threshold /\ events \in 0 .. MaxEvents

\* A song is on the display, its file open or about to be; a skip waits with the flow
\* stopped; and only a song without sound comes to its end under a pause.
PlayInv ==
    /\ pc # "index" => now_playing \in Songs
    /\ pc \in {"index", "sort", "resume", "open", "wait"} => file_handle = None
    /\ pc \in {"input", "retry", "error", "write", "pause", "advance"} => file_handle = now_playing
    /\ PlaysNowPlaying
    /\ pc \in {"open", "wait"} => bad_files <= 2
    /\ pc \notin {"open", "wait", "undefined"} => bad_files = 0
    /\ command \notin {"PLAY", "PAUSE"} => flow = "STOP" /\ pc \in {"write", "pause", "advance"}
    /\ command = "SKIP_SPECIFIC" => command_target \in Songs
    /\ pc \in {"input", "retry", "error"} /\ command = "PAUSE" /\ now_playing \notin Silent => file_position = 0
    /\ pc = "advance" /\ command = "PAUSE" => now_playing \in Silent
    /\ EndsOnSilenceOnly

(* A list in an order has every song, and leads from songs to songs.       *)
LEMMA ListGives ==
    ASSUME Playable, NEW o \in Orders, NEW l, InOrder(l, o)
    PROVE  /\ l.list_start \in Songs /\ ToSet(Order(l)) = Songs
           /\ \A s \in Songs : l.next[s] \in Songs /\ l.prev[s] \in Songs
<1>1. /\ N \in Nat \ {0, 2} /\ o \in [1 .. N -> Songs]
      /\ \A s \in Songs : \E i \in 1 .. N : o[i] = s
      /\ {o[i] : i \in 1 .. N} = Songs
  BY OrderFacts, Zenon
<1>2. \A i \in 1 .. N : Follower(i) \in 1 .. N /\ \E j \in 1 .. N : Follower(j) = i
  <2>1. ASSUME NEW i \in 1 .. N PROVE Follower(i) \in 1 .. N /\ \E j \in 1 .. N : Follower(j) = i
    <3>1. CASE i = 1
      BY <1>1, <3>1 DEF Follower
    <3>2. CASE i # 1
      <4>1. i - 1 \in 1 .. N /\ Follower(i - 1) = i
        BY <1>1, <3>2 DEF Follower
      <4>2. QED
        BY <1>1, <4>1 DEF Follower
    <3>3. QED
      BY <3>1, <3>2
  <2>2. QED
    BY <2>1
<1>3. /\ l.list_start = o[1]
      /\ \A i \in 1 .. N : l.next[o[i]] = o[Follower(i)] /\ l.prev[o[Follower(i)]] = o[i]
  BY Zenon DEF InOrder
<1>4. ASSUME NEW s \in Songs PROVE l.next[s] \in Songs /\ l.prev[s] \in Songs
  <2>1. PICK i \in 1 .. N : o[i] = s
    BY <1>1, Zenon
  <2>2. PICK j \in 1 .. N : Follower(j) = i
    BY <1>2, Zenon
  <2>3. l.next[s] = o[Follower(i)] /\ l.prev[s] = o[j]
    BY <1>3, <2>1, <2>2, Zenon
  <2>4. o[Follower(i)] \in Songs /\ o[j] \in Songs
    BY <1>1, <1>2, Zenon
  <2>5. QED
    BY <2>3, <2>4, Zenon
<1>5. Order(l) = o /\ DOMAIN o = 1 .. N
  BY <1>1, OrderIs, Zenon
<1>6. ToSet(Order(l)) = Songs
  BY <1>1, <1>5, Zenon DEF ToSet
<1>7. 1 \in 1 .. N
  BY <1>1
<1>8. QED
  BY <1>1, <1>3, <1>4, <1>6, <1>7, Zenon

\* What the player relies on of the list.
ListServes ==
    /\ list.list_start \in Songs /\ ToSet(Order(list)) = Songs
    /\ \A s \in Songs : list.next[s] \in Songs /\ list.prev[s] \in Songs

(* Behind the index, the list serves.                                      *)
LEMMA ListIsThere == ASSUME Playable, ListInv, pc # "index" PROVE ListServes
<1>1. \E o \in Orders : InOrder(list, o)
  BY Zenon DEF ListInv, SortInv
<1>2. QED
  BY <1>1, ListGives, Zenon DEF ListServes

(* Moving on to a song.                                                    *)
LEMMA ProceedIs ==
    ASSUME PlayTypes, PlayInv, NEW song \in Songs, NEW pausing \in BOOLEAN, Proceed(song, pausing)
    PROVE  PlayTypes' /\ PlayInv'
<1> USE LengthAssumption, NoneAssumption
<1>1. pc = "advance" /\ pc' = "open" /\ now_playing' = song /\ file_handle' = None /\ bad_files' = bad_files
  BY DEF Proceed
<1>2. StateToSave(song) \in [song : Songs \cup {None}, sequence : {"FORWARD", "RANDOM"}, repeat : BOOLEAN]
  BY DEF PlayTypes, StateToSave
<1>3. saved' \in [song : Songs \cup {None}, sequence : {"FORWARD", "RANDOM"}, repeat : BOOLEAN]
  BY <1>2 DEF PlayTypes, Proceed
<1>4. /\ command' \in {"PLAY", "PAUSE"} /\ played' = 0 /\ flow' = "CONTINUE" /\ heard' = None
      /\ rest' \in BOOLEAN /\ UNCHANGED <<card, file_position, command_target, modes, events, expected>>
  BY DEF Proceed
<1>5. unsaved' \in BOOLEAN
  BY Zenon DEF Proceed
<1>6. PlayTypes'
  BY <1>1, <1>3, <1>4, <1>5 DEF PlayTypes, Commands, modes
<1>7. PlayInv'
  BY <1>1, <1>4 DEF PlayInv, PlaysNowPlaying, EndsOnSilenceOnly
<1>8. QED
  BY <1>6, <1>7

(* Every step keeps the player's state in order.                           *)
LEMMA PlayStep ==
    ASSUME Playable, PlayTypes, PlayInv, ListInv, ListInv', [Next]_vars
    PROVE  PlayTypes' /\ PlayInv'
<1> USE LengthAssumption, NoneAssumption, KindsAssumption
<1> USE DEF PlaysNowPlaying, EndsOnSilenceOnly, Commands, disk, modes, playing, orders, position, history
<1>1. pc # "index" => ListServes
  BY ListIsThere, Zenon
<1>2. ASSUME Index PROVE PlayTypes' /\ PlayInv'
  <2>1. pc = "index" /\ pc' # "index" /\ pc' \in {"sort", "resume"} /\ now_playing' = list'.list_start
    BY <1>2 DEF Index
  <2>2. UNCHANGED <<disk, card, sorting, playing, orders, modes, events, history>>
    BY <1>2, Zenon DEF Index
  <2>3. list'.list_start \in Songs
    <3>1. \E o \in Orders : InOrder(list', o)
      BY <2>1 DEF ListInv, SortInv
    <3>2. QED
      BY <3>1, ListGives, Zenon
  <2>4. PlayTypes'
    BY <2>1, <2>2, <2>3 DEF PlayTypes
  <2>5. PlayInv'
    BY <2>1, <2>2, <2>3 DEF PlayInv
  <2>6. QED
    BY <2>4, <2>5
<1>3. ASSUME SortTurn PROVE PlayTypes' /\ PlayInv'
  BY <1>3 DEF SortTurn, PlayTypes, PlayInv
<1>4. ASSUME NextField PROVE PlayTypes' /\ PlayInv'
  <2>1. /\ pc = "sort" /\ pc' \in {"sort", "resume"} /\ (now_playing' = now_playing \/ now_playing' = list.list_start)
        /\ UNCHANGED <<saved, card, playing, orders, modes, events, history>>
    BY <1>4 DEF NextField
  <2>2. now_playing' \in Songs
    BY <1>1, <2>1 DEF ListServes, PlayInv
  <2>3. PlayTypes'
    BY <2>1, <2>2 DEF PlayTypes
  <2>4. PlayInv'
    BY <2>1, <2>2 DEF PlayInv
  <2>5. QED
    BY <2>3, <2>4
<1>5. ASSUME Resume PROVE PlayTypes' /\ PlayInv'
  <2>1. Remembered \in Songs
    BY <1>1, <1>5 DEF Remembered, ListServes, Resume
  <2>2. saved.sequence \in {"FORWARD", "RANDOM"} /\ saved.repeat \in BOOLEAN
    BY DEF PlayTypes
  <2>3. PlayTypes'
    BY <1>5, <2>1, <2>2 DEF PlayTypes, Resume
  <2>4. PlayInv'
    BY <1>5, <2>1 DEF PlayInv, Resume
  <2>5. QED
    BY <2>3, <2>4
<1>6. ASSUME OpenFile PROVE PlayTypes' /\ PlayInv'
  <2>1. PlayTypes'
    BY <1>6 DEF OpenFile, PlayTypes, PlayInv
  <2>2. PlayInv'
    BY <1>6 DEF OpenFile, PlayInv
  <2>3. QED
    BY <2>1, <2>2
<1>7. ASSUME OpenFails PROVE PlayTypes' /\ PlayInv'
  <2>1. unsaved' \in BOOLEAN /\ expected' \in Songs \cup {None}
    BY <1>7 DEF OpenFails, PlayTypes
  <2>2. PlayTypes'
    BY <1>7, <2>1 DEF OpenFails, PlayTypes
  <2>3. PlayInv'
    BY <1>7 DEF OpenFails, PlayInv
  <2>4. QED
    BY <2>2, <2>3
<1>8. ASSUME PassOver PROVE PlayTypes' /\ PlayInv'
  <2>1. now_playing' \in Songs /\ bad_files' = bad_files + 1 /\ bad_files <= 2 /\ card' = "ready"
    BY <1>1, <1>8 DEF PassOver, PlayInv, ListServes
  <2>2. PlayTypes'
    BY <1>8, <2>1 DEF PassOver, PlayTypes
  <2>3. PlayInv'
    BY <1>8, <2>1 DEF PassOver, PlayInv, PlayTypes
  <2>4. QED
    BY <2>2, <2>3
<1>9. ASSUME ReadPiece PROVE PlayTypes' /\ PlayInv'
  <2>1. PlayTypes'
    BY <1>9 DEF ReadPiece, WantsPiece, PlayTypes
  <2>2. PlayInv'
    BY <1>9 DEF ReadPiece, WantsPiece, PlayInv
  <2>3. QED
    BY <2>1, <2>2
<1>r. ASSUME ReadFails \/ SeekFails \/ Retry \/ SeekIgnored \/ DecodeAgain PROVE PlayTypes' /\ PlayInv'
  <2>1. /\ \/ pc = "input" /\ pc' \in {"undefined", "retry", "error"}
           \/ pc \in {"retry", "error"} /\ pc' = "input"
        /\ card' \in {"ready", card}
        /\ UNCHANGED <<disk, now_playing, playing, orders, modes, events, history>>
    BY <1>r DEF ReadFails, SeekFails, Retry, SeekIgnored, DecodeAgain, WantsPiece
  <2>2. PlayTypes'
    BY <2>1 DEF PlayTypes
  <2>3. PlayInv'
    BY <2>1 DEF PlayInv
  <2>4. QED
    BY <2>2, <2>3
<1>10. ASSUME EndOfSong PROVE PlayTypes' /\ PlayInv'
  <2>1. PlayTypes'
    BY <1>10 DEF EndOfSong, PlayTypes
  <2>2. PlayInv'
    BY <1>10 DEF EndOfSong, PlayInv
  <2>3. QED
    BY <2>1, <2>2
<1>11. ASSUME FrameAccepted PROVE PlayTypes' /\ PlayInv'
  <2>1. played' \in 0 .. Threshold
    BY <1>11 DEF FrameAccepted, Capped, PlayTypes
  <2>2. PlayTypes'
    BY <1>11, <2>1 DEF FrameAccepted, AfterFrame, Returned, PlayTypes
  <2>3. PlayInv'
    BY <1>11 DEF FrameAccepted, AfterFrame, Returned, PlayInv
  <2>4. QED
    BY <2>2, <2>3
<1>12. ASSUME LeavePause PROVE PlayTypes' /\ PlayInv'
  <2>1. PlayTypes'
    BY <1>12 DEF LeavePause, Returned, PlayTypes
  <2>2. PlayInv'
    BY <1>12 DEF LeavePause, Returned, PlayInv
  <2>3. QED
    BY <2>1, <2>2
<1>13. ASSUME AdvanceForward \/ AdvanceRandom \/ AdvanceBack \/ AdvanceSpecific
       PROVE  PlayTypes' /\ PlayInv'
  <2>1. \A song \in Songs, pausing \in BOOLEAN : Proceed(song, pausing) => PlayTypes' /\ PlayInv'
    BY ProceedIs, Zenon
  <2>2. pc = "advance" /\ ListServes /\ now_playing \in Songs
    <3>1. pc = "advance"
      BY <1>13, Zenon DEF AdvanceForward, AdvanceRandom, AdvanceBack, AdvanceSpecific, Proceed
    <3>2. QED
      BY <1>1, <3>1 DEF PlayInv
  <2>3. CASE AdvanceForward
    <3>1. AtEnd(list.next[now_playing]) \in BOOLEAN
      BY DEF AtEnd, PlayTypes
    <3>2. QED
      BY <2>1, <2>2, <2>3, <3>1, Zenon DEF AdvanceForward, ListServes
  <2>4. CASE AdvanceRandom
    BY <2>1, <2>2, <2>4 DEF AdvanceRandom, ListServes
  <2>5. CASE AdvanceBack
    BY <2>1, <2>2, <2>5 DEF AdvanceBack, ListServes
  <2>6. CASE AdvanceSpecific
    <3>1. command_target \in Songs
      BY <2>6 DEF AdvanceSpecific, Wanting, PlayInv
    <3>2. QED
      BY <2>1, <2>6, <3>1 DEF AdvanceSpecific
  <2>7. QED
    BY <1>13, <2>3, <2>4, <2>5, <2>6
<1>14. ASSUME Exit PROVE PlayTypes' /\ PlayInv'
  <2>1. PlayTypes'
    BY <1>14 DEF Exit, PlayTypes
  <2>2. PlayInv'
    BY <1>14 DEF Exit, PlayInv
  <2>3. QED
    BY <2>1, <2>2
<1>15. ASSUME UpdateGUIMain PROVE PlayTypes' /\ PlayInv'
  <2>1. /\ pc \in {"write", "pause"} /\ events' \in 0 .. MaxEvents
        /\ UNCHANGED <<saved, card, now_playing, pc, file_handle, bad_files, rest, heard, unsaved, expected>>
    BY <1>15 DEF UpdateGUIMain, InGUI, Event, PlayTypes
  <2>2. /\ command' \in Commands /\ command_target' \in Songs \cup {None}
        /\ file_position' \in 0 .. Length /\ played' \in 0 .. Threshold /\ flow' \in {"CONTINUE", "STOP"}
        /\ sequence_mode' \in {"FORWARD", "RANDOM"} /\ repeat_playlist' \in BOOLEAN
        /\ command' \notin {"PLAY", "PAUSE"} => flow' = "STOP"
        /\ command' = "SKIP_SPECIFIC" => command_target' \in Songs
    <3> DEFINE Goal == /\ command' \in Commands /\ command_target' \in Songs \cup {None}
                       /\ file_position' \in 0 .. Length /\ played' \in 0 .. Threshold
                       /\ flow' \in {"CONTINUE", "STOP"}
                       /\ sequence_mode' \in {"FORWARD", "RANDOM"} /\ repeat_playlist' \in BOOLEAN
                       /\ command' \notin {"PLAY", "PAUSE"} => flow' = "STOP"
                       /\ command' = "SKIP_SPECIFIC" => command_target' \in Songs
    <3>1. PressSkip => Goal
      BY DEF PressSkip, PlayTypes
    <3>2. PressPlay \/ PressPause => Goal
      BY DEF PressPlay, PressPause, PlayTypes, PlayInv
    <3>3. PressSong => Goal
      BY <1>1, <2>1 DEF PressSong, PlayTypes, ListServes
    <3>4. PressTime => Goal
      BY DEF PressTime, PlayTypes, PlayInv
    <3>5. PressMode => Goal
      BY DEF PressMode, PlayTypes, PlayInv
    <3>6. QED
      BY <1>15, <3>1, <3>2, <3>3, <3>4, <3>5, Zenon DEF UpdateGUIMain
  <2>3. PlayTypes'
    BY <2>1, <2>2 DEF PlayTypes
  <2>4. PlayInv'
    BY <2>1, <2>2 DEF PlayInv
  <2>5. QED
    BY <2>3, <2>4
<1>16. ASSUME MoveCard PROVE PlayTypes' /\ PlayInv'
  <2>1. card' \in {"out", "back"} /\ events' \in 0 .. MaxEvents
    BY <1>16 DEF MoveCard, Event, PlayTypes
  <2>2. PlayTypes'
    BY <1>16, <2>1 DEF MoveCard, PlayTypes
  <2>3. PlayInv'
    BY <1>16 DEF MoveCard, PlayInv
  <2>4. QED
    BY <2>2, <2>3
<1>17. ASSUME PowerCycle PROVE PlayTypes' /\ PlayInv'
  <2>1. /\ card' = "ready" /\ rest' \in BOOLEAN /\ repeat_playlist' \in BOOLEAN /\ unsaved' \in BOOLEAN
        /\ expected' \in Songs \cup {None} /\ heard' = None
    BY <1>17 DEF PowerCycle, PlayTypes
  <2>2. events' \in 0 .. MaxEvents /\ saved' = saved
    BY <1>17 DEF PowerCycle, Event, PlayTypes
  <2>3. PlayTypes'
    BY <1>17, <2>1, <2>2 DEF PowerCycle, PlayTypes
  <2>4. PlayInv'
    BY <1>17 DEF PowerCycle, PlayInv
  <2>5. QED
    BY <2>3, <2>4
<1>18. ASSUME UNCHANGED vars PROVE PlayTypes' /\ PlayInv'
  <2>1. PlayTypes'
    BY <1>18 DEF vars, PlayTypes
  <2>2. PlayInv'
    BY <1>18 DEF vars, PlayInv
  <2>3. QED
    BY <2>1, <2>2
<1>19. QED
  BY <1>2, <1>3, <1>4, <1>5, <1>6, <1>7, <1>8, <1>9, <1>r, <1>10, <1>11, <1>12, <1>13, <1>14, <1>15, <1>16,
     <1>17, <1>18, Zenon DEF Next, Program

-----------------------------------------------------------------------------
(* Resuming. *)

\* The song the card remembers, the one or two behind it, and the first of them that
\* opens: the one the player comes to when it is switched on.
Remember == IF saved.song # None THEN saved.song ELSE database[1]
After(s) == database[Follower(PlaceOf(database, s))]
Nth(d) == CASE d = 0 -> Remember [] d = 1 -> After(Remember) [] OTHER -> After(After(Remember))
Passed(d) == \A k \in 0 .. 2 : k < d => Nth(k) \in Bad
FirstToOpen(s) == \E d \in 0 .. 2 : s = Nth(d) /\ s \notin Bad /\ Passed(d)

\* Unless the card has missed a song, the player is on its way to the first that opens
\* or has it on, and the song expected is that one.
ResumeInv ==
    /\ pc \in {"index", "sort", "resume"} => ~unsaved
    /\ pc \in {"index", "sort", "resume", "open", "wait"} => heard = None
    /\ pc \notin {"index", "sort", "resume", "open", "wait"} => expected = None
    /\ expected # None => ~unsaved /\ database # << >> /\ FirstToOpen(expected)
    /\ heard # None => database # << >> /\ (~unsaved => FirstToOpen(heard))
    /\ pc \in {"open", "wait"} /\ ~unsaved =>
         /\ now_playing = Nth(bad_files) /\ Passed(bad_files)
         /\ pc = "wait" => now_playing \in Bad

(* What the card says does not change while its files do not.              *)
LEMMA CardKept ==
    ASSUME UNCHANGED <<database, saved>>
    PROVE  /\ \A d : Nth(d)' = Nth(d) /\ (Passed(d)' <=> Passed(d))
           /\ \A s : FirstToOpen(s)' <=> FirstToOpen(s)
<1>1. Remember' = Remember /\ \A s : After(s)' = After(s)
  BY DEF Remember, After
<1>2. \A d : Nth(d)' = Nth(d)
  BY <1>1, Zenon DEF Nth
<1>3. \A d : Passed(d)' <=> Passed(d)
  BY <1>2, Zenon DEF Passed
<1>4. QED
  BY <1>2, <1>3, Zenon DEF FirstToOpen

(* The list leads from each of them to the next.                           *)
LEMMA NthNext ==
    ASSUME Playable, PlayTypes, database \in Orders, InOrder(list, database)
    PROVE  /\ Nth(0) = Remember /\ Remembered = Remember
           /\ \A d \in 0 .. 1 : list.next[Nth(d)] = Nth(d + 1)
<1>1. /\ N \in Nat \ {0, 2} /\ database \in [1 .. N -> Songs]
      /\ \A s \in Songs : PlaceOf(database, s) \in 1 .. N /\ database[PlaceOf(database, s)] = s
  BY OrderFacts, PlaceIs, Zenon
<1>2. /\ list.list_start = database[1]
      /\ \A i \in 1 .. N : list.next[database[i]] = database[Follower(i)]
  BY Zenon DEF InOrder
<1>3. /\ ToSet(Order(list)) = Songs
      /\ \A s \in Songs : list.next[s] \in Songs
  BY ListGives, Zenon
<1>4. \A s \in Songs : After(s) = list.next[s] /\ After(s) \in Songs
  BY <1>1, <1>2, <1>3, Zenon DEF After
<1>5. Remember \in Songs /\ Remembered = Remember
  <2>1. saved.song \in Songs \cup {None}
    BY DEF PlayTypes
  <2>2. database[1] \in Songs
    BY <1>1
  <2>3. QED
    BY <1>2, <1>3, <2>1, <2>2, NoneAssumption DEF Remember, Remembered
<1>6. Nth(0) = Remember /\ Nth(1) = After(Remember) /\ Nth(2) = After(After(Remember))
  BY DEF Nth
<1>7. list.next[Nth(0)] = Nth(1) /\ list.next[Nth(1)] = Nth(2)
  BY <1>4, <1>5, <1>6
<1>8. \A d \in 0 .. 1 : (d = 0 /\ d + 1 = 1) \/ (d = 1 /\ d + 1 = 2)
  OBVIOUS
<1>9. QED
  BY <1>5, <1>6, <1>7, <1>8

(* Moving on to a song.                                                    *)
LEMMA ProceedResumes ==
    ASSUME PlayTypes, PlayInv, ResumeInv, NEW song \in Songs, NEW pausing, Proceed(song, pausing)
    PROVE  ResumeInv'
<1>1. /\ pc = "advance" /\ pc' = "open" /\ now_playing' = song /\ bad_files' = bad_files /\ bad_files = 0
      /\ heard' = None /\ expected' = expected /\ expected = None
  BY DEF Proceed, PlayInv, ResumeInv
<1>2. /\ saved' = IF card = "ready" THEN StateToSave(song) ELSE saved
      /\ unsaved' = (card # "ready")
  BY Zenon DEF Proceed
<1>3. ~unsaved' => now_playing' = Nth(bad_files)'
  <2>1. SUFFICES ASSUME ~unsaved' PROVE now_playing' = Nth(bad_files)'
    OBVIOUS
  <2>2. saved' = StateToSave(song)
    BY <1>2, <2>1, Zenon
  <2>3. saved'.song = song
    BY <2>2 DEF StateToSave
  <2>4. song # None
    BY NoneAssumption
  <2>5. Remember' = song
    BY <2>3, <2>4 DEF Remember
  <2>6. Nth(bad_files)' = Remember'
    BY <1>1 DEF Nth
  <2>7. QED
    BY <1>1, <2>5, <2>6
<1>4. Passed(bad_files)'
  BY <1>1 DEF Passed
<1>5. QED
  BY <1>1, <1>3, <1>4 DEF ResumeInv

(* Every step keeps what is to be resumed.                                 *)
LEMMA ResumeStep ==
    ASSUME Playable, PlayTypes, PlayInv, ListInv, ResumeInv, [Next]_vars
    PROVE  ResumeInv'
<1> USE DEF disk, modes, playing, orders, position, history
<1> DEFINE Kept == /\ \A d : Nth(d)' = Nth(d) /\ (Passed(d)' <=> Passed(d))
                   /\ \A s : FirstToOpen(s)' <=> FirstToOpen(s)
<1>1. UNCHANGED <<database, saved>> => Kept
  BY CardKept, Zenon
<1>2. pc \notin {"index", "sort"} =>
        /\ database # << >> /\ Nth(0) = Remember /\ Remembered = Remember
        /\ \A d \in 0 .. 1 : list.next[Nth(d)] = Nth(d + 1)
  BY NthNext, Zenon DEF ListInv
<1>3. ASSUME Index PROVE ResumeInv'
  <2>1. /\ pc = "index" /\ UNCHANGED <<disk, history>>
        /\ pc' \in {"sort", "resume"} /\ (pc' = "sort" => database = << >>)
    BY <1>3 DEF Index
  <2>2. Kept
    BY <1>1, <2>1
  <2> HIDE DEF Kept
  <2>3. QED
    BY <2>1, <2>2 DEF ResumeInv, Kept
<1>4. ASSUME SortTurn PROVE ResumeInv'
  <2>1. pc = "sort" /\ pc' = pc /\ UNCHANGED <<disk, history>>
    BY <1>4 DEF SortTurn
  <2>2. Kept
    BY <1>1, <2>1
  <2>3. QED
    BY <2>1, <2>2 DEF ResumeInv
<1>5. ASSUME NextField PROVE ResumeInv'
  <2>1. pc = "sort" /\ pc' \in {"sort", "resume"} /\ UNCHANGED history /\ database = << >>
    BY <1>5 DEF NextField, ListInv
  <2>2. heard = None /\ expected = None /\ ~unsaved
    BY <2>1 DEF ResumeInv
  <2>3. QED
    BY <2>1, <2>2 DEF ResumeInv
<1>6. ASSUME Resume PROVE ResumeInv'
  <2>1. /\ pc = "resume" /\ pc' = "open" /\ UNCHANGED <<disk, history, bad_files>> /\ now_playing' = Remembered
        /\ bad_files = 0
    BY <1>6 DEF Resume, PlayInv
  <2>2. Kept
    BY <1>1, <2>1
  <2>3. now_playing' = Nth(bad_files)' /\ Passed(bad_files)'
    <3>1. now_playing' = Nth(0)
      BY <1>2, <2>1
    <3>2. Passed(0)
      BY DEF Passed
    <3>3. QED
      BY <2>1, <2>2, <3>1, <3>2
  <2>4. QED
    BY <2>1, <2>2, <2>3 DEF ResumeInv
<1>7. ASSUME OpenFile PROVE ResumeInv'
  <2>1. /\ pc = "open" /\ pc' = "input" /\ now_playing \notin Bad /\ UNCHANGED <<disk, unsaved, now_playing>>
        /\ heard' = now_playing /\ expected' = None
    BY <1>7 DEF OpenFile
  <2>2. Kept
    BY <1>1, <2>1
  <2>3. bad_files \in 0 .. 2
    BY <2>1 DEF PlayInv, PlayTypes
  <2>4. ~unsaved => FirstToOpen(now_playing)
    BY <2>1, <2>3 DEF ResumeInv, FirstToOpen
  <2>5. database # << >>
    BY <1>2, <2>1
  <2>6. ~unsaved' => FirstToOpen(heard)'
    BY <2>1, <2>2, <2>4
  <2>7. QED
    BY <2>1, <2>5, <2>6 DEF ResumeInv
<1>8. ASSUME OpenFails PROVE ResumeInv'
  <2>1. /\ pc = "open" /\ pc' = "wait" /\ UNCHANGED <<disk, now_playing, bad_files, heard>>
        /\ card = "ready" => now_playing \in Bad
    BY <1>8 DEF OpenFails
  <2>2. Kept
    BY <1>1, <2>1
  <2>3. CASE card = "ready"
    <3>1. expected' = expected /\ (unsaved' <=> unsaved)
      BY <1>8, <2>3, Zenon DEF OpenFails
    <3>2. QED
      BY <2>1, <2>2, <2>3, <3>1 DEF ResumeInv
  <2>4. CASE card # "ready"
    <3>1. expected' = None /\ unsaved'
      BY <1>8, <2>4, Zenon DEF OpenFails
    <3>2. QED
      BY <2>1, <2>2, <3>1 DEF ResumeInv
  <2>5. QED
    BY <2>3, <2>4
<1>9. ASSUME PassOver PROVE ResumeInv'
  <2>1. /\ pc = "wait" /\ bad_files' = bad_files + 1 /\ now_playing' = list.next[now_playing]
        /\ pc' = IF bad_files' > 2 THEN "undefined" ELSE "open"
        /\ UNCHANGED <<disk, history>>
    BY <1>9 DEF PassOver
  <2>2. Kept
    BY <1>1, <2>1
  <2>3. bad_files \in 0 .. 2
    BY <2>1 DEF PlayInv, PlayTypes
  <2>4. heard = None /\ (expected # None => ~unsaved /\ database # << >> /\ FirstToOpen(expected))
    BY <2>1 DEF ResumeInv
  <2>5. \A k \in 0 .. 2 : ~unsaved /\ bad_files = k =>
          now_playing = Nth(k) /\ Passed(k) /\ Nth(k) \in Bad
    BY <2>1, Zenon DEF ResumeInv
  <2>6. CASE bad_files = 2
    <3>1. 2 \in 0 .. 2 /\ pc' = "undefined"
      BY <2>1, <2>6
    <3>2. ~unsaved => \A k \in 0 .. 2 : Nth(k) \in Bad
      <4>1. ~unsaved => Passed(2) /\ Nth(2) \in Bad
        BY <2>5, <2>6, <3>1, Zenon
      <4>2. \A k \in 0 .. 2 : k < 2 \/ k = 2
        OBVIOUS
      <4>3. QED
        BY <4>1, <4>2, Zenon DEF Passed
    <3>3. expected = None
      BY <2>4, <3>2, Zenon DEF FirstToOpen
    <3>4. QED
      BY <2>1, <2>2, <2>4, <3>1, <3>3 DEF ResumeInv
  <2>7. CASE bad_files # 2
    <3>1. bad_files \in 0 .. 1 /\ bad_files \in 0 .. 2 /\ pc' = "open" /\ bad_files' = bad_files + 1
      BY <2>1, <2>3, <2>7
    <3>2. PICK b \in 0 .. 1 : b = bad_files
      BY <3>1
    <3>3. b \in 0 .. 2 /\ b + 1 \in 0 .. 2 /\ \A k \in 0 .. 2 : k < b + 1 => k < b \/ k = b
      OBVIOUS
    <3>4. ~unsaved => now_playing = Nth(b) /\ Passed(b) /\ Nth(b) \in Bad
      BY <2>5, <3>2, <3>3, Zenon
    <3>5. ~unsaved => Passed(b + 1)
      BY <3>3, <3>4, Zenon DEF Passed
    <3>6. ~unsaved => now_playing' = Nth(b + 1)
      <4>1. list.next[Nth(b)] = Nth(b + 1)
        BY <1>2, <2>1, <3>2
      <4>2. QED
        BY <2>1, <3>4, <4>1
    <3>7. \A d : Nth(d)' = Nth(d) /\ (Passed(d)' <=> Passed(d))
      BY <2>2
    <3>8. Nth(bad_files)' = Nth(bad_files') /\ (Passed(bad_files)' <=> Passed(bad_files'))
      <4>1. PICK c : c = bad_files'
        OBVIOUS
      <4>2. Nth(c)' = Nth(c) /\ (Passed(c)' <=> Passed(c))
        BY <3>7
      <4>3. QED
        BY <4>1, <4>2 DEF Nth, Passed
    <3>9. bad_files' = b + 1 /\ (unsaved' <=> unsaved) /\ expected' = expected /\ heard' = heard
          /\ database' = database
      BY <2>1, <3>1, <3>2
    <3>10. FirstToOpen(expected)' <=> FirstToOpen(expected)
      BY <2>2, <3>9 DEF FirstToOpen
    <3>11. ~unsaved' => now_playing' = Nth(bad_files)' /\ Passed(bad_files)'
      BY <3>5, <3>6, <3>8, <3>9, Zenon
    <3>12. QED
      BY <2>4, <3>1, <3>9, <3>10, <3>11 DEF ResumeInv
  <2>8. QED
    BY <2>6, <2>7
<1>10. ASSUME \/ ReadPiece \/ ReadFails \/ SeekFails \/ Retry \/ SeekIgnored \/ DecodeAgain
              \/ EndOfSong \/ FrameAccepted \/ LeavePause \/ Exit \/ UpdateGUIMain
       PROVE  ResumeInv'
  <2>1. /\ UNCHANGED <<disk, history>>
        /\ pc \notin {"index", "sort", "resume", "open", "wait"} /\ pc' \notin {"index", "sort", "resume", "open", "wait"}
    BY <1>10 DEF ReadPiece, ReadFails, SeekFails, Retry, SeekIgnored, DecodeAgain, WantsPiece, EndOfSong,
                FrameAccepted, AfterFrame, Returned, LeavePause, Exit, UpdateGUIMain, InGUI
  <2>2. Kept
    BY <1>1, <2>1
  <2>3. QED
    BY <2>1, <2>2 DEF ResumeInv
<1>11. ASSUME AdvanceForward \/ AdvanceRandom \/ AdvanceBack \/ AdvanceSpecific PROVE ResumeInv'
  <2>1. \A song \in Songs : \A pausing : Proceed(song, pausing) => ResumeInv'
    BY ProceedResumes, Zenon
  <2>2. pc = "advance" /\ ListServes /\ now_playing \in Songs
    <3>1. pc = "advance"
      BY <1>11, Zenon DEF AdvanceForward, AdvanceRandom, AdvanceBack, AdvanceSpecific, Proceed
    <3>2. QED
      BY <3>1, ListIsThere DEF PlayInv
  <2>3. CASE AdvanceForward
    BY <2>1, <2>2, <2>3, Zenon DEF AdvanceForward, ListServes
  <2>4. CASE AdvanceRandom
    BY <2>1, <2>2, <2>4, Zenon DEF AdvanceRandom, ListServes
  <2>5. CASE AdvanceBack
    BY <2>1, <2>2, <2>5, Zenon DEF AdvanceBack, ListServes
  <2>6. CASE AdvanceSpecific
    <3>1. command_target \in Songs
      BY <2>6 DEF AdvanceSpecific, Wanting, PlayInv
    <3>2. QED
      BY <2>1, <2>6, <3>1, Zenon DEF AdvanceSpecific
  <2>7. QED
    BY <1>11, <2>3, <2>4, <2>5, <2>6
<1>12. ASSUME MoveCard \/ UNCHANGED vars PROVE ResumeInv'
  <2>1. UNCHANGED <<disk, history, pc, now_playing, bad_files>>
    BY <1>12 DEF MoveCard, vars
  <2>2. Kept
    BY <1>1, <2>1
  <2>3. QED
    BY <2>1, <2>2 DEF ResumeInv
<1>13. ASSUME PowerCycle PROVE ResumeInv'
  <2>1. /\ pc' = "index" /\ heard' = None /\ ~unsaved' /\ UNCHANGED disk
        /\ expected' = IF unsaved THEN None ELSE heard
    BY <1>13, Zenon DEF PowerCycle
  <2>2. Kept
    BY <1>1, <2>1
  <2>3. QED
    BY <2>1, <2>2 DEF ResumeInv
<1>14. QED
  BY <1>3, <1>4, <1>5, <1>6, <1>7, <1>8, <1>9, <1>10, <1>11, <1>12, <1>13, Zenon DEF Next, Program

-----------------------------------------------------------------------------
(* The theorems of the player. *)

\* The inductive invariant of the player.
PlayerInv == TypeOK /\ ListInv /\ PlayInv /\ ResumeInv

(* The types are those of the list, of the index, and of all else.         *)
LEMMA TypesTogether ==
    /\ TypeOK => PlayTypes
    /\ PlayTypes /\ list \in Lists /\ database \in Seq(Songs)
         /\ sorting \in [field : 1 .. 3, turn : Nat, current : Songs \cup {Null}] => TypeOK
  BY DEF TypeOK, PlayTypes

(* The invariant holds when the player is made.                            *)
LEMMA PlayerInit == Init => PlayerInv
<1> SUFFICES ASSUME Init PROVE PlayerInv
  OBVIOUS
<1> USE LengthAssumption, NoneAssumption
<1>1. EmptyList \in Lists /\ NoSort \in [field : 1 .. 3, turn : Nat, current : Songs \cup {Null}]
  BY DEF EmptyList, Lists, NoSort
<1>2. << >> \in Seq(Songs)
  OBVIOUS
<1>3. PlayTypes
  <2>1. [song |-> None, sequence |-> "FORWARD", repeat |-> FALSE]
          \in [song : Songs \cup {None}, sequence : {"FORWARD", "RANDOM"}, repeat : BOOLEAN]
    OBVIOUS
  <2>2. saved \in [song : Songs \cup {None}, sequence : {"FORWARD", "RANDOM"}, repeat : BOOLEAN]
    BY <2>1 DEF Init
  <2>3. 0 \in 0 .. Length /\ 0 \in 0 .. 3 /\ 0 \in 0 .. Threshold /\ 0 \in 0 .. MaxEvents
    OBVIOUS
  <2>4. card = "ready" /\ rest \in BOOLEAN /\ repeat_playlist \in BOOLEAN /\ unsaved \in BOOLEAN
    BY Zenon DEF Init
  <2>5. QED
    BY <2>2, <2>3, <2>4 DEF Init, PlayTypes, Commands
<1>4. list \in Lists /\ database = << >> /\ sorting = NoSort /\ list = EmptyList /\ pc = "index"
  BY <1>1 DEF Init
<1>5. TypeOK
  BY <1>1, <1>2, <1>3, <1>4, TypesTogether, Zenon
<1>6. ListInv
  BY <1>4 DEF ListInv
<1>7. PlayInv
  BY DEF Init, PlayInv, PlaysNowPlaying, EndsOnSilenceOnly
<1>8. ResumeInv
  BY DEF Init, ResumeInv
<1>9. QED
  BY <1>5, <1>6, <1>7, <1>8 DEF PlayerInv

(* Every step keeps the invariant.                                         *)
LEMMA PlayerStep == ASSUME Playable, PlayerInv, [Next]_vars PROVE PlayerInv'
<1>1. TypeOK /\ ListInv /\ PlayInv /\ ResumeInv /\ PlayTypes
  BY TypesTogether, Zenon DEF PlayerInv
<1>2. /\ ListInv' /\ list' \in Lists /\ database' \in Seq(Songs)
      /\ sorting' \in [field : 1 .. 3, turn : Nat, current : Songs \cup {Null}]
  BY <1>1, ListStep, Zenon
<1>3. PlayTypes' /\ PlayInv'
  BY <1>1, <1>2, PlayStep, Zenon
<1>4. ResumeInv'
  BY <1>1, ResumeStep, Zenon
<1>5. TypeOK'
  BY <1>2, <1>3 DEF TypeOK, PlayTypes
<1>6. QED
  BY <1>2, <1>3, <1>4, <1>5 DEF PlayerInv

(* The invariant holds in every state.                                     *)
LEMMA PlayerHolds == ASSUME Playable PROVE Spec => []PlayerInv
<1>1. Init => PlayerInv
  BY PlayerInit
<1>2. PlayerInv /\ [Next]_vars => PlayerInv'
  BY PlayerStep
<1>3. QED
  BY <1>1, <1>2, PTL DEF Spec

(* An empty list has no songs to walk.                                     *)
LEMMA OrderEmpty == DOMAIN Order(EmptyList) = {}
<1>1. EmptyList.num_files = 0
  BY DEF EmptyList
<1> DEFINE Walk(g) == [i \in 1 .. EmptyList.num_files |->
                         IF i = 1 THEN EmptyList.list_start ELSE EmptyList.next[g[i - 1]]]
           w == [i \in 1 .. 0 |-> i]
<1>2. 1 .. EmptyList.num_files = {}
  BY <1>1
<1>3. \A g : DOMAIN Walk(g) = {}
  BY <1>2
<1>4. w = Walk(w)
  BY <1>1
<1>5. Order(EmptyList) = (CHOOSE g : g = Walk(g))
  BY DEF Order
<1>6. Order(EmptyList) = Walk(Order(EmptyList))
  BY <1>4, <1>5, Zenon
<1>7. QED
  BY <1>3, <1>6, Zenon

(* A list in an order is one cycle.                                        *)
LEMMA InOrderIsCircular ==
    ASSUME Playable, NEW o \in Orders, NEW l, InOrder(l, o)
    PROVE  Circular(l)
<1>1. /\ N \in Nat \ {0, 2} /\ o \in [1 .. N -> Songs]
      /\ \A i, j \in 1 .. N : o[i] = o[j] => i = j
  BY OrderFacts, Zenon
<1>2. Order(l) = o /\ DOMAIN o = 1 .. N
  BY <1>1, OrderIs, Zenon
<1>3. /\ l.list_start = o[1] /\ l.num_files = N
      /\ \A i \in 1 .. N : l.next[o[i]] = o[Follower(i)] /\ l.prev[o[Follower(i)]] = o[i]
  BY Zenon DEF InOrder
<1>4. \A i \in 1 .. N : l.prev[l.next[o[i]]] = o[i]
  BY <1>3, Zenon
<1>5. N \in 1 .. N /\ Follower(N) = 1
  BY <1>1 DEF Follower
<1>6. l.next[o[N]] = l.list_start
  BY <1>3, <1>5, Zenon
<1>7. /\ \A i, j \in DOMAIN Order(l) : Order(l)[i] = Order(l)[j] => i = j
      /\ \A i \in DOMAIN Order(l) : l.prev[l.next[Order(l)[i]]] = Order(l)[i]
      /\ l.next[Order(l)[l.num_files]] = l.list_start
  BY <1>1, <1>2, <1>3, <1>4, <1>6
<1>8. QED
  BY <1>7, Zenon DEF Circular

(* An empty list is one cycle, of no songs.                                *)
LEMMA EmptyIsCircular == Circular(EmptyList)
<1>1. EmptyList.num_files = 0 /\ ~(EmptyList.num_files > 0)
  BY DEF EmptyList
<1>2. QED
  BY <1>1, OrderEmpty, Zenon DEF Circular

(* The list stays one cycle with prev the inverse of next, through every   *)
(* exchange of two songs that the sort makes in place.                     *)
THEOREM ListIsCircular == ASSUME Playable PROVE Spec => []ListCircular
<1>1. PlayerInv => ListCircular
  <2> SUFFICES ASSUME PlayerInv PROVE ListCircular
    OBVIOUS
  <2>1. CASE pc = "index"
    BY <2>1, EmptyIsCircular DEF PlayerInv, ListInv, ListCircular
  <2>2. CASE pc # "index"
    <3>1. \E o \in Orders : InOrder(list, o)
      BY <2>2, Zenon DEF PlayerInv, ListInv, SortInv
    <3>2. QED
      BY <3>1, InOrderIsCircular, Zenon DEF ListCircular
  <2>3. QED
    BY <2>1, <2>2
<1>2. QED
  BY <1>1, PlayerHolds, PTL

(* Once the sort is over, the songs stand by artist, then by album, then   *)
(* by track: three sorts by one field each make one by three.              *)
THEOREM ListIsSorted == ASSUME Playable PROVE Spec => []ListSorted
<1>1. PlayerInv => ListSorted
  <2> SUFFICES ASSUME PlayerInv PROVE ListSorted
    OBVIOUS
  <2>1. CASE pc = "index"
    <3>1. DOMAIN Order(list) = {}
      BY <2>1, OrderEmpty DEF PlayerInv, ListInv
    <3>2. QED
      BY <3>1, Zenon DEF ListSorted
  <2>2. CASE pc = "sort"
    BY <2>2, Zenon DEF ListSorted
  <2>3. CASE pc \notin {"index", "sort"}
    <3>1. database \in Orders /\ SortedBy(3, database) /\ InOrder(list, database)
      BY <2>3, Zenon DEF PlayerInv, ListInv
    <3>2. /\ database \in [1 .. N -> Songs] /\ Order(list) = database
      BY <3>1, OrderFacts, OrderIs, Zenon
    <3>3. \A a, b \in Songs : Precedes(a, b) => Before(3, a, b)
      BY SortedIs, Zenon
    <3>4. QED
      BY <3>1, <3>2, <3>3, Zenon DEF ListSorted, SortedBy
  <2>4. QED
    BY <2>1, <2>2, <2>3
<1>2. QED
  BY <1>1, PlayerHolds, PTL

(* The types; the song on the display is the one whose file is read; a     *)
(* skip is carried out before the decoder reads on; and the player ends    *)
(* at a song without any sound only.                                       *)
THEOREM PlayerStateOK == ASSUME Playable PROVE Spec => []StateOK
<1>1. PlayerInv => StateOK
  <2> SUFFICES ASSUME PlayerInv PROVE StateOK
    OBVIOUS
  <2>1. TypeOK /\ PlayInv
    BY DEF PlayerInv
  <2>2. SkipTakesEffect
    BY <2>1 DEF PlayInv, SkipTakesEffect
  <2>3. QED
    BY <2>1, <2>2 DEF StateOK, PlayInv
<1>2. QED
  BY <1>1, PlayerHolds, PTL

(* Switched on again, the player plays the song it had on, unless it       *)
(* passed over one or moved on without the card.                           *)
THEOREM SongIsResumed == ASSUME Playable PROVE Spec => ResumesSong
<1>1. ASSUME PlayerInv, [Next]_vars
      PROVE  [pc = "open" /\ pc' = "input" => expected \in {None, now_playing}]_pc
  <2> SUFFICES ASSUME pc = "open", pc' = "input", expected # None PROVE expected = now_playing
    OBVIOUS
  <2>1. ResumeInv /\ PlayInv /\ PlayTypes
    BY <1>1, TypesTogether, Zenon DEF PlayerInv
  <2>2. now_playing \notin Bad
    <3>1. OpenFile
      BY <1>1
      DEF Next, Program, vars, Index, SortTurn, NextField, Resume, OpenFails, PassOver, ReadPiece, ReadFails,
          SeekFails, Retry, SeekIgnored, DecodeAgain, WantsPiece, EndOfSong,
          FrameAccepted, LeavePause, AdvanceForward, AdvanceRandom, AdvanceBack, AdvanceSpecific, Proceed, Exit,
          UpdateGUIMain, InGUI, MoveCard, PowerCycle, disk, modes, playing, orders, history
    <3>2. QED
      BY <3>1 DEF OpenFile
  <2>3. ~unsaved /\ FirstToOpen(expected)
    BY <2>1 DEF ResumeInv
  <2>4. bad_files \in 0 .. 2
    BY <2>1 DEF PlayInv, PlayTypes
  <2>5. PICK b \in 0 .. 2 : b = bad_files
    BY <2>4
  <2>6. now_playing = Nth(b) /\ Passed(b)
    BY <2>1, <2>3, <2>5 DEF ResumeInv
  <2>7. PICK d \in 0 .. 2 : expected = Nth(d) /\ expected \notin Bad /\ Passed(d)
    BY <2>3, Zenon DEF FirstToOpen
  <2>8. ~(b < d) /\ ~(d < b)
    BY <2>2, <2>6, <2>7, Zenon DEF Passed
  <2>9. b = d
    BY <2>8
  <2>10. QED
    BY <2>6, <2>7, <2>9
<1>2. QED
  BY <1>1, PlayerHolds, PTL DEF Spec, ResumesSong
=============================================================================
