---------------------------- MODULE OrderProofs ----------------------------
(* Theorems about order: calls in the order of their commits (EventStore    *)
(* implements SerialStore), and rows of the log in the order of their ids   *)
(* (the exports of Replication).                                            *)
EXTENDS Replication, EventStoreProofs, SequenceTheorems, WellFoundedInduction

-----------------------------------------------------------------------------
(* Statements run one after the other.                                      *)

\* The library's rule of induction takes a predicate, for which no prover can
\* put one in; that of well-founded orders takes a set.
LEMMA SetInduction ==
  ASSUME NEW K \in SUBSET Nat, 0 \in K, \A n \in K : n + 1 \in K
  PROVE  K = Nat
<1> SUFFICES ASSUME Nat \ K # {} PROVE FALSE
  OBVIOUS
<1>1. PICK x \in Nat \ K : \A y \in Nat \ K : ~ (<<y, x>> \in OpToRel(<, Nat))
  BY NatLessThanWellFounded, WFMin, Zenon
<1>2. \A y \in Nat \ K : ~ (y < x)
  BY <1>1, Zenon DEF OpToRel
<1>3. x - 1 \in Nat /\ x - 1 \in K
  BY <1>2
<1> QED
  BY <1>3

\* The database after the statements of list.
After(d, list) == FoldLeft(Effect, d, list)

\* A fold goes by sets of indices, from the largest one.
FoldsTo(f, d, list, n) ==
  f = [set \in SUBSET (1 .. n) |->
         IF set = {} THEN d ELSE Effect(f[set \ {Max(set)}], list[Max(set)])]

LEMMA MaxIs ==
  ASSUME NEW set \in SUBSET Nat, NEW n \in set, \A i \in set : i <= n
  PROVE  Max(set) = n
<1>1. \A x \in set : (\A y \in set : x >= y) => x = n
  BY \A x \in set : x \in Nat
<1>2. \E x \in set : \A y \in set : x >= y
  BY \A x \in set : x \in Nat
<1> QED
  BY <1>1, <1>2 DEF Max

LEMMA FoldExists ==
  ASSUME NEW d, NEW list
  PROVE  \A n \in Nat : \E f : FoldsTo(f, d, list, n)
<1> DEFINE K == {n \in Nat : \E f : FoldsTo(f, d, list, n)}
<1>1. 0 \in K
  <2> DEFINE f == [set \in SUBSET (1 .. 0) |-> d]
  <2>1. SUBSET (1 .. 0) = {{}}
    OBVIOUS
  <2>2. FoldsTo(f, d, list, 0)
    BY <2>1 DEF FoldsTo
  <2> QED
    BY <2>2
<1>2. ASSUME NEW n \in K PROVE n + 1 \in K
  <2>1. PICK f : FoldsTo(f, d, list, n)
    OBVIOUS
  <2> DEFINE Step1(g, set) == IF set = {} THEN d
                              ELSE Effect(g[set \ {Max(set)}], list[Max(set)])
             h == [set \in SUBSET (1 .. n + 1) |->
                     IF n + 1 \in set THEN Effect(f[set \ {n + 1}], list[n + 1]) ELSE f[set]]
  <2>2. ASSUME NEW set \in SUBSET (1 .. n + 1), n + 1 \in set
        PROVE  h[set] = Step1(h, set)
    <3>1. Max(set) = n + 1
      BY <2>2, MaxIs
    <3>2. set \ {n + 1} \in SUBSET (1 .. n + 1) /\ n + 1 \notin set \ {n + 1}
      OBVIOUS
    <3>3. h[set \ {n + 1}] = f[set \ {n + 1}]
      BY <3>2
    <3>4. h[set] = Effect(f[set \ {n + 1}], list[n + 1])
      BY <2>2
    <3> QED
      BY <2>2, <3>1, <3>3, <3>4
  <2>3. ASSUME NEW set \in SUBSET (1 .. n + 1), n + 1 \notin set
        PROVE  h[set] = Step1(h, set)
    <3>1. set \in SUBSET (1 .. n)
      BY <2>3
    <3>2. h[set] = f[set]
      BY <2>3
    <3>3. f[set] = Step1(f, set)
      BY <2>1, <3>1 DEF FoldsTo
    <3>4. h[set \ {Max(set)}] = f[set \ {Max(set)}]
      BY <2>3
    <3> QED
      BY <3>2, <3>3, <3>4
  <2>4. h = [set \in SUBSET (1 .. n + 1) |-> h[set]]
    OBVIOUS
  <2>5. h = [set \in SUBSET (1 .. n + 1) |-> Step1(h, set)]
    <3> HIDE DEF h, Step1
    <3> QED
      BY <2>2, <2>3, <2>4
  <2> HIDE DEF h
  <2>6. FoldsTo(h, d, list, n + 1)
    BY <2>5 DEF FoldsTo
  <2> QED
    BY <2>6
<1>3. K = Nat
  <2> HIDE DEF K
  <2> QED
    BY <1>1, <1>2, SetInduction, K \in SUBSET Nat DEF K
<1> QED
  BY <1>3

LEMMA FoldMeaning ==
  ASSUME NEW d, NEW list, NEW n \in Nat, DOMAIN list = 1 .. n
  PROVE  \E f : FoldsTo(f, d, list, n) /\ After(d, list) = f[1 .. n]
<1> DEFINE P(f) == f = [set \in SUBSET (DOMAIN list) |->
                          IF set = {} THEN d
                          ELSE Effect(f[set \ {Max(set)}], list[Max(set)])]
<1>1. FoldLeft(Effect, d, list) = (CHOOSE f : P(f))[DOMAIN list]
  BY DEF FoldLeft, MapThenFoldSet
<1>2. \E f : P(f)
  <2>1. \E f : FoldsTo(f, d, list, n)
    BY FoldExists
  <2> QED
    BY <2>1 DEF FoldsTo
<1> HIDE DEF P
<1>3. P(CHOOSE f : P(f))
  BY <1>2
<1> QED
  BY <1>1, <1>3 DEF P, FoldsTo, After

\* The databases that running list passes through.
Passes(v, d, list) == /\ v[0] = d
                      /\ \A k \in 1 .. Len(list) : v[k] = Effect(v[k - 1], list[k])

LEMMA PassesExist ==
  ASSUME NEW d, NEW S, NEW list \in Seq(S)
  PROVE  \E v : Passes(v, d, list) /\ v[Len(list)] = After(d, list)
<1> DEFINE n == Len(list)
<1>1. n \in Nat /\ DOMAIN list = 1 .. n
  OBVIOUS
<1>2. PICK f : FoldsTo(f, d, list, n) /\ After(d, list) = f[1 .. n]
  BY <1>1, FoldMeaning
<1> DEFINE v == [k \in 0 .. n |-> f[1 .. k]]
<1>3. v[0] = d
  <2>1. 1 .. 0 = {} /\ 1 .. 0 \in SUBSET (1 .. n)
    BY <1>1
  <2>2. f[1 .. 0] = d
    BY <1>2, <2>1 DEF FoldsTo
  <2> QED
    BY <1>1, <2>2
<1>4. ASSUME NEW k \in 1 .. n PROVE v[k] = Effect(v[k - 1], list[k])
  <2> HIDE DEF n
  <2>1. 1 .. k \in SUBSET (1 .. n) /\ 1 .. k # {} /\ (1 .. k) \ {k} = 1 .. (k - 1)
    <3>1. k \in 1 .. k
      BY <1>1
    <3>2. \A i : i \in (1 .. k) \ {k} <=> i \in 1 .. (k - 1)
      BY <1>1
    <3>3. \A i : i \in 1 .. k => i \in 1 .. n
      BY <1>1
    <3> QED
      BY <3>1, <3>2, <3>3
  <2>2. Max(1 .. k) = k
    BY <1>1, MaxIs
  <2>3. f[1 .. k] = Effect(f[(1 .. k) \ {k}], list[k])
    BY <1>2, <2>1, <2>2 DEF FoldsTo
  <2>4. k \in 0 .. n /\ k - 1 \in 0 .. n
    BY <1>1
  <2> QED
    BY <2>1, <2>3, <2>4
<1>5. v[n] = After(d, list)
  BY <1>1, <1>2
<1> HIDE DEF v
<1> QED
  BY <1>3, <1>4, <1>5 DEF Passes

LEMMA PassesAre ==
  ASSUME NEW d, NEW S, NEW list \in Seq(S), NEW v, Passes(v, d, list)
  PROVE  v[Len(list)] = After(d, list)
<1>1. PICK w : Passes(w, d, list) /\ w[Len(list)] = After(d, list)
  BY PassesExist
<1> DEFINE K == {k \in Nat : k <= Len(list) => v[k] = w[k]}
<1>2. 0 \in K
  BY <1>1 DEF Passes
<1>3. ASSUME NEW k \in K PROVE k + 1 \in K
  <2> SUFFICES ASSUME k + 1 <= Len(list) PROVE v[k + 1] = w[k + 1]
    OBVIOUS
  <2>1. k + 1 \in 1 .. Len(list) /\ (k + 1) - 1 = k /\ v[k] = w[k]
    OBVIOUS
  <2> QED
    BY <1>1, <2>1 DEF Passes
<1>4. K = Nat
  <2> HIDE DEF K
  <2> QED
    BY <1>2, <1>3, SetInduction, K \in SUBSET Nat DEF K
<1>5. Len(list) \in K
  BY <1>4
<1> QED
  BY <1>1, <1>5

LEMMA AfterNothing == ASSUME NEW d PROVE After(d, << >>) = d
<1>1. << >> \in Seq({}) /\ Len(<< >>) = 0
  OBVIOUS
<1>2. Passes([k \in 0 .. 0 |-> d], d, << >>)
  BY <1>1 DEF Passes
<1>3. [k \in 0 .. 0 |-> d][0] = d
  OBVIOUS
<1> QED
  BY <1>1, <1>2, <1>3, PassesAre

LEMMA AfterJoined ==
  ASSUME NEW d, NEW S, NEW a \in Seq(S), NEW b \in Seq(S)
  PROVE  After(d, a \o b) = After(After(d, a), b)
<1>1. PICK v : Passes(v, d, a) /\ v[Len(a)] = After(d, a)
  BY PassesExist
<1>2. PICK w : Passes(w, After(d, a), b) /\ w[Len(b)] = After(After(d, a), b)
  BY PassesExist
<1> DEFINE u == [k \in Nat |-> IF k <= Len(a) THEN v[k] ELSE w[k - Len(a)]]
<1>3. /\ a \o b \in Seq(S) /\ Len(a \o b) = Len(a) + Len(b)
      /\ \A k \in 1 .. Len(a) : (a \o b)[k] = a[k]
      /\ \A k \in Len(a) + 1 .. Len(a) + Len(b) : (a \o b)[k] = b[k - Len(a)]
  OBVIOUS
<1>4. u[0] = d
  BY <1>1 DEF Passes
<1>5. ASSUME NEW k \in 1 .. Len(a) + Len(b)
      PROVE  u[k] = Effect(u[k - 1], (a \o b)[k])
  <2>1. CASE k <= Len(a)
    <3>1. k \in 1 .. Len(a) /\ u[k] = v[k] /\ u[k - 1] = v[k - 1]
      BY <2>1
    <3> QED
      BY <1>1, <1>3, <3>1 DEF Passes
  <2>2. CASE k > Len(a)
    <3> DEFINE j == k - Len(a)
    <3>1. j \in 1 .. Len(b) /\ u[k] = w[j] /\ (a \o b)[k] = b[j]
      BY <2>2, <1>3
    <3>2. u[k - 1] = w[j - 1]
      <4>1. CASE k - 1 <= Len(a)
        <5>1. k - 1 = Len(a) /\ j - 1 = 0 /\ u[k - 1] = v[Len(a)]
          BY <2>2, <4>1
        <5> QED
          BY <1>1, <1>2, <5>1 DEF Passes
      <4>2. CASE k - 1 > Len(a)
        BY <2>2, <4>2
      <4> QED
        BY <4>1, <4>2
    <3> HIDE DEF j, u
    <3> QED
      BY <1>2, <3>1, <3>2 DEF Passes
  <2> QED
    BY <2>1, <2>2
<1>6. u[Len(a) + Len(b)] = After(After(d, a), b)
  <2>1. CASE Len(b) = 0
    <3>1. u[Len(a) + Len(b)] = v[Len(a)] /\ w[Len(b)] = w[0]
      BY <2>1
    <3> QED
      BY <1>1, <1>2, <3>1 DEF Passes
  <2>2. CASE Len(b) # 0
    <3>1. u[Len(a) + Len(b)] = w[Len(b)]
      BY <2>2
    <3> QED
      BY <1>2, <3>1
  <2> QED
    BY <2>1, <2>2
<1> HIDE DEF u
<1>7. Passes(u, d, a \o b)
  BY <1>3, <1>4, <1>5 DEF Passes
<1>8. u[Len(a \o b)] = After(d, a \o b)
  BY <1>3, <1>7, PassesAre
<1> QED
  BY <1>3, <1>6, <1>8

LEMMA AfterOne == ASSUME NEW d, NEW s PROVE After(d, <<s>>) = Effect(d, s)
<1> DEFINE v == [k \in 0 .. 1 |-> IF k = 0 THEN d ELSE Effect(d, s)]
<1>1. <<s>> \in Seq({s}) /\ Len(<<s>>) = 1 /\ <<s>>[1] = s
  OBVIOUS
<1>2. v[0] = d /\ v[1] = Effect(d, s)
  OBVIOUS
<1> HIDE DEF v
<1>3. Passes(v, d, <<s>>)
  BY <1>1, <1>2 DEF Passes
<1> QED
  BY <1>1, <1>2, <1>3, PassesAre

-----------------------------------------------------------------------------
(* Lists put one after the other.                                           *)

FlatTo(f, lists, n) ==
  f = [i \in 1 .. n |-> IF i = 1 THEN lists[i] ELSE f[i - 1] \o lists[i]]

LEMMA FlatExists ==
  ASSUME NEW lists
  PROVE  \A n \in Nat : \E f : FlatTo(f, lists, n)
<1> DEFINE K == {n \in Nat : \E f : FlatTo(f, lists, n)}
<1>1. 0 \in K
  <2> DEFINE f == [i \in 1 .. 0 |-> lists]
  <2>1. FlatTo(f, lists, 0)
    <3>1. 1 .. 0 = {}
      OBVIOUS
    <3> QED
      BY <3>1 DEF FlatTo
  <2> QED
    BY <2>1
<1>2. ASSUME NEW n \in K PROVE n + 1 \in K
  <2>1. PICK f : FlatTo(f, lists, n)
    OBVIOUS
  <2> DEFINE Next1(g, i) == IF i = 1 THEN lists[i] ELSE g[i - 1] \o lists[i]
             h == [i \in 1 .. n + 1 |-> IF i = n + 1 THEN Next1(f, i) ELSE f[i]]
  <2>2. ASSUME NEW i \in 1 .. n + 1
        PROVE  h[i] = Next1(h, i)
    <3>1. i # 1 => h[i - 1] = f[i - 1]
      OBVIOUS
    <3>2. Next1(h, i) = Next1(f, i)
      BY <3>1
    <3>3. ASSUME i # n + 1 PROVE f[i] = Next1(f, i)
      <4>1. i \in 1 .. n
        BY <3>3
      <4> QED
        BY <2>1, <4>1 DEF FlatTo
    <3> QED
      BY <3>2, <3>3
  <2>3. FlatTo(h, lists, n + 1)
    <3>1. h = [i \in 1 .. n + 1 |-> h[i]]
      OBVIOUS
    <3>2. h = [i \in 1 .. n + 1 |-> Next1(h, i)]
      <4> HIDE DEF h, Next1
      <4> QED
        BY <3>1, <2>2
    <3> HIDE DEF h
    <3> QED
      BY <3>2 DEF FlatTo
  <2> HIDE DEF h
  <2> QED
    BY <2>3
<1>3. K = Nat
  <2> HIDE DEF K
  <2> QED
    BY <1>1, <1>2, SetInduction, K \in SUBSET Nat DEF K
<1> QED
  BY <1>3

LEMMA FlatMeaning ==
  ASSUME NEW lists, Len(lists) \in Nat \ {0}
  PROVE  \E f : FlatTo(f, lists, Len(lists)) /\ FlattenSeq(lists) = f[Len(lists)]
<1> DEFINE P(f) == f = [i \in 1 .. Len(lists) |->
                          IF i = 1 THEN lists[i] ELSE f[i - 1] \o lists[i]]
<1>1. FlattenSeq(lists) = (CHOOSE f : P(f))[Len(lists)]
  BY DEF FlattenSeq
<1>2. \E f : P(f)
  BY FlatExists DEF FlatTo
<1> HIDE DEF P
<1>3. P(CHOOSE f : P(f))
  BY <1>2
<1> QED
  BY <1>1, <1>3 DEF P, FlatTo

LEMMA FlattenNothing == FlattenSeq(<< >>) = << >>
  BY DEF FlattenSeq

LEMMA FlattenMore ==
  ASSUME NEW S, NEW lists \in Seq(Seq(S)), NEW list \in Seq(S)
  PROVE  FlattenSeq(Append(lists, list)) = FlattenSeq(lists) \o list
<1> DEFINE n == Len(lists)
           more == Append(lists, list)
<1>1. /\ n \in Nat /\ Len(more) = n + 1
      /\ \A i \in 1 .. n : more[i] = lists[i]
      /\ more[n + 1] = list
  OBVIOUS
<1>2. PICK f : FlatTo(f, more, n + 1) /\ FlattenSeq(more) = f[n + 1]
  <2> HIDE DEF n, more
  <2>1. Len(more) \in Nat \ {0}
    BY <1>1
  <2>2. \E f : FlatTo(f, more, Len(more)) /\ FlattenSeq(more) = f[Len(more)]
    BY <2>1, FlatMeaning
  <2> QED
    BY <1>1, <2>2
<1>3. CASE n = 0
  <2>1. lists = << >>
    BY <1>3
  <2>2. FlattenSeq(more) = list
    BY <1>1, <1>2, <1>3 DEF FlatTo
  <2> QED
    BY <2>1, <2>2, FlattenNothing
<1>4. CASE n # 0
  <2>1. PICK g : FlatTo(g, lists, n) /\ FlattenSeq(lists) = g[n]
    BY <1>1, <1>4, FlatMeaning
  <2> HIDE DEF n, more
  <2> DEFINE K == {i \in Nat : i \in 1 .. n => f[i] = g[i]}
  <2>2. 0 \in K
    OBVIOUS
  <2>3. ASSUME NEW i \in K PROVE i + 1 \in K
    <3> SUFFICES ASSUME i + 1 \in 1 .. n PROVE f[i + 1] = g[i + 1]
      OBVIOUS
    <3>1. i + 1 \in 1 .. n + 1 /\ (i + 1) - 1 = i
      BY <1>1
    <3>2. f[i + 1] = IF i + 1 = 1 THEN more[i + 1] ELSE f[i] \o more[i + 1]
      BY <1>2, <3>1 DEF FlatTo
    <3>3. g[i + 1] = IF i + 1 = 1 THEN lists[i + 1] ELSE g[i] \o lists[i + 1]
      BY <2>1, <3>1 DEF FlatTo
    <3>4. i + 1 # 1 => f[i] = g[i]
      BY <1>1
    <3> QED
      BY <1>1, <3>2, <3>3, <3>4
  <2>4. K = Nat
    <3> HIDE DEF K
    <3> QED
      BY <2>2, <2>3, SetInduction, K \in SUBSET Nat DEF K
  <2>5. f[n] = g[n]
    <3>1. n \in K /\ n \in 1 .. n
      BY <1>1, <1>4, <2>4
    <3> QED
      BY <3>1
  <2>6. f[n + 1] = f[n] \o more[n + 1]
    <3>1. n + 1 \in 1 .. n + 1 /\ n + 1 # 1 /\ (n + 1) - 1 = n
      BY <1>1, <1>4
    <3> QED
      BY <1>2, <3>1 DEF FlatTo
  <2> QED
    BY <1>1, <1>2, <2>1, <2>5, <2>6 DEF more
<1> QED
  BY <1>3, <1>4

LEMMA FlattenType ==
  ASSUME NEW S, NEW lists \in Seq(Seq(S))
  PROVE  FlattenSeq(lists) \in Seq(S)
<1> DEFINE K == {n \in Nat : \A some \in Seq(Seq(S)) :
                               Len(some) = n => FlattenSeq(some) \in Seq(S)}
<1>1. 0 \in K
  <2>1. \A some \in Seq(Seq(S)) : Len(some) = 0 => some = << >>
    OBVIOUS
  <2>2. << >> \in Seq(S)
    OBVIOUS
  <2> QED
    BY <2>1, <2>2, FlattenNothing
<1>2. ASSUME NEW n \in K PROVE n + 1 \in K
  <2> SUFFICES ASSUME NEW some \in Seq(Seq(S)), Len(some) = n + 1
               PROVE  FlattenSeq(some) \in Seq(S)
    OBVIOUS
  <2>1. PICK front \in Seq(Seq(S)), list \in Seq(S) : some = Append(front, list)
    <3>1. some # << >>
      OBVIOUS
    <3> QED
      BY <3>1, SequenceEmptyOrAppend
  <2>2. Len(front) = n
    BY <2>1
  <2>3. FlattenSeq(front) \in Seq(S)
    BY <2>2
  <2>4. FlattenSeq(some) = FlattenSeq(front) \o list
    BY <2>1, FlattenMore
  <2> QED
    BY <2>3, <2>4
<1>3. K = Nat
  <2> HIDE DEF K
  <2> QED
    BY <1>1, <1>2, SetInduction, K \in SUBSET Nat DEF K
<1> QED
  BY <1>3

-----------------------------------------------------------------------------
(* Rows of the log in the order of their ids.                               *)

Distinct(rows) == \A q, r \in rows : q.id = r.id => q = r

ListsTo(f, rows, n) ==
  f = [id \in 0 .. n |->
         IF id = 0 THEN << >>
         ELSE IF \E r \in rows : r.id = id
              THEN Append(f[id - 1], CHOOSE r \in rows : r.id = id)
              ELSE f[id - 1]]

\* The rows with ids up to n.
Listed(rows, n) == (CHOOSE f : ListsTo(f, rows, n))[n]

LEMMA InIdOrderIsListed == ASSUME NEW rows PROVE InIdOrder(rows) = Listed(rows, seq)
  BY DEF InIdOrder, Listed, ListsTo

\* What comes after the list of ids below id.
Longer(rows, id, list) ==
  IF \E r \in rows : r.id = id THEN Append(list, CHOOSE r \in rows : r.id = id) ELSE list

LEMMA ListsExist ==
  ASSUME NEW rows
  PROVE  \A n \in Nat : \E f : ListsTo(f, rows, n)
<1> DEFINE K == {n \in Nat : \E f : ListsTo(f, rows, n)}
<1>1. 0 \in K
  <2> DEFINE f == [i \in 0 .. 0 |-> << >>]
  <2>1. ListsTo(f, rows, 0)
    BY DEF ListsTo
  <2> QED
    BY <2>1
<1>2. ASSUME NEW n \in K PROVE n + 1 \in K
  <2>1. PICK f : ListsTo(f, rows, n)
    OBVIOUS
  <2> DEFINE Next1(g, i) == IF i = 0 THEN << >> ELSE Longer(rows, i, g[i - 1])
             h == [i \in 0 .. n + 1 |-> IF i = n + 1 THEN Next1(f, i) ELSE f[i]]
  <2>2. ASSUME NEW i \in 0 .. n + 1
        PROVE  h[i] = Next1(h, i)
    <3>1. i # 0 => h[i - 1] = f[i - 1]
      OBVIOUS
    <3>2. Next1(h, i) = Next1(f, i)
      BY <3>1
    <3>3. ASSUME i # n + 1 PROVE f[i] = Next1(f, i)
      <4>1. i \in 0 .. n
        BY <3>3
      <4> QED
        BY <2>1, <4>1 DEF ListsTo, Longer
    <3> QED
      BY <3>2, <3>3
  <2>3. ListsTo(h, rows, n + 1)
    <3>1. h = [i \in 0 .. n + 1 |-> h[i]]
      OBVIOUS
    <3>2. h = [i \in 0 .. n + 1 |-> Next1(h, i)]
      <4> HIDE DEF h, Next1
      <4> QED
        BY <3>1, <2>2
    <3> HIDE DEF h
    <3> QED
      BY <3>2 DEF ListsTo, Longer
  <2> HIDE DEF h
  <2> QED
    BY <2>3
<1>3. K = Nat
  <2> HIDE DEF K
  <2> QED
    BY <1>1, <1>2, SetInduction, K \in SUBSET Nat DEF K
<1> QED
  BY <1>3

LEMMA ListsAgree ==
  ASSUME NEW rows, NEW m \in Nat, NEW n \in Nat, m <= n,
         NEW f, NEW g, ListsTo(f, rows, m), ListsTo(g, rows, n)
  PROVE  f[m] = g[m]
<1> DEFINE K == {i \in Nat : i <= m => f[i] = g[i]}
<1>1. ASSUME NEW i \in Nat, i <= m
      PROVE  /\ f[i] = IF i = 0 THEN << >> ELSE Longer(rows, i, f[i - 1])
             /\ g[i] = IF i = 0 THEN << >> ELSE Longer(rows, i, g[i - 1])
  <2>1. i \in 0 .. m /\ i \in 0 .. n
    BY <1>1
  <2> QED
    BY <2>1 DEF ListsTo, Longer
<1>2. 0 \in K
  BY <1>1
<1>3. ASSUME NEW i \in K PROVE i + 1 \in K
  BY <1>1, (i + 1) - 1 = i
<1>4. K = Nat
  <2> HIDE DEF K
  <2> QED
    BY <1>2, <1>3, SetInduction, K \in SUBSET Nat DEF K
<1> QED
  BY <1>4

LEMMA ListedGrows ==
  ASSUME NEW rows
  PROVE  /\ Listed(rows, 0) = << >>
         /\ \A n \in Nat : Listed(rows, n + 1) = Longer(rows, n + 1, Listed(rows, n))
<1>1. \A n \in Nat : ListsTo(CHOOSE f : ListsTo(f, rows, n), rows, n)
  <2> SUFFICES ASSUME NEW n \in Nat PROVE ListsTo(CHOOSE f : ListsTo(f, rows, n), rows, n)
    OBVIOUS
  <2>1. \E f : ListsTo(f, rows, n)
    BY ListsExist
  <2> QED
    BY <2>1, Zenon
<1> DEFINE F(n) == CHOOSE f : ListsTo(f, rows, n)
<1>2. \A n \in Nat : ListsTo(F(n), rows, n) /\ Listed(rows, n) = F(n)[n]
  BY <1>1 DEF Listed
<1> HIDE DEF F
<1>3. Listed(rows, 0) = << >>
  BY <1>2, 0 \in 0 .. 0 DEF ListsTo
<1>4. ASSUME NEW n \in Nat
      PROVE  Listed(rows, n + 1) = Longer(rows, n + 1, Listed(rows, n))
  <2>1. F(n)[n] = F(n + 1)[n]
    BY <1>2, ListsAgree, n + 1 \in Nat, n <= n + 1
  <2>2. n + 1 \in 0 .. n + 1 /\ n + 1 # 0 /\ (n + 1) - 1 = n
    OBVIOUS
  <2>3. F(n + 1)[n + 1] = Longer(rows, n + 1, F(n + 1)[n])
    <3>1. ListsTo(F(n + 1), rows, n + 1)
      BY <1>2, n + 1 \in Nat
    <3> QED
      BY <2>2, <3>1 DEF ListsTo, Longer
  <2> QED
    BY <1>2, <2>1, <2>3
<1> QED
  BY <1>3, <1>4

\* With distinct ids, the list goes on with the row of the next id, if any.
LEMMA ListedNext ==
  ASSUME NEW rows, Distinct(rows), NEW n \in Nat
  PROVE  /\ \A r \in rows : r.id = n + 1 => Listed(rows, n + 1) = Append(Listed(rows, n), r)
         /\ (\A r \in rows : r.id # n + 1) => Listed(rows, n + 1) = Listed(rows, n)
<1>1. Listed(rows, n + 1) = Longer(rows, n + 1, Listed(rows, n))
  BY ListedGrows
<1>2. ASSUME NEW r \in rows, r.id = n + 1
      PROVE  Listed(rows, n + 1) = Append(Listed(rows, n), r)
  <2>1. (CHOOSE q \in rows : q.id = n + 1) = r
    BY <1>2 DEF Distinct
  <2> QED
    BY <1>1, <1>2, <2>1 DEF Longer
<1>3. (\A r \in rows : r.id # n + 1) => Listed(rows, n + 1) = Listed(rows, n)
  BY <1>1 DEF Longer
<1> QED
  BY <1>2, <1>3

-----------------------------------------------------------------------------
(* Statements of a transaction.                                             *)

LEMMA EffectRows ==
  ASSUME NEW d, NEW s
  PROVE  /\ \A n \in NodeIds : Effect(d, s).nodes[n] =
              IF n \in NodesWritten(d.nodes, s) THEN NodeAfter(d.nodes[n], s) ELSE d.nodes[n]
         /\ \A e \in EdgeIds : Effect(d, s).edges[e] =
              IF e \in EdgesWritten(d.edges, s) THEN EdgeAfter(d.edges[e], s) ELSE d.edges[e]
         /\ \A m \in NodeIds \X Models : Effect(d, s).embeddings[m] =
              IF m \in EmbeddingsWritten(s) THEN s.vector ELSE d.embeddings[m]
  BY DEF Effect, Write

\* A database is made of rows.
IsDb(d) ==
  d = [nodes |-> [n \in NodeIds |-> d.nodes[n]], edges |-> [e \in EdgeIds |-> d.edges[e]],
       embeddings |-> [m \in NodeIds \X Models |-> d.embeddings[m]]]

LEMMA EffectIsDb == \A d, s : IsDb(Effect(d, s))
  BY DEF IsDb, Effect, Write

LEMMA SameDb ==
  ASSUME NEW a, NEW b, IsDb(a), IsDb(b),
         \A n \in NodeIds : a.nodes[n] = b.nodes[n],
         \A e \in EdgeIds : a.edges[e] = b.edges[e],
         \A m \in NodeIds \X Models : a.embeddings[m] = b.embeddings[m]
  PROVE  a = b
<1>1. /\ [n \in NodeIds |-> a.nodes[n]] = [n \in NodeIds |-> b.nodes[n]]
      /\ [e \in EdgeIds |-> a.edges[e]] = [e \in EdgeIds |-> b.edges[e]]
      /\ [m \in NodeIds \X Models |-> a.embeddings[m]]
           = [m \in NodeIds \X Models |-> b.embeddings[m]]
  OBVIOUS
<1> QED
  BY <1>1, Zenon DEF IsDb

-----------------------------------------------------------------------------
(* Ids identify the rows of the log.                                        *)

LEMMA RowsDistinct ==
  ASSUME TypeOK, IdInv
  PROVE  /\ Distinct(log) /\ log \in SUBSET LogRow /\ \A r \in log : r.id \in 1 .. seq
         /\ \A c \in Clients : /\ Distinct(log \cup tx[c].rows)
                               /\ log \cup tx[c].rows \in SUBSET LogRow
                               /\ \A r \in log \cup tx[c].rows : r.id \in 1 .. seq
<1>1. \A c \in Clients : log \cup tx[c].rows \subseteq AllRows
  BY DEF AllRows
<1>2. log \subseteq AllRows
  BY DEF AllRows
<1>3. /\ log \in SUBSET LogRow /\ seq \in Nat
      /\ \A c \in Clients : log \cup tx[c].rows \in SUBSET LogRow
  BY DEF TypeOK, Tx
<1>4. \A r \in LogRow : r.id \in Nat \ {0}
  BY DEF LogRow
<1>5. /\ \A q, r \in AllRows : q.id = r.id => q = r
      /\ \A r \in AllRows : r.id <= seq
  BY DEF IdInv, LogIdsUnique
<1> QED
  BY <1>1, <1>2, <1>3, <1>4, <1>5 DEF Distinct

-----------------------------------------------------------------------------
(* Statements that no constraint refuses.                                   *)

Accepts(d, list) ==
  \A i \in 1 .. Len(list) : ~Rejected(After(d, SubSeq(list, 1, i - 1)), list[i])

LEMMA PrefixesJoined ==
  ASSUME NEW S, NEW a \in Seq(S), NEW b \in Seq(S)
  PROVE  /\ \A i \in 1 .. Len(a) : /\ SubSeq(a \o b, 1, i - 1) = SubSeq(a, 1, i - 1)
                                   /\ (a \o b)[i] = a[i]
         /\ \A i \in 1 .. Len(b) :
              /\ SubSeq(a \o b, 1, Len(a) + i - 1) = a \o SubSeq(b, 1, i - 1)
              /\ (a \o b)[Len(a) + i] = b[i]
         /\ Len(a \o b) = Len(a) + Len(b)
<1>1. ASSUME NEW i \in 1 .. Len(a)
      PROVE  SubSeq(a \o b, 1, i - 1) = SubSeq(a, 1, i - 1) /\ (a \o b)[i] = a[i]
  OBVIOUS
<1>2. ASSUME NEW i \in 1 .. Len(b)
      PROVE  /\ SubSeq(a \o b, 1, Len(a) + i - 1) = a \o SubSeq(b, 1, i - 1)
             /\ (a \o b)[Len(a) + i] = b[i]
  OBVIOUS
<1> QED
  BY <1>1, <1>2

LEMMA AcceptsJoined ==
  ASSUME NEW d, NEW S, NEW a \in Seq(S), NEW b \in Seq(S)
  PROVE  Accepts(d, a \o b) <=> Accepts(d, a) /\ Accepts(After(d, a), b)
<1>1. /\ \A i \in 1 .. Len(a) : /\ SubSeq(a \o b, 1, i - 1) = SubSeq(a, 1, i - 1)
                                /\ (a \o b)[i] = a[i]
      /\ \A i \in 1 .. Len(b) :
           /\ SubSeq(a \o b, 1, Len(a) + i - 1) = a \o SubSeq(b, 1, i - 1)
           /\ (a \o b)[Len(a) + i] = b[i]
      /\ Len(a \o b) = Len(a) + Len(b) /\ Len(a) \in Nat /\ Len(b) \in Nat
  BY PrefixesJoined
<1> DEFINE both == a \o b
           Fine(i) == ~Rejected(After(d, SubSeq(both, 1, i - 1)), both[i])
<1>2. ASSUME NEW i \in 1 .. Len(a)
      PROVE  Fine(i) <=> ~Rejected(After(d, SubSeq(a, 1, i - 1)), a[i])
  BY <1>1
<1>3. ASSUME NEW i \in 1 .. Len(b)
      PROVE  Fine(Len(a) + i) <=> ~Rejected(After(After(d, a), SubSeq(b, 1, i - 1)), b[i])
  <2>1. PICK part \in Seq(S) : part = SubSeq(b, 1, i - 1)
    <3>1. \A m, n \in Int : (\A j \in m .. n : j \in 1 .. Len(b)) => SubSeq(b, m, n) \in Seq(S)
      OBVIOUS
    <3>2. i - 1 \in Int /\ 1 \in Int /\ \A j \in 1 .. i - 1 : j \in 1 .. Len(b)
      BY <1>1
    <3> QED
      BY <3>1, <3>2
  <2>2. After(d, a \o part) = After(After(d, a), part)
    BY AfterJoined
  <2>3. SubSeq(both, 1, Len(a) + i - 1) = a \o part /\ both[Len(a) + i] = b[i]
    BY <1>1, <2>1
  <2>4. Fine(Len(a) + i) <=> ~Rejected(After(d, a \o part), b[i])
    <3>1. PICK j : j = Len(a) + i
      OBVIOUS
    <3>2. Fine(j) <=> ~Rejected(After(d, SubSeq(both, 1, j - 1)), both[j])
      BY DEF Fine
    <3> HIDE DEF both, Fine
    <3>3. j - 1 = Len(a) + i - 1
      BY <3>1
    <3>4. SubSeq(both, 1, j - 1) = a \o part
      BY <2>3, <3>3
    <3>5. both[j] = b[i]
      BY <2>3, <3>1
    <3> QED
      BY <3>1, <3>2, <3>4, <3>5
  <2> HIDE DEF Fine, both
  <2> QED
    BY <2>1, <2>2, <2>4
<1>4. (\A i \in 1 .. Len(a) + Len(b) : Fine(i))
        <=> (\A i \in 1 .. Len(a) : Fine(i)) /\ (\A i \in 1 .. Len(b) : Fine(Len(a) + i))
  <2> HIDE DEF Fine
  <2>1. ASSUME \A i \in 1 .. Len(a) + Len(b) : Fine(i)
        PROVE  (\A i \in 1 .. Len(a) : Fine(i)) /\ (\A i \in 1 .. Len(b) : Fine(Len(a) + i))
    <3>1. \A i \in 1 .. Len(a) : i \in 1 .. Len(a) + Len(b)
      BY <1>1
    <3>2. \A i \in 1 .. Len(b) : Len(a) + i \in 1 .. Len(a) + Len(b)
      BY <1>1
    <3> QED
      BY <2>1, <3>1, <3>2
  <2>2. ASSUME \A i \in 1 .. Len(a) : Fine(i), \A i \in 1 .. Len(b) : Fine(Len(a) + i),
               NEW i \in 1 .. Len(a) + Len(b)
        PROVE  Fine(i)
    <3>1. CASE i <= Len(a)
      BY <1>1, <2>2, <3>1
    <3>2. CASE i > Len(a)
      <4>1. i - Len(a) \in 1 .. Len(b) /\ Len(a) + (i - Len(a)) = i
        BY <1>1, <3>2
      <4>2. Fine(Len(a) + (i - Len(a)))
        BY <2>2, <4>1
      <4> QED
        BY <4>1, <4>2
    <3> QED
      BY <1>1, <3>1, <3>2
  <2> QED
    BY <2>1, <2>2
<1>5. Accepts(d, both) <=> \A i \in 1 .. Len(a) + Len(b) : Fine(i)
  BY <1>1 DEF Accepts
<1> HIDE DEF Fine
<1> QED
  BY <1>2, <1>3, <1>4, <1>5 DEF Accepts

LEMMA AcceptsNothing == ASSUME NEW d PROVE Accepts(d, << >>)
  BY Len(<< >>) = 0 DEF Accepts

LEMMA AcceptsOne == ASSUME NEW d, NEW s PROVE Accepts(d, <<s>>) <=> ~Rejected(d, s)
<1>1. Len(<<s>>) = 1 /\ <<s>>[1] = s /\ SubSeq(<<s>>, 1, 1 - 1) = << >>
  OBVIOUS
<1>2. PICK one : one = <<s>>
  OBVIOUS
<1>3. Accepts(d, one) <=> ~Rejected(After(d, SubSeq(one, 1, 1 - 1)), one[1])
  <2>1. \A i : i \in 1 .. Len(one) <=> i = 1
    BY <1>1, <1>2
  <2> QED
    BY <2>1 DEF Accepts
<1>4. After(d, SubSeq(one, 1, 1 - 1)) = d
  BY <1>1, <1>2, AfterNothing
<1> QED
  BY <1>1, <1>2, <1>3, <1>4

-----------------------------------------------------------------------------
(* The order of a listing.                                                  *)

\* list holds, in the order of their ids, the rows of set with ids up to n.
Lists(list, set, n) ==
  /\ list \in Seq(set)
  /\ \A i \in 1 .. Len(list) : list[i].id <= n
  /\ \A i, j \in 1 .. Len(list) : i < j => list[i].id < list[j].id
  /\ \A r \in set : r.id <= n => \E i \in 1 .. Len(list) : list[i] = r

LEMMA ListedLists ==
  ASSUME NEW rows \in SUBSET LogRow, Distinct(rows)
  PROVE  \A n \in Nat : Lists(Listed(rows, n), rows, n)
<1> DEFINE K == {n \in Nat : Lists(Listed(rows, n), rows, n)}
<1>0. \A r \in rows : r.id \in Nat \ {0}
  BY DEF LogRow
<1>1. 0 \in K
  <2>1. PICK list : list = << >> /\ Listed(rows, 0) = list
    BY ListedGrows
  <2>2. list \in Seq(rows) /\ \A i : i \notin 1 .. Len(list)
    BY <2>1
  <2>3. \A r \in rows : ~ (r.id <= 0)
    BY <1>0
  <2>4. Lists(list, rows, 0)
    BY <2>2, <2>3 DEF Lists
  <2> QED
    BY <2>1, <2>4
<1>2. ASSUME NEW n \in K PROVE n + 1 \in K
  <2> DEFINE list == Listed(rows, n)
             more == Listed(rows, n + 1)
  <2>1. n \in Nat /\ Lists(list, rows, n)
    BY <1>2
  <2>2. CASE \E r \in rows : r.id = n + 1
    <3>1. PICK r \in rows : r.id = n + 1
      BY <2>2
    <3>2. more = Append(list, r)
      BY <2>1, <3>1, ListedNext
    <3> HIDE DEF list, more
    <3>3. /\ Len(more) = Len(list) + 1 /\ Len(list) \in Nat /\ more \in Seq(rows)
          /\ \A i \in 1 .. Len(list) : more[i] = list[i] /\ list[i] \in rows
          /\ more[Len(list) + 1] = r
      BY <2>1, <3>2 DEF Lists
    <3>4. \A i \in 1 .. Len(more) : i \in 1 .. Len(list) \/ i = Len(list) + 1
      BY <3>3
    <3>5. ASSUME NEW i \in 1 .. Len(more) PROVE more[i].id <= n + 1
      <4>1. CASE i \in 1 .. Len(list)
        <5>1. more[i].id <= n /\ more[i].id \in Nat
          BY <1>0, <2>1, <3>3, <4>1 DEF Lists
        <5> QED
          BY <2>1, <5>1
      <4>2. CASE i = Len(list) + 1
        BY <2>1, <3>1, <3>3, <4>2
      <4> QED
        BY <3>4, <4>1, <4>2
    <3>6. \A i, j \in 1 .. Len(more) : i < j => more[i].id < more[j].id
      <4> SUFFICES ASSUME NEW i \in 1 .. Len(more), NEW j \in 1 .. Len(more), i < j
                   PROVE  more[i].id < more[j].id
        OBVIOUS
      <4>1. i \in 1 .. Len(list) /\ more[i] = list[i] /\ list[i].id <= n
        BY <2>1, <3>3 DEF Lists
      <4>2. CASE j \in 1 .. Len(list)
        BY <2>1, <3>3, <4>1, <4>2 DEF Lists
      <4>3. CASE j = Len(list) + 1
        <5>1. list[i].id \in Nat
          BY <1>0, <3>3, <4>1
        <5> QED
          BY <2>1, <3>1, <3>3, <4>1, <4>3, <5>1
      <4> QED
        BY <3>4, <4>2, <4>3
    <3>7. ASSUME NEW q \in rows, q.id <= n + 1 PROVE \E i \in 1 .. Len(more) : more[i] = q
      <4>1. CASE q.id <= n
        <5>1. PICK i \in 1 .. Len(list) : list[i] = q
          BY <2>1, <4>1 DEF Lists
        <5>2. i \in 1 .. Len(more) /\ more[i] = q
          BY <3>3, <5>1
        <5> QED
          BY <5>2
      <4>2. CASE q.id > n
        <5>1. q = r
          BY <1>0, <2>1, <3>1, <3>7, <4>2 DEF Distinct
        <5> QED
          BY <3>3, <5>1
      <4> QED
        BY <1>0, <2>1, <4>1, <4>2
    <3>8. Lists(more, rows, n + 1)
      BY <3>3, <3>5, <3>6, <3>7 DEF Lists
    <3> QED
      BY <2>1, <3>8 DEF more
  <2>3. CASE \A r \in rows : r.id # n + 1
    <3>1. more = list
      BY <2>1, <2>3, ListedNext
    <3> HIDE DEF list, more
    <3>2. \A r \in rows : r.id <= n + 1 => r.id <= n
      BY <1>0, <2>1, <2>3
    <3>3. \A i \in 1 .. Len(list) : list[i].id <= n + 1
      <4> SUFFICES ASSUME NEW i \in 1 .. Len(list) PROVE list[i].id <= n + 1
        OBVIOUS
      <4>1. list[i].id <= n /\ list[i] \in rows
        BY <2>1 DEF Lists
      <4>2. list[i].id \in Nat
        BY <1>0, <4>1
      <4> QED
        BY <2>1, <4>1, <4>2
    <3> QED
      BY <2>1, <3>1, <3>2, <3>3 DEF Lists, more
  <2> QED
    BY <2>2, <2>3
<1>3. K = Nat
  <2> HIDE DEF K
  <2> QED
    BY <1>1, <1>2, SetInduction, K \in SUBSET Nat DEF K
<1> QED
  BY <1>3

-----------------------------------------------------------------------------
(* The pages of a follower.                                                 *)

LEMMA FirstOnes ==
  ASSUME NEW S, NEW list \in Seq(S), NEW k \in 0 .. Len(list)
  PROVE  /\ SubSeq(list, 1, k) \in Seq(S) /\ Len(SubSeq(list, 1, k)) = k
         /\ \A i \in 1 .. k : SubSeq(list, 1, k)[i] = list[i] /\ i \in 1 .. Len(list)
<1>1. k \in Int /\ 1 \in Int /\ \A j \in 1 .. k : j \in 1 .. Len(list)
  OBVIOUS
<1>2. SubSeq(list, 1, k) \in Seq(S)
  BY <1>1
<1>3. Len(SubSeq(list, 1, k)) = k
  OBVIOUS
<1>4. \A i \in 1 .. k : SubSeq(list, 1, k)[i] = list[i]
  OBVIOUS
<1> QED
  BY <1>1, <1>2, <1>3, <1>4

\* The page a follower gets.
LEMMA ExportedRows ==
  ASSUME TypeOK, IdInv, ReplicationAssumption, NEW limit \in PageLimits, cursor \in Nat,
         page' = SubSeq(RowsAfter(cursor), 1, Min({limit, MaxEventsExport, Len(RowsAfter(cursor))}))
  PROVE  /\ page' \in Seq({r \in log : r.id > cursor /\ Selected(r)})
         /\ \A i, j \in 1 .. Len(page') : i < j => page'[i].id < page'[j].id
         /\ \A r \in log : Selected(r) /\ r.id > cursor =>
              \A i \in 1 .. Len(page') :
                r.id <= page'[i].id => \E j \in 1 .. i : page'[j] = r
<1> DEFINE set == {r \in log : r.id > cursor /\ Selected(r)}
           list == RowsAfter(cursor)
           size == Min({limit, MaxEventsExport, Len(list)})
<1>1. /\ Distinct(log) /\ log \in SUBSET LogRow /\ \A r \in log : r.id \in 1 .. seq
      /\ seq \in Nat
  BY RowsDistinct DEF TypeOK
<1>2. Distinct(set) /\ set \in SUBSET LogRow /\ set \subseteq log
  BY <1>1 DEF Distinct
<1>3. Lists(list, set, seq)
  <2>1. list = Listed(set, seq)
    BY InIdOrderIsListed DEF RowsAfter
  <2> HIDE DEF set, list
  <2> QED
    BY <1>1, <1>2, <2>1, ListedLists
<1>4. size \in 0 .. Len(list)
  <2>1. limit \in Nat /\ MaxEventsExport \in Nat /\ Len(list) \in Nat
    BY <1>3 DEF ReplicationAssumption, Lists
  <2> HIDE DEF list
  <2>2. PICK few : few = {limit, MaxEventsExport, Len(list)}
    OBVIOUS
  <2>3. \E x \in few : \A y \in few : x <= y
    BY <2>1, <2>2
  <2>4. Min(few) \in few /\ \A y \in few : Min(few) <= y
    BY <2>3 DEF Min
  <2> QED
    BY <2>1, <2>2, <2>4
<1>5. PICK new : new = page' /\ new = SubSeq(list, 1, size)
  OBVIOUS
<1>6. \A r \in set : r \in log /\ r.id \in Nat
  BY <1>1, <1>2
<1> HIDE DEF size, list
<1>7. /\ new \in Seq(set) /\ Len(new) = size
      /\ \A i \in 1 .. size : new[i] = list[i] /\ i \in 1 .. Len(list)
  <2> HIDE DEF set
  <2>1. list \in Seq(set)
    BY <1>3 DEF Lists
  <2>2. /\ SubSeq(list, 1, size) \in Seq(set) /\ Len(SubSeq(list, 1, size)) = size
        /\ \A i \in 1 .. size : SubSeq(list, 1, size)[i] = list[i] /\ i \in 1 .. Len(list)
    BY <1>4, <2>1, FirstOnes
  <2> QED
    BY <1>5, <2>2, Zenon
<1>8. \A i, j \in 1 .. Len(new) : i < j => new[i].id < new[j].id
  BY <1>3, <1>7 DEF Lists
<1>9. ASSUME NEW r \in set, NEW i \in 1 .. Len(new), r.id <= new[i].id
      PROVE  \E j \in 1 .. i : new[j] = r
  <2>1. r.id <= seq /\ i \in 1 .. size /\ size \in Nat
    BY <1>1, <1>2, <1>4, <1>7, <1>9
  <2>2. PICK j \in 1 .. Len(list) : list[j] = r
    BY <1>3, <2>1 DEF Lists
  <2>3. j <= i
    <3>1. i < j => list[i].id < list[j].id
      BY <1>3, <1>7, <2>1 DEF Lists
    <3>2. list[i] = new[i] /\ new[i] \in set
      <4> HIDE DEF set
      <4> QED
        BY <1>7, <2>1
    <3>3. ~ (list[i].id < list[j].id)
      <4>1. r.id \in Nat /\ new[i].id \in Nat
        BY <1>6, <3>2
      <4> QED
        BY <1>9, <2>2, <3>2, <4>1
    <3> QED
      BY <1>3, <2>1, <3>1, <3>3 DEF Lists
  <2>4. j \in 1 .. i /\ new[j] = r
    <3>1. j \in Nat /\ i \in Nat /\ 1 <= j /\ i <= size
      BY <1>4, <2>1, <2>2
    <3>2. j \in 1 .. size
      BY <2>1, <2>3, <3>1
    <3> QED
      BY <1>7, <2>2, <2>3, <3>1, <3>2
  <2> QED
    BY <2>4
<1> QED
  <2>1. \A r \in log : Selected(r) /\ r.id > cursor =>
          \A i \in 1 .. Len(new) : r.id <= new[i].id => \E j \in 1 .. i : new[j] = r
    <3> SUFFICES ASSUME NEW r \in log, Selected(r) /\ r.id > cursor,
                        NEW i \in 1 .. Len(new), r.id <= new[i].id
                 PROVE  \E j \in 1 .. i : new[j] = r
      OBVIOUS
    <3>1. r \in set
      OBVIOUS
    <3> HIDE DEF set
    <3> QED
      BY <1>9, <3>1
  <2> QED
    BY <1>5, <1>7, <1>8, <2>1, Zenon

\* The pages follow each other in the order of ids: up to the cursor, and up to
\* each row of the page, every row that is selected is imported or overtaken or
\* comes before it in the page, the rows that are not committed yet included.
PageInv ==
  /\ cursor = 0 \/ \E q \in log : q.id = cursor
  /\ page \in Seq(log)
  /\ \A i, j \in 1 .. Len(page) : i < j => page[i].id < page[j].id
  /\ \A r \in AllRows : Selected(r) =>
       /\ r.id <= cursor => r \in imported \cup overtaken
       /\ \A i \in 1 .. Len(page) : r.id <= page[i].id =>
            r \in imported \cup overtaken \/ \E j \in 1 .. i : page[j] = r

\* A row that the source draws an id for comes after all that there is.
LEMMA NewRowsAreLate ==
  ASSUME TypeOK, [Next]_vars
  PROVE  log \subseteq log' /\ \A r \in AllRows' \ AllRows : r.id = seq + 1
<1>0. CASE UNCHANGED vars
  BY <1>0 DEF vars, AllRows
<1>1. ASSUME NEW c \in Clients, log' = log, tx'[c].rows \subseteq tx[c].rows,
             \A d \in Clients \ {c} : tx'[d] = tx[d]
      PROVE  log \subseteq log' /\ AllRows' \subseteq AllRows
  BY <1>1 DEF AllRows
<1>2. ASSUME NEW c \in Clients, Gathers(c) \/ Clears(c)
      PROVE  log \subseteq log' /\ AllRows' \subseteq AllRows
  BY <1>1, <1>2 DEF Gathers, Clears
<1>3. ASSUME NEW c \in Clients, InsertEvent(c)
      PROVE  log \subseteq log' /\ \A r \in AllRows' \ AllRows : r.id = seq + 1
  <2>1. PICK row : /\ row.id = seq + 1
                   /\ log' = log /\ \A d \in Clients \ {c} : tx'[d] = tx[d]
                   /\ tx'[c].rows = tx[c].rows \cup {row}
    BY <1>3, InsertData
  <2>2. AllRows' \subseteq AllRows \cup {row}
    BY <2>1 DEF AllRows
  <2> QED
    BY <2>1, <2>2
<1>4. ASSUME NEW c \in Clients, Scan(c) PROVE log \subseteq log' /\ AllRows' \subseteq AllRows
  BY <1>1, <1>4, ScanData, ScanChanges
<1>5. ASSUME NEW c \in Clients, Execute(c) PROVE log \subseteq log' /\ AllRows' \subseteq AllRows
  BY <1>1, <1>5, ExecuteTodo DEF Execute
<1>6. ASSUME NEW c \in Clients, Commit(c) PROVE log \subseteq log' /\ AllRows' \subseteq AllRows
  <2>1. /\ log' = log \cup tx[c].rows /\ tx'[c].rows = {}
        /\ \A d \in Clients \ {c} : tx'[d] = tx[d]
    BY <1>6 DEF Commit, TypeOK, Idle
  <2> QED
    BY <2>1 DEF AllRows
<1> QED
  BY <1>0, <1>2, <1>3, <1>4, <1>5, <1>6, Steps

LEMMA SourcePages ==
  ASSUME TypeOK, IdInv, PageInv, [Next]_vars, UNCHANGED replicaVars
  PROVE  PageInv'
<1>1. log \subseteq log' /\ \A r \in AllRows' \ AllRows : r.id = seq + 1
  BY NewRowsAreLate
<1>2. cursor' = cursor /\ page' = page /\ imported' = imported /\ overtaken' = overtaken
  BY DEF replicaVars
<1>3. /\ page \in Seq(log') /\ \A i \in 1 .. Len(page) : page[i] \in log
      /\ cursor = 0 \/ \E q \in log' : q.id = cursor
  BY <1>1 DEF PageInv
<1>4. seq \in Nat /\ \A q \in log : q.id \in Nat /\ q.id <= seq
  BY RowsDistinct DEF TypeOK
<1>5. cursor <= seq /\ cursor \in Nat
  BY <1>4 DEF PageInv
<1>6. ASSUME NEW r \in AllRows', Selected(r)
      PROVE  /\ r.id <= cursor => r \in imported \cup overtaken
             /\ \A i \in 1 .. Len(page) : r.id <= page[i].id =>
                  r \in imported \cup overtaken \/ \E j \in 1 .. i : page[j] = r
  <2>1. CASE r \in AllRows
    BY <1>6, <2>1 DEF PageInv
  <2>2. CASE r \notin AllRows
    <3>1. r.id = seq + 1
      BY <1>1, <2>2
    <3>2. ~ (r.id <= cursor) /\ \A i \in 1 .. Len(page) : ~ (r.id <= page[i].id)
      BY <1>3, <1>4, <1>5, <3>1
    <3> QED
      BY <3>2
  <2> QED
    BY <2>1, <2>2
<1> QED
  BY <1>2, <1>3, <1>6 DEF PageInv, Selected

LEMMA ExportPages ==
  ASSUME TypeOK, IdInv, PageInv, ReplicationAssumption, Export
  PROVE  PageInv'
<1>0. /\ \A r \in AllRows : r.id \in Nat
      /\ cursor \in Nat
  <2>1. \A r \in AllRows : r \in LogRow
    BY DEF AllRows, TypeOK, Tx
  <2>2. \A r \in AllRows : r.id \in Nat
    BY <2>1 DEF LogRow
  <2>3. log \subseteq AllRows
    BY DEF AllRows
  <2> QED
    BY <2>2, <2>3 DEF PageInv
<1>1. /\ AllRows' = AllRows /\ log' = log /\ cursor' = cursor /\ imported' = imported
      /\ overtaken' = overtaken \cup Overtakes(page')
      /\ \E limit \in PageLimits :
           page' = SubSeq(RowsAfter(cursor), 1,
                          Min({limit, MaxEventsExport, Len(RowsAfter(cursor))}))
  BY DEF Export, vars, AllRows
<1>2. /\ page' \in Seq({r \in log : r.id > cursor /\ Selected(r)})
      /\ \A i, j \in 1 .. Len(page') : i < j => page'[i].id < page'[j].id
      /\ \A r \in log : Selected(r) /\ r.id > cursor =>
           \A i \in 1 .. Len(page') :
             r.id <= page'[i].id => \E j \in 1 .. i : page'[j] = r
  BY <1>0, <1>1, ExportedRows
<1>3. page' \in Seq(log)
  BY <1>2
<1>4. ASSUME NEW r \in AllRows, Selected(r), r.id > cursor, r \notin log,
             NEW i \in 1 .. Len(page'), r.id <= page'[i].id
      PROVE  r \in Overtakes(page')
  <2>1. r \in InFlight
    BY <1>4 DEF AllRows, InFlight
  <2>2. /\ page' # << >> /\ Last(page') = page'[Len(page')] /\ Len(page') \in 1 .. Len(page')
        /\ page'[i] \in log /\ page'[Len(page')] \in log
    BY <1>3, <1>4 DEF Last
  <2>3. page'[i] \in AllRows /\ page'[Len(page')] \in AllRows
    BY <2>2 DEF AllRows
  <2>4. r.id # page'[i].id
    BY <1>4, <2>2, <2>3 DEF IdInv, LogIdsUnique
  <2>5. page'[i].id <= page'[Len(page')].id
    <3>1. i = Len(page') \/ i < Len(page')
      BY <1>3
    <3> QED
      BY <1>0, <1>2, <2>2, <2>3, <3>1
  <2>6. r.id < Last(page').id
    BY <1>0, <1>4, <2>2, <2>3, <2>4, <2>5
  <2> QED
    BY <2>1, <2>2, <2>6 DEF Overtakes
<1>5. ASSUME NEW r \in AllRows, Selected(r)
      PROVE  /\ r.id <= cursor => r \in imported \cup overtaken'
             /\ \A i \in 1 .. Len(page') : r.id <= page'[i].id =>
                  r \in imported \cup overtaken' \/ \E j \in 1 .. i : page'[j] = r
  <2>1. r.id <= cursor => r \in imported \cup overtaken'
    BY <1>1, <1>5 DEF PageInv
  <2>2. r.id <= cursor \/ r.id > cursor
    BY <1>0
  <2> QED
    BY <1>1, <1>2, <1>4, <1>5, <2>1, <2>2
<1>6. cursor = 0 \/ \E q \in log : q.id = cursor
  BY DEF PageInv
<1> QED
  BY <1>1, <1>2, <1>3, <1>5, <1>6 DEF PageInv, Selected

LEMMA ImportPages ==
  ASSUME TypeOK, PageInv, ImportEvent
  PROVE  PageInv'
<1> DEFINE row == Head(page)
           rest == Tail(page)
<1>1. /\ AllRows' = AllRows /\ log' = log /\ page # << >> /\ page' = rest
      /\ imported' = imported \cup {row} /\ overtaken' = overtaken
      /\ cursor' = IF rest = << >> THEN row.id ELSE cursor
  BY DEF ImportEvent, vars, AllRows
<1>2. /\ row \in log /\ row = page[1] /\ rest \in Seq(log) /\ Len(page) \in Nat
      /\ Len(rest) = Len(page) - 1 /\ 1 \in 1 .. Len(page)
      /\ \A i \in 1 .. Len(rest) : i + 1 \in 1 .. Len(page) /\ rest[i] = page[i + 1]
  BY <1>1 DEF PageInv
<1> HIDE DEF row, rest
<1>3. \A i, j \in 1 .. Len(rest) : i < j => rest[i].id < rest[j].id
  <2> SUFFICES ASSUME NEW i \in 1 .. Len(rest), NEW j \in 1 .. Len(rest), i < j
               PROVE  rest[i].id < rest[j].id
    OBVIOUS
  <2>1. /\ i + 1 \in 1 .. Len(page) /\ j + 1 \in 1 .. Len(page) /\ i + 1 < j + 1
        /\ rest[i] = page[i + 1] /\ rest[j] = page[j + 1]
    BY <1>2
  <2> QED
    BY <2>1 DEF PageInv
<1> DEFINE done == imported' \cup overtaken'
<1>d. imported \cup overtaken \subseteq done /\ row \in done
  BY <1>1
<1> HIDE DEF done
<1>4. ASSUME NEW r \in AllRows, Selected(r), NEW i \in 1 .. Len(rest), r.id <= rest[i].id
      PROVE  r \in done \/ \E j \in 1 .. i : rest[j] = r
  <2>1. i + 1 \in 1 .. Len(page) /\ r.id <= page[i + 1].id
    BY <1>2, <1>4
  <2>2. r \in imported \cup overtaken \/ \E j \in 1 .. i + 1 : page[j] = r
    BY <1>4, <2>1 DEF PageInv
  <2>3. ASSUME NEW j \in 1 .. i + 1, page[j] = r
        PROVE  r = row \/ \E k \in 1 .. i : rest[k] = r
    <3>1. CASE j = 1
      BY <1>2, <2>3, <3>1
    <3>2. CASE j # 1
      <4>1. j - 1 \in 1 .. i /\ j - 1 \in 1 .. Len(rest) /\ (j - 1) + 1 = j
        BY <1>2, <3>2
      <4>2. rest[j - 1] = page[(j - 1) + 1]
        BY <1>2, <4>1
      <4> QED
        BY <2>3, <4>1, <4>2
    <3> QED
      BY <3>1, <3>2
  <2> QED
    BY <1>d, <2>2, <2>3
<1>5. ASSUME NEW r \in AllRows, Selected(r), r.id <= cursor' PROVE r \in done
  <2>1. CASE rest # << >>
    BY <1>1, <1>5, <1>d, <2>1 DEF PageInv
  <2>2. CASE rest = << >>
    <3>1. r.id <= page[1].id
      BY <1>1, <1>2, <1>5, <2>2
    <3>2. r \in imported \cup overtaken \/ \E j \in 1 .. 1 : page[j] = r
      BY <1>2, <1>5, <3>1 DEF PageInv
    <3>3. \A j \in 1 .. 1 : j = 1
      OBVIOUS
    <3> QED
      BY <1>2, <1>d, <3>2, <3>3
  <2> QED
    BY <2>1, <2>2
<1>6. cursor' = 0 \/ \E q \in log : q.id = cursor'
  BY <1>1, <1>2 DEF PageInv
<1> QED
  BY <1>1, <1>2, <1>3, <1>4, <1>5, <1>6 DEF PageInv, Selected, done

\* A page that is given up leaves the cursor where it is.
LEMMA PageDropped ==
  ASSUME PageInv, UNCHANGED <<vars, cursor, imported, overtaken>>, page' = << >>
  PROVE  PageInv'
<1>1. page' \in Seq(log) /\ \A i : i \notin 1 .. Len(page')
  OBVIOUS
<1>2. AllRows' = AllRows /\ log' = log
  BY DEF vars, AllRows
<1> QED
  BY <1>1, <1>2 DEF PageInv, Selected

LEMMA OriginMoves == [ReplicaNext]_allVars => [Next]_vars
<1>1. CASE Next
  BY <1>1
<1>2. CASE Export \/ ImportEvent \/ ImportRefused \/ Interrupt
  BY <1>2 DEF Export, ImportEvent, ImportRefused, Interrupt
<1>3. CASE UNCHANGED allVars
  BY <1>3 DEF allVars
<1> QED
  BY <1>1, <1>2, <1>3 DEF ReplicaNext

LEMMA PageStep ==
  ASSUME TypeOK, IdInv, PageInv, ReplicationAssumption, [ReplicaNext]_allVars
  PROVE  PageInv'
<1>1. CASE Next /\ UNCHANGED replicaVars
  BY <1>1, SourcePages
<1>2. CASE Export
  BY <1>2, ExportPages
<1>3. CASE ImportEvent
  BY <1>3, ImportPages
<1>4. CASE ImportRefused
  BY <1>4, PageDropped DEF ImportRefused
<1>5. CASE Interrupt
  BY <1>5, PageDropped DEF Interrupt
<1>6. CASE UNCHANGED allVars
  BY <1>6, SourcePages DEF allVars
<1> QED
  BY <1>1, <1>2, <1>3, <1>4, <1>5, <1>6 DEF ReplicaNext

\* Of the committed events up to its cursor a follower has imported all but those
\* an export has overtaken, whatever transactions of the source overlap, and
\* however often its imports are refused or cut off.
THEOREM CursorSkipsOvertakenOnly == ReplicaSpec => []OnlyOvertakenAreSkipped
<1>1. ReplicaInit => TypeOK /\ IdInv /\ PageInv
  <2> SUFFICES ASSUME ReplicaInit PROVE TypeOK /\ IdInv /\ PageInv
    OBVIOUS
  <2>1. /\ Init /\ page = << >> /\ cursor = 0 /\ log = {}
        /\ \A c \in Clients : tx[c].rows = {}
    BY DEF ReplicaInit, Init, Idle
  <2>2. AllRows = {}
    BY <2>1 DEF AllRows
  <2>3. page \in Seq(log) /\ \A i : i \notin 1 .. Len(page)
    BY <2>1
  <2>4. IdInv
    BY <2>1, <2>2 DEF IdInv, LogIdsUnique
  <2> QED
    BY <2>1, <2>2, <2>3, <2>4, TypeInit DEF PageInv
<1>2. /\ TypeOK /\ IdInv /\ PageInv
      /\ [ReplicaNext]_allVars
      => (TypeOK /\ IdInv /\ PageInv)'
  BY OriginMoves, TypeStep, IdStep, PageStep, ReplicationAssumption
<1>3. PageInv => OnlyOvertakenAreSkipped
  BY DEF PageInv, OnlyOvertakenAreSkipped, AllRows
<1> QED
  BY <1>1, <1>2, <1>3, PTL DEF ReplicaSpec

-----------------------------------------------------------------------------
(* The statements of SerialStore are those of EventStore.                   *)

LEMMA SameEffect == ASSUME NEW d, NEW s PROVE Serial!Effect(d, s) = Effect(d, s)
<1>1. Serial!NodesWritten(d.nodes, s) = NodesWritten(d.nodes, s)
  BY DEF Serial!NodesWritten, NodesWritten, Serial!KeyHolders, KeyHolders
<1>2. Serial!EdgesWritten(d.edges, s) = EdgesWritten(d.edges, s)
  BY DEF Serial!EdgesWritten, EdgesWritten, Serial!Remapped, Remapped
<1>3. Serial!EmbeddingsWritten(s) = EmbeddingsWritten(s)
  BY DEF Serial!EmbeddingsWritten, EmbeddingsWritten
<1>4. ASSUME NEW x PROVE Serial!NodeAfter(x, s) = NodeAfter(x, s)
  BY Zenon DEF Serial!NodeAfter, NodeAfter, Patched, Serial!Patched
<1>5. ASSUME NEW x PROVE Serial!EdgeAfter(x, s) = EdgeAfter(x, s)
  BY Zenon DEF Serial!EdgeAfter, EdgeAfter, Patched, Serial!Patched
<1> QED
  BY <1>1, <1>2, <1>3, <1>4, <1>5 DEF Serial!Effect, Effect, Serial!Write, Write

LEMMA SameRun == ASSUME NEW d, NEW list PROVE Serial!Run(d, list) = After(d, list)
<1>1. Serial!Run(d, list) = Serial!FoldLeft(Serial!Effect, d, list)
  BY Zenon DEF Serial!Run
<1>2. Serial!FoldLeft(Serial!Effect, d, list) = FoldLeft(Effect, d, list)
  BY SameEffect DEF FoldLeft, MapThenFoldSet, Serial!FoldLeft, Serial!MapThenFoldSet,
                    Max, Serial!Max
<1> QED
  BY <1>1, <1>2 DEF After

LEMMA SameAccepted ==
  ASSUME NEW d, NEW S, NEW list \in Seq(S)
  PROVE  Serial!Accepted(d, list) <=> Accepts(d, list)
<1>1. ASSUME NEW base, NEW s PROVE Serial!Rejected(base, s) <=> Rejected(base, s)
  <2>1. Serial!KeyHolders(base.nodes, s) = KeyHolders(base.nodes, s)
    BY DEF Serial!KeyHolders, KeyHolders
  <2>2. Serial!EdgesWritten(base.edges, s) = EdgesWritten(base.edges, s)
    BY DEF Serial!EdgesWritten, EdgesWritten, Serial!Remapped, Remapped
  <2> QED
    BY <2>1, <2>2 DEF Serial!Rejected, Rejected
<1>2. DOMAIN list = 1 .. Len(list)
  OBVIOUS
<1> QED
  BY <1>1, <1>2, SameRun, Zenon DEF Serial!Accepted, Accepts

-----------------------------------------------------------------------------
(* Events of a single statement.                                            *)

\* A projection of a single statement.
Plain == {s \in Event : s.type # "NODES_MERGED"}

NodePlain == NodeCreated \cup NodeUpdated \cup NodeRetracted

EdgePlain == EdgeAdded \cup EdgeUpdated \cup EdgeRetracted

LEMMA PlainKinds ==
  ASSUME NEW s \in Plain
  PROVE  /\ s.type \in {"NODE_CREATED", "NODE_UPDATED", "NODE_RETRACTED"} => s \in NodePlain
         /\ s.type \in {"EDGE_ADDED", "EDGE_UPDATED", "EDGE_RETRACTED"} => s \in EdgePlain
         /\ s.type = "NODE_CREATED" => s \in NodeCreated
         /\ s.type = "EDGE_ADDED" => s \in EdgeAdded
         /\ s.type \notin {"REMAP_SOURCE", "REMAP_TARGET", "MOVE_SOURCE", "MOVE_TARGET"}
  BY DEF Plain, Event, NodePlain, EdgePlain, NodeCreated, NodeUpdated, NodeRetracted,
         EdgeAdded, EdgeUpdated, EdgeRetracted, EmbeddingStored, RawInputReceived, NodesMerged

-----------------------------------------------------------------------------
(* Calls that take effect at one instant.                                   *)

\* The statements of a batch in a transaction that began at the instant now.
Planned(list, now) == FlattenSeq([i \in DOMAIN list |-> Statements(At(list[i], now))])

LEMMA SamePlan ==
  ASSUME NEW list, NEW now
  PROVE  Serial!BatchStatements(list, now) = Planned(list, now)
<1>0. ASSUME NEW event PROVE Serial!At(event, now) = At(event, now)
  BY DEF Serial!At, At
<1>1. ASSUME NEW event PROVE Serial!Statements(event) = Statements(event)
  BY DEF Serial!Statements, Statements
<1>2. ASSUME NEW lists PROVE Serial!FlattenSeq(lists) = FlattenSeq(lists)
  BY Zenon DEF Serial!FlattenSeq, FlattenSeq
<1> QED
  BY <1>0, <1>1, <1>2 DEF Serial!BatchStatements, Planned

LEMMA PlanOfNone == ASSUME NEW now PROVE Planned(<< >>, now) = << >>
<1>1. [i \in DOMAIN << >> |-> Statements(At(<< >>[i], now))] = << >>
  OBVIOUS
<1> QED
  BY <1>1, FlattenNothing DEF Planned

LEMMA PlanMore ==
  ASSUME NEW list \in Seq(Event), NEW event \in Event, NEW now \in Times
  PROVE  /\ Planned(list, now) \in Seq(Statement)
         /\ Planned(Append(list, event), now)
              = Planned(list, now) \o Statements(At(event, now))
<1> DEFINE Runs(of) == [i \in DOMAIN of |-> Statements(At(of[i], now))]
           last == Statements(At(event, now))
<1>0. ASSUME NEW x \in Event PROVE Statements(At(x, now)) \in Seq(Statement)
  BY AtType, StatementsType
<1>1. \A of \in Seq(Event) : Runs(of) \in Seq(Seq(Statement))
  <2> SUFFICES ASSUME NEW of \in Seq(Event) PROVE Runs(of) \in Seq(Seq(Statement))
    OBVIOUS
  <2>1. DOMAIN of = 1 .. Len(of) /\ Len(of) \in Nat /\ \A i \in DOMAIN of : of[i] \in Event
    OBVIOUS
  <2> QED
    BY <2>1, <1>0
<1>2. last \in Seq(Statement)
  BY <1>0
<1>3. Runs(Append(list, event)) = Append(Runs(list), last)
  OBVIOUS
<1> HIDE DEF Runs, last
<1>4. FlattenSeq(Runs(list)) \in Seq(Statement)
  BY <1>1, FlattenType
<1>5. FlattenSeq(Append(Runs(list), last)) = FlattenSeq(Runs(list)) \o last
  BY <1>1, <1>2, FlattenMore
<1> QED
  BY <1>3, <1>4, <1>5 DEF Planned, Runs, last

-----------------------------------------------------------------------------
(* A statement in two databases.                                            *)

\* s is about rows of ids.
Refers(s, ids) ==
  /\ s.type \in {"NODE_CREATED", "NODE_UPDATED", "NODE_RETRACTED",
                 "EDGE_ADDED", "EDGE_UPDATED", "EDGE_RETRACTED"} => s.id \in ids
  /\ s.type = "EDGE_ADDED" => s.source \in ids /\ s.target \in ids
  /\ s.type = "EMBEDDING_STORED" => s.node \in ids

\* Of ids, a and b have the same rows.
SameRows(a, b, ids) ==
  /\ \A n \in NodeIds \cap ids : a.nodes[n] = NoRow <=> b.nodes[n] = NoRow
  /\ \A e \in EdgeIds \cap ids : a.edges[e] = NoRow <=> b.edges[e] = NoRow

LEMMA SameWrites ==
  ASSUME NEW s \in Plain, NEW a, NEW b, NEW ids, Refers(s, ids), SameRows(a, b, ids),
         s.type = "NODE_CREATED" => KeyHolders(a.nodes, s) = KeyHolders(b.nodes, s)
  PROVE  /\ NodesWritten(a.nodes, s) = NodesWritten(b.nodes, s)
         /\ EdgesWritten(a.edges, s) = EdgesWritten(b.edges, s)
         /\ Rejected(a, s) <=> Rejected(b, s)
<1>1. /\ s.type \in {"NODE_CREATED", "NODE_UPDATED", "NODE_RETRACTED"} =>
           s.id \in NodeIds /\ (a.nodes[s.id] = NoRow <=> b.nodes[s.id] = NoRow)
      /\ s.type \in {"EDGE_ADDED", "EDGE_UPDATED", "EDGE_RETRACTED"} =>
           s.id \in EdgeIds /\ (a.edges[s.id] = NoRow <=> b.edges[s.id] = NoRow)
  BY PlainKinds DEF Refers, SameRows, NodePlain, EdgePlain, NodeCreated, NodeUpdated,
                    NodeRetracted, EdgeAdded, EdgeUpdated, EdgeRetracted
<1>2. /\ s.type = "EDGE_ADDED" => /\ a.nodes[s.source] = NoRow <=> b.nodes[s.source] = NoRow
                                  /\ a.nodes[s.target] = NoRow <=> b.nodes[s.target] = NoRow
      /\ s.type = "EMBEDDING_STORED" => (a.nodes[s.node] = NoRow <=> b.nodes[s.node] = NoRow)
  <2>1. s.type = "EMBEDDING_STORED" => s.node \in NodeIds
    BY StatementTags DEF Plain, Statement, EmbeddingStored
  <2>2. s.type = "EDGE_ADDED" => s.source \in NodeIds /\ s.target \in NodeIds
    BY PlainKinds DEF EdgeAdded
  <2> QED
    BY <2>1, <2>2 DEF Refers, SameRows
<1>3. s.type \notin {"REMAP_SOURCE", "REMAP_TARGET", "MOVE_SOURCE", "MOVE_TARGET"}
  BY PlainKinds
<1>4. NodesWritten(a.nodes, s) = NodesWritten(b.nodes, s)
  BY <1>1 DEF NodesWritten
<1>5. EdgesWritten(a.edges, s) = EdgesWritten(b.edges, s)
  BY <1>1, <1>3 DEF EdgesWritten, Remapped
<1>6. Rejected(a, s) <=> Rejected(b, s)
  BY <1>1, <1>2, <1>3 DEF Rejected
<1> QED
  BY <1>4, <1>5, <1>6

\* The statement leaves base as it leaves view, where they had the same rows under it.
LEMMA SameResult ==
  ASSUME NEW s, NEW view, NEW base, NEW delta, NEW d,
         NodesWritten(view.nodes, s) = NodesWritten(base.nodes, s),
         EdgesWritten(view.edges, s) = EdgesWritten(base.edges, s),
         \A n \in NodesWritten(view.nodes, s) :
           base.nodes[n] = view.nodes[n] /\ NodeAfter(view.nodes[n], s) # NoRow,
         \A e \in EdgesWritten(view.edges, s) :
           base.edges[e] = view.edges[e] /\ EdgeAfter(view.edges[e], s) # NoRow,
         \A m \in EmbeddingsWritten(s) : s.vector # NoRow,
         d \in Db, delta \in Db, base = OverlayDb(d, delta)
  PROVE  Effect(base, s) = OverlayDb(d, Write(view, delta, s))
<1> DEFINE new == Write(view, delta, s)
<1>1. /\ \A n \in NodeIds : base.nodes[n] =
           IF delta.nodes[n] = NoRow THEN d.nodes[n] ELSE delta.nodes[n]
      /\ \A e \in EdgeIds : base.edges[e] =
           IF delta.edges[e] = NoRow THEN d.edges[e] ELSE delta.edges[e]
      /\ \A m \in NodeIds \X Models : base.embeddings[m] =
           IF delta.embeddings[m] = NoRow THEN d.embeddings[m] ELSE delta.embeddings[m]
  BY DEF OverlayDb, Overlay, Db
<1>2. /\ \A n \in NodeIds : new.nodes[n] =
           IF n \in NodesWritten(view.nodes, s) THEN NodeAfter(view.nodes[n], s)
                                                ELSE delta.nodes[n]
      /\ \A e \in EdgeIds : new.edges[e] =
           IF e \in EdgesWritten(view.edges, s) THEN EdgeAfter(view.edges[e], s)
                                                ELSE delta.edges[e]
      /\ \A m \in NodeIds \X Models : new.embeddings[m] =
           IF m \in EmbeddingsWritten(s) THEN s.vector ELSE delta.embeddings[m]
  BY DEF Write
<1> HIDE DEF new
<1>3. /\ \A n \in NodeIds : OverlayDb(d, new).nodes[n] =
           IF new.nodes[n] = NoRow THEN d.nodes[n] ELSE new.nodes[n]
      /\ \A e \in EdgeIds : OverlayDb(d, new).edges[e] =
           IF new.edges[e] = NoRow THEN d.edges[e] ELSE new.edges[e]
      /\ \A m \in NodeIds \X Models : OverlayDb(d, new).embeddings[m] =
           IF new.embeddings[m] = NoRow THEN d.embeddings[m] ELSE new.embeddings[m]
      /\ IsDb(OverlayDb(d, new))
  BY DEF OverlayDb, Overlay, Db, IsDb
<1>4. \A n \in NodeIds : Effect(base, s).nodes[n] = OverlayDb(d, new).nodes[n]
  <2> SUFFICES ASSUME NEW n \in NodeIds
               PROVE  Effect(base, s).nodes[n] = OverlayDb(d, new).nodes[n]
    OBVIOUS
  <2>1. CASE n \in NodesWritten(view.nodes, s)
    BY <2>1, <1>2, <1>3, EffectRows
  <2>2. CASE n \notin NodesWritten(view.nodes, s)
    BY <2>2, <1>1, <1>2, <1>3, EffectRows
  <2> QED
    BY <2>1, <2>2
<1>5. \A e \in EdgeIds : Effect(base, s).edges[e] = OverlayDb(d, new).edges[e]
  <2> SUFFICES ASSUME NEW e \in EdgeIds
               PROVE  Effect(base, s).edges[e] = OverlayDb(d, new).edges[e]
    OBVIOUS
  <2>1. CASE e \in EdgesWritten(view.edges, s)
    BY <2>1, <1>2, <1>3, EffectRows
  <2>2. CASE e \notin EdgesWritten(view.edges, s)
    BY <2>2, <1>1, <1>2, <1>3, EffectRows
  <2> QED
    BY <2>1, <2>2
<1>6. \A m \in NodeIds \X Models :
        Effect(base, s).embeddings[m] = OverlayDb(d, new).embeddings[m]
  BY <1>1, <1>2, <1>3, EffectRows
<1> QED
  BY <1>3, <1>4, <1>5, <1>6, EffectIsDb, SameDb DEF new

-----------------------------------------------------------------------------
(* What a transaction has done would be done in any database like this one. *)

\* The rows that calls have returned and those c is going to create.
Own(c) == known \cup tx[c].drawn

\* d is like db in what the statements of c have seen of it: it has the rows c has
\* written as they were, it has the same rows under the identities c knows, and it
\* leaves c its keys.
Alike(c, d) ==
  /\ \A n \in NodeIds : tx[c].delta.nodes[n] # NoRow => d.nodes[n] = db.nodes[n]
  /\ \A e \in EdgeIds : tx[c].delta.edges[e] # NoRow => d.edges[e] = db.edges[e]
  /\ SameRows(d, db, Own(c))
  /\ KeyIdentifies(OverlayDb(d, tx[c].delta).nodes)

Does(c, done) ==
  \A d \in Db : Alike(c, d) => /\ After(d, done) = OverlayDb(d, tx[c].delta)
                              /\ Accepts(d, done)

LEMMA DoesKept ==
  ASSUME NEW c \in Clients, NEW done, Does(c, done), db' = db,
         tx'[c].delta = tx[c].delta, Own(c) \subseteq Own(c)'
  PROVE  Does(c, done)'
<1> SUFFICES ASSUME NEW d \in Db, Alike(c, d)'
             PROVE  After(d, done) = OverlayDb(d, tx'[c].delta) /\ Accepts(d, done)
  BY DEF Does
<1>1. Alike(c, d)
  <2>1. SameRows(d, db, Own(c))
    BY DEF Alike, SameRows
  <2> QED
    BY <2>1 DEF Alike
<1> QED
  BY <1>1 DEF Does

LEMMA BaseRows ==
  ASSUME NEW d \in Db, NEW delta
  PROVE  /\ \A n \in NodeIds : OverlayDb(d, delta).nodes[n] =
              IF delta.nodes[n] = NoRow THEN d.nodes[n] ELSE delta.nodes[n]
         /\ \A e \in EdgeIds : OverlayDb(d, delta).edges[e] =
              IF delta.edges[e] = NoRow THEN d.edges[e] ELSE delta.edges[e]
         /\ \A m \in NodeIds \X Models : OverlayDb(d, delta).embeddings[m] =
              IF delta.embeddings[m] = NoRow THEN d.embeddings[m] ELSE delta.embeddings[m]
  BY DEF OverlayDb, Overlay, Db

\* Where c has written, such a database shows c what db shows it.
LEMMA ExecuteBase ==
  ASSUME TypeOK, NEW c \in Clients, Execute(c), NEW d \in Db, Alike(c, d)'
  PROVE  LET s == Head(tx[c].todo)
             base == OverlayDb(d, tx[c].delta)
             new == OverlayDb(d, tx'[c].delta)
         IN /\ \A n \in NodesWritten(View(c).nodes, s) :
                 /\ n \in NodeIds /\ base.nodes[n] = View(c).nodes[n]
                 /\ NodeAfter(View(c).nodes[n], s) # NoRow
                 /\ new.nodes[n] = NodeAfter(View(c).nodes[n], s)
            /\ \A e \in EdgesWritten(View(c).edges, s) :
                 /\ base.edges[e] = View(c).edges[e]
                 /\ EdgeAfter(View(c).edges[e], s) # NoRow
            /\ \A n \in NodeIds : base.nodes[n] # NoRow =>
                 /\ new.nodes[n] # NoRow
                 /\ new.nodes[n].key = base.nodes[n].key
                 /\ new.nodes[n].ns = base.nodes[n].ns
            /\ Alike(c, d)
            /\ SameRows(View(c), base, Own(c))
<1> DEFINE s == Head(tx[c].todo)
           base == OverlayDb(d, tx[c].delta)
           new == OverlayDb(d, tx'[c].delta)
<1>1. View(c) \in Db /\ s \in Statement /\ db' = db
  BY ViewType, ExecuteData
<1>2. /\ View(c).nodes \in [NodeIds -> NodeRow \cup {NoRow}]
      /\ View(c).edges \in [EdgeIds -> EdgeRow \cup {NoRow}]
  BY <1>1 DEF Db
<1>3. /\ \A n \in NodeIds : tx'[c].delta.nodes[n] =
              IF n \in NodesWritten(View(c).nodes, s)
              THEN NodeAfter(View(c).nodes[n], s) ELSE tx[c].delta.nodes[n]
      /\ \A e \in EdgeIds : tx'[c].delta.edges[e] =
              IF e \in EdgesWritten(View(c).edges, s)
              THEN EdgeAfter(View(c).edges[e], s) ELSE tx[c].delta.edges[e]
  BY ExecuteData
<1> HIDE DEF s
<1>4. /\ \A n \in NodesWritten(View(c).nodes, s) :
           n \in NodeIds /\ NodeAfter(View(c).nodes[n], s) # NoRow
      /\ \A e \in EdgesWritten(View(c).edges, s) :
           e \in EdgeIds /\ EdgeAfter(View(c).edges[e], s) # NoRow
  BY <1>1, <1>2, NodeAfterType, EdgeAfterType, GraphAssumption
<1>5. /\ \A n \in NodeIds : tx'[c].delta.nodes[n] # NoRow => d.nodes[n] = db.nodes[n]
      /\ \A e \in EdgeIds : tx'[c].delta.edges[e] # NoRow => d.edges[e] = db.edges[e]
      /\ KeyIdentifies(new.nodes) /\ SameRows(d, db, Own(c)')
  BY <1>1 DEF Alike
<1>6. Own(c)' = Own(c)
  BY ExecuteTodo DEF Own
<1>7. /\ \A n \in NodeIds :
           /\ base.nodes[n] = IF tx[c].delta.nodes[n] = NoRow THEN d.nodes[n]
                                                            ELSE tx[c].delta.nodes[n]
           /\ new.nodes[n] = IF tx'[c].delta.nodes[n] = NoRow THEN d.nodes[n]
                                                            ELSE tx'[c].delta.nodes[n]
      /\ \A e \in EdgeIds :
           base.edges[e] = IF tx[c].delta.edges[e] = NoRow THEN d.edges[e]
                                                         ELSE tx[c].delta.edges[e]
  BY BaseRows
<1> HIDE DEF base, new
<1>8. \A n \in NodesWritten(View(c).nodes, s) :
        /\ n \in NodeIds /\ base.nodes[n] = View(c).nodes[n]
        /\ NodeAfter(View(c).nodes[n], s) # NoRow
        /\ new.nodes[n] = NodeAfter(View(c).nodes[n], s)
  BY <1>3, <1>4, <1>5, <1>7, ViewRows
<1>9. \A e \in EdgesWritten(View(c).edges, s) :
        base.edges[e] = View(c).edges[e] /\ EdgeAfter(View(c).edges[e], s) # NoRow
  BY <1>3, <1>4, <1>5, <1>7, ViewRows
<1>10. ASSUME NEW n \in NodeIds, base.nodes[n] # NoRow
       PROVE  /\ new.nodes[n] # NoRow
              /\ new.nodes[n].key = base.nodes[n].key
              /\ new.nodes[n].ns = base.nodes[n].ns
  <2>1. CASE n \in NodesWritten(View(c).nodes, s)
    BY <1>1, <1>2, <1>8, <1>10, <2>1, WrittenNode
  <2>2. CASE n \notin NodesWritten(View(c).nodes, s)
    BY <1>3, <1>7, <1>10, <2>2
  <2> QED
    BY <2>1, <2>2
<1>11. KeyIdentifies(base.nodes)
  BY <1>5, <1>10 DEF KeyIdentifies
<1>12. Alike(c, d)
  <2>1. /\ \A n \in NodeIds : tx[c].delta.nodes[n] # NoRow => d.nodes[n] = db.nodes[n]
        /\ \A e \in EdgeIds : tx[c].delta.edges[e] # NoRow => d.edges[e] = db.edges[e]
    BY <1>3, <1>4, <1>5
  <2> QED
    BY <1>5, <1>6, <1>11, <2>1 DEF Alike, base
<1>13. SameRows(View(c), base, Own(c))
  BY <1>5, <1>6, <1>7, ViewRows DEF SameRows
<1> QED
  BY <1>8, <1>9, <1>10, <1>12, <1>13 DEF s, base, new

LEMMA ExecuteKeys ==
  ASSUME TypeOK, NEW c \in Clients, Execute(c), NEW d \in Db, Alike(c, d)',
         Head(tx[c].todo).type = "NODE_CREATED"
  PROVE  LET s == Head(tx[c].todo) IN
         KeyHolders(View(c).nodes, s) = KeyHolders(OverlayDb(d, tx[c].delta).nodes, s)
<1> DEFINE s == Head(tx[c].todo)
           view == View(c).nodes
           base == OverlayDb(d, tx[c].delta).nodes
           new == OverlayDb(d, tx'[c].delta).nodes
<1>1. /\ s \in Statement /\ ~Rejected(View(c), s) /\ s.type = "NODE_CREATED"
      /\ view \in [NodeIds -> NodeRow \cup {NoRow}]
  BY ExecuteData, ViewType DEF Db
<1>2. s \in NodeCreated
  BY <1>1, StatementTags
<1>3. /\ \A n \in NodesWritten(view, s) :
           /\ n \in NodeIds /\ base[n] = view[n]
           /\ new[n] # NoRow /\ new[n] = NodeAfter(view[n], s)
      /\ \A n \in NodeIds : base[n] # NoRow =>
           new[n] # NoRow /\ new[n].key = base[n].key /\ new[n].ns = base[n].ns
  BY ExecuteBase
<1>4. KeyIdentifies(new)
  BY DEF Alike
<1>5. KeyHolders(view, s) = {} => s.id \in NodesWritten(view, s) /\ view[s.id] = NoRow
  BY <1>1, <1>2 DEF NodesWritten, Rejected, NodeCreated
<1>6. KeyHolders(view, s) \subseteq NodesWritten(view, s)
  BY <1>1 DEF NodesWritten, KeyHolders
<1> HIDE DEF s, view, base, new
<1>7. KeyHolders(view, s) \subseteq KeyHolders(base, s)
  BY <1>3, <1>6 DEF KeyHolders
<1>8. ASSUME NEW x \in KeyHolders(base, s) PROVE x \in KeyHolders(view, s)
  <2>1. /\ x \in NodeIds /\ s.key # NoKey /\ base[x] # NoRow
        /\ new[x] # NoRow /\ new[x].key = s.key /\ new[x].ns = s.ns
    BY <1>3, <1>8 DEF KeyHolders
  <2>2. CASE KeyHolders(view, s) = {}
    <3>1. new[s.id].key = s.key /\ new[s.id].ns = s.ns
      BY <1>1, <1>3, <1>5, <2>2, WrittenNode
    <3>2. x = s.id
      BY <1>3, <1>4, <1>5, <2>1, <2>2, <3>1 DEF KeyIdentifies
    <3> QED
      BY <1>3, <1>5, <2>1, <2>2, <3>2
  <2>3. CASE KeyHolders(view, s) # {}
    <3>1. PICK m : m \in KeyHolders(view, s)
      BY <2>3
    <3>2. m \in NodeIds /\ base[m] # NoRow /\ base[m].key = s.key /\ base[m].ns = s.ns
      BY <1>7, <3>1 DEF KeyHolders
    <3>3. x = m
      BY <1>3, <1>4, <2>1, <3>2 DEF KeyIdentifies
    <3> QED
      BY <3>1, <3>3
  <2> QED
    BY <2>2, <2>3
<1> QED
  BY <1>7, <1>8 DEF s, view, base

LEMMA ExecuteDoes ==
  ASSUME TypeOK, NEW c \in Clients, Execute(c), NEW s, s = Head(tx[c].todo), s \in Plain,
         Refers(s, Own(c)), NEW done \in Seq(Statement), Does(c, done)
  PROVE  Does(c, done \o <<s>>)'
<1> SUFFICES ASSUME NEW d \in Db, Alike(c, d)'
             PROVE  /\ After(d, done \o <<s>>) = OverlayDb(d, tx'[c].delta)
                    /\ Accepts(d, done \o <<s>>)
  BY DEF Does
<1> DEFINE base == OverlayDb(d, tx[c].delta)
<1>1. /\ s \in Plain /\ s \in Statement /\ Refers(s, Own(c)) /\ ~Rejected(View(c), s)
      /\ tx'[c].delta = Write(View(c), tx[c].delta, s)
      /\ tx[c].delta \in Db
  BY ExecuteData DEF TypeOK, Tx
<1>2. /\ \A n \in NodesWritten(View(c).nodes, s) :
           base.nodes[n] = View(c).nodes[n] /\ NodeAfter(View(c).nodes[n], s) # NoRow
      /\ \A e \in EdgesWritten(View(c).edges, s) :
           base.edges[e] = View(c).edges[e] /\ EdgeAfter(View(c).edges[e], s) # NoRow
      /\ Alike(c, d) /\ SameRows(View(c), base, Own(c))
  BY ExecuteBase
<1>3. s.type = "NODE_CREATED" => KeyHolders(View(c).nodes, s) = KeyHolders(base.nodes, s)
  BY ExecuteKeys
<1>4. After(d, done) = base /\ Accepts(d, done)
  BY <1>2 DEF Does
<1> HIDE DEF base
<1>5. /\ NodesWritten(View(c).nodes, s) = NodesWritten(base.nodes, s)
      /\ EdgesWritten(View(c).edges, s) = EdgesWritten(base.edges, s)
      /\ ~Rejected(base, s)
  BY <1>1, <1>2, <1>3, SameWrites
<1>6. \A m \in EmbeddingsWritten(s) : s.vector # NoRow
  <2>1. SUFFICES ASSUME s.type = "EMBEDDING_STORED" PROVE s.vector # NoRow
    BY DEF EmbeddingsWritten
  <2>2. s \in EmbeddingStored /\ s.vector # EmptyVector
    BY <1>1, <2>1, StatementTags DEF Rejected
  <2> QED
    BY <2>2, GraphAssumption DEF EmbeddingStored
<1>7. Effect(base, s) = OverlayDb(d, tx'[c].delta)
  BY <1>1, <1>2, <1>5, <1>6, SameResult DEF base
<1>8. PICK one \in Seq(Statement) : one = <<s>>
  <2>1. <<s>> \in Seq(Statement)
    BY <1>1
  <2> QED
    BY <2>1
<1>9. After(base, one) = Effect(base, s) /\ Accepts(base, one)
  BY <1>5, <1>8, AfterOne, AcceptsOne
<1>10. /\ After(d, done \o one) = After(After(d, done), one)
       /\ Accepts(d, done \o one) <=> Accepts(d, done) /\ Accepts(After(d, done), one)
  BY AfterJoined, AcceptsJoined
<1> QED
  BY <1>4, <1>7, <1>8, <1>9, <1>10

\* The commit of another client changes nothing c has looked at.
LEMMA CommitDoes ==
  ASSUME TypeOK, Exclusion, IdentityInv, NEW c \in Clients, Commit(c),
         Grows(db, View(c), tx[c].drawn),
         NEW d \in Clients \ {c}, NEW done, Does(d, done)
  PROVE  Does(d, done)'
<1>1. /\ db' = View(c) /\ tx'[d] = tx[d] /\ known' = known \cup tx[c].drawn
  BY DEF Commit, TypeOK
<1> SUFFICES ASSUME NEW x \in Db, Alike(d, x)'
             PROVE  After(x, done) = OverlayDb(x, tx'[d].delta) /\ Accepts(x, done)
  BY <1>1 DEF Does
<1>2. /\ \A n \in NodeIds : tx[d].delta.nodes[n] # NoRow => View(c).nodes[n] = db.nodes[n]
      /\ \A e \in EdgeIds : tx[d].delta.edges[e] # NoRow => View(c).edges[e] = db.edges[e]
  BY ViewRows DEF Exclusion
<1>3. Own(d) \cap tx[c].drawn = {} /\ Own(d) \subseteq Own(d)'
  BY <1>1 DEF Own, IdentityInv, Identified
<1>4. SameRows(View(c), db, Own(d))
  BY <1>3 DEF SameRows, Grows
<1>5. SameRows(x, View(c), Own(d)')
  BY <1>1 DEF Alike
<1>6. SameRows(x, db, Own(d))
  BY <1>3, <1>4, <1>5 DEF SameRows
<1>7. Alike(d, x)
  BY <1>1, <1>2, <1>6 DEF Alike
<1> QED
  BY <1>1, <1>7 DEF Does

-----------------------------------------------------------------------------
(* A call and what is left of it.                                           *)

\* The events of c write single rows, of identities c knows; outside a transaction
\* there is nothing to undo.
Plans(c) ==
  /\ tx[c].phase # "idle" => tx[c].batch # << >>
  /\ tx[c].phase # "open" => /\ tx[c].pos = 0 /\ tx[c].todo = << >>
                             /\ tx[c].rows = {} /\ tx[c].delta = EmptyDb
  /\ tx[c].pos <= Len(tx[c].batch)
  /\ tx[c].pos > 0 => tx[c].now # NoTime
  /\ \A s \in Items(tx[c].batch) \cup Items(tx[c].todo) : s \in Plain /\ Refers(s, Own(c))

\* The delta of c is what the statements run so far make of any database like db.
Carried(c) ==
  \E done \in Seq(Statement) :
    /\ Planned(SubSeq(tx[c].batch, 1, tx[c].pos), tx[c].now) = done \o tx[c].todo
    /\ Does(c, done)

\* The rows of c carry the events logged so far under ascending ids.
Numbers(f, c) ==
  /\ f \in [1 .. tx[c].pos -> Nat]
  /\ \A i \in 1 .. tx[c].pos : f[i] <= seq
  /\ \A i, j \in 1 .. tx[c].pos : i < j => f[i] < f[j]
  /\ tx[c].rows = {[id |-> f[i], event |-> tx[c].batch[i]] : i \in 1 .. tx[c].pos}

Numbered(c) == \E f : Numbers(f, c)

AtomInv == \A c \in Clients : Plans(c) /\ Carried(c) /\ Numbered(c)

LEMMA RefersMore ==
  ASSUME NEW s, NEW few, NEW many, few \subseteq many, Refers(s, few)
  PROVE  Refers(s, many)
  BY DEF Refers

Begun(c) == /\ tx[c].pos = 0 /\ tx[c].todo = << >> /\ tx[c].rows = {}
            /\ tx[c].delta = EmptyDb

LEMMA NothingYet ==
  /\ \A d \in Db : After(d, << >>) = OverlayDb(d, EmptyDb) /\ Accepts(d, << >>)
  /\ \A batch \in Seq(Event), now \in Times \cup {NoTime} :
       Planned(SubSeq(batch, 1, 0), now) = << >>
  /\ << >> \in Seq(Statement) /\ << >> \o << >> = << >>
<1>1. \A batch \in Seq(Event) : SubSeq(batch, 1, 0) = << >>
  OBVIOUS
<1>2. << >> \in Seq(Statement) /\ << >> \o << >> = << >>
  OBVIOUS
<1> QED
  BY <1>1, <1>2, EmptyDelta, AfterNothing, AcceptsNothing, PlanOfNone

LEMMA BegunCarried ==
  ASSUME TypeOK', NEW c \in Clients, Begun(c)'
  PROVE  Carried(c)' /\ Numbered(c)'
<1>1. tx'[c].batch \in Seq(Event) /\ tx'[c].now \in Times \cup {NoTime}
  BY DEF TypeOK, Tx
<1>2. Does(c, << >>)'
  BY NothingYet DEF Does, Begun
<1>3. Planned(SubSeq(tx'[c].batch, 1, tx'[c].pos), tx'[c].now) = << >> \o tx'[c].todo
  BY <1>1, NothingYet DEF Begun
<1>4. Carried(c)'
  BY <1>2, <1>3, NothingYet DEF Carried
<1>5. Numbers([i \in 1 .. 0 |-> 0], c)'
  BY DEF Numbers, Begun
<1> QED
  BY <1>4, <1>5 DEF Numbered

\* Another client goes on as it was.
LEMMA AtomKept ==
  ASSUME NEW d \in Clients, Plans(d), Carried(d), Numbered(d), tx'[d] = tx[d],
         known \subseteq known', seq \in Nat, seq' \in Nat, seq <= seq', TypeOK,
         \A done \in Seq(Statement) : Does(d, done) => Does(d, done)'
  PROVE  (Plans(d) /\ Carried(d) /\ Numbered(d))'
<1>1. Own(d) \subseteq Own(d)'
  BY DEF Own
<1>2. Plans(d)'
  BY <1>1, RefersMore DEF Plans
<1>3. Carried(d)'
  BY DEF Carried
<1>4. PICK f : Numbers(f, d)
  BY DEF Numbered
<1>5. tx[d].pos \in Nat
  BY DEF TypeOK, Tx
<1>6. \A i \in 1 .. tx'[d].pos : f[i] <= seq'
  BY <1>4, <1>5 DEF Numbers
<1>7. Numbers(f, d)'
  BY <1>4, <1>6 DEF Numbers
<1> QED
  BY <1>2, <1>3, <1>7 DEF Numbered

LEMMA OthersKept ==
  ASSUME TypeOK, TypeOK', AtomInv, NEW c \in Clients, db' = db, known' = known,
         seq <= seq', \A d \in Clients \ {c} : tx'[d] = tx[d]
  PROVE  \A d \in Clients \ {c} : (Plans(d) /\ Carried(d) /\ Numbered(d))'
<1> SUFFICES ASSUME NEW d \in Clients \ {c}
             PROVE  (Plans(d) /\ Carried(d) /\ Numbered(d))'
  OBVIOUS
<1>1. tx'[d] = tx[d] /\ seq \in Nat /\ seq' \in Nat
  BY DEF TypeOK
<1>2. Own(d)' = Own(d)
  BY <1>1 DEF Own
<1>3. \A done \in Seq(Statement) : Does(d, done) => Does(d, done)'
  BY <1>1, <1>2, DoesKept
<1> QED
  BY <1>1, <1>3, AtomKept DEF AtomInv

-----------------------------------------------------------------------------
(* Calls that write single rows.                                            *)

SingleCall(c) == \E op : \E event \in Plain :
  Refers(event, known) /\ Call(c, op, <<event>>)

Gathering(c) ==
  \E op, ns : \E phase \in {"nodes", "edges"}, id \in NodeIds \cup EdgeIds,
                events \in Seq(Event) :
    /\ events # << >>
    /\ \A x \in Items(events) : x \in Plain /\ Refers(x, known \cup {id})
    /\ Collect(c, op, phase, ns, id, events)

LEMMA NodeEventsPlain ==
  ASSUME NEW ns \in Namespaces, NEW id \in NodeIds, NEW node \in NodeInputs
  PROVE  /\ NodeEvents(ns, id, node) # << >>
         /\ \A x \in Items(NodeEvents(ns, id, node)) :
              x \in Plain /\ Refers(x, known \cup {id})
<1> DEFINE first == [type |-> "NODE_CREATED", ns |-> ns, id |-> id, key |-> node.key,
                     attrs |-> node.attrs]
           second == [type |-> "EMBEDDING_STORED", ns |-> ns, node |-> id,
                      model |-> node.model, vector |-> node.vector]
<1>1. node \in NodeInput
  BY EventStoreAssumption
<1>2. first \in Plain /\ Refers(first, known \cup {id})
  BY <1>1 DEF Plain, NodeInput, Event, NodeCreated, Refers
<1>3. node.vector # NoRow => second \in Plain
  BY <1>1 DEF Plain, NodeInput, Event, EmbeddingStored
<1>4. Refers(second, known \cup {id})
  BY DEF Refers
<1>5. NodeEvents(ns, id, node) =
        <<first>> \o IF node.vector = NoRow THEN << >> ELSE <<second>>
  BY DEF NodeEvents
<1> HIDE DEF first, second
<1>6. PICK a \in Seq(Plain) : a = <<first>>
  <2>1. <<first>> \in Seq(Plain)
    BY <1>2
  <2> QED
    BY <2>1
<1>7. PICK b \in Seq(Plain) : b = IF node.vector = NoRow THEN << >> ELSE <<second>>
  <2>1. node.vector # NoRow => <<second>> \in Seq(Plain)
    BY <1>3
  <2>2. << >> \in Seq(Plain)
    OBVIOUS
  <2> QED
    BY <2>1, <2>2
<1>8. NodeEvents(ns, id, node) = a \o b
  BY <1>5, <1>6, <1>7
<1>9. Items(a \o b) = Items(a) \cup Items(b)
  BY ItemsJoined
<1>10. Items(a) = {first} /\ Items(b) \subseteq {second}
  BY <1>6, <1>7, OneItem, NoItems
<1>11. a \o b # << >>
  <2>1. first \in Items(a \o b)
    BY <1>9, <1>10
  <2> QED
    BY <2>1, NoItems
<1>12. \A x \in Items(b) : x \in Plain
  BY <1>3, <1>7, <1>10, NoItems
<1> QED
  BY <1>2, <1>4, <1>8, <1>9, <1>10, <1>11, <1>12

LEMMA CallsArePlain ==
  ASSUME TypeOK, "merge_nodes" \notin Ops, NEW c \in Clients,
         \/ AddNodes(c) \/ AddEdges(c) \/ UpdateNode(c) \/ RetractNode(c)
         \/ RetractEdge(c) \/ MergeNodes(c) \/ ApplyEvent(c)
  PROVE  SingleCall(c) \/ Gathering(c)
<1>1. CASE AddNodes(c)
  BY <1>1, NodeEventsType, NodeEventsPlain DEF AddNodes, Gathering
<1>2. CASE AddEdges(c)
  <2>1. PICK ns \in Namespaces, id \in EdgeIds, edge \in EdgeInputs,
             source \in KnownNodes, target \in KnownNodes :
          Collect(c, "add_edges", "edges", ns, id,
                  << [type |-> "EDGE_ADDED", ns |-> ns, id |-> id,
                      source |-> source, target |-> target, attrs |-> edge.attrs,
                      valid_from |-> edge.valid_from] >>)
    BY <1>2 DEF AddEdges
  <2>2. PICK event : event = [type |-> "EDGE_ADDED", ns |-> ns, id |-> id,
                              source |-> source, target |-> target, attrs |-> edge.attrs,
                              valid_from |-> edge.valid_from]
    OBVIOUS
  <2>a. edge \in EdgeInput
    BY EventStoreAssumption
  <2>3. event \in Plain /\ Refers(event, known \cup {id})
    BY <2>2, <2>a DEF EdgeInput, Plain, Event, EdgeAdded, KnownNodes, Refers
  <2>4. <<event>> \in Seq(Event) /\ <<event>> # << >>
    BY <2>3 DEF Plain
  <2>5. Collect(c, "add_edges", "edges", ns, id, <<event>>)
    BY <2>1, <2>2
  <2>6. \A x \in Items(<<event>>) : x \in Plain /\ Refers(x, known \cup {id})
    BY <2>3, OneItem
  <2> QED
    BY <2>4, <2>5, <2>6 DEF Gathering
<1>3. CASE UpdateNode(c)
  <2>1. PICK id \in KnownNodes, patch \in NodePatches :
          Call(c, "update_node", << [type |-> "NODE_UPDATED", ns |-> DefaultNamespace,
                                     id |-> id, patch |-> patch] >>)
    BY <1>3 DEF UpdateNode
  <2>2. [type |-> "NODE_UPDATED", ns |-> DefaultNamespace, id |-> id, patch |-> patch] \in Plain
    BY EventStoreAssumption, GraphAssumption DEF Plain, Event, NodeUpdated, KnownNodes
  <2> QED
    BY <2>1, <2>2 DEF SingleCall, Refers, KnownNodes
<1>4. CASE RetractNode(c)
  <2>1. PICK id \in KnownNodes :
          Call(c, "retract_node", << [type |-> "NODE_RETRACTED", ns |-> DefaultNamespace,
                                      id |-> id] >>)
    BY <1>4 DEF RetractNode
  <2>2. [type |-> "NODE_RETRACTED", ns |-> DefaultNamespace, id |-> id] \in Plain
    BY GraphAssumption DEF Plain, Event, NodeRetracted, KnownNodes
  <2> QED
    BY <2>1, <2>2 DEF SingleCall, Refers, KnownNodes
<1>5. CASE RetractEdge(c)
  <2>1. PICK id \in KnownEdges :
          Call(c, "retract_edge", << [type |-> "EDGE_RETRACTED", ns |-> DefaultNamespace,
                                      id |-> id] >>)
    BY <1>5 DEF RetractEdge
  <2>2. [type |-> "EDGE_RETRACTED", ns |-> DefaultNamespace, id |-> id] \in Plain
    BY GraphAssumption DEF Plain, Event, EdgeRetracted, KnownEdges
  <2> QED
    BY <2>1, <2>2 DEF SingleCall, Refers, KnownEdges
<1>6. CASE MergeNodes(c)
  BY <1>6 DEF MergeNodes, Call
<1>7. CASE ApplyEvent(c)
  <2>1. PICK ns \in Namespaces :
          \/ \E id \in KnownEdges, patch \in EdgePatches :
               Call(c, "apply_event", << [type |-> "EDGE_UPDATED", ns |-> ns,
                                          id |-> id, patch |-> patch] >>)
          \/ \E node \in KnownNodes, model \in Models, vector \in Vectors \cup {EmptyVector} :
               Call(c, "apply_event", << [type |-> "EMBEDDING_STORED", ns |-> ns,
                                          node |-> node, model |-> model,
                                          vector |-> vector] >>)
          \/ Call(c, "apply_event", << [type |-> "RAW_INPUT_RECEIVED", ns |-> ns] >>)
    BY <1>7 DEF ApplyEvent
  <2>2. ASSUME NEW id \in KnownEdges, NEW patch \in EdgePatches,
               Call(c, "apply_event", << [type |-> "EDGE_UPDATED", ns |-> ns,
                                          id |-> id, patch |-> patch] >>)
        PROVE  SingleCall(c)
    <3>1. [type |-> "EDGE_UPDATED", ns |-> ns, id |-> id, patch |-> patch] \in Plain
      BY EventStoreAssumption DEF Plain, Event, EdgeUpdated, KnownEdges
    <3> QED
      BY <2>2, <3>1 DEF SingleCall, Refers, KnownEdges
  <2>3. ASSUME NEW node \in KnownNodes, NEW model \in Models,
               NEW vector \in Vectors \cup {EmptyVector},
               Call(c, "apply_event", << [type |-> "EMBEDDING_STORED", ns |-> ns,
                                          node |-> node, model |-> model,
                                          vector |-> vector] >>)
        PROVE  SingleCall(c)
    <3>1. [type |-> "EMBEDDING_STORED", ns |-> ns, node |-> node, model |-> model,
           vector |-> vector] \in Plain
      BY DEF Plain, Event, EmbeddingStored, KnownNodes
    <3> QED
      BY <2>3, <3>1 DEF SingleCall, Refers, KnownNodes
  <2>4. ASSUME Call(c, "apply_event", << [type |-> "RAW_INPUT_RECEIVED", ns |-> ns] >>)
        PROVE  SingleCall(c)
    <3>1. [type |-> "RAW_INPUT_RECEIVED", ns |-> ns] \in Plain
      BY DEF Plain, Event, RawInputReceived
    <3> QED
      BY <2>4, <3>1 DEF SingleCall, Refers
  <2> QED
    BY <2>1, <2>2, <2>3, <2>4
<1> QED
  BY <1>1, <1>2, <1>3, <1>4, <1>5, <1>6, <1>7

-----------------------------------------------------------------------------
(* The steps of such calls.                                                 *)

LEMMA EmptiedAtom ==
  ASSUME TypeOK, TypeOK', AtomInv, NEW c \in Clients, db' = db, known' = known, seq' = seq,
         \A d \in Clients \ {c} : tx'[d] = tx[d], Begun(c)', Plans(c)'
  PROVE  AtomInv'
<1>1. Carried(c)' /\ Numbered(c)'
  BY BegunCarried
<1>2. \A d \in Clients \ {c} : (Plans(d) /\ Carried(d) /\ Numbered(d))'
  BY OthersKept DEF TypeOK
<1> QED
  BY <1>1, <1>2 DEF AtomInv

LEMMA CallAtom ==
  ASSUME TypeOK, TypeOK', AtomInv, NEW c \in Clients, SingleCall(c)
  PROVE  AtomInv'
<1>0. PICK op : \E event \in Plain : Refers(event, known) /\ Call(c, op, <<event>>)
  BY DEF SingleCall
<1>1. PICK event \in Plain : Refers(event, known) /\ Call(c, op, <<event>>)
  BY <1>0
<1>2. /\ UNCHANGED <<seq, log, db, known>> /\ \A d \in Clients \ {c} : tx'[d] = tx[d]
      /\ tx'[c] = [Idle EXCEPT !.phase = "open", !.batch = <<event>>]
  BY <1>1 DEF Call, TypeOK
<1>3. /\ tx'[c].phase = "open" /\ tx'[c].batch = <<event>>
      /\ tx'[c].pos = 0 /\ tx'[c].todo = << >> /\ tx'[c].rows = {}
      /\ tx'[c].delta = EmptyDb /\ tx'[c].drawn = {}
  BY <1>2 DEF Idle
<1>4. Begun(c)'
  BY <1>3 DEF Begun
<1>5. <<event>> # << >> /\ Len(<<event>>) = 1
  OBVIOUS
<1>6. Refers(event, Own(c)')
  BY <1>1, <1>2, RefersMore DEF Own
<1>7. Plans(c)'
  BY <1>1, <1>3, <1>5, <1>6, OneItem, NoItems DEF Plans
<1> QED
  BY <1>2, <1>4, <1>7, EmptiedAtom

LEMMA RollbackAtom ==
  ASSUME TypeOK, TypeOK', AtomInv, NEW c \in Clients, Rollback(c)
  PROVE  AtomInv'
<1>1. /\ UNCHANGED <<seq, log, db, known>> /\ \A d \in Clients \ {c} : tx'[d] = tx[d]
      /\ tx'[c] = Idle
  BY DEF Rollback, TypeOK
<1>2. /\ tx'[c].phase = "idle" /\ tx'[c].batch = << >>
      /\ tx'[c].pos = 0 /\ tx'[c].todo = << >> /\ tx'[c].rows = {}
      /\ tx'[c].delta = EmptyDb
  BY <1>1 DEF Idle
<1>3. Begun(c)' /\ Plans(c)'
  BY <1>2, NoItems DEF Begun, Plans
<1> QED
  BY <1>1, <1>3, EmptiedAtom

LEMMA CollectAtom ==
  ASSUME TypeOK, TypeOK', AtomInv, NEW c \in Clients, Gathering(c)
  PROVE  AtomInv'
<1>0. PICK op, ns : \E phase \in {"nodes", "edges"}, id \in NodeIds \cup EdgeIds,
                         events \in Seq(Event) :
        /\ events # << >>
        /\ \A x \in Items(events) : x \in Plain /\ Refers(x, known \cup {id})
        /\ Collect(c, op, phase, ns, id, events)
  BY DEF Gathering
<1>1. PICK phase \in {"nodes", "edges"}, id \in NodeIds \cup EdgeIds, events \in Seq(Event) :
        /\ events # << >>
        /\ \A x \in Items(events) : x \in Plain /\ Refers(x, known \cup {id})
        /\ Collect(c, op, phase, ns, id, events)
  BY <1>0
<1>2. /\ UNCHANGED <<seq, log, db, known>> /\ \A d \in Clients \ {c} : tx'[d] = tx[d]
      /\ tx[c].phase # "open" /\ tx[c] \in Tx
      /\ tx'[c] = [tx[c] EXCEPT !.phase = phase, !.batch = tx[c].batch \o events,
                                !.drawn = tx[c].drawn \cup {id}]
  BY <1>1 DEF Collect, TypeOK
<1>3. /\ tx'[c].phase = phase /\ tx'[c].batch = tx[c].batch \o events
      /\ tx'[c].drawn = tx[c].drawn \cup {id} /\ tx'[c].pos = tx[c].pos
      /\ tx'[c].todo = tx[c].todo /\ tx'[c].rows = tx[c].rows
      /\ tx'[c].delta = tx[c].delta /\ tx[c].batch \in Seq(Event)
  BY <1>2 DEF Tx
<1>4. Begun(c)
  BY <1>2 DEF AtomInv, Plans, Begun
<1>5. Begun(c)'
  BY <1>3, <1>4 DEF Begun
<1>6. Items(tx'[c].batch) = Items(tx[c].batch) \cup Items(events)
  BY <1>3, ItemsJoined
<1>7. tx'[c].batch # << >> /\ 0 <= Len(tx'[c].batch)
  BY <1>1, <1>3
<1>8. Own(c) \subseteq Own(c)' /\ known \cup {id} \subseteq Own(c)'
  BY <1>2, <1>3 DEF Own
<1>9. \A s \in Items(tx'[c].batch) \cup Items(tx'[c].todo) : s \in Plain /\ Refers(s, Own(c)')
  BY <1>1, <1>3, <1>6, <1>8, RefersMore DEF AtomInv, Plans
<1>10. Plans(c)'
  BY <1>5, <1>7, <1>9 DEF Plans, Begun
<1> QED
  BY <1>2, <1>5, <1>10, EmptiedAtom

LEMMA PlainStatements ==
  ASSUME NEW event \in Plain
  PROVE  \A s \in Items(Statements(event)) : s = event
<1>1. event.type # "NODES_MERGED"
  BY DEF Plain
<1>2. CASE event.type = "RAW_INPUT_RECEIVED"
  BY <1>2, NoItems DEF Statements
<1>3. CASE event.type # "RAW_INPUT_RECEIVED"
  <2>1. Statements(event) = <<event>>
    BY <1>1, <1>3 DEF Statements
  <2> QED
    BY <2>1, OneItem
<1> QED
  BY <1>2, <1>3

LEMMA FirstMore ==
  ASSUME NEW S, NEW list \in Seq(S), NEW n \in Nat, n < Len(list)
  PROVE  /\ SubSeq(list, 1, n) \in Seq(S)
         /\ SubSeq(list, 1, n + 1) = Append(SubSeq(list, 1, n), list[n + 1])
  OBVIOUS

LEMMA AtPlain ==
  ASSUME NEW event \in Plain, NEW now \in Times, NEW ids, Refers(event, ids)
  PROVE  At(event, now) \in Plain /\ Refers(At(event, now), ids)
<1>1. event \in Event
  BY DEF Plain
<1>2. CASE event.type = "EDGE_ADDED"
  BY <1>1, <1>2, AtType DEF Plain, Refers
<1>3. CASE event.type # "EDGE_ADDED"
  BY <1>1, <1>3, AtType
<1> QED
  BY <1>2, <1>3

\* Once it has begun, a transaction keeps its NOW().
LEMMA InsertNow ==
  ASSUME TypeOK, NEW c \in Clients, InsertEvent(c)
  PROVE  /\ tx'[c].now \in Times
         /\ tx'[c].todo = Statements(At(tx[c].batch[tx[c].pos + 1], tx'[c].now))
         /\ tx'[c].pos = tx[c].pos + 1 /\ tx'[c].phase = "open"
         /\ tx[c].now # NoTime => tx'[c].now = tx[c].now
<1> DEFINE row == [id |-> seq + 1, event |-> tx[c].batch[tx[c].pos + 1]]
<1>1. tx[c] \in Tx
  BY InsertEventChanges
<1>2. PICK now \in Instants(c) :
        tx' = [tx EXCEPT ![c].phase = "open",
                         ![c].now = now,
                         ![c].pos = @ + 1,
                         ![c].todo = Statements(At(tx[c].batch[tx[c].pos + 1], now)),
                         ![c].rows = @ \cup {row}]
  BY DEF InsertEvent
<1>3. now \in Times /\ (tx[c].now # NoTime => now = tx[c].now)
  BY <1>1, <1>2 DEF Instants, Tx
<1>4. tx'[c] = InsertedTx(tx[c], now, row)
  BY <1>2 DEF InsertedTx, TypeOK
<1>5. /\ tx'[c].now = now /\ tx'[c].pos = tx[c].pos + 1 /\ tx'[c].phase = "open"
      /\ tx'[c].todo = Statements(At(row.event, now))
  BY <1>1, <1>4 DEF InsertedTx, Tx
<1> QED
  BY <1>3, <1>5

LEMMA InsertAtom ==
  ASSUME TypeOK, TypeOK', AtomInv, NEW c \in Clients, InsertEvent(c)
  PROVE  AtomInv'
<1> DEFINE event == tx[c].batch[tx[c].pos + 1]
           row == [id |-> seq + 1, event |-> event]
           statement == At(event, tx'[c].now)
<1>0. seq' = seq + 1 /\ seq \in Nat
  BY InsertEventChanges DEF TypeOK
<1>1. /\ UNCHANGED <<log, db, known>> /\ seq' = seq + 1 /\ seq \in Nat
      /\ \A d \in Clients \ {c} : tx'[d] = tx[d]
      /\ event \in Event /\ event \in Items(tx[c].batch) /\ tx[c].todo = << >>
      /\ tx'[c].todo = Statements(statement) /\ tx'[c].rows = tx[c].rows \cup {row}
      /\ tx'[c].delta = tx[c].delta /\ tx'[c].drawn = tx[c].drawn
      /\ tx'[c].batch = tx[c].batch
  BY <1>0, InsertData, InsertNow
<1>2. /\ tx[c].batch \in Seq(Event) /\ tx[c].pos \in Nat /\ tx[c].pos < Len(tx[c].batch)
      /\ tx'[c].pos = tx[c].pos + 1 /\ tx'[c].phase = "open" /\ tx[c].phase # "idle"
  BY InsertNow DEF InsertEvent, TypeOK, Tx
<1>9. /\ tx'[c].now \in Times /\ tx'[c].now # NoTime
      /\ tx[c].now \in Times \cup {NoTime}
      /\ tx[c].now # NoTime => tx'[c].now = tx[c].now
  BY InsertNow, GraphAssumption DEF TypeOK, Tx
<1>3. Own(c)' = Own(c)
  BY <1>1 DEF Own
<1>4. \A d \in Clients \ {c} : (Plans(d) /\ Carried(d) /\ Numbered(d))'
  BY <1>1, OthersKept
<1> HIDE DEF event, row
<1>a. event \in Plain /\ Refers(event, Own(c))
  BY <1>1 DEF AtomInv, Plans
<1>5. statement \in Plain /\ Refers(statement, Own(c))
  BY <1>9, <1>a, AtPlain
<1> HIDE DEF statement
<1>6. Plans(c)'
  <2>1. \A s \in Items(tx'[c].batch) \cup Items(tx'[c].todo) : s \in Plain /\ Refers(s, Own(c)')
    BY <1>1, <1>3, <1>5, PlainStatements DEF AtomInv, Plans
  <2>2. tx'[c].batch # << >> /\ tx'[c].pos <= Len(tx'[c].batch)
    BY <1>1, <1>2 DEF AtomInv, Plans
  <2> QED
    BY <1>2, <1>9, <2>1, <2>2 DEF Plans
<1>7. Carried(c)'
  <2>0. PICK done \in Seq(Statement) :
          /\ Planned(SubSeq(tx[c].batch, 1, tx[c].pos), tx[c].now) = done \o << >>
          /\ Does(c, done)
    BY <1>1 DEF AtomInv, Carried
  <2>1. /\ Planned(SubSeq(tx[c].batch, 1, tx[c].pos), tx'[c].now) = done \o << >>
        /\ Does(c, done)
    <3>1. CASE tx[c].pos = 0
      BY <1>2, <1>9, <2>0, <3>1, NothingYet
    <3>2. CASE tx[c].pos # 0
      <4>1. tx'[c].now = tx[c].now
        BY <1>2, <1>9, <3>2 DEF AtomInv, Plans
      <4> QED
        BY <2>0, <4>1
    <3> QED
      BY <3>1, <3>2
  <2>2. /\ SubSeq(tx[c].batch, 1, tx[c].pos) \in Seq(Event)
        /\ SubSeq(tx[c].batch, 1, tx[c].pos + 1)
             = Append(SubSeq(tx[c].batch, 1, tx[c].pos), event)
    BY <1>2, FirstMore DEF event
  <2>3. done \o << >> = done
    OBVIOUS
  <2>4. Planned(SubSeq(tx'[c].batch, 1, tx'[c].pos), tx'[c].now) = done \o tx'[c].todo
    <3>1. Planned(Append(SubSeq(tx[c].batch, 1, tx[c].pos), event), tx'[c].now)
            = Planned(SubSeq(tx[c].batch, 1, tx[c].pos), tx'[c].now) \o Statements(statement)
      BY <1>1, <1>9, <2>2, PlanMore DEF statement
    <3> QED
      BY <1>1, <1>2, <2>1, <2>2, <2>3, <3>1
  <2>5. Does(c, done)'
    BY <1>1, <1>3, <2>1, DoesKept
  <2> QED
    BY <2>4, <2>5 DEF Carried
<1>8. Numbered(c)'
  <2>1. PICK f : Numbers(f, c)
    BY DEF AtomInv, Numbered
  <2> DEFINE n == tx[c].pos
  <2>0. n \in Nat /\ seq + 1 \in Nat
    BY <1>1, <1>2
  <2>a. PICK g : g = [i \in 1 .. n + 1 |-> IF i <= n THEN f[i] ELSE seq + 1]
    OBVIOUS
  <2>b. f \in [1 .. n -> Nat] /\ \A i \in 1 .. n : f[i] <= seq
    BY <2>1 DEF Numbers
  <2> HIDE DEF n
  <2>2. /\ g \in [1 .. n + 1 -> Nat] /\ g[n + 1] = seq + 1
        /\ \A i \in 1 .. n : g[i] = f[i] /\ g[i] \in Nat /\ g[i] <= seq
    BY <2>0, <2>a, <2>b
  <2>3. \A i, j \in 1 .. n : i < j => g[i] < g[j]
    BY <2>1, <2>2 DEF Numbers, n
  <2>4. tx[c].rows = {[id |-> g[i], event |-> tx[c].batch[i]] : i \in 1 .. n}
    BY <2>1, <2>2 DEF Numbers, n
  <2>5. \A i, j \in 1 .. n + 1 : i < j => g[i] < g[j]
    BY <1>1, <2>0, <2>2, <2>3
  <2>6. tx'[c].rows = {[id |-> g[i], event |-> tx[c].batch[i]] : i \in 1 .. n + 1}
    <3>1. 1 .. n + 1 = (1 .. n) \cup {n + 1}
      BY <2>0
    <3>2. row = [id |-> g[n + 1], event |-> tx[c].batch[n + 1]]
      BY <2>2 DEF row, event, n
    <3> QED
      BY <1>1, <2>4, <3>1, <3>2
  <2>7. \A i \in 1 .. n + 1 : g[i] <= seq + 1
    BY <1>1, <2>0, <2>2
  <2>8. Numbers(g, c)'
    BY <1>1, <1>2, <2>2, <2>5, <2>6, <2>7 DEF Numbers, n
  <2> QED
    BY <2>8 DEF Numbered
<1> QED
  BY <1>4, <1>6, <1>7, <1>8 DEF AtomInv

LEMMA ExecuteAtom ==
  ASSUME TypeOK, TypeOK', AtomInv, NEW c \in Clients, Execute(c)
  PROVE  AtomInv'
<1>1. /\ UNCHANGED <<seq, log, known, db>> /\ \A d \in Clients \ {c} : tx'[d] = tx[d]
      /\ tx[c].todo \in Seq(Statement) /\ tx[c].todo # << >>
      /\ tx'[c].todo = Tail(tx[c].todo)
      /\ tx'[c].rows = tx[c].rows
      /\ tx'[c].drawn = tx[c].drawn /\ tx'[c].batch = tx[c].batch
  BY ExecuteTodo DEF Execute
<1>2. /\ tx'[c].pos = tx[c].pos /\ tx'[c].phase = tx[c].phase /\ tx[c].phase = "open"
      /\ tx'[c].now = tx[c].now
  BY DEF Execute, Running, TypeOK, Tx
<1>3. Own(c)' = Own(c)
  BY <1>1 DEF Own
<1>4. \A d \in Clients \ {c} : (Plans(d) /\ Carried(d) /\ Numbered(d))'
  BY <1>1, OthersKept DEF TypeOK
<1>5. /\ Head(tx[c].todo) \in Items(tx[c].todo)
      /\ Items(Tail(tx[c].todo)) \subseteq Items(tx[c].todo)
  BY <1>1, ItemsOfTail
<1>6. Plans(c)'
  BY <1>1, <1>2, <1>3, <1>5 DEF AtomInv, Plans
<1>7. Carried(c)'
  <2>1. PICK done \in Seq(Statement) :
          /\ Planned(SubSeq(tx[c].batch, 1, tx[c].pos), tx[c].now) = done \o tx[c].todo
          /\ Does(c, done)
    BY DEF AtomInv, Carried
  <2>2. PICK s : s = Head(tx[c].todo)
    OBVIOUS
  <2>3. s \in Plain /\ s \in Statement /\ Refers(s, Own(c))
    BY <1>1, <1>5, <2>2 DEF AtomInv, Plans
  <2>4. Does(c, done \o <<s>>)'
    BY <2>1, <2>2, <2>3, ExecuteDoes
  <2>5. done \o <<s>> \in Seq(Statement)
    BY <2>3
  <2>6. (done \o <<s>>) \o Tail(tx[c].todo) = done \o tx[c].todo
    <3>1. /\ <<s>> \in Seq(Statement) /\ Tail(tx[c].todo) \in Seq(Statement)
          /\ <<s>> \o Tail(tx[c].todo) = tx[c].todo
      BY <1>1, <2>2, <2>3
    <3>2. PICK one \in Seq(Statement), rest \in Seq(Statement) :
            one = <<s>> /\ rest = Tail(tx[c].todo)
      BY <3>1
    <3>3. (done \o one) \o rest = done \o (one \o rest)
      BY ConcatAssociative
    <3> QED
      BY <3>1, <3>2, <3>3
  <2> QED
    BY <1>1, <1>2, <2>1, <2>4, <2>5, <2>6 DEF Carried
<1>8. Numbered(c)'
  BY <1>1, <1>2 DEF AtomInv, Numbered, Numbers
<1> QED
  BY <1>4, <1>6, <1>7, <1>8 DEF AtomInv

LEMMA CommitAtom ==
  ASSUME TypeOK, TypeOK', Exclusion, IdentityInv, GrowInv, AtomInv, NEW c \in Clients, Commit(c)
  PROVE  AtomInv'
<1>1. /\ seq' = seq /\ known \subseteq known' /\ \A d \in Clients \ {c} : tx'[d] = tx[d]
      /\ tx'[c] = Idle
  BY DEF Commit, TypeOK
<1>2. /\ tx'[c].phase = "idle" /\ tx'[c].batch = << >>
      /\ tx'[c].pos = 0 /\ tx'[c].todo = << >> /\ tx'[c].rows = {}
      /\ tx'[c].delta = EmptyDb
  BY <1>1 DEF Idle
<1>3. Begun(c)' /\ Plans(c)'
  BY <1>2, NoItems DEF Begun, Plans
<1>4. Carried(c)' /\ Numbered(c)'
  BY <1>3, BegunCarried
<1>5. ASSUME NEW d \in Clients \ {c} PROVE (Plans(d) /\ Carried(d) /\ Numbered(d))'
  <2>1. \A done \in Seq(Statement) : Does(d, done) => Does(d, done)'
    BY CommitDoes DEF GrowInv
  <2> QED
    BY <1>1, <2>1, AtomKept DEF AtomInv, TypeOK
<1> QED
  BY <1>3, <1>4, <1>5 DEF AtomInv

LEMMA NothingScans ==
  ASSUME TypeOK, AtomInv, NEW c \in Clients
  PROVE  ~Scan(c)
<1> SUFFICES ASSUME Scan(c) PROVE FALSE
  OBVIOUS
<1>1. /\ tx[c].todo \in Seq(Statement) /\ tx[c].todo # << >>
      /\ Head(tx[c].todo).type \in RemapTypes
  BY DEF Scan, TypeOK, Tx
<1>2. Head(tx[c].todo) \in Plain
  BY <1>1, ItemsOfTail DEF AtomInv, Plans
<1> QED
  BY <1>1, <1>2, PlainKinds DEF RemapTypes

LEMMA AtomStep ==
  ASSUME "merge_nodes" \notin Ops, TypeOK, Exclusion, IdentityInv, GrowInv, AtomInv, [Next]_vars
  PROVE  AtomInv'
<1>0. TypeOK'
  BY TypeStep
<1>1. CASE UNCHANGED vars
  <2>1. ASSUME NEW d \in Clients PROVE (Plans(d) /\ Carried(d) /\ Numbered(d))'
    <3>1. Own(d)' = Own(d)
      BY <1>1 DEF vars, Own
    <3>2. \A done \in Seq(Statement) : Does(d, done) => Does(d, done)'
      BY <1>1, <3>1, DoesKept DEF vars
    <3> QED
      BY <1>1, <3>2, AtomKept DEF vars, AtomInv, TypeOK
  <2> QED
    BY <2>1 DEF AtomInv
<1>2. ASSUME NEW c \in Clients PROVE ~Scan(c)
  BY NothingScans
<1>3. ASSUME NEW c \in Clients,
             \/ AddNodes(c) \/ AddEdges(c) \/ UpdateNode(c) \/ RetractNode(c)
             \/ RetractEdge(c) \/ MergeNodes(c) \/ ApplyEvent(c)
      PROVE  AtomInv'
  BY <1>0, <1>3, CallsArePlain, CallAtom, CollectAtom
<1> QED
  BY <1>0, <1>1, <1>2, <1>3, InsertAtom, ExecuteAtom, CommitAtom, RollbackAtom
     DEF Next, Step, Fail, DeadlockVictim, Crash

-----------------------------------------------------------------------------
(* EventStore implements SerialStore.                                       *)

LEMMA SameEvents == Serial!Event = Event
  BY Zenon DEF Serial!Event, Event, Serial!NodeCreated, NodeCreated, Serial!NodeUpdated,
     NodeUpdated, Serial!NodeRetracted, NodeRetracted, Serial!EdgeAdded, EdgeAdded,
     Serial!EdgeUpdated, EdgeUpdated, Serial!EdgeRetracted, EdgeRetracted,
     Serial!EmbeddingStored, EmbeddingStored, Serial!RawInputReceived, RawInputReceived,
     Serial!NodesMerged, NodesMerged, Serial!NodeAttrs, NodeAttrs, Serial!EdgeAttrs,
     EdgeAttrs, Serial!Patch, Patch

\* The batch SerialStore takes c to be waiting for.
Pending == [c \in Clients |-> IF tx[c].phase = "open" THEN tx[c].batch ELSE << >>]

LEMMA SubmitStep ==
  ASSUME TypeOK, TypeOK', NEW c \in Clients, UNCHANGED <<log, db>>,
         \A d \in Clients \ {c} : tx'[d] = tx[d], Pending[c] = << >>,
         tx'[c].phase = "open", tx'[c].batch # << >>
  PROVE  Serial!Submit(c)
<1>1. Pending'[c] \in Seq(Event) \ {<< >>}
  BY DEF TypeOK, Tx, Pending
<1>2. Pending' = [Pending EXCEPT ![c] = Pending'[c]]
  BY DEF Pending
<1> QED
  BY <1>1, <1>2, SameEvents DEF Serial!Submit, Pending

LEMMA DropStep ==
  ASSUME TypeOK, AtomInv, NEW c \in Clients, Rollback(c)
  PROVE  Serial!Drop(c) \/ UNCHANGED <<log, db, Pending>>
<1>1. /\ UNCHANGED <<log, db>> /\ tx'[c] = Idle /\ \A d \in Clients \ {c} : tx'[d] = tx[d]
  BY DEF Rollback, TypeOK
<1>2. tx'[c].phase = "idle"
  BY <1>1 DEF Idle
<1>3. Pending' = [Pending EXCEPT ![c] = << >>]
  BY <1>1, <1>2 DEF Pending
<1>4. CASE Pending[c] = << >>
  <2>1. Pending' = Pending
    BY <1>3, <1>4 DEF Pending
  <2> QED
    BY <1>1, <2>1
<1>5. CASE Pending[c] # << >>
  BY <1>1, <1>3, <1>5 DEF Serial!Drop, Pending
<1> QED
  BY <1>4, <1>5

\* The ids of c, which are new.
LEMMA NewIds ==
  ASSUME TypeOK, IdInv, Apart, NEW c \in Clients, Commit(c), NEW f, Numbers(f, c)
  PROVE  /\ \A i \in DOMAIN tx[c].batch : f[i] \in {r.id : r \in log'} \ {r.id : r \in log}
         /\ \A i, j \in DOMAIN tx[c].batch : i < j => f[i] < f[j]
         /\ log' = log \cup {[id |-> f[i], event |-> tx[c].batch[i]] : i \in DOMAIN tx[c].batch}
         /\ DOMAIN f = DOMAIN tx[c].batch
<1>1. /\ DOMAIN tx[c].batch = 1 .. tx[c].pos
      /\ log' = log \cup tx[c].rows
  BY DEF Commit, TypeOK, Tx
<1>2. ASSUME NEW i \in 1 .. tx[c].pos
      PROVE  f[i] \in {r.id : r \in log'} \ {r.id : r \in log}
  <2>0. [id |-> f[i], event |-> tx[c].batch[i]] \in tx[c].rows
    BY DEF Numbers
  <2>1. PICK row \in tx[c].rows : row.id = f[i]
    BY <2>0
  <2>2. row \in log' /\ row \notin log /\ row \in AllRows
    BY <1>1 DEF Apart, AllRows
  <2>3. \A r \in log : r.id # row.id
    BY <2>2 DEF IdInv, LogIdsUnique, AllRows
  <2> QED
    BY <2>1, <2>2, <2>3
<1> QED
  BY <1>1, <1>2 DEF Numbers

LEMMA ExecStep ==
  ASSUME TypeOK, KeyInv, IdInv, Apart, AtomInv, NEW c \in Clients, Commit(c)
  PROVE  Serial!Exec(c)
<1> DEFINE batch == tx[c].batch
<1>1. /\ db' = View(c) /\ tx'[c] = Idle /\ \A d \in Clients \ {c} : tx'[d] = tx[d]
      /\ tx[c].phase = "open" /\ tx[c].todo = << >> /\ tx[c].pos = Len(batch)
      /\ batch \in Seq(Event) /\ db \in Db
  BY DEF Commit, TypeOK, Tx
<1>2. batch # << >>
  BY <1>1 DEF AtomInv, Plans
<1>3. Pending[c] = batch /\ Pending' = [Pending EXCEPT ![c] = << >>]
  <2>1. tx'[c].phase = "idle"
    BY <1>1 DEF Idle
  <2> QED
    BY <1>1, <2>1 DEF Pending
<1> DEFINE now == tx[c].now
<1>n. now \in Times
  <2>1. now \in Times \cup {NoTime} /\ tx[c].pos \in Nat
    BY DEF TypeOK, Tx
  <2>2. tx[c].pos > 0
    BY <1>1, <1>2, <2>1
  <2> QED
    BY <2>1, <2>2 DEF AtomInv, Plans
<1> HIDE DEF now
<1>4. PICK done \in Seq(Statement) : Planned(batch, now) = done /\ Does(c, done)
  <2>1. PICK done \in Seq(Statement) :
          /\ Planned(SubSeq(batch, 1, tx[c].pos), now) = done \o tx[c].todo
          /\ Does(c, done)
    BY DEF AtomInv, Carried, now
  <2>2. SubSeq(batch, 1, Len(batch)) = batch /\ done \o << >> = done
    BY <1>1
  <2> QED
    BY <1>1, <2>1, <2>2
<1>5. Alike(c, db)
  <2>1. KeyIdentifies(OverlayDb(db, tx[c].delta).nodes)
    BY DEF KeyInv, UniqueKeys, View
  <2> QED
    BY <2>1 DEF Alike, SameRows
<1>6. After(db, done) = View(c) /\ Accepts(db, done)
  BY <1>1, <1>4, <1>5 DEF Does, View
<1>7. Serial!Accepted(db, done) /\ Serial!Run(db, done) = db'
  BY <1>1, <1>6, SameRun, SameAccepted
<1>8. PICK f : Numbers(f, c)
  BY DEF AtomInv, Numbered
<1>9. \E id \in [DOMAIN batch -> {r.id : r \in log'} \ {r.id : r \in log}] :
        /\ \A i, j \in DOMAIN batch : i < j => id[i] < id[j]
        /\ log' = log \cup {[id |-> id[i], event |-> batch[i]] : i \in DOMAIN batch}
  <2>1. f \in [DOMAIN batch -> {r.id : r \in log'} \ {r.id : r \in log}]
    BY <1>8, NewIds DEF Numbers
  <2>2. /\ \A i, j \in DOMAIN batch : i < j => f[i] < f[j]
        /\ log' = log \cup {[id |-> f[i], event |-> batch[i]] : i \in DOMAIN batch}
    BY <1>8, NewIds
  <2> QED
    BY <2>1, <2>2
<1>10. Serial!BatchStatements(batch, now) = done
  BY <1>4, SamePlan
<1> QED
  BY <1>2, <1>3, <1>7, <1>9, <1>10, <1>n DEF Serial!Exec, Pending

LEMMA SerialStep ==
  ASSUME "merge_nodes" \notin Ops, TypeOK, TypeOK', KeyInv, IdInv, Apart, AtomInv, [Next]_vars
  PROVE  [Serial!Next]_Serial!serialVars
<1>0. ASSUME UNCHANGED <<log, db, Pending>> PROVE [Serial!Next]_Serial!serialVars
  BY <1>0 DEF Serial!serialVars, Pending
<1>a. ASSUME NEW c \in Clients, UNCHANGED <<log, db>>,
             \A d \in Clients \ {c} : tx'[d] = tx[d],
             tx'[c].phase = tx[c].phase, tx'[c].batch = tx[c].batch
      PROVE  [Serial!Next]_Serial!serialVars
  <2>1. Pending' = Pending
    BY <1>a DEF Pending
  <2> QED
    BY <1>a, <2>1, <1>0
<1>1. CASE UNCHANGED vars
  BY <1>0, <1>1 DEF vars, Pending
<1>2. ASSUME NEW c \in Clients, SingleCall(c) PROVE Serial!Submit(c)
  <2>0. PICK op : \E event \in Plain : Refers(event, known) /\ Call(c, op, <<event>>)
    BY <1>2 DEF SingleCall
  <2>1. PICK event \in Plain : Call(c, op, <<event>>)
    BY <2>0
  <2>2. /\ UNCHANGED <<log, db>> /\ \A d \in Clients \ {c} : tx'[d] = tx[d]
        /\ tx'[c] = [Idle EXCEPT !.phase = "open", !.batch = <<event>>]
        /\ tx[c].phase = "idle"
    BY <2>1 DEF Call, TypeOK
  <2>3. tx'[c].phase = "open" /\ tx'[c].batch = <<event>> /\ <<event>> # << >>
    BY <2>2 DEF Idle
  <2>4. Pending[c] = << >>
    BY <2>2 DEF Pending
  <2> QED
    BY <2>2, <2>3, <2>4, SubmitStep
<1>3. ASSUME NEW c \in Clients, Gathering(c) PROVE [Serial!Next]_Serial!serialVars
  <2>0. PICK op, ns : \E phase \in {"nodes", "edges"}, id \in NodeIds \cup EdgeIds,
                           events \in Seq(Event) : Collect(c, op, phase, ns, id, events)
    BY <1>3 DEF Gathering
  <2>1. PICK phase \in {"nodes", "edges"}, id \in NodeIds \cup EdgeIds, events \in Seq(Event) :
          Collect(c, op, phase, ns, id, events)
    BY <2>0
  <2>2. /\ UNCHANGED <<log, db>> /\ \A d \in Clients \ {c} : tx'[d] = tx[d]
        /\ tx[c].phase # "open" /\ tx'[c].phase # "open"
    BY <2>1 DEF Collect, TypeOK, Tx
  <2>3. Pending' = Pending
    BY <2>2 DEF Pending
  <2> QED
    BY <2>2, <2>3, <1>0
<1>4. ASSUME NEW c \in Clients, InsertEvent(c) PROVE [Serial!Next]_Serial!serialVars
  <2>1. /\ UNCHANGED <<log, db>> /\ \A d \in Clients \ {c} : tx'[d] = tx[d]
        /\ tx'[c].phase = "open" /\ tx'[c].batch = tx[c].batch /\ tx[c].phase # "idle"
    BY <1>4, InsertData, InsertNow DEF InsertEvent
  <2>2. CASE tx[c].phase = "open"
    BY <2>1, <2>2, <1>a
  <2>3. CASE tx[c].phase # "open"
    <3>1. Pending[c] = << >> /\ tx'[c].batch # << >>
      BY <2>1, <2>3 DEF Pending, AtomInv, Plans
    <3>2. Serial!Submit(c)
      BY <2>1, <3>1, SubmitStep
    <3> QED
      BY <3>2 DEF Serial!Next
  <2> QED
    BY <2>2, <2>3
<1>5. ASSUME NEW c \in Clients, Execute(c) PROVE [Serial!Next]_Serial!serialVars
  <2>1. /\ UNCHANGED <<log, db>> /\ \A d \in Clients \ {c} : tx'[d] = tx[d]
        /\ tx'[c].phase = tx[c].phase /\ tx'[c].batch = tx[c].batch
    BY <1>5 DEF Execute, TypeOK, Tx
  <2> QED
    BY <2>1, <1>a
<1>6. ASSUME NEW c \in Clients, Commit(c) PROVE [Serial!Next]_Serial!serialVars
  BY <1>6, ExecStep DEF Serial!Next
<1>7. ASSUME NEW c \in Clients, Rollback(c) PROVE [Serial!Next]_Serial!serialVars
  BY <1>0, <1>7, DropStep DEF Serial!Next
<1>8. ASSUME NEW c \in Clients,
             \/ AddNodes(c) \/ AddEdges(c) \/ UpdateNode(c) \/ RetractNode(c)
             \/ RetractEdge(c) \/ MergeNodes(c) \/ ApplyEvent(c)
      PROVE  [Serial!Next]_Serial!serialVars
  BY <1>2, <1>3, <1>8, CallsArePlain DEF Serial!Next
<1> QED
  BY <1>1, <1>4, <1>5, <1>6, <1>7, <1>8, NothingScans
     DEF Next, Step, Fail, DeadlockVictim, Crash

\* Calls whose statements write single rows behave as if each ran alone, at the
\* instant of its commit: EventStore without merges implements SerialStore.
THEOREM SingleRowCallsAreAtomic ==
  ASSUME "merge_nodes" \notin Ops
  PROVE  Spec => CallsAreAtomic
<1> DEFINE Graph == TypeOK /\ KeyInv /\ IdentityInv /\ GrowInv
           Log == IdInv /\ Apart
           Inv == Graph /\ Log /\ AtomInv
<1>1. Init => Inv /\ Serial!Init
  <2> SUFFICES ASSUME Init PROVE Inv /\ Serial!Init
    OBVIOUS
  <2>1. /\ db = EmptyDb /\ log = {} /\ known = {}
        /\ \A c \in Clients : /\ tx[c].delta = EmptyDb /\ tx[c].todo = << >>
                              /\ tx[c].batch = << >> /\ tx[c].rows = {}
                              /\ tx[c].drawn = {} /\ tx[c].pos = 0 /\ tx[c].phase = "idle"
                              /\ tx[c].now = NoTime
    BY DEF Init, Idle
  <2>2. \A c \in Clients : View(c) = EmptyDb
    BY <2>1, EmptyDelta, EmptyDbType DEF View
  <2>3. IdentityInv
    BY <2>1, NoItems DEF IdentityInv, Identified
  <2>4. GrowInv
    BY <2>1, <2>2, GrowsNot DEF GrowInv
  <2>5. Log
    BY <2>1 DEF IdInv, LogIdsUnique, AllRows, Apart
  <2>6. KeyInv
    BY <2>1, <2>2, ExclusionInit, EmptyTables
       DEF KeyInv, UniqueKeys, KeysExclude, KeyIdentifies
  <2>7. ASSUME NEW c \in Clients PROVE Plans(c) /\ Carried(c) /\ Numbered(c)
    <3>1. Does(c, << >>)
      BY <2>1, NothingYet DEF Does
    <3>2. Planned(SubSeq(<< >>, 1, 0), NoTime) = << >> \o << >>
      <4>1. << >> \in Seq(Event)
        OBVIOUS
      <4> QED
        BY <4>1, NothingYet, Zenon
    <3>3. Carried(c)
      BY <2>1, <3>1, <3>2, NothingYet DEF Carried
    <3>4. Numbers([i \in 1 .. 0 |-> 0], c)
      BY <2>1 DEF Numbers
    <3> QED
      BY <2>1, <3>3, <3>4, NoItems DEF Plans, Numbered
  <2>8. Serial!Init
    BY <2>1 DEF Serial!Init, Serial!EmptyDb, EmptyDb
  <2> QED
    BY <2>3, <2>4, <2>5, <2>6, <2>7, <2>8, TypeInit DEF AtomInv
<1>2. Inv /\ [Next]_vars => Inv'
  BY TypeStep, KeyStep, IdentityStep, GrowStep, IdStep, ApartStep, AtomStep DEF KeyInv
<1>3. Inv /\ Inv' /\ [Next]_vars => [Serial!Next]_Serial!serialVars
  BY SerialStep
<1> QED
  BY <1>1, <1>2, <1>3, PTL DEF Spec, CallsAreAtomic, Serial!Spec

=============================================================================
