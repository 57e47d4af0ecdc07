--------------------------- MODULE SequenceLemmas ---------------------------
(* Facts about sequences that several proofs use. *)
EXTENDS Integers, Filters, SequenceTheorems, WellFoundedInduction, TLAPS

(* A set of natural numbers that is not empty has a least element. *)
LEMMA LeastNatural ==
  ASSUME NEW T, T \subseteq Nat, T # {}
  PROVE  \E x \in T : \A y \in T : x <= y
  <1>1. \E x \in T : \A y \in T : ~(<<y, x>> \in OpToRel(<, Nat))
    BY NatLessThanWellFounded, WFMin
  <1>2. PICK x \in T : \A y \in T : ~(<<y, x>> \in OpToRel(<, Nat))
    BY <1>1
  <1>3. \A y \in T : ~(y < x)
    BY <1>2 DEF OpToRel
  <1> QED BY <1>3

(* Induction up to n: a set with 0 and the successor of each of its        *)
(* members below n holds all numbers up to n.                              *)
LEMMA ReachesAll ==
  ASSUME NEW n \in Nat, NEW T, 0 \in T, \A k \in 0..(n-1) : k \in T => k + 1 \in T
  PROVE  0..n \subseteq T
  <1> DEFINE missing == (0..n) \ T
  <1>1. SUFFICES ASSUME missing # {} PROVE FALSE
    OBVIOUS
  <1>2. PICK x \in missing : \A y \in missing : x <= y
    <2>1. missing \subseteq Nat
      OBVIOUS
    <2> HIDE DEF missing
    <2> QED BY <1>1, <2>1, LeastNatural
  <1>3. x \in 1..n
    BY <1>2
  <1>4. x - 1 \in T /\ x - 1 \in 0..(n-1)
    BY <1>2, <1>3
  <1>5. (x - 1) + 1 \in T
    BY <1>4
  <1> QED BY <1>2, <1>3, <1>5

(* A function on the first numbers is a sequence. *)
LEMMA FunctionIsSeq ==
  ASSUME NEW S, NEW n \in Nat, NEW f \in [1..n -> S]
  PROVE  f \in Seq(S) /\ Len(f) = n
  <1>1. [i \in 1..n |-> f[i]] \in Seq(S)
    BY IsASeq
  <1>2. f \in Seq(S)
    BY <1>1
  <1> QED BY <1>2, LenProperties

(* RemoveAt drops one element and keeps the order of the others. *)
LEMMA RemoveAtElements ==
  ASSUME NEW S, NEW q \in Seq(S), NEW i \in 1..Len(q)
  PROVE  /\ RemoveAt(q, i) \in Seq(S)
         /\ Len(RemoveAt(q, i)) = Len(q) - 1
         /\ \A k \in 1..(Len(q) - 1) :
              RemoveAt(q, i)[k] = IF k < i THEN q[k] ELSE q[k+1]
  <1> DEFINE a == SubSeq(q, 1, i-1)
             b == SubSeq(q, i+1, Len(q))
  <1>1. a \in Seq(S) /\ Len(a) = i-1 /\ \A k \in 1..(i-1) : a[k] = q[k]
    BY SubSeqProperties, LenProperties
  <1>2. b \in Seq(S) /\ Len(b) = Len(q) - i
        /\ \A k \in 1..(Len(q) - i) : b[k] = q[i+k]
    BY SubSeqProperties, LenProperties
  <1>3. RemoveAt(q, i) = a \o b
    BY DEF RemoveAt
  <1> HIDE DEF a, b
  <1>4. a \o b \in Seq(S) /\ Len(a \o b) = Len(q) - 1
    <2>1. a \o b \in Seq(S) /\ Len(a \o b) = Len(a) + Len(b)
      BY <1>1, <1>2, ConcatProperties
    <2> QED BY <1>1, <1>2, <2>1, LenProperties
  <1>5. ASSUME NEW k \in 1..(Len(q) - 1)
        PROVE  (a \o b)[k] = IF k < i THEN q[k] ELSE q[k+1]
    <2>1. Len(q) \in Nat
      BY LenProperties
    <2>2. CASE k < i
      BY <1>1, <1>2, <2>1, <2>2, ConcatProperties
    <2>3. CASE ~(k < i)
      <3>1. (a \o b)[k] = b[k - (i-1)] /\ k - (i-1) \in 1..(Len(q) - i)
        BY <1>1, <1>2, <2>1, <2>3, ConcatProperties
      <3>2. i + (k - (i-1)) = k + 1
        BY <2>1
      <3> QED BY <1>2, <2>3, <3>1, <3>2
    <2> QED BY <2>2, <2>3
  <1> QED BY <1>3, <1>4, <1>5

(* InsertAt puts one element in and keeps the order of the others. *)
LEMMA InsertAtElements ==
  ASSUME NEW S, NEW q \in Seq(S), NEW i \in 1..(Len(q) + 1), NEW e \in S
  PROVE  /\ InsertAt(q, i, e) \in Seq(S)
         /\ Len(InsertAt(q, i, e)) = Len(q) + 1
         /\ \A k \in 1..(Len(q) + 1) :
              InsertAt(q, i, e)[k] = IF k < i THEN q[k] ELSE IF k = i THEN e ELSE q[k-1]
  <1> DEFINE a == SubSeq(q, 1, i-1)
             b == <<e>>
             c == SubSeq(q, i, Len(q))
             ab == a \o b
  <1>0. Len(q) \in Nat /\ i \in Nat
    BY LenProperties
  <1>1. a \in Seq(S) /\ Len(a) = i-1 /\ \A k \in 1..(i-1) : a[k] = q[k]
    BY <1>0, SubSeqProperties
  <1>2. c \in Seq(S) /\ Len(c) = Len(q) - (i-1)
        /\ \A k \in 1..(Len(q) - (i-1)) : c[k] = q[(i-1)+k]
    <2>1. i \in Int /\ Len(q) \in Int /\ \A j \in i..Len(q) : q[j] \in S
      BY <1>0, ElementOfSeq
    <2>2. /\ c \in Seq(S)
          /\ Len(c) = IF i <= Len(q) THEN Len(q)-i+1 ELSE 0
          /\ \A k \in 1..(Len(q)-i+1) : c[k] = q[i+k-1]
      BY <2>1, SubSeqProperties
    <2> HIDE DEF c
    <2>3. \A k \in Int : i+k-1 = (i-1)+k
      BY <1>0
    <2>4. Len(q)-i+1 = Len(q) - (i-1)
      BY <1>0
    <2> QED BY <1>0, <2>2, <2>3, <2>4
  <1>3. b \in Seq(S) /\ Len(b) = 1 /\ b[1] = e
    OBVIOUS
  <1>4. InsertAt(q, i, e) = ab \o c
    BY DEF InsertAt
  <1> HIDE DEF a, b, c
  <1>5. /\ ab \in Seq(S) /\ Len(ab) = i
        /\ \A k \in 1..i : ab[k] = IF k < i THEN q[k] ELSE e
    <2>1. ab \in Seq(S) /\ Len(ab) = Len(a) + Len(b)
      BY <1>1, <1>3, ConcatProperties
    <2>2. Len(ab) = i
      BY <1>0, <1>1, <1>3, <2>1
    <2> HIDE DEF ab
    <2>3. ASSUME NEW k \in 1..i PROVE ab[k] = IF k < i THEN q[k] ELSE e
      <3>1. ab[k] = IF k <= Len(a) THEN a[k] ELSE b[k - Len(a)]
        <4>1. k \in 1..(Len(a) + Len(b))
          BY <1>0, <1>1, <1>3
        <4> QED BY <1>1, <1>3, <4>1, ConcatProperties DEF ab
      <3>2. CASE k < i
        BY <1>0, <1>1, <3>1, <3>2
      <3>3. CASE k = i
        <4>1. k - Len(a) = 1 /\ ~(k <= Len(a))
          BY <1>0, <1>1, <3>3
        <4> QED BY <1>3, <3>1, <3>3, <4>1
      <3> QED BY <1>0, <3>2, <3>3
    <2> QED BY <2>1, <2>2, <2>3
  <1> HIDE DEF ab
  <1>6. ab \o c \in Seq(S) /\ Len(ab \o c) = Len(q) + 1
    <2>1. ab \o c \in Seq(S) /\ Len(ab \o c) = Len(ab) + Len(c)
      BY <1>2, <1>5, ConcatProperties
    <2> QED BY <1>0, <1>2, <1>5, <2>1
  <1>7. ASSUME NEW k \in 1..(Len(q) + 1)
        PROVE  (ab \o c)[k] = IF k < i THEN q[k] ELSE IF k = i THEN e ELSE q[k-1]
    <2>1. (ab \o c)[k] = IF k <= Len(ab) THEN ab[k] ELSE c[k - Len(ab)]
      <3>1. k \in 1..(Len(ab) + Len(c))
        BY <1>0, <1>2, <1>5
      <3> QED BY <1>2, <1>5, <3>1, ConcatProperties
    <2>2. CASE k <= i
      BY <1>0, <1>5, <2>1, <2>2
    <2>3. CASE k > i
      <3>1. k - i \in 1..(Len(q) - (i-1)) /\ (i-1) + (k - i) = k - 1
        BY <1>0, <2>3
      <3>2. (ab \o c)[k] = c[k - i] /\ ~(k < i) /\ k # i
        BY <1>0, <1>5, <2>1, <2>3
      <3>3. c[k - i] = q[k - 1]
        <4>1. c[k - i] = q[(i-1) + (k - i)]
          BY <1>2, <3>1
        <4> QED BY <3>1, <4>1
      <3> QED BY <3>2, <3>3
    <2>4. k <= i \/ k > i
      BY <1>0
    <2> QED BY <2>2, <2>3, <2>4, Zenon
  <1> QED BY <1>4, <1>6, <1>7

-----------------------------------------------------------------------------
(* Folds.  FoldLeft is defined by recursion over the sets of positions;    *)
(* that there is such a function is shown once, for steps given as a       *)
(* function G of a position and what was made of the positions before it.  *)

(* The last position of a set of positions. *)
LEMMA LastPosition ==
  ASSUME NEW n \in Nat, NEW s \in SUBSET (1..(n+1))
  PROVE  /\ n + 1 \in s => Max(s) = n + 1 /\ s \ {n + 1} \in SUBSET (1..n)
         /\ n + 1 \notin s => s \in SUBSET (1..n)
  <1>1. CASE n + 1 \in s
    <2>1. \A x \in s : n + 1 >= x
      OBVIOUS
    <2>2. \A x \in s : (\A y \in s : x >= y) => x = n + 1
      BY <1>1
    <2>3. Max(s) \in s /\ \A y \in s : Max(s) >= y
      BY <1>1, <2>1 DEF Max
    <2>4. s \ {n + 1} \in SUBSET (1..n)
      OBVIOUS
    <2> QED BY <1>1, <2>2, <2>3, <2>4
  <1>2. CASE n + 1 \notin s
    BY <1>2
  <1> QED BY <1>1, <1>2

(* Every set of positions that is not empty has a last one. *)
LEMMA GreatestPosition ==
  ASSUME NEW n \in Nat, NEW s \in SUBSET (1..n), s # {}
  PROVE  Max(s) \in s /\ \A y \in s : Max(s) >= y
  <1> DEFINE T == {m \in 0..n : \A t \in SUBSET (1..m) : t # {} => \E x \in t : \A y \in t : x >= y}
  <1>1. 0 \in T
    <2>1. \A t \in SUBSET (1..0) : t = {}
      OBVIOUS
    <2>2. 0 \in 0..n
      OBVIOUS
    <2> QED BY <2>1, <2>2, Zenon
  <1>2. ASSUME NEW m \in 0..(n-1), m \in T PROVE m + 1 \in T
    <2>1. ASSUME NEW t \in SUBSET (1..(m+1)), t # {}
          PROVE  \E x \in t : \A y \in t : x >= y
      <3>1. CASE m + 1 \in t
        BY <3>1
      <3>2. CASE m + 1 \notin t
        <4>1. t \in SUBSET (1..m)
          BY <3>2
        <4> QED BY <1>2, <2>1, <4>1
      <3> QED BY <3>1, <3>2
    <2> QED BY <2>1
  <1> HIDE DEF T
  <1>3. 0..n \subseteq T
    BY <1>1, <1>2, ReachesAll
  <1>4. n \in T
    BY <1>3
  <1>5. \E x \in s : \A y \in s : x >= y
    BY <1>4 DEF T
  <1> QED BY <1>5 DEF Max

(* Position k is the last of 1..k. *)
LEMMA LastOfPrefix ==
  ASSUME NEW k \in Nat, k # 0
  PROVE  Max(1..k) = k /\ (1..k) \ {k} = 1..(k-1) /\ 1..k # {}
  <1>1. (k - 1) \in Nat /\ (k - 1) + 1 = k /\ k \in 1..k
    OBVIOUS
  <1>2. Max(1..k) = k
    BY <1>1, LastPosition
  <1> QED BY <1>1, <1>2

(* f folds G over the sets of positions up to n, from a. *)
IsFold(f, n, a, G) ==
  /\ f[{}] = a
  /\ \A s \in SUBSET (1..n) : s # {} => f[s] = G[Max(s)][f[s \ {Max(s)}]]

LEMMA FoldsExist ==
  ASSUME NEW n \in Nat, NEW R, NEW a \in R, NEW G,
         \A k \in 1..n : \A x \in R : G[k][x] \in R
  PROVE  \E f \in [SUBSET (1..n) -> R] : IsFold(f, n, a, G)
  <1> DEFINE Fold(f, m) ==
               /\ f = [s \in SUBSET (1..m) |->
                         IF s = {} THEN a ELSE G[Max(s)][f[s \ {Max(s)}]]]
               /\ \A s \in SUBSET (1..m) : f[s] \in R
             T == {m \in 0..n : \E f : Fold(f, m)}
  <1>1. 0 \in T
    <2> DEFINE f == [s \in SUBSET (1..0) |-> a]
    <2>1. \A s \in SUBSET (1..0) : s = {}
      OBVIOUS
    <2>2. Fold(f, 0)
      BY <2>1
    <2> HIDE DEF Fold, f
    <2> QED BY <2>2
  <1>2. ASSUME NEW m \in 0..(n-1), m \in T PROVE m + 1 \in T
    <2>1. PICK f : Fold(f, m)
      BY <1>2
    <2> DEFINE g == [s \in SUBSET (1..(m+1)) |->
                      IF m + 1 \in s THEN G[m + 1][f[s \ {m + 1}]] ELSE f[s]]
    <2>2. ASSUME NEW s \in SUBSET (1..(m+1))
          PROVE  /\ g[s] = IF s = {} THEN a ELSE G[Max(s)][g[s \ {Max(s)}]]
                 /\ g[s] \in R
      <3>1. CASE m + 1 \in s
        <4>1. Max(s) = m + 1 /\ s \ {m + 1} \in SUBSET (1..m) /\ s # {}
          BY <3>1, LastPosition
        <4>2. s \ {m + 1} \in SUBSET (1..(m+1)) /\ m + 1 \notin s \ {m + 1}
          OBVIOUS
        <4>3. g[s \ {m + 1}] = f[s \ {m + 1}] /\ f[s \ {m + 1}] \in R
          BY <2>1, <4>1, <4>2
        <4>4. g[s] = G[m + 1][f[s \ {m + 1}]]
          BY <3>1
        <4>5. m + 1 \in 1..n
          OBVIOUS
        <4> HIDE DEF g
        <4> QED BY <4>1, <4>3, <4>4, <4>5
      <3>2. CASE m + 1 \notin s
        <4>1. s \in SUBSET (1..m)
          BY <3>2
        <4>2. g[s] = f[s] /\ f[s] \in R
          BY <2>1, <3>2, <4>1
        <4>3. f[s] = IF s = {} THEN a ELSE G[Max(s)][f[s \ {Max(s)}]]
          BY <2>1, <4>1
        <4>4. s \ {Max(s)} \in SUBSET (1..(m+1)) /\ m + 1 \notin s \ {Max(s)}
          BY <3>2
        <4>5. g[s \ {Max(s)}] = f[s \ {Max(s)}]
          BY <4>4
        <4> HIDE DEF g
        <4> QED BY <4>2, <4>3, <4>5
      <3> QED BY <3>1, <3>2
    <2>3. g = [s \in SUBSET (1..(m+1)) |->
                 IF s = {} THEN a ELSE G[Max(s)][g[s \ {Max(s)}]]]
      BY <2>2
    <2>4. Fold(g, m + 1)
      BY <2>2, <2>3
    <2> HIDE DEF Fold, g
    <2> QED BY <2>4
  <1> HIDE DEF T
  <1>3. 0..n \subseteq T
    BY <1>1, <1>2, ReachesAll
  <1>4. \E f : Fold(f, n)
    <2>1. n \in T
      BY <1>3
    <2> HIDE DEF Fold
    <2> QED BY <2>1 DEF T
  <1>5. PICK f : Fold(f, n)
    BY <1>4
  <1>6. f \in [SUBSET (1..n) -> R] /\ f[{}] = a
    BY <1>5
  <1>7. \A s \in SUBSET (1..n) : s # {} => f[s] = G[Max(s)][f[s \ {Max(s)}]]
    BY <1>5
  <1> HIDE DEF Fold
  <1> QED BY <1>6, <1>7 DEF IsFold

(* What a filter goes through, position by position. *)
LEMMA PickedUnfolds ==
  ASSUME NEW E, NEW s \in Seq(E), NEW S
  PROVE  \E c : /\ c[0] = <<>>
                /\ \A k \in 1..Len(s) :
                     c[k] = IF s[k] \in S THEN Append(c[k-1], s[k]) ELSE c[k-1]
                /\ Picked(s, S) = c[Len(s)]
  <1> DEFINE n == Len(s)
             Step(x, e) == IF e \in S THEN Append(x, e) ELSE x
             G == [k \in 1..n |-> [x \in Seq(E) |-> Step(x, s[k])]]
             Fold(f) == f = [t \in SUBSET (1..n) |->
                               IF t = {} THEN <<>> ELSE Step(f[t \ {Max(t)}], s[Max(t)])]
             h == CHOOSE f : Fold(f)
  <1>1. n \in Nat /\ DOMAIN s = 1..n
    BY LenProperties
  <1>2. \E f : Fold(f)
    <2>1. \A k \in 1..n, x \in Seq(E) : Step(x, s[k]) \in Seq(E)
      BY <1>1, ElementOfSeq, AppendProperties
    <2>2. \A k \in 1..n, x \in Seq(E) : G[k][x] \in Seq(E)
      BY <2>1
    <2> DEFINE R == Seq(E)
               b == <<>>
    <2>9. b \in R /\ \A k \in 1..n : \A x \in R : G[k][x] \in R
      BY <2>2, EmptySeq
    <2> HIDE DEF n, G, R, b
    <2>3. PICK f \in [SUBSET (1..n) -> R] : IsFold(f, n, b, G)
      BY <1>1, <2>9, FoldsExist, Zenon
    <2>4. ASSUME NEW t \in SUBSET (1..n), t # {}
          PROVE  G[Max(t)][f[t \ {Max(t)}]] = Step(f[t \ {Max(t)}], s[Max(t)])
      <3>1. Max(t) \in 1..n
        BY <1>1, <2>4, GreatestPosition
      <3>2. f[t \ {Max(t)}] \in Seq(E)
        BY <2>3 DEF R
      <3> QED BY <3>1, <3>2 DEF G
    <2>5. Fold(f)
      <3> HIDE DEF Step
      <3> QED BY <2>3, <2>4 DEF b, IsFold
    <2> HIDE DEF Fold
    <2> QED BY <2>5
  <1>3. Fold(h)
    <2> HIDE DEF Fold
    <2> QED BY <1>2
  <1>4. Picked(s, S) = h[1..n]
    BY <1>1 DEF Picked, FoldLeft, MapThenFoldSet
  <1> DEFINE c == [k \in 0..n |-> h[1..k]]
  <1> HIDE DEF h
  <1>5. c[0] = <<>>
    <2>1. 1..0 = {} /\ 0 \in 0..n
      BY <1>1
    <2> QED BY <1>3, <2>1
  <1>6. ASSUME NEW k \in 1..n PROVE c[k] = Step(c[k-1], s[k])
    <2>1. Max(1..k) = k /\ (1..k) \ {k} = 1..(k-1) /\ 1..k # {}
      BY LastOfPrefix
    <2>2. k \in 0..n /\ k - 1 \in 0..n /\ 1..k \in SUBSET (1..n)
      BY <1>1
    <2>3. h[1..k] = Step(h[1..(k-1)], s[k])
      <3> HIDE DEF n, Step
      <3> QED BY <1>3, <2>1, <2>2
    <2> HIDE DEF Step, n
    <2> QED BY <2>2, <2>3
  <1>7. c[n] = Picked(s, S)
    BY <1>1, <1>4
  <1> HIDE DEF c
  <1>8. /\ c[0] = <<>>
        /\ \A k \in 1..Len(s) :
             c[k] = IF s[k] \in S THEN Append(c[k-1], s[k]) ELSE c[k-1]
        /\ Picked(s, S) = c[Len(s)]
    BY <1>5, <1>6, <1>7
  <1> QED BY <1>8, Zenon

(* A filter keeps what is in the set, all of it and nothing else. *)
LEMMA PickedProperties ==
  ASSUME NEW E, NEW s \in Seq(E), NEW S
  PROVE  /\ Picked(s, S) \in Seq(E)
         /\ Len(Picked(s, S)) <= Len(s)
         /\ \A i \in 1..Len(Picked(s, S)) :
              Picked(s, S)[i] \in S /\ \E j \in 1..Len(s) : s[j] = Picked(s, S)[i]
         /\ \A j \in 1..Len(s) :
              s[j] \in S => \E i \in 1..Len(Picked(s, S)) : Picked(s, S)[i] = s[j]
         /\ (\A j \in 1..Len(s) : s[j] \in S) => Picked(s, S) = s
  <1> DEFINE n == Len(s)
             Kept(r, k) ==
               /\ r \in Seq(E)
               /\ Len(r) <= k
               /\ \A i \in 1..Len(r) : r[i] \in S /\ \E j \in 1..k : s[j] = r[i]
               /\ \A j \in 1..k : s[j] \in S => \E i \in 1..Len(r) : r[i] = s[j]
               /\ (\A j \in 1..k : s[j] \in S) => Len(r) = k /\ \A j \in 1..k : r[j] = s[j]
  <1>1. PICK c : /\ c[0] = <<>>
                 /\ \A k \in 1..n :
                      c[k] = IF s[k] \in S THEN Append(c[k-1], s[k]) ELSE c[k-1]
                 /\ Picked(s, S) = c[n]
    BY PickedUnfolds
  <1>2. n \in Nat /\ \A k \in 1..n : s[k] \in E
    BY LenProperties, ElementOfSeq
  <1> HIDE DEF n
  <1> DEFINE T == {k \in 0..n : Kept(c[k], k)}
  <1>3. 0 \in T
    <2>1. <<>> \in Seq(E) /\ Len(<<>>) = 0
      BY EmptySeq
    <2>2. \A j \in 1..0 : FALSE
      OBVIOUS
    <2>3. Kept(<<>>, 0)
      BY <2>1, <2>2
    <2> HIDE DEF Kept
    <2> QED BY <1>1, <1>2, <2>3
  <1>4. ASSUME NEW k \in 0..(n-1), k \in T PROVE k + 1 \in T
    <2> DEFINE r == c[k]
               e == s[k + 1]
               a == Append(r, e)
    <2>1. k + 1 \in 0..n /\ k + 1 \in 1..n /\ (k + 1) - 1 = k /\ k \in Nat /\ e \in E
      BY <1>2
    <2>2. c[k + 1] = IF e \in S THEN a ELSE r
      BY <1>1, <2>1
    <2>3. Kept(r, k)
      BY <1>4
    <2>4. Len(r) \in Nat
      BY <2>3, LenProperties
    <2> HIDE DEF r
    <2>5. CASE e \in S
      <3>1. /\ a \in Seq(E) /\ Len(a) = Len(r) + 1
            /\ \A i \in 1..Len(r) : a[i] = r[i]
            /\ a[Len(r) + 1] = e
        BY <2>1, <2>3, AppendProperties
      <3> HIDE DEF a
      <3>2. ASSUME NEW i \in 1..Len(a)
            PROVE  a[i] \in S /\ \E j \in 1..(k+1) : s[j] = a[i]
        <4>1. CASE i \in 1..Len(r)
          <5>1. a[i] = r[i] /\ r[i] \in S /\ \E j \in 1..k : s[j] = r[i]
            BY <2>3, <3>1, <4>1
          <5> QED BY <2>1, <5>1
        <4>2. CASE i = Len(r) + 1
          <5>1. a[i] = e /\ k + 1 \in 1..(k+1)
            BY <2>1, <3>1, <4>2
          <5> QED BY <2>5, <5>1
        <4> QED BY <2>4, <3>1, <4>1, <4>2
      <3>3. ASSUME NEW j \in 1..(k+1), s[j] \in S PROVE \E i \in 1..Len(a) : a[i] = s[j]
        <4>1. CASE j \in 1..k
          <5>1. PICK i \in 1..Len(r) : r[i] = s[j]
            BY <2>3, <3>3, <4>1
          <5>2. i \in 1..Len(a) /\ a[i] = s[j]
            BY <2>4, <3>1, <5>1
          <5> QED BY <5>2
        <4>2. CASE j = k + 1
          <5>1. Len(r) + 1 \in 1..Len(a) /\ a[Len(r) + 1] = s[j]
            BY <2>4, <3>1, <4>2
          <5> QED BY <5>1
        <4>3. j \in 1..k \/ j = k + 1
          BY <2>1
        <4> QED BY <4>1, <4>2, <4>3, Zenon
      <3>4. ASSUME \A j \in 1..(k+1) : s[j] \in S
            PROVE  Len(a) = k + 1 /\ \A j \in 1..(k+1) : a[j] = s[j]
        <4>1. \A j \in 1..k : s[j] \in S
          BY <2>1, <3>4
        <4>2. Len(r) = k /\ \A j \in 1..k : r[j] = s[j]
          BY <2>3, <4>1
        <4> QED BY <2>1, <3>1, <4>2
      <3>5. Len(a) <= k + 1
        BY <2>1, <2>3, <2>4, <3>1
      <3>6. Kept(a, k + 1)
        BY <3>1, <3>2, <3>3, <3>4, <3>5
      <3> HIDE DEF Kept
      <3> QED BY <2>1, <2>2, <2>5, <3>6
    <2>6. CASE e \notin S
      <3>1. Len(r) <= k + 1
        BY <2>1, <2>3, <2>4
      <3>2. ASSUME NEW i \in 1..Len(r)
            PROVE  r[i] \in S /\ \E j \in 1..(k+1) : s[j] = r[i]
        BY <2>1, <2>3
      <3>3. ASSUME NEW j \in 1..(k+1), s[j] \in S PROVE \E i \in 1..Len(r) : r[i] = s[j]
        <4>1. j \in 1..k
          BY <2>1, <2>6, <3>3
        <4> QED BY <2>3, <3>3, <4>1
      <3>4. ~(\A j \in 1..(k+1) : s[j] \in S)
        <4>1. k + 1 \in 1..(k+1)
          BY <2>1
        <4> QED BY <2>6, <4>1
      <3>5. Kept(r, k + 1)
        BY <2>3, <3>1, <3>2, <3>3, <3>4
      <3> HIDE DEF Kept
      <3> QED BY <2>1, <2>2, <2>6, <3>5
    <2> QED BY <2>5, <2>6
  <1> HIDE DEF T
  <1>5. 0..n \subseteq T
    BY <1>2, <1>3, <1>4, ReachesAll
  <1>6. Kept(Picked(s, S), n)
    <2>1. n \in T
      BY <1>2, <1>5
    <2> HIDE DEF Kept
    <2> QED BY <1>1, <2>1 DEF T
  <1> DEFINE p == Picked(s, S)
  <1>7. Kept(p, n)
    BY <1>6
  <1> HIDE DEF p
  <1>8. ASSUME \A j \in 1..n : s[j] \in S PROVE p = s
    <2>1. p \in Seq(E) /\ Len(p) = n /\ \A j \in 1..n : p[j] = s[j]
      BY <1>7, <1>8
    <2> QED BY <2>1, SeqEqual DEF n
  <1>9. /\ p \in Seq(E) /\ Len(p) <= n
        /\ \A i \in 1..Len(p) : p[i] \in S /\ \E j \in 1..n : s[j] = p[i]
        /\ \A j \in 1..n : s[j] \in S => \E i \in 1..Len(p) : p[i] = s[j]
        /\ (\A j \in 1..n : s[j] \in S) => p = s
    BY <1>7, <1>8
  <1> QED BY <1>9 DEF n, p

(* What is in O is at most once in a filter of a list that has it at most  *)
(* once.                                                                   *)
LEMMA PickedOnce ==
  ASSUME NEW E, NEW s \in Seq(E), NEW S, NEW O,
         \A i, j \in 1..Len(s) : s[i] \in O /\ s[j] \in O => i = j
  PROVE  \A i, j \in 1..Len(Picked(s, S)) :
           Picked(s, S)[i] \in O /\ Picked(s, S)[j] \in O => i = j
  <1> DEFINE n == Len(s)
             Kept(r, k) ==
               /\ r \in Seq(E)
               /\ \A i \in 1..Len(r) : \E j \in 1..k : s[j] = r[i]
               /\ \A i, j \in 1..Len(r) : r[i] \in O /\ r[j] \in O => i = j
  <1>1. PICK c : /\ c[0] = <<>>
                 /\ \A k \in 1..n :
                      c[k] = IF s[k] \in S THEN Append(c[k-1], s[k]) ELSE c[k-1]
                 /\ Picked(s, S) = c[n]
    BY PickedUnfolds
  <1>2. n \in Nat /\ \A k \in 1..n : s[k] \in E
    BY LenProperties, ElementOfSeq
  <1>3. \A i, j \in 1..n : s[i] \in O /\ s[j] \in O => i = j
    OBVIOUS
  <1> HIDE DEF n
  <1> DEFINE T == {k \in 0..n : Kept(c[k], k)}
  <1>4. 0 \in T
    <2>1. Kept(<<>>, 0)
      BY EmptySeq
    <2> HIDE DEF Kept
    <2> QED BY <1>1, <1>2, <2>1
  <1>5. ASSUME NEW k \in 0..(n-1), k \in T PROVE k + 1 \in T
    <2> DEFINE r == c[k]
               e == s[k + 1]
               a == Append(r, e)
    <2>1. k + 1 \in 0..n /\ k + 1 \in 1..n /\ (k + 1) - 1 = k /\ k \in Nat /\ e \in E
      BY <1>2
    <2>2. c[k + 1] = IF e \in S THEN a ELSE r
      BY <1>1, <2>1
    <2>3. Kept(r, k)
      BY <1>5
    <2>4. Len(r) \in Nat
      BY <2>3, LenProperties
    <2> HIDE DEF r
    <2>5. Kept(r, k + 1)
      BY <2>1, <2>3
    <2>6. Kept(a, k + 1)
      <3>1. /\ a \in Seq(E) /\ Len(a) = Len(r) + 1
            /\ \A i \in 1..Len(r) : a[i] = r[i]
            /\ a[Len(r) + 1] = e
        BY <2>1, <2>3, AppendProperties
      <3> HIDE DEF a
      <3>2. \A i \in 1..Len(a) : i \in 1..Len(r) \/ i = Len(r) + 1
        BY <2>4, <3>1
      <3>3. ASSUME NEW i \in 1..Len(a) PROVE \E j \in 1..(k+1) : s[j] = a[i]
        <4>1. CASE i \in 1..Len(r)
          <5>1. a[i] = r[i] /\ \E j \in 1..k : s[j] = r[i]
            BY <2>3, <3>1, <4>1
          <5>2. 1..k \subseteq 1..(k+1)
            BY <2>1
          <5> QED BY <5>1, <5>2
        <4>2. CASE i = Len(r) + 1
          <5>1. k + 1 \in 1..(k+1) /\ s[k + 1] = a[i]
            BY <2>1, <3>1, <4>2
          <5> QED BY <5>1
        <4> QED BY <3>2, <4>1, <4>2
      <3>4. ASSUME NEW i \in 1..Len(r), r[i] \in O PROVE e \notin O
        <4>1. PICK j \in 1..k : s[j] = r[i]
          BY <2>3
        <4>2. j \in 1..n /\ j # k + 1
          BY <1>2, <2>1
        <4> QED BY <1>3, <2>1, <3>4, <4>1, <4>2
      <3>5. ASSUME NEW i \in 1..Len(a), NEW j \in 1..Len(a), a[i] \in O, a[j] \in O
            PROVE  i = j
        BY <2>3, <3>1, <3>2, <3>4, <3>5
      <3> QED BY <3>1, <3>3, <3>5
    <2> HIDE DEF Kept, a
    <2> QED BY <2>1, <2>2, <2>5, <2>6
  <1> HIDE DEF T
  <1>6. 0..n \subseteq T
    BY <1>2, <1>4, <1>5, ReachesAll
  <1>7. Kept(c[n], n)
    <2>1. n \in T
      BY <1>2, <1>6
    <2> HIDE DEF Kept
    <2> QED BY <2>1 DEF T
  <1> QED BY <1>1, <1>7

(* Keys that tell the elements of a list apart tell those of a filter of   *)
(* it apart.                                                               *)
LEMMA PickedDistinct ==
  ASSUME NEW E, NEW s \in Seq(E), NEW S, NEW key,
         \A i, j \in 1..Len(s) : key[s[i]] = key[s[j]] => i = j
  PROVE  \A i, j \in 1..Len(Picked(s, S)) :
           key[Picked(s, S)[i]] = key[Picked(s, S)[j]] => i = j
  <1> DEFINE p == Picked(s, S)
  <1>1. p \in Seq(E)
    BY PickedProperties
  <1> HIDE DEF p
  <1> SUFFICES ASSUME NEW i \in 1..Len(p), NEW j \in 1..Len(p), key[p[i]] = key[p[j]]
               PROVE  i = j
    BY DEF p
  <1> DEFINE O == {e \in E : key[e] = key[p[i]]}
  <1>2. p[i] \in O /\ p[j] \in O
    BY <1>1, ElementOfSeq
  <1>3. \A k, m \in 1..Len(s) : s[k] \in O /\ s[m] \in O => k = m
    OBVIOUS
  <1> HIDE DEF O
  <1>4. \A k, m \in 1..Len(p) : p[k] \in O /\ p[m] \in O => k = m
    BY <1>3, PickedOnce DEF p
  <1> QED BY <1>2, <1>4

-----------------------------------------------------------------------------
(* Sums. c goes through the partial sums of s. *)
PartialSums(c, s) ==
  /\ c[0] = 0
  /\ \A k \in 1..Len(s) : c[k] = c[k-1] + s[k]

LEMMA PartialSumsNumbers ==
  ASSUME NEW s \in Seq(Int), NEW c, PartialSums(c, s)
  PROVE  \A k \in 0..Len(s) : c[k] \in Int
  <1> DEFINE n == Len(s)
             T == {k \in 0..n : c[k] \in Int}
  <1>1. n \in Nat /\ \A k \in 1..n : s[k] \in Int
    BY LenProperties, ElementOfSeq
  <1>2. c[0] = 0 /\ \A k \in 1..n : c[k] = c[k-1] + s[k]
    BY DEF PartialSums
  <1> HIDE DEF n
  <1>3. 0 \in T
    BY <1>1, <1>2
  <1>4. ASSUME NEW k \in 0..(n-1), k \in T PROVE k + 1 \in T
    <2>1. k + 1 \in 1..n /\ k + 1 \in 0..n /\ (k + 1) - 1 = k
      BY <1>1
    <2>2. c[k + 1] = c[k] + s[k + 1]
      BY <1>2, <2>1
    <2> QED BY <1>1, <1>4, <2>1, <2>2
  <1> HIDE DEF T
  <1>5. 0..n \subseteq T
    BY <1>1, <1>3, <1>4, ReachesAll
  <1> QED BY <1>5 DEF n, T

LEMMA SumUnfolds ==
  ASSUME NEW s \in Seq(Int)
  PROVE  \E c : PartialSums(c, s) /\ SumSeq(s) = c[Len(s)]
  <1> DEFINE n == Len(s)
             G == [k \in 1..n |-> [x \in Int |-> x + s[k]]]
             Fold(f) == f = [t \in SUBSET (1..n) |->
                               IF t = {} THEN 0 ELSE f[t \ {Max(t)}] + s[Max(t)]]
             h == CHOOSE f : Fold(f)
  <1>1. n \in Nat /\ DOMAIN s = 1..n /\ \A k \in 1..n : s[k] \in Int
    BY LenProperties, ElementOfSeq
  <1>2. \E f : Fold(f)
    <2> DEFINE R == Int
               b == 0
    <2>1. b \in R /\ \A k \in 1..n : \A x \in R : G[k][x] \in R
      BY <1>1
    <2> HIDE DEF n, G, R, b
    <2>2. PICK f \in [SUBSET (1..n) -> R] : IsFold(f, n, b, G)
      BY <1>1, <2>1, FoldsExist, Zenon
    <2>3. ASSUME NEW t \in SUBSET (1..n), t # {}
          PROVE  G[Max(t)][f[t \ {Max(t)}]] = f[t \ {Max(t)}] + s[Max(t)]
      <3>1. Max(t) \in 1..n
        BY <1>1, <2>3, GreatestPosition
      <3>2. f[t \ {Max(t)}] \in Int
        BY <2>2 DEF R
      <3> QED BY <3>1, <3>2 DEF G
    <2>4. Fold(f)
      BY <2>2, <2>3 DEF b, IsFold
    <2> HIDE DEF Fold
    <2> QED BY <2>4
  <1>3. Fold(h)
    <2> HIDE DEF Fold
    <2> QED BY <1>2
  <1>4. SumSeq(s) = h[1..n]
    BY <1>1 DEF SumSeq, FoldLeft, MapThenFoldSet
  <1> DEFINE c == [k \in 0..n |-> h[1..k]]
  <1> HIDE DEF h
  <1>5. c[0] = 0
    <2>1. 1..0 = {} /\ 0 \in 0..n
      BY <1>1
    <2> QED BY <1>3, <2>1
  <1>6. ASSUME NEW k \in 1..n PROVE c[k] = c[k-1] + s[k]
    <2>1. Max(1..k) = k /\ (1..k) \ {k} = 1..(k-1) /\ 1..k # {}
      BY LastOfPrefix
    <2>2. k \in 0..n /\ k - 1 \in 0..n /\ 1..k \in SUBSET (1..n)
      BY <1>1
    <2>3. h[1..k] = h[1..(k-1)] + s[k]
      <3> HIDE DEF n
      <3> QED BY <1>3, <2>1, <2>2
    <2> HIDE DEF n
    <2> QED BY <2>2, <2>3
  <1>7. c[n] = SumSeq(s)
    BY <1>1, <1>4
  <1> HIDE DEF c
  <1>8. PartialSums(c, s) /\ SumSeq(s) = c[Len(s)]
    BY <1>5, <1>6, <1>7 DEF PartialSums
  <1> QED BY <1>8, Zenon

(* Whatever goes through the partial sums ends with the sum. *)
LEMMA SumDetermined ==
  ASSUME NEW s \in Seq(Int), NEW c, PartialSums(c, s)
  PROVE  SumSeq(s) = c[Len(s)] /\ SumSeq(s) \in Int
  <1> DEFINE n == Len(s)
  <1>1. PICK d : PartialSums(d, s) /\ SumSeq(s) = d[n]
    BY SumUnfolds
  <1> DEFINE T == {k \in 0..n : c[k] = d[k]}
  <1>2. n \in Nat
    BY LenProperties
  <1>3. /\ c[0] = 0 /\ \A k \in 1..n : c[k] = c[k-1] + s[k]
        /\ d[0] = 0 /\ \A k \in 1..n : d[k] = d[k-1] + s[k]
    BY <1>1 DEF PartialSums
  <1>4. \A k \in 0..n : c[k] \in Int
    BY PartialSumsNumbers
  <1> HIDE DEF n
  <1>5. 0 \in T
    BY <1>2, <1>3
  <1>6. ASSUME NEW k \in 0..(n-1), k \in T PROVE k + 1 \in T
    <2>1. k + 1 \in 1..n /\ k + 1 \in 0..n /\ (k + 1) - 1 = k
      BY <1>2
    <2>2. c[k + 1] = c[k] + s[k + 1] /\ d[k + 1] = d[k] + s[k + 1]
      BY <1>3, <2>1
    <2> QED BY <1>6, <2>1, <2>2
  <1> HIDE DEF T
  <1>7. 0..n \subseteq T
    BY <1>2, <1>5, <1>6, ReachesAll
  <1>8. n \in 0..n /\ c[n] = d[n]
    BY <1>2, <1>7 DEF T
  <1>9. c[n] \in Int
    BY <1>4, <1>8
  <1> QED BY <1>1, <1>8, <1>9 DEF n

LEMMA SumEmpty == SumSeq(<<>>) = 0
  <1> DEFINE c == [k \in 0..0 |-> 0]
  <1>1. <<>> \in Seq(Int) /\ Len(<<>>) = 0
    BY EmptySeq
  <1>2. c[0] = 0
    OBVIOUS
  <1> HIDE DEF c
  <1>3. PartialSums(c, <<>>)
    BY <1>1, <1>2 DEF PartialSums
  <1> QED BY <1>1, <1>2, <1>3, SumDetermined

LEMMA SumAppend ==
  ASSUME NEW s \in Seq(Int), NEW x \in Int
  PROVE  SumSeq(Append(s, x)) = SumSeq(s) + x
  <1> DEFINE n == Len(s)
             a == Append(s, x)
  <1>1. PICK c : PartialSums(c, s) /\ SumSeq(s) = c[n]
    BY SumUnfolds
  <1>2. n \in Nat
    BY LenProperties
  <1>3. a \in Seq(Int) /\ Len(a) = n + 1 /\ a[n + 1] = x /\ \A k \in 1..n : a[k] = s[k]
    BY AppendProperties
  <1>4. c[0] = 0 /\ \A k \in 1..n : c[k] = c[k-1] + s[k]
    BY <1>1 DEF PartialSums
  <1> HIDE DEF n, a
  <1> DEFINE d == [k \in 0..(n+1) |-> IF k <= n THEN c[k] ELSE c[n] + x]
  <1>5. d[0] = 0 /\ d[n + 1] = c[n] + x
    BY <1>2, <1>4
  <1>6. ASSUME NEW k \in 1..(n+1) PROVE d[k] = d[k-1] + a[k]
    <2>1. CASE k \in 1..n
      <3>1. d[k] = c[k] /\ d[k-1] = c[k-1]
        BY <1>2, <2>1
      <3> QED BY <1>3, <1>4, <2>1, <3>1
    <2>2. CASE k = n + 1
      <3>1. d[k] = c[n] + x /\ d[k-1] = c[n]
        BY <1>2, <2>2
      <3> QED BY <1>3, <2>2, <3>1
    <2> QED BY <1>2, <2>1, <2>2
  <1> HIDE DEF d
  <1>7. PartialSums(d, a)
    BY <1>3, <1>5, <1>6 DEF PartialSums
  <1>8. SumSeq(a) = d[n + 1]
    BY <1>3, <1>7, SumDetermined
  <1> QED BY <1>1, <1>5, <1>8 DEF a

(* A sum is that of a prefix and that of the rest. *)
LEMMA SumSplit ==
  ASSUME NEW s \in Seq(Int), NEW i \in 0..Len(s)
  PROVE  SumSeq(s) = SumSeq(SubSeq(s, 1, i)) + SumSeq(SubSeq(s, i+1, Len(s)))
  <1> DEFINE n == Len(s)
             p == SubSeq(s, 1, i)
             q == SubSeq(s, i+1, n)
  <1>1. PICK c : PartialSums(c, s) /\ SumSeq(s) = c[n]
    BY SumUnfolds
  <1>2. n \in Nat /\ i \in Nat /\ i <= n
    BY LenProperties
  <1>3. p \in Seq(Int) /\ Len(p) = i /\ \A k \in 1..i : p[k] = s[k]
    <2>1. \A k \in 1..i : s[k] \in Int
      BY <1>2, ElementOfSeq
    <2> QED BY <1>2, <2>1, SubSeqProperties
  <1>4. q \in Seq(Int) /\ Len(q) = n - i /\ \A k \in 1..(n-i) : q[k] = s[i + k]
    <2>1. \A k \in (i+1)..n : s[k] \in Int
      BY <1>2, ElementOfSeq
    <2>2. /\ q \in Seq(Int)
          /\ Len(q) = IF i + 1 <= n THEN n - (i + 1) + 1 ELSE 0
          /\ \A k \in 1..(n - (i + 1) + 1) : q[k] = s[(i + 1) + k - 1]
      BY <1>2, <2>1, SubSeqProperties
    <2> HIDE DEF n, q
    <2>3. ASSUME NEW k \in 1..(n-i) PROVE q[k] = s[i + k]
      <3>1. k \in 1..(n - (i + 1) + 1) /\ (i + 1) + k - 1 = i + k
        BY <1>2
      <3>2. q[k] = s[(i + 1) + k - 1]
        BY <2>2, <3>1
      <3> QED BY <3>1, <3>2
    <2>4. Len(q) = n - i
      BY <1>2, <2>2
    <2> QED BY <2>2, <2>3, <2>4
  <1>5. c[0] = 0 /\ \A k \in 1..n : c[k] = c[k-1] + s[k]
    BY <1>1 DEF PartialSums
  <1>6. \A k \in 0..n : c[k] \in Int
    BY <1>1, PartialSumsNumbers
  <1> HIDE DEF n, p, q
  <1>7. PartialSums(c, p)
    <2>1. ASSUME NEW k \in 1..i PROVE c[k] = c[k-1] + p[k]
      <3>1. k \in 1..n
        BY <1>2
      <3> QED BY <1>3, <1>5, <3>1
    <2> QED BY <1>3, <1>5, <2>1 DEF PartialSums
  <1> DEFINE d == [k \in 0..(n-i) |-> c[i + k] - c[i]]
  <1>8. d[0] = 0 /\ d[n - i] = c[n] - c[i]
    BY <1>2, <1>6
  <1>9. ASSUME NEW k \in 1..(n-i) PROVE d[k] = d[k-1] + q[k]
    <2>1. i + k \in 1..n /\ (i + k) - 1 = i + (k - 1) /\ k \in 0..(n-i) /\ k - 1 \in 0..(n-i)
      BY <1>2
    <2>2. d[k] = c[i + k] - c[i] /\ d[k-1] = c[i + (k - 1)] - c[i]
      BY <2>1
    <2>3. c[i + k] = c[i + (k - 1)] + s[i + k] /\ q[k] = s[i + k]
      BY <1>4, <1>5, <2>1
    <2>4. c[i + k] \in Int /\ c[i + (k - 1)] \in Int /\ c[i] \in Int
      BY <1>2, <1>6, <2>1
    <2>5. q[k] \in Int
      BY <1>4, ElementOfSeq
    <2> QED BY <2>2, <2>3, <2>4, <2>5
  <1> HIDE DEF d
  <1>10. PartialSums(d, q)
    BY <1>4, <1>8, <1>9 DEF PartialSums
  <1>11. SumSeq(p) = c[i] /\ SumSeq(q) = d[n - i]
    BY <1>3, <1>4, <1>7, <1>10, SumDetermined
  <1> QED BY <1>1, <1>2, <1>6, <1>8, <1>11 DEF n, p, q

LEMMA SumOfNaturals ==
  ASSUME NEW s \in Seq(Nat)
  PROVE  SumSeq(s) \in Nat
  <1> DEFINE n == Len(s)
  <1>1. s \in Seq(Int) /\ n \in Nat /\ \A k \in 1..n : s[k] \in Nat
    <2>1. n \in Nat /\ \A k \in 1..n : s[k] \in Nat
      BY LenProperties, ElementOfSeq
    <2>2. s \in [1..n -> Int]
      BY <2>1, LenProperties
    <2> QED BY <2>1, <2>2, FunctionIsSeq
  <1>2. PICK c : PartialSums(c, s) /\ SumSeq(s) = c[n]
    BY <1>1, SumUnfolds
  <1>3. c[0] = 0 /\ \A k \in 1..n : c[k] = c[k-1] + s[k]
    BY <1>2 DEF PartialSums
  <1> DEFINE T == {k \in 0..n : c[k] \in Nat}
  <1> HIDE DEF n
  <1>4. 0 \in T
    BY <1>1, <1>3
  <1>5. ASSUME NEW k \in 0..(n-1), k \in T PROVE k + 1 \in T
    <2>1. k + 1 \in 1..n /\ k + 1 \in 0..n /\ (k + 1) - 1 = k
      BY <1>1
    <2>2. c[k + 1] = c[k] + s[k + 1]
      BY <1>3, <2>1
    <2> QED BY <1>1, <1>5, <2>1, <2>2
  <1> HIDE DEF T
  <1>6. 0..n \subseteq T
    BY <1>1, <1>4, <1>5, ReachesAll
  <1> QED BY <1>1, <1>2, <1>6 DEF T
-----------------------------------------------------------------------------
(* The weights of the elements of a list, added. *)
Weights(s, w) == [i \in DOMAIN s |-> w[s[i]]]
Weighed(s, w) == SumSeq(Weights(s, w))

LEMMA WeightsProperties ==
  ASSUME NEW E, NEW s \in Seq(E), NEW w \in [E -> Nat]
  PROVE  /\ Weights(s, w) \in Seq(Nat) /\ Weights(s, w) \in Seq(Int)
         /\ Len(Weights(s, w)) = Len(s)
         /\ \A i \in 1..Len(s) : Weights(s, w)[i] = w[s[i]]
         /\ Weighed(s, w) \in Nat
  <1> DEFINE n == Len(s)
             v == Weights(s, w)
  <1>1. n \in Nat /\ DOMAIN s = 1..n /\ \A k \in 1..n : s[k] \in E
    BY LenProperties, ElementOfSeq
  <1>2. v \in [1..n -> Nat] /\ v \in [1..n -> Int] /\ \A i \in 1..n : v[i] = w[s[i]]
    <2>1. \A i \in 1..n : w[s[i]] \in Nat /\ w[s[i]] \in Int
      BY <1>1
    <2> QED BY <1>1, <2>1 DEF Weights
  <1> HIDE DEF n, v
  <1>3. v \in Seq(Nat) /\ v \in Seq(Int) /\ Len(v) = n
    BY <1>1, <1>2, FunctionIsSeq
  <1>4. SumSeq(v) \in Nat
    BY <1>3, SumOfNaturals
  <1> QED BY <1>2, <1>3, <1>4 DEF n, v, Weighed

LEMMA WeighedEmpty ==
  ASSUME NEW w PROVE Weighed(<<>>, w) = 0
  <1>1. Weights(<<>>, w) = <<>>
    BY DEF Weights
  <1> QED BY <1>1, SumEmpty DEF Weighed

LEMMA WeighedAppend ==
  ASSUME NEW E, NEW s \in Seq(E), NEW w \in [E -> Nat], NEW e \in E
  PROVE  Weighed(Append(s, e), w) = Weighed(s, w) + w[e]
  <1> DEFINE n == Len(s)
             a == Append(s, e)
             x == Weights(s, w)
             y == Weights(a, w)
             z == Append(x, w[e])
  <1>1. n \in Nat /\ a \in Seq(E) /\ Len(a) = n + 1
        /\ (\A i \in 1..n : a[i] = s[i]) /\ a[n + 1] = e
    BY LenProperties, AppendProperties
  <1>2. x \in Seq(Int) /\ Len(x) = n /\ \A i \in 1..n : x[i] = w[s[i]]
    BY WeightsProperties
  <1>3. y \in Seq(Int) /\ Len(y) = n + 1 /\ \A i \in 1..(n+1) : y[i] = w[a[i]]
    <2> HIDE DEF a
    <2> QED BY <1>1, WeightsProperties
  <1>4. w[e] \in Int
    OBVIOUS
  <1> HIDE DEF n, a, x, y
  <1>5. z \in Seq(Int) /\ Len(z) = n + 1 /\ (\A i \in 1..n : z[i] = x[i]) /\ z[n + 1] = w[e]
    BY <1>2, <1>4, AppendProperties
  <1> HIDE DEF z
  <1>6. ASSUME NEW i \in 1..(n+1) PROVE y[i] = z[i]
    <2>1. CASE i \in 1..n
      BY <1>1, <1>2, <1>3, <1>5, <2>1
    <2>2. CASE i = n + 1
      BY <1>1, <1>3, <1>5, <2>2
    <2> QED BY <1>1, <2>1, <2>2
  <1>7. y = z
    BY <1>3, <1>5, <1>6, SeqEqual
  <1>8. SumSeq(y) = SumSeq(x) + w[e]
    BY <1>2, <1>4, <1>7, SumAppend DEF z
  <1> QED BY <1>8 DEF Weighed, a, x, y

LEMMA WeighedSplit ==
  ASSUME NEW E, NEW s \in Seq(E), NEW w \in [E -> Nat], NEW i \in 0..Len(s)
  PROVE  /\ SubSeq(s, 1, i) \in Seq(E) /\ Len(SubSeq(s, 1, i)) = i
         /\ SubSeq(s, i+1, Len(s)) \in Seq(E) /\ Len(SubSeq(s, i+1, Len(s))) = Len(s) - i
         /\ \A k \in 1..(Len(s) - i) : SubSeq(s, i+1, Len(s))[k] = s[i + k]
         /\ Weighed(s, w) = Weighed(SubSeq(s, 1, i), w) + Weighed(SubSeq(s, i+1, Len(s)), w)
  <1> DEFINE n == Len(s)
             v == Weights(s, w)
             p == SubSeq(s, 1, i)
             q == SubSeq(s, i+1, n)
  <1>1. n \in Nat /\ i \in Nat /\ i <= n /\ \A k \in 1..n : s[k] \in E
    BY LenProperties, ElementOfSeq
  <1>2. v \in Seq(Int) /\ Len(v) = n /\ \A k \in 1..n : v[k] = w[s[k]]
    BY WeightsProperties
  <1> HIDE DEF n, v
  <1>3. p \in Seq(E) /\ Len(p) = i /\ \A k \in 1..i : p[k] = s[k]
    BY <1>1, SubSeqProperties
  <1>4. q \in Seq(E) /\ Len(q) = n - i /\ \A k \in 1..(n-i) : q[k] = s[i + k]
    <2>1. \A k \in (i+1)..n : s[k] \in E
      BY <1>1
    <2>2. /\ q \in Seq(E)
          /\ Len(q) = IF i + 1 <= n THEN n - (i + 1) + 1 ELSE 0
          /\ \A k \in 1..(n - (i + 1) + 1) : q[k] = s[(i + 1) + k - 1]
      BY <1>1, <2>1, SubSeqProperties
    <2> HIDE DEF q
    <2>3. ASSUME NEW k \in 1..(n-i) PROVE q[k] = s[i + k]
      <3>1. k \in 1..(n - (i + 1) + 1) /\ (i + 1) + k - 1 = i + k
        BY <1>1
      <3>2. q[k] = s[(i + 1) + k - 1]
        BY <2>2, <3>1
      <3> QED BY <3>1, <3>2
    <2>4. Len(q) = n - i
      BY <1>1, <2>2
    <2> QED BY <2>2, <2>3, <2>4
  <1> DEFINE vp == SubSeq(v, 1, i)
             vq == SubSeq(v, i+1, n)
  <1>5. vp \in Seq(Int) /\ Len(vp) = i /\ \A k \in 1..i : vp[k] = v[k]
    <2>1. \A k \in 1..i : v[k] \in Int
      BY <1>1, <1>2, ElementOfSeq
    <2> QED BY <1>1, <2>1, SubSeqProperties
  <1>6. vq \in Seq(Int) /\ Len(vq) = n - i /\ \A k \in 1..(n-i) : vq[k] = v[i + k]
    <2>1. \A k \in (i+1)..n : v[k] \in Int
      BY <1>1, <1>2, ElementOfSeq
    <2>2. /\ vq \in Seq(Int)
          /\ Len(vq) = IF i + 1 <= n THEN n - (i + 1) + 1 ELSE 0
          /\ \A k \in 1..(n - (i + 1) + 1) : vq[k] = v[(i + 1) + k - 1]
      BY <1>1, <2>1, SubSeqProperties
    <2> HIDE DEF vq
    <2>3. ASSUME NEW k \in 1..(n-i) PROVE vq[k] = v[i + k]
      <3>1. k \in 1..(n - (i + 1) + 1) /\ (i + 1) + k - 1 = i + k
        BY <1>1
      <3>2. vq[k] = v[(i + 1) + k - 1]
        BY <2>2, <3>1
      <3> QED BY <3>1, <3>2
    <2>4. Len(vq) = n - i
      BY <1>1, <2>2
    <2> QED BY <2>2, <2>3, <2>4
  <1>7. SumSeq(v) = SumSeq(vp) + SumSeq(vq)
    <2>1. i \in 0..Len(v)
      BY <1>1, <1>2
    <2> QED BY <1>2, <2>1, SumSplit
  <1> HIDE DEF p, q, vp, vq
  <1>8. vp = Weights(p, w)
    <2>1. Weights(p, w) \in Seq(Int) /\ Len(Weights(p, w)) = i
          /\ \A k \in 1..i : Weights(p, w)[k] = w[p[k]]
      BY <1>3, WeightsProperties
    <2>2. ASSUME NEW k \in 1..i PROVE vp[k] = Weights(p, w)[k]
      <3>1. k \in 1..n
        BY <1>1
      <3> QED BY <1>2, <1>3, <1>5, <2>1, <3>1
    <2> QED BY <1>5, <2>1, <2>2, SeqEqual
  <1>9. vq = Weights(q, w)
    <2>1. Weights(q, w) \in Seq(Int) /\ Len(Weights(q, w)) = n - i
          /\ \A k \in 1..(n-i) : Weights(q, w)[k] = w[q[k]]
      BY <1>4, WeightsProperties
    <2>2. ASSUME NEW k \in 1..(n-i) PROVE vq[k] = Weights(q, w)[k]
      <3>1. i + k \in 1..n
        BY <1>1
      <3> QED BY <1>2, <1>4, <1>6, <2>1, <3>1
    <2> QED BY <1>6, <2>1, <2>2, SeqEqual
  <1> QED BY <1>3, <1>4, <1>7, <1>8, <1>9 DEF n, v, p, q, Weighed

(* A filter and the opposite filter weigh what the list does. *)
LEMMA WeighedPicked ==
  ASSUME NEW E, NEW s \in Seq(E), NEW w \in [E -> Nat], NEW S, NEW U,
         \A i \in 1..Len(s) : s[i] \in S <=> s[i] \notin U
  PROVE  Weighed(s, w) = Weighed(Picked(s, S), w) + Weighed(Picked(s, U), w)
  <1> DEFINE n == Len(s)
             v == Weights(s, w)
             Both(k, x, y, z) == /\ x \in Seq(E) /\ y \in Seq(E)
                                 /\ Weighed(x, w) + Weighed(y, w) = z
  <1>1. PICK c : /\ c[0] = <<>>
                 /\ \A k \in 1..n :
                      c[k] = IF s[k] \in S THEN Append(c[k-1], s[k]) ELSE c[k-1]
                 /\ Picked(s, S) = c[n]
    BY PickedUnfolds
  <1>2. PICK d : /\ d[0] = <<>>
                 /\ \A k \in 1..n :
                      d[k] = IF s[k] \in U THEN Append(d[k-1], s[k]) ELSE d[k-1]
                 /\ Picked(s, U) = d[n]
    BY PickedUnfolds
  <1>3. v \in Seq(Int) /\ Len(v) = n /\ \A k \in 1..n : v[k] = w[s[k]]
    BY WeightsProperties
  <1>4. PICK t : PartialSums(t, v) /\ SumSeq(v) = t[n]
    BY <1>3, SumUnfolds
  <1>5. n \in Nat /\ \A k \in 1..n : s[k] \in E /\ (s[k] \in S <=> s[k] \notin U)
    BY LenProperties, ElementOfSeq
  <1>6. t[0] = 0 /\ \A k \in 1..n : t[k] = t[k-1] + w[s[k]]
    BY <1>3, <1>4 DEF PartialSums
  <1> HIDE DEF n, v
  <1> DEFINE T == {k \in 0..n : Both(k, c[k], d[k], t[k])}
  <1>7. 0 \in T
    <2>1. Both(0, <<>>, <<>>, 0)
      BY WeighedEmpty, EmptySeq
    <2> HIDE DEF Both
    <2> QED BY <1>1, <1>2, <1>5, <1>6, <2>1
  <1>8. ASSUME NEW k \in 0..(n-1), k \in T PROVE k + 1 \in T
    <2>1. k + 1 \in 0..n /\ k + 1 \in 1..n /\ (k + 1) - 1 = k
      BY <1>5
    <2> DEFINE e == s[k + 1]
    <2>2. e \in E /\ w[e] \in Nat /\ (e \in S <=> e \notin U)
      BY <1>5, <2>1
    <2>3. /\ c[k + 1] = IF e \in S THEN Append(c[k], e) ELSE c[k]
          /\ d[k + 1] = IF e \in U THEN Append(d[k], e) ELSE d[k]
          /\ t[k + 1] = t[k] + w[e]
      BY <1>1, <1>2, <1>6, <2>1
    <2>4. c[k] \in Seq(E) /\ d[k] \in Seq(E) /\ Weighed(c[k], w) + Weighed(d[k], w) = t[k]
      BY <1>8
    <2> HIDE DEF e
    <2>5. Weighed(c[k], w) \in Nat /\ Weighed(d[k], w) \in Nat
      BY <2>4, WeightsProperties
    <2>6. CASE e \in S
      <3>1. Append(c[k], e) \in Seq(E) /\ Weighed(Append(c[k], e), w) = Weighed(c[k], w) + w[e]
        BY <2>2, <2>4, AppendProperties, WeighedAppend
      <3>2. c[k + 1] = Append(c[k], e) /\ d[k + 1] = d[k]
        BY <2>2, <2>3, <2>6
      <3>3. Weighed(c[k + 1], w) + Weighed(d[k + 1], w) = t[k + 1]
        BY <2>2, <2>3, <2>4, <2>5, <3>1, <3>2
      <3> QED BY <2>1, <2>4, <3>1, <3>2, <3>3
    <2>7. CASE e \in U
      <3>1. Append(d[k], e) \in Seq(E) /\ Weighed(Append(d[k], e), w) = Weighed(d[k], w) + w[e]
        BY <2>2, <2>4, AppendProperties, WeighedAppend
      <3>2. d[k + 1] = Append(d[k], e) /\ c[k + 1] = c[k]
        BY <2>2, <2>3, <2>7
      <3>3. Weighed(c[k + 1], w) + Weighed(d[k + 1], w) = t[k + 1]
        BY <2>2, <2>3, <2>4, <2>5, <3>1, <3>2
      <3> QED BY <2>1, <2>4, <3>1, <3>2, <3>3
    <2> QED BY <2>2, <2>6, <2>7
  <1> HIDE DEF T
  <1>9. 0..n \subseteq T
    BY <1>5, <1>7, <1>8, ReachesAll
  <1>10. Weighed(c[n], w) + Weighed(d[n], w) = t[n]
    BY <1>5, <1>9 DEF T
  <1> QED BY <1>1, <1>2, <1>4, <1>10 DEF v, Weighed
-----------------------------------------------------------------------------
(* What pushing goes through, element by element. *)
LEMMA PushedUnfolds ==
  ASSUME NEW E, NEW s \in Seq(E), NEW t \in Seq(E)
  PROVE  \E c : /\ c[0] = s
                /\ \A k \in 1..Len(t) :
                     c[k] = IF t[k] \in ToSet(c[k-1]) THEN c[k-1] ELSE Append(c[k-1], t[k])
                /\ AllPushed(s, t) = c[Len(t)]
  <1> DEFINE n == Len(t)
             Step(x, e) == IF e \in ToSet(x) THEN x ELSE Append(x, e)
             G == [k \in 1..n |-> [x \in Seq(E) |-> Step(x, t[k])]]
             Fold(f) == f = [u \in SUBSET (1..n) |->
                               IF u = {} THEN s ELSE Step(f[u \ {Max(u)}], t[Max(u)])]
             h == CHOOSE f : Fold(f)
  <1>1. n \in Nat /\ DOMAIN t = 1..n
    BY LenProperties
  <1>2. \E f : Fold(f)
    <2>1. \A k \in 1..n, x \in Seq(E) : Step(x, t[k]) \in Seq(E)
      BY <1>1, ElementOfSeq, AppendProperties
    <2>2. \A k \in 1..n, x \in Seq(E) : G[k][x] \in Seq(E)
      BY <2>1
    <2> DEFINE R == Seq(E)
               b == s
    <2>9. b \in R /\ \A k \in 1..n : \A x \in R : G[k][x] \in R
      BY <2>2
    <2> HIDE DEF n, G, R, b
    <2>3. PICK f \in [SUBSET (1..n) -> R] : IsFold(f, n, b, G)
      BY <1>1, <2>9, FoldsExist, Zenon
    <2>4. ASSUME NEW u \in SUBSET (1..n), u # {}
          PROVE  G[Max(u)][f[u \ {Max(u)}]] = Step(f[u \ {Max(u)}], t[Max(u)])
      <3>1. Max(u) \in 1..n
        BY <1>1, <2>4, GreatestPosition
      <3>2. f[u \ {Max(u)}] \in Seq(E)
        BY <2>3 DEF R
      <3> QED BY <3>1, <3>2 DEF G
    <2>5. Fold(f)
      <3> HIDE DEF Step
      <3> QED BY <2>3, <2>4 DEF b, IsFold
    <2> HIDE DEF Fold
    <2> QED BY <2>5
  <1>3. Fold(h)
    <2> HIDE DEF Fold
    <2> QED BY <1>2
  <1>4. AllPushed(s, t) = h[1..n]
    BY <1>1 DEF AllPushed, FoldLeft, MapThenFoldSet
  <1> DEFINE c == [k \in 0..n |-> h[1..k]]
  <1> HIDE DEF h
  <1>5. c[0] = s
    <2>1. 1..0 = {} /\ 0 \in 0..n
      BY <1>1
    <2> QED BY <1>3, <2>1
  <1>6. ASSUME NEW k \in 1..n PROVE c[k] = Step(c[k-1], t[k])
    <2>1. Max(1..k) = k /\ (1..k) \ {k} = 1..(k-1) /\ 1..k # {}
      BY LastOfPrefix
    <2>2. k \in 0..n /\ k - 1 \in 0..n /\ 1..k \in SUBSET (1..n)
      BY <1>1
    <2>3. h[1..k] = Step(h[1..(k-1)], t[k])
      <3> HIDE DEF n, Step
      <3> QED BY <1>3, <2>1, <2>2
    <2> HIDE DEF Step, n
    <2> QED BY <2>2, <2>3
  <1>7. c[n] = AllPushed(s, t)
    BY <1>1, <1>4
  <1> HIDE DEF c
  <1>8. /\ c[0] = s
        /\ \A k \in 1..Len(t) :
             c[k] = IF t[k] \in ToSet(c[k-1]) THEN c[k-1] ELSE Append(c[k-1], t[k])
        /\ AllPushed(s, t) = c[Len(t)]
    BY <1>5, <1>6, <1>7
  <1> QED BY <1>8, Zenon

(* A last element that is in neither list before ends the result. *)
LEMMA PushedProperties ==
  ASSUME NEW E, NEW s \in Seq(E), NEW t \in Seq(E)
  PROVE  /\ AllPushed(s, t) \in Seq(E)
         /\ t # <<>> /\ t[Len(t)] \notin ToSet(s)
              /\ (\A i \in 1..(Len(t) - 1) : t[i] # t[Len(t)])
            => /\ AllPushed(s, t) # <<>>
               /\ AllPushed(s, t)[Len(AllPushed(s, t))] = t[Len(t)]
  <1> DEFINE n == Len(t)
             Kept(r, k) == /\ r \in Seq(E)
                           /\ ToSet(r) \subseteq ToSet(s) \cup {t[j] : j \in 1..k}
  <1>1. PICK c : /\ c[0] = s
                 /\ \A k \in 1..n :
                      c[k] = IF t[k] \in ToSet(c[k-1]) THEN c[k-1] ELSE Append(c[k-1], t[k])
                 /\ AllPushed(s, t) = c[n]
    BY PushedUnfolds
  <1>2. n \in Nat /\ \A k \in 1..n : t[k] \in E
    BY LenProperties, ElementOfSeq
  <1> HIDE DEF n
  <1> DEFINE T == {k \in 0..n : Kept(c[k], k)}
  <1>3. 0 \in T
    BY <1>1, <1>2
  <1>4. ASSUME NEW k \in 0..(n-1), k \in T PROVE k + 1 \in T
    <2> DEFINE r == c[k]
               e == t[k + 1]
               a == Append(r, e)
    <2>1. k + 1 \in 0..n /\ k + 1 \in 1..n /\ (k + 1) - 1 = k /\ k \in Nat /\ e \in E
      BY <1>2
    <2>2. c[k + 1] = IF e \in ToSet(r) THEN r ELSE a
      BY <1>1, <2>1
    <2>3. Kept(r, k)
      BY <1>4
    <2> HIDE DEF r
    <2>4. {t[j] : j \in 1..k} \subseteq {t[j] : j \in 1..(k+1)} /\ e \in {t[j] : j \in 1..(k+1)}
      BY <2>1
    <2>5. Kept(r, k + 1)
      BY <2>3, <2>4
    <2>6. Kept(a, k + 1)
      <3>1. /\ a \in Seq(E) /\ Len(a) = Len(r) + 1 /\ Len(r) \in Nat
            /\ \A i \in 1..Len(r) : a[i] = r[i]
            /\ a[Len(r) + 1] = e
        BY <2>1, <2>3, AppendProperties, LenProperties
      <3>2. DOMAIN a = 1..Len(a) /\ DOMAIN r = 1..Len(r)
        BY <2>3, <3>1, LenProperties
      <3> HIDE DEF a, e
      <3>3. ToSet(a) \subseteq ToSet(r) \cup {e}
        BY <3>1, <3>2 DEF ToSet
      <3> QED BY <2>3, <2>4, <3>1, <3>3
    <2> HIDE DEF Kept, a
    <2> QED BY <2>1, <2>2, <2>5, <2>6
  <1> HIDE DEF T
  <1>5. 0..n \subseteq T
    BY <1>2, <1>3, <1>4, ReachesAll
  <1>6. \A k \in 0..n : Kept(c[k], k)
    BY <1>5 DEF T
  <1>7. c[n] \in Seq(E)
    BY <1>2, <1>6
  <1>8. ASSUME t # <<>>, t[n] \notin ToSet(s), \A i \in 1..(n-1) : t[i] # t[n]
        PROVE  c[n] # <<>> /\ c[n][Len(c[n])] = t[n]
    <2>1. n \in 1..n /\ n - 1 \in 0..n
      BY <1>2, <1>8, EmptySeq DEF n
    <2> DEFINE r == c[n-1]
    <2>2. Kept(r, n - 1)
      BY <1>6, <2>1
    <2>3. c[n] = IF t[n] \in ToSet(r) THEN r ELSE Append(r, t[n])
      BY <1>1, <2>1
    <2> HIDE DEF r
    <2>4. t[n] \notin ToSet(r)
      BY <1>8, <2>2
    <2>5. Append(r, t[n]) \in Seq(E) /\ Len(Append(r, t[n])) = Len(r) + 1
          /\ Append(r, t[n])[Len(r) + 1] = t[n] /\ Append(r, t[n]) # <<>>
      BY <1>2, <2>1, <2>2, AppendProperties
    <2> QED BY <2>3, <2>4, <2>5
  <1> QED BY <1>1, <1>7, <1>8 DEF n
=============================================================================
