------------------------------- MODULE ChunkingProofs -----------------------
(***************************************************************************)
(* Proofs about the cutting of documents (Chunking), for any document the  *)
(* parser hands on and any limits: the pieces of a text are tight windows of*)
(* it that lose no character, cut no row and no line, fit their size where *)
(* they can, and their text, read back in order, is the document.  The     *)
(* parents can be cut again to children without loss for the same reason.  *)
(***************************************************************************)
EXTENDS CallProofs, Chunking

-----------------------------------------------------------------------------
(* Lists of pieces *)

\* Orders of numbers, in a form that can be cited.
LEMMA LeLe ==
  ASSUME NEW a \in Nat, NEW b \in Nat, NEW c \in Nat, a <= b, b <= c
  PROVE  a <= c
OBVIOUS

\* The same, if one of the two is strict.
LEMMA LtLe ==
  ASSUME NEW a \in Nat, NEW b \in Nat, NEW c \in Nat, a < b, b <= c
  PROVE  a < c
OBVIOUS

\* Three in a row.
LEMMA LeLtLe ==
  ASSUME NEW a \in Nat, NEW b \in Nat, NEW c \in Nat, NEW d \in Nat, a <= b, b < c, c <= d
  PROVE  a <= d
OBVIOUS

\* A set of integers in a range has a least member.
LEMMA LeastInRange ==
  ASSUME NEW a \in Int, NEW b \in Int, NEW T \in SUBSET (a..b), T # {}
  PROVE  Min(T) \in T /\ \A y \in T : Min(T) <= y
<1> DEFINE N == {k \in Nat : \A U \in SUBSET (a..a + k) : U # {} => \E x \in U : \A y \in U : x <= y}
<1>1. 0 \in N
  <2> SUFFICES ASSUME NEW U \in SUBSET (a..a + 0), U # {} PROVE \E x \in U : \A y \in U : x <= y
    OBVIOUS
  <2>1. \A y \in U : y = a
    OBVIOUS
  <2>2. PICK x \in U : TRUE
    OBVIOUS
  <2>3. \A y \in U : x <= y
    BY <2>1, <2>2
  <2> QED BY <2>2, <2>3
<1>2. ASSUME NEW k \in Nat, k \in N PROVE k + 1 \in N
  <2> SUFFICES ASSUME NEW U \in SUBSET (a..a + (k + 1)), U # {} PROVE \E x \in U : \A y \in U : x <= y
    OBVIOUS
  <2> DEFINE W == U \cap (a..a + k)
  <2>1. CASE W = {}
    <3>1. \A y \in U : y = a + k + 1
      BY <2>1
    <3>2. PICK u \in U : TRUE
      OBVIOUS
    <3>3. u = a + k + 1 /\ u \in Int
      BY <3>1, <3>2
    <3>4. \A y \in U : u <= y
      BY <3>1, <3>3
    <3> QED BY <3>2, <3>4
  <2>2. CASE W # {}
    <3>1. PICK x \in W : \A y \in W : x <= y
      BY <1>2, <2>2
    <3>2. \A y \in U : y \in W \/ y = a + k + 1
      OBVIOUS
    <3> QED BY <3>1, <3>2
  <2> QED BY <2>1, <2>2
<1>3. Nat \subseteq N
  <2> HIDE DEF N
  <2> QED BY <1>1, <1>2, NatSetInduction
<1>4. b - a \in Nat
  <2>1. PICK x \in T : TRUE
    OBVIOUS
  <2>2. x \in Int /\ a <= x /\ x <= b
    BY <2>1
  <2> QED BY <2>2
<1>5. b - a \in N
  BY <1>3, <1>4
<1>6. T \in SUBSET (a..a + (b - a))
  OBVIOUS
<1>7. \E x \in T : \A y \in T : x <= y
  BY <1>5, <1>6
<1> QED BY <1>7 DEF Min

\* And a greatest.
LEMMA GreatestInRange ==
  ASSUME NEW a \in Int, NEW b \in Int, NEW T \in SUBSET (a..b), T # {}
  PROVE  Max(T) \in T /\ \A y \in T : y <= Max(T)
<1> DEFINE U == {0 - x : x \in T}
<1>1. U \in SUBSET ((0 - b)..(0 - a)) /\ U # {} /\ 0 - b \in Int /\ 0 - a \in Int
  <2>1. ASSUME NEW x \in T PROVE 0 - x \in (0 - b)..(0 - a)
    <3>1. x \in Int /\ a <= x /\ x <= b
      OBVIOUS
    <3> QED BY <3>1
  <2>2. PICK x \in T : TRUE
    OBVIOUS
  <2>3. 0 - x \in U
    BY <2>2
  <2> QED BY <2>1, <2>3
<1>2. Min(U) \in U /\ \A y \in U : Min(U) <= y
  <2> HIDE DEF U
  <2> QED BY <1>1, LeastInRange
<1>3. PICK x \in T : Min(U) = 0 - x
  BY <1>2
<1>4. \A y \in T : 0 - x <= 0 - y
  BY <1>2, <1>3
<1>5. \E z \in T : \A y \in T : z >= y
  BY <1>3, <1>4
<1>6. Max(T) \in T /\ \A y \in T : Max(T) >= y
  BY <1>5 DEF Max
<1> QED BY <1>6

\* A set that a place joins after all later ones is all of them.
LEMMA PathInduction ==
  ASSUME NEW a \in Int, NEW b \in Int, NEW S,
         \A p \in a..b : (\A q \in p + 1..b : q \in S) => p \in S
  PROVE  a..b \subseteq S
<1> DEFINE N == {k \in Nat : \A q \in a..b : b - k <= q => q \in S}
<1>1. 0 \in N
  <2> SUFFICES ASSUME NEW q \in a..b, b - 0 <= q PROVE q \in S
    OBVIOUS
  <2>1. q + 1..b = {}
    OBVIOUS
  <2> QED BY <2>1
<1>2. ASSUME NEW k \in Nat, k \in N PROVE k + 1 \in N
  <2> SUFFICES ASSUME NEW p \in a..b, b - (k + 1) <= p PROVE p \in S
    OBVIOUS
  <2>1. \A q \in p + 1..b : q \in a..b /\ b - k <= q
    OBVIOUS
  <2>2. \A q \in p + 1..b : q \in S
    BY <1>2, <2>1
  <2> QED BY <2>2
<1>3. Nat \subseteq N
  <2> HIDE DEF N
  <2> QED BY <1>1, <1>2, NatSetInduction
<1>4. ASSUME NEW q \in a..b PROVE q \in S
  <2>1. b - q \in Nat /\ b - (b - q) <= q
    OBVIOUS
  <2>2. b - q \in N
    BY <1>3, <2>1
  <2> QED BY <2>1, <2>2
<1> QED BY <1>4

\* The members of s are in the order R.
InOrder(s, R) == \A i, j \in DOMAIN s : i < j => <<s[i], s[j]>> \in R

\* Two lists in order, one after the other.
LEMMA ConcatOrder ==
  ASSUME NEW V, NEW s \in Seq(V), NEW t \in Seq(V), NEW R, InOrder(s, R), InOrder(t, R),
         \A x \in ToSet(s), y \in ToSet(t) : <<x, y>> \in R
  PROVE  s \o t \in Seq(V) /\ InOrder(s \o t, R) /\ ToSet(s \o t) = ToSet(s) \cup ToSet(t)
<1> DEFINE a == s \o t
<1>1. /\ Len(s) \in Nat /\ DOMAIN s = 1..Len(s) /\ Len(t) \in Nat /\ DOMAIN t = 1..Len(t)
      /\ DOMAIN a = 1..Len(s) + Len(t) /\ a \in Seq(V)
      /\ \A i \in 1..Len(s) : a[i] = s[i]
      /\ \A i \in Len(s) + 1..Len(s) + Len(t) : a[i] = t[i - Len(s)]
  OBVIOUS
<1>2. ToSet(a) = ToSet(s) \cup ToSet(t)
  BY ConcatSet
<1> HIDE DEF a
<1>3. ASSUME NEW i \in DOMAIN a, NEW j \in DOMAIN a, i < j PROVE <<a[i], a[j]>> \in R
  <2>1. CASE j <= Len(s)
    <3>1. i \in DOMAIN s /\ j \in DOMAIN s /\ a[i] = s[i] /\ a[j] = s[j]
      BY <1>1, <1>3, <2>1
    <3> QED BY <1>3, <3>1 DEF InOrder
  <2>2. CASE i > Len(s)
    <3>1. i \in Len(s) + 1..Len(s) + Len(t) /\ j \in Len(s) + 1..Len(s) + Len(t)
      BY <1>1, <1>3, <2>2
    <3>2. i - Len(s) \in DOMAIN t /\ j - Len(s) \in DOMAIN t /\ i - Len(s) < j - Len(s)
      BY <1>1, <1>3, <3>1
    <3>3. a[i] = t[i - Len(s)] /\ a[j] = t[j - Len(s)]
      BY <1>1, <3>1
    <3> QED BY <3>2, <3>3 DEF InOrder
  <2>3. CASE i <= Len(s) /\ j > Len(s)
    <3>1. i \in DOMAIN s /\ a[i] = s[i] /\ j - Len(s) \in DOMAIN t /\ a[j] = t[j - Len(s)]
      BY <1>1, <1>3, <2>3
    <3>2. s[i] \in ToSet(s) /\ t[j - Len(s)] \in ToSet(t)
      BY <3>1 DEF ToSet
    <3> QED BY <3>1, <3>2
  <2> QED BY <1>1, <2>1, <2>2, <2>3
<1>4. InOrder(a, R)
  BY <1>3 DEF InOrder
<1> QED BY <1>1, <1>2, <1>4 DEF a

\* A list of lists in order is flattened in order.
LEMMA FlatInOrder ==
  ASSUME NEW V, NEW ss \in Seq(Seq(V)), NEW R, \A n \in DOMAIN ss : InOrder(ss[n], R),
         \A m, n \in DOMAIN ss : m < n => \A x \in ToSet(ss[m]), y \in ToSet(ss[n]) : <<x, y>> \in R
  PROVE  /\ FlattenSeq(ss) \in Seq(V) /\ InOrder(FlattenSeq(ss), R)
         /\ ToSet(FlattenSeq(ss)) = UNION {ToSet(ss[n]) : n \in DOMAIN ss}
<1> DEFINE Upto(n) == UNION {ToSet(ss[m]) : m \in 1..n}
<1>1. Len(ss) \in Nat /\ DOMAIN ss = 1..Len(ss) /\ \A n \in 1..Len(ss) : ss[n] \in Seq(V)
  OBVIOUS
<1>2. PICK F : IsFlat(F, ss, V) /\ FlattenSeq(ss) = F[Len(ss)]
  BY FlatExists
<1>3. /\ F \in [0..Len(ss) -> Seq(V)] /\ F[0] = <<>>
      /\ \A i \in 1..Len(ss) : F[i] = F[i - 1] \o ss[i]
  BY <1>2 DEF IsFlat
<1> DEFINE N == {n \in Nat : n <= Len(ss) => InOrder(F[n], R) /\ ToSet(F[n]) = Upto(n)}
<1>4. 0 \in N
  <2>1. DOMAIN F[0] = {} /\ 1..0 = {}
    BY <1>3
  <2>2. InOrder(F[0], R)
    BY <2>1 DEF InOrder
  <2>3. ToSet(F[0]) = {}
    BY <2>1 DEF ToSet
  <2>4. Upto(0) = {}
    BY <2>1
  <2> QED BY <2>2, <2>3, <2>4
<1>5. ASSUME NEW n \in Nat, n \in N PROVE n + 1 \in N
  <2> SUFFICES ASSUME n + 1 <= Len(ss) PROVE InOrder(F[n + 1], R) /\ ToSet(F[n + 1]) = Upto(n + 1)
    OBVIOUS
  <2>1. n + 1 \in 1..Len(ss) /\ (n + 1) - 1 = n /\ n \in 0..Len(ss) /\ n <= Len(ss)
    BY <1>1
  <2>2. F[n + 1] = F[n] \o ss[n + 1] /\ F[n] \in Seq(V) /\ ss[n + 1] \in Seq(V)
    BY <1>1, <1>3, <2>1
  <2>3. InOrder(F[n], R) /\ ToSet(F[n]) = Upto(n)
    BY <1>5, <2>1
  <2>4. ASSUME NEW x \in ToSet(F[n]), NEW y \in ToSet(ss[n + 1]) PROVE <<x, y>> \in R
    <3>1. PICK m \in 1..n : x \in ToSet(ss[m])
      BY <2>3
    <3>2. m \in DOMAIN ss /\ n + 1 \in DOMAIN ss /\ m < n + 1
      BY <1>1, <2>1
    <3> QED BY <3>1, <3>2
  <2>5. InOrder(ss[n + 1], R)
    BY <1>1, <2>1
  <2>6. InOrder(F[n + 1], R) /\ ToSet(F[n + 1]) = ToSet(F[n]) \cup ToSet(ss[n + 1])
    <3> HIDE DEF Upto, N
    <3>1. InOrder(F[n], R)
      BY <2>3
    <3>2. InOrder(F[n] \o ss[n + 1], R) /\ ToSet(F[n] \o ss[n + 1]) = ToSet(F[n]) \cup ToSet(ss[n + 1])
      BY <2>2, <2>4, <2>5, <3>1, ConcatOrder
    <3> QED BY <2>2, <3>2
  <2>7. Upto(n + 1) = Upto(n) \cup ToSet(ss[n + 1])
    <3>1. 1..n + 1 = (1..n) \cup {n + 1}
      BY <2>1
    <3> QED BY <3>1
  <2> QED BY <2>3, <2>6, <2>7
<1>6. Nat \subseteq N
  <2> HIDE DEF N
  <2> QED BY <1>4, <1>5, NatSetInduction
<1>7. InOrder(F[Len(ss)], R) /\ ToSet(F[Len(ss)]) = Upto(Len(ss))
  BY <1>1, <1>6
<1>8. F[Len(ss)] \in Seq(V)
  BY <1>1, <1>3
<1> QED BY <1>1, <1>2, <1>7, <1>8

\* In no order, a list of lists has the members of its lists.
LEMMA FlatMembers ==
  ASSUME NEW V, NEW ss \in Seq(Seq(V))
  PROVE  FlattenSeq(ss) \in Seq(V) /\ ToSet(FlattenSeq(ss)) = UNION {ToSet(ss[n]) : n \in DOMAIN ss}
<1> DEFINE R == V \X V
<1>1. \A s \in Seq(V) : \A i \in DOMAIN s : s[i] \in V
  OBVIOUS
<1>2. \A n \in DOMAIN ss : ss[n] \in Seq(V)
  OBVIOUS
<1>3. \A n \in DOMAIN ss : InOrder(ss[n], R)
  BY <1>1, <1>2 DEF InOrder
<1>4. \A n \in DOMAIN ss : \A x \in ToSet(ss[n]) : x \in V
  BY <1>1, <1>2 DEF ToSet
<1>5. \A m, n \in DOMAIN ss : m < n => \A x \in ToSet(ss[m]), y \in ToSet(ss[n]) : <<x, y>> \in R
  BY <1>4
<1> HIDE DEF R
<1> QED BY <1>3, <1>5, FlatInOrder

\* Each place adds a list of members of V and leads to a later place.
IsPath(a, b, V, made, next) ==
  a <= b /\ \A k \in a..b - 1 : made[k] \in Seq(V) /\ next[k] \in k + 1..b

IsChain(f, a, b, V, made, next) ==
  /\ f \in [a..b -> Seq(V)] /\ f[b] = <<>>
  /\ \A k \in a..b - 1 : f[k] = made[k] \o f[next[k]]

\* Chain is the first value of a function along its places.
LEMMA ChainUnfolds ==
  ASSUME NEW a \in Int, NEW b \in Int, NEW V, NEW made, NEW next, IsPath(a, b, V, made, next)
  PROVE  \E f : IsChain(f, a, b, V, made, next) /\ Chain(a, b, made, next) = f[a]
<1> USE DEF IsPath
<1> DEFINE N == {k \in Nat : k <= b - a => \E f : IsChain(f, b - k, b, V, made, next)}
<1>1. 0 \in N
  <2> DEFINE f == [q \in b..b |-> <<>>]
  <2>1. \A q \in b - 0..b : q = b
    OBVIOUS
  <2>2. b - 0 = b /\ b - 0..b - 1 = {} /\ b \in b..b /\ <<>> \in Seq(V)
    OBVIOUS
  <2>3. f \in [b - 0..b -> Seq(V)] /\ f[b] = <<>>
    BY <2>2
  <2>4. IsChain(f, b - 0, b, V, made, next)
    BY <2>2, <2>3 DEF IsChain
  <2> QED BY <2>4
<1>2. ASSUME NEW k \in Nat, k \in N PROVE k + 1 \in N
  <2> SUFFICES ASSUME k + 1 <= b - a PROVE \E f : IsChain(f, b - (k + 1), b, V, made, next)
    OBVIOUS
  <2> DEFINE c == b - (k + 1)
  <2>1. c \in Int /\ c + 1 = b - k /\ a <= c /\ c <= b - 1 /\ c \in a..b - 1 /\ k <= b - a
    OBVIOUS
  <2> HIDE DEF c
  <2>2. PICK g : IsChain(g, c + 1, b, V, made, next)
    BY <1>2, <2>1
  <2>3. /\ g \in [c + 1..b -> Seq(V)] /\ g[b] = <<>>
        /\ \A q \in c + 1..b - 1 : g[q] = made[q] \o g[next[q]]
    BY <2>2 DEF IsChain
  <2> DEFINE f == [q \in c..b |-> IF q = c THEN made[c] \o g[next[c]] ELSE g[q]]
  <2>4. next[c] \in c + 1..b /\ made[c] \in Seq(V)
    BY <2>1
  <2>5. g[next[c]] \in Seq(V)
    BY <2>3, <2>4
  <2>6. made[c] \o g[next[c]] \in Seq(V)
    BY <2>4, <2>5, ConcatProperties
  <2>7. f \in [c..b -> Seq(V)]
    <3>1. ASSUME NEW q \in c..b, q # c PROVE g[q] \in Seq(V)
      <4>1. q \in c + 1..b
        BY <2>1, <3>1
      <4> QED BY <2>3, <4>1
    <3> QED BY <2>6, <3>1
  <2>8. f[b] = <<>>
    BY <2>1, <2>3
  <2>9. ASSUME NEW q \in c..b - 1 PROVE f[q] = made[q] \o f[next[q]]
    <3>1. q \in a..b - 1 /\ next[q] \in q + 1..b
      BY <2>1
    <3>2. next[q] \in c..b /\ next[q] # c
      BY <2>1, <3>1
    <3>3. f[next[q]] = g[next[q]]
      BY <3>2
    <3>4. CASE q = c
      <4>1. c \in c..b
        BY <2>1
      <4>2. f[c] = made[c] \o g[next[c]]
        BY <4>1
      <4> HIDE DEF f
      <4> QED BY <3>3, <3>4, <4>2
    <3>5. CASE q # c
      <4>1. q \in c + 1..b - 1
        BY <2>1, <3>5
      <4>2. f[q] = g[q]
        BY <2>1, <3>5
      <4>3. g[q] = made[q] \o g[next[q]]
        BY <2>3, <4>1
      <4> HIDE DEF f
      <4> QED BY <3>3, <4>2, <4>3
    <3> QED BY <3>4, <3>5
  <2>10. IsChain(f, c, b, V, made, next)
    <3> HIDE DEF f
    <3> QED BY <2>7, <2>8, <2>9 DEF IsChain
  <2> QED BY <2>10 DEF c
<1>3. Nat \subseteq N
  <2> HIDE DEF N
  <2> QED BY <1>1, <1>2, NatSetInduction
<1>4. b - a \in Nat /\ b - (b - a) = a
  OBVIOUS
<1>5. PICK f : IsChain(f, a, b, V, made, next)
  <2>1. b - a \in N
    BY <1>3, <1>4
  <2> QED BY <1>4, <2>1
<1> HIDE DEF N
<1>6. f = [k \in a..b |-> IF k = b THEN <<>> ELSE made[k] \o f[next[k]]]
  <2>1. ASSUME NEW k \in a..b PROVE f[k] = IF k = b THEN <<>> ELSE made[k] \o f[next[k]]
    <3>1. k # b => k \in a..b - 1
      OBVIOUS
    <3> QED BY <1>5, <3>1 DEF IsChain
  <2>2. f = [k \in a..b |-> f[k]]
    BY <1>5 DEF IsChain
  <2> QED BY <2>1, <2>2
<1>7. PICK h : /\ h = [k \in a..b |-> IF k = b THEN <<>> ELSE made[k] \o h[next[k]]]
               /\ Chain(a, b, made, next) = h[a]
  BY <1>6 DEF Chain
<1> DEFINE S == {k \in a..b : h[k] = f[k]}
<1>8. ASSUME NEW p \in a..b, \A q \in p + 1..b : q \in S PROVE p \in S
  <2>1. CASE p = b
    BY <1>6, <1>7, <2>1
  <2>2. CASE p # b
    <3>1. next[p] \in p + 1..b
      BY <2>2
    <3>2. h[next[p]] = f[next[p]]
      BY <1>8, <3>1
    <3>3. h[p] = made[p] \o h[next[p]]
      BY <1>7, <2>2
    <3>4. f[p] = made[p] \o f[next[p]]
      BY <1>6, <2>2
    <3> QED BY <3>2, <3>3, <3>4
  <2> QED BY <2>1, <2>2
<1>9. a..b \subseteq S
  <2> HIDE DEF S
  <2> QED BY <1>8, PathInduction
<1>10. h[a] = f[a]
  BY <1>9
<1> QED BY <1>5, <1>7, <1>10

\* What a chain has comes from the places it visits, and every place lies
\* between one of these and the next.
Visits(s, P, a, b, made, next) ==
  /\ P \in SUBSET (a..b - 1)
  /\ ToSet(s) = UNION {ToSet(made[k]) : k \in P}
  /\ \A i \in a..b - 1 : \E k \in P : k <= i /\ i < next[k]

\* The recursion of Chain in a form without recursion: the places P it visits.
LEMMA ChainFollows ==
  ASSUME NEW a \in Int, NEW b \in Int, NEW V, NEW made, NEW next, IsPath(a, b, V, made, next)
  PROVE  /\ Chain(a, b, made, next) \in Seq(V)
         /\ \E P : Visits(Chain(a, b, made, next), P, a, b, made, next)
<1>1. PICK f : IsChain(f, a, b, V, made, next) /\ Chain(a, b, made, next) = f[a]
  BY ChainUnfolds
<1> USE DEF IsPath
<1>2. /\ f \in [a..b -> Seq(V)] /\ f[b] = <<>>
      /\ \A k \in a..b - 1 : f[k] = made[k] \o f[next[k]]
  BY <1>1 DEF IsChain
<1> DEFINE S == {p \in a..b : \E P : Visits(f[p], P, p, b, made, next)}
<1>3. ASSUME NEW p \in a..b, \A q \in p + 1..b : q \in S PROVE p \in S
  <2>1. CASE p = b
    <3>1. ToSet(f[p]) = {} /\ p..b - 1 = {}
      BY <1>2, <2>1 DEF ToSet
    <3>2. Visits(f[p], {}, p, b, made, next)
      BY <3>1 DEF Visits
    <3> QED BY <3>2
  <2>2. CASE p # b
    <3>1. next[p] \in p + 1..b /\ p \in a..b - 1 /\ made[p] \in Seq(V) /\ next[p] \in a..b
      BY <2>2
    <3>2. PICK P : Visits(f[next[p]], P, next[p], b, made, next)
      BY <1>3, <3>1
    <3>3. f[p] = made[p] \o f[next[p]] /\ f[next[p]] \in Seq(V)
      BY <1>2, <3>1
    <3>4. ToSet(f[p]) = ToSet(made[p]) \cup ToSet(f[next[p]])
      BY <3>1, <3>3, ConcatSet
    <3> DEFINE Q == P \cup {p}
    <3>5. Q \in SUBSET (p..b - 1)
      <4>1. P \in SUBSET (next[p]..b - 1)
        BY <3>2 DEF Visits
      <4> QED BY <3>1, <4>1
    <3>6. ToSet(f[p]) = UNION {ToSet(made[k]) : k \in Q}
      <4>1. ToSet(f[next[p]]) = UNION {ToSet(made[k]) : k \in P}
        BY <3>2 DEF Visits
      <4> QED BY <3>4, <4>1
    <3>7. ASSUME NEW i \in p..b - 1 PROVE \E k \in Q : k <= i /\ i < next[k]
      <4>1. CASE i < next[p]
        BY <4>1
      <4>2. CASE ~(i < next[p])
        <5>1. i \in next[p]..b - 1
          BY <3>1, <4>2
        <5>2. PICK k \in P : k <= i /\ i < next[k]
          BY <3>2, <5>1 DEF Visits
        <5> QED BY <5>2
      <4> QED BY <4>1, <4>2
    <3>8. Visits(f[p], Q, p, b, made, next)
      <4> HIDE DEF Q
      <4> QED BY <3>5, <3>6, <3>7 DEF Visits
    <3> QED BY <3>8
  <2> QED BY <2>1, <2>2
<1>4. a..b \subseteq S
  <2> HIDE DEF S
  <2> QED BY <1>3, PathInduction
<1>5. a \in a..b
  OBVIOUS
<1>6. f[a] \in Seq(V) /\ \E P : Visits(f[a], P, a, b, made, next)
  BY <1>2, <1>4, <1>5
<1> QED BY <1>1, <1>6

\* A chain is in order if what its places add is, and comes after it.
LEMMA ChainInOrder ==
  ASSUME NEW a \in Int, NEW b \in Int, NEW V, NEW made, NEW next, IsPath(a, b, V, made, next),
         NEW R, \A k \in a..b - 1 : InOrder(made[k], R),
         \A k, l \in a..b - 1 : next[k] <= l =>
           \A x \in ToSet(made[k]), y \in ToSet(made[l]) : <<x, y>> \in R
  PROVE  InOrder(Chain(a, b, made, next), R)
<1>1. PICK f : IsChain(f, a, b, V, made, next) /\ Chain(a, b, made, next) = f[a]
  BY ChainUnfolds
<1> USE DEF IsPath
<1>2. /\ f \in [a..b -> Seq(V)] /\ f[b] = <<>>
      /\ \A k \in a..b - 1 : f[k] = made[k] \o f[next[k]]
  BY <1>1 DEF IsChain
<1> DEFINE S == {p \in a..b : /\ InOrder(f[p], R)
                              /\ \A x \in ToSet(f[p]) : \E l \in p..b - 1 : x \in ToSet(made[l])}
<1>3. ASSUME NEW p \in a..b, \A q \in p + 1..b : q \in S PROVE p \in S
  <2>1. CASE p = b
    <3>1. ToSet(f[p]) = {} /\ DOMAIN f[p] = {}
      BY <1>2, <2>1 DEF ToSet
    <3> QED BY <3>1 DEF InOrder
  <2>2. CASE p # b
    <3>1. next[p] \in p + 1..b /\ p \in a..b - 1 /\ made[p] \in Seq(V) /\ next[p] \in a..b
      BY <2>2
    <3>2. f[p] = made[p] \o f[next[p]] /\ f[next[p]] \in Seq(V)
      BY <1>2, <3>1
    <3>3. /\ InOrder(f[next[p]], R)
          /\ \A x \in ToSet(f[next[p]]) : \E l \in next[p]..b - 1 : x \in ToSet(made[l])
      BY <1>3, <3>1
    <3>4. ASSUME NEW x \in ToSet(made[p]), NEW y \in ToSet(f[next[p]]) PROVE <<x, y>> \in R
      <4>1. PICK l \in next[p]..b - 1 : y \in ToSet(made[l])
        BY <3>3
      <4>2. l \in a..b - 1 /\ next[p] <= l
        BY <3>1
      <4> QED BY <3>1, <4>1, <4>2
    <3>5. InOrder(made[p], R)
      BY <3>1
    <3>6. InOrder(f[p], R) /\ ToSet(f[p]) = ToSet(made[p]) \cup ToSet(f[next[p]])
      <4> HIDE DEF S
      <4>1. InOrder(made[p] \o f[next[p]], R)
            /\ ToSet(made[p] \o f[next[p]]) = ToSet(made[p]) \cup ToSet(f[next[p]])
        BY <3>1, <3>2, <3>3, <3>4, <3>5, ConcatOrder
      <4> QED BY <3>2, <4>1
    <3>7. ASSUME NEW x \in ToSet(f[p]) PROVE \E l \in p..b - 1 : x \in ToSet(made[l])
      <4>1. CASE x \in ToSet(made[p])
        BY <3>1, <4>1
      <4>2. CASE x \in ToSet(f[next[p]])
        <5>1. PICK l \in next[p]..b - 1 : x \in ToSet(made[l])
          BY <3>3, <4>2
        <5>2. l \in p..b - 1
          BY <3>1
        <5> QED BY <5>1, <5>2
      <4> QED BY <3>6, <4>1, <4>2
    <3> QED BY <3>6, <3>7
  <2> QED BY <2>1, <2>2
<1>4. a..b \subseteq S
  <2> HIDE DEF S
  <2> QED BY <1>3, PathInduction
<1>5. a \in a..b
  OBVIOUS
<1> QED BY <1>1, <1>4, <1>5

-----------------------------------------------------------------------------
(* Windows of a text *)

Win == [start : Nat, end : Nat]
Text == Seq(Characters)

Held(S, i) == \E w \in S : w.start <= i /\ i < w.end
Lies(w, a, b) == a <= w.start /\ w.start < w.end /\ w.end <= b

\* The windows S lie between a and b and hold what is written there; none is
\* blank or wider than size.
CutsText(c, S, a, b, size) ==
  /\ \A w \in S : Lies(w, a, b) /\ Inked(c, w) # {} /\ Width(w) <= size
  /\ \A i \in Inked(c, Window(a, b)) : Held(S, i)

Rises == {p \in Win \X Win : p[1].start <= p[2].start /\ p[1].end <= p[2].end}
Follows == {p \in Win \X Win : p[1].end <= p[2].start}

Tight(c, w) == Window(Min(Inked(c, w)), Max(Inked(c, w)) + 1)

\* The fields of a window.
LEMMA WindowFields ==
  ASSUME NEW a \in Nat, NEW b \in Nat
  PROVE  Window(a, b) \in Win /\ Window(a, b).start = a /\ Window(a, b).end = b
BY DEF Window, Win

\* Inked says where a window has text.
LEMMA InkedMember ==
  ASSUME NEW c, NEW w, NEW i
  PROVE  i \in Inked(c, w) <=> i \in w.start..w.end - 1 /\ c[i + 1] # "_"
BY DEF Inked

\* The same, by the window's ends.
LEMMA InkedIn ==
  ASSUME NEW c, NEW w \in Win, NEW i
  PROVE  i \in Inked(c, w) <=> i \in Nat /\ w.start <= i /\ i < w.end /\ c[i + 1] # "_"
<1>1. w.start \in Nat /\ w.end \in Nat
  BY DEF Win
<1>2. i \in w.start..w.end - 1 <=> i \in Nat /\ w.start <= i /\ i < w.end
  BY <1>1
<1> QED BY <1>2, InkedMember

\* What strip leaves of a window that has text: the text, and no blank end.
LEMMA TightWindow ==
  ASSUME NEW c, NEW w \in Win, Inked(c, w) # {}
  PROVE  /\ Tight(c, w) \in Win
         /\ Tight(c, w).start \in Inked(c, w) /\ Tight(c, w).end - 1 \in Inked(c, w)
         /\ w.start <= Tight(c, w).start /\ Tight(c, w).start < Tight(c, w).end
         /\ Tight(c, w).end <= w.end
         /\ \A i \in Inked(c, w) : Tight(c, w).start <= i /\ i < Tight(c, w).end
         /\ Inked(c, Tight(c, w)) # {}
<1> DEFINE T == Inked(c, w)
<1>1. w.start \in Nat /\ w.end \in Nat
  BY DEF Win
<1>2. T \in SUBSET (w.start..w.end - 1) /\ w.start \in Int /\ w.end - 1 \in Int
  <2>1. w.start \in Int /\ w.end - 1 \in Int
    BY <1>1
  <2>2. \A i \in T : i \in w.start..w.end - 1
    BY InkedMember
  <2> QED BY <2>1, <2>2
<1>3. Min(T) \in T /\ \A y \in T : Min(T) <= y
  <2> HIDE DEF T
  <2> QED BY <1>2, LeastInRange DEF T
<1>4. Max(T) \in T /\ \A y \in T : y <= Max(T)
  <2> HIDE DEF T
  <2> QED BY <1>2, GreatestInRange DEF T
<1>5. Min(T) \in Nat /\ Max(T) \in Nat /\ Max(T) + 1 \in Nat /\ w.start <= Min(T) /\ Max(T) < w.end
      /\ Min(T) <= Max(T)
  BY <1>1, <1>2, <1>3, <1>4
<1>6. /\ Tight(c, w) \in Win /\ Tight(c, w).start = Min(T) /\ Tight(c, w).end = Max(T) + 1
  <2> HIDE DEF T
  <2> QED BY <1>5, WindowFields DEF Tight, T
<1> HIDE DEF T
<1>7. Min(T) \in Inked(c, Tight(c, w))
  <2>1. c[Min(T) + 1] # "_"
    BY <1>3 DEF T, Inked
  <2>2. Min(T) \in Tight(c, w).start..Tight(c, w).end - 1
    BY <1>5, <1>6
  <2> QED BY <2>1, <2>2 DEF Inked
<1>8. \A i \in T : i \in Nat
  BY <1>1, <1>2
<1>9. \A i \in T : Min(T) <= i /\ i < Max(T) + 1
  BY <1>3, <1>4, <1>5, <1>8
<1>10. Tight(c, w).end - 1 = Max(T)
  BY <1>5, <1>6
<1> QED BY <1>1, <1>3, <1>4, <1>5, <1>6, <1>7, <1>9, <1>10 DEF T

\* What Trimmed flattens.
Kept(c, ws) == [n \in DOMAIN ws |-> IF Inked(c, ws[n]) = {} THEN <<>> ELSE <<Tight(c, ws[n])>>]

\* What Trimmed flattens, member by member.
LEMMA TrimmedIs ==
  ASSUME NEW c, NEW ws \in Seq(Win)
  PROVE  /\ Trimmed(c, ws) = FlattenSeq(Kept(c, ws)) /\ Kept(c, ws) \in Seq(Seq(Win))
         /\ DOMAIN Kept(c, ws) = DOMAIN ws
         /\ \A n \in DOMAIN ws : /\ ws[n] \in Win
                                 /\ ToSet(Kept(c, ws)[n]) = IF Inked(c, ws[n]) = {} THEN {} ELSE {Tight(c, ws[n])}
<1>1. Trimmed(c, ws) = FlattenSeq(Kept(c, ws))
  BY DEF Trimmed, Kept, Tight
<1>2. Len(ws) \in Nat /\ DOMAIN ws = 1..Len(ws) /\ \A n \in 1..Len(ws) : ws[n] \in Win
  OBVIOUS
<1>3. ASSUME NEW n \in 1..Len(ws)
      PROVE  /\ Kept(c, ws)[n] \in Seq(Win)
             /\ ToSet(Kept(c, ws)[n]) = IF Inked(c, ws[n]) = {} THEN {} ELSE {Tight(c, ws[n])}
  <2>1. CASE Inked(c, ws[n]) = {}
    <3>1. Kept(c, ws)[n] = <<>>
      BY <1>2, <2>1 DEF Kept
    <3>2. ToSet(<<>>) = {} /\ <<>> \in Seq(Win)
      BY DEF ToSet
    <3> QED BY <2>1, <3>1, <3>2
  <2>2. CASE Inked(c, ws[n]) # {}
    <3> DEFINE t == Tight(c, ws[n])
    <3>1. Kept(c, ws)[n] = <<t>>
      BY <1>2, <2>2 DEF Kept
    <3>2. t \in Win
      BY <1>2, <2>2, TightWindow
    <3> HIDE DEF t
    <3>3. ToSet(<<t>>) = {t} /\ <<t>> \in Seq(Win)
      BY <3>2 DEF ToSet
    <3> QED BY <2>2, <3>1, <3>3 DEF t
  <2> QED BY <2>1, <2>2
<1>4. DOMAIN Kept(c, ws) = 1..Len(ws)
  BY <1>2 DEF Kept
<1>5. Kept(c, ws) \in Seq(Seq(Win))
  <2>1. Kept(c, ws) \in [1..Len(ws) -> Seq(Win)]
    <3>1. Kept(c, ws) = [n \in 1..Len(ws) |-> Kept(c, ws)[n]]
      BY <1>2 DEF Kept
    <3> QED BY <1>3, <3>1
  <2> QED BY <1>2, <2>1
<1> QED BY <1>1, <1>2, <1>3, <1>4, <1>5

\* Trimming loses no text.
LEMMA TrimmedCuts ==
  ASSUME NEW c, NEW a \in Nat, NEW b \in Nat, NEW size \in Nat, NEW ws \in Seq(Win),
         \A w \in ToSet(ws) : a <= w.start /\ w.end <= b /\ Width(w) <= size,
         \A i \in Inked(c, Window(a, b)) : Held(ToSet(ws), i)
  PROVE  Trimmed(c, ws) \in Seq(Win) /\ CutsText(c, ToSet(Trimmed(c, ws)), a, b, size)
<1> DEFINE t == Trimmed(c, ws)
           k == Kept(c, ws)
<1>1. /\ t = FlattenSeq(k) /\ k \in Seq(Seq(Win)) /\ DOMAIN k = DOMAIN ws
      /\ \A n \in DOMAIN ws : /\ ws[n] \in Win
                              /\ ToSet(k[n]) = IF Inked(c, ws[n]) = {} THEN {} ELSE {Tight(c, ws[n])}
  BY TrimmedIs
<1> HIDE DEF t, k
<1>2. t \in Seq(Win) /\ ToSet(t) = UNION {ToSet(k[n]) : n \in DOMAIN k}
  BY <1>1, FlatMembers
<1>3. ASSUME NEW v \in ToSet(t) PROVE Lies(v, a, b) /\ Inked(c, v) # {} /\ Width(v) <= size
  <2>1. PICK n \in DOMAIN ws : v \in ToSet(k[n])
    BY <1>1, <1>2
  <2>2. Inked(c, ws[n]) # {} /\ v = Tight(c, ws[n]) /\ ws[n] \in Win
    BY <1>1, <2>1
  <2>3. a <= ws[n].start /\ ws[n].end <= b /\ Width(ws[n]) <= size
    BY DEF ToSet
  <2>4. /\ v \in Win /\ ws[n].start <= v.start /\ v.start < v.end /\ v.end <= ws[n].end
        /\ Inked(c, v) # {}
    BY <2>2, TightWindow
  <2>5. v.start \in Nat /\ v.end \in Nat /\ ws[n].start \in Nat /\ ws[n].end \in Nat
    BY <2>2, <2>4 DEF Win
  <2> QED BY <2>3, <2>4, <2>5 DEF Lies, Width
<1>4. ASSUME NEW i \in Inked(c, Window(a, b)) PROVE Held(ToSet(t), i)
  <2>1. PICK n \in DOMAIN ws : ws[n].start <= i /\ i < ws[n].end
    BY DEF Held, ToSet
  <2>2. i \in Nat /\ c[i + 1] # "_"
    <3>1. Window(a, b) \in Win
      BY WindowFields
    <3> QED BY <3>1, InkedIn
  <2>3. ws[n] \in Win /\ ws[n].start \in Nat /\ ws[n].end \in Nat
    BY <1>1 DEF Win
  <2>4. i \in Inked(c, ws[n])
    BY <2>1, <2>2, <2>3, InkedIn
  <2>5. Tight(c, ws[n]).start <= i /\ i < Tight(c, ws[n]).end
    BY <2>3, <2>4, TightWindow
  <2>6. Tight(c, ws[n]) \in ToSet(k[n])
    BY <1>1, <2>4
  <2>7. Tight(c, ws[n]) \in ToSet(t)
    BY <1>1, <1>2, <2>6
  <2> QED BY <2>5, <2>7 DEF Held
<1> QED BY <1>2, <1>3, <1>4 DEF CutsText, t

\* Nor does it change the order.
LEMMA TrimmedOrder ==
  ASSUME NEW c, NEW ws \in Seq(Win), NEW R \in {Rises, Follows}, InOrder(ws, R)
  PROVE  InOrder(Trimmed(c, ws), R)
<1> DEFINE k == Kept(c, ws)
<1>1. /\ Trimmed(c, ws) = FlattenSeq(k) /\ k \in Seq(Seq(Win)) /\ DOMAIN k = DOMAIN ws
      /\ \A n \in DOMAIN ws : /\ ws[n] \in Win
                              /\ ToSet(k[n]) = IF Inked(c, ws[n]) = {} THEN {} ELSE {Tight(c, ws[n])}
  BY TrimmedIs
<1>2. ASSUME NEW n \in DOMAIN k PROVE InOrder(k[n], R)
  <2>1. k[n] = <<>> \/ k[n] = <<Tight(c, ws[n])>>
    BY DEF Kept
  <2>2. \A i, j \in DOMAIN k[n] : ~(i < j)
    BY <2>1
  <2> QED BY <2>2 DEF InOrder
<1> HIDE DEF k
<1>3. ASSUME NEW m \in DOMAIN k, NEW n \in DOMAIN k, m < n, NEW x \in ToSet(k[m]), NEW y \in ToSet(k[n])
      PROVE  <<x, y>> \in R
  <2> DEFINE v == ws[m]
             w == ws[n]
  <2>1. Inked(c, v) # {} /\ x = Tight(c, v) /\ Inked(c, w) # {} /\ y = Tight(c, w)
    BY <1>1, <1>3
  <2>2. v \in Win /\ w \in Win /\ <<v, w>> \in R
    BY <1>1, <1>3 DEF InOrder
  <2> HIDE DEF v, w
  <2>3. /\ x \in Win /\ x.start \in Inked(c, v) /\ x.end - 1 \in Inked(c, v)
        /\ v.start <= x.start /\ x.start < x.end /\ x.end <= v.end
        /\ \A i \in Inked(c, v) : x.start <= i /\ i < x.end
    BY <2>1, <2>2, TightWindow
  <2>4. /\ y \in Win /\ y.start \in Inked(c, w) /\ y.end - 1 \in Inked(c, w)
        /\ w.start <= y.start /\ y.start < y.end /\ y.end <= w.end
        /\ \A i \in Inked(c, w) : y.start <= i /\ i < y.end
    BY <2>1, <2>2, TightWindow
  <2>5. /\ x.start \in Nat /\ x.end \in Nat /\ y.start \in Nat /\ y.end \in Nat
        /\ v.start \in Nat /\ v.end \in Nat /\ w.start \in Nat /\ w.end \in Nat
    BY <2>2, <2>3, <2>4 DEF Win
  <2>6. CASE R = Follows
    <3>1. v.end <= w.start
      BY <2>2, <2>6 DEF Follows
    <3>2. x.end <= y.start
      BY <2>3, <2>4, <2>5, <3>1
    <3> QED BY <2>3, <2>4, <2>6, <3>2 DEF Follows
  <2>7. CASE R = Rises
    <3>1. v.start <= w.start /\ v.end <= w.end
      BY <2>2, <2>7 DEF Rises
    <3>2. x.start <= y.start
      <4>1. CASE y.start < v.end
        <5>1. y.start \in Inked(c, v)
          <6>1. y.start \in Nat /\ c[y.start + 1] # "_"
            BY <2>2, <2>4, InkedIn
          <6>2. v.start <= y.start
            BY <2>4, <2>5, <3>1
          <6> QED BY <2>2, <4>1, <6>1, <6>2, InkedIn
        <5> QED BY <2>3, <5>1
      <4>2. CASE ~(y.start < v.end)
        BY <2>3, <2>5, <4>2
      <4> QED BY <4>1, <4>2
    <3>3. x.end <= y.end
      <4>1. CASE w.start <= x.end - 1
        <5>1. x.end - 1 \in Inked(c, w)
          <6> DEFINE z == x.end - 1
          <6>1. z \in Nat /\ c[z + 1] # "_"
            BY <2>2, <2>3, InkedIn
          <6>2. z < w.end /\ w.start <= z
            BY <2>3, <2>5, <3>1, <4>1
          <6> HIDE DEF z
          <6>3. z \in Inked(c, w)
            BY <2>2, <6>1, <6>2, InkedIn
          <6> QED BY <6>3 DEF z
        <5>2. x.end - 1 < y.end
          BY <2>4, <5>1
        <5> QED BY <2>5, <5>2
      <4>2. CASE ~(w.start <= x.end - 1)
        BY <2>4, <2>5, <4>2
      <4> QED BY <4>1, <4>2
    <3> QED BY <2>3, <2>4, <2>7, <3>2, <3>3 DEF Rises
  <2> QED BY <2>6, <2>7
<1> QED BY <1>1, <1>2, <1>3, FlatInOrder

-----------------------------------------------------------------------------
(* Sentences *)

\* A list of one window.
LEMMA SingleList ==
  ASSUME NEW V, NEW w \in V, NEW R
  PROVE  <<w>> \in Seq(V) /\ ToSet(<<w>>) = {w} /\ InOrder(<<w>>, R)
<1> DEFINE s == <<w>>
<1>1. s \in Seq(V) /\ DOMAIN s = {1} /\ s[1] = w
  OBVIOUS
<1> HIDE DEF s
<1>2. ToSet(s) = {w}
  BY <1>1 DEF ToSet
<1>3. InOrder(s, R)
  BY <1>1 DEF InOrder
<1> QED BY <1>1, <1>2, <1>3 DEF s

\* The sentences follow each other and lose no text.
LEMMA SentencesCut ==
  ASSUME NEW text \in Text
  PROVE  /\ SentenceSpans(text) \in Seq(Win)
         /\ CutsText(text, ToSet(SentenceSpans(text)), 0, Len(text), Len(text))
         /\ InOrder(SentenceSpans(text), Follows)
<1> DEFINE n == Len(text)
           stops(p) == {i \in p + 1..n - 1 : text[i + 1] = "."}
           stop(p) == Min({n - 1} \cup stops(p))
           ends(p) == {e \in stop(p) + 1..n : e = n \/ text[e + 1] # "q"}
           cut == [p \in 0..n - 1 |-> Min(ends(p))]
           made == [p \in 0..n - 1 |-> <<Window(p, cut[p])>>]
           chain == Chain(0, n, made, cut)
<1>1. n \in Nat
  BY DEF Text
<1>2. SentenceSpans(text) = Trimmed(text, chain)
  BY DEF SentenceSpans
<1> HIDE DEF n
<1>3. ASSUME NEW p \in 0..n - 1 PROVE cut[p] \in p + 1..n
  <2>1. {n - 1} \cup stops(p) \in SUBSET (p..n - 1) /\ p \in Int /\ n - 1 \in Int
    BY <1>1
  <2>2. stop(p) \in p..n - 1
    BY <2>1, LeastInRange
  <2> HIDE DEF stop
  <2>3. ends(p) \in SUBSET (stop(p) + 1..n) /\ n \in ends(p) /\ stop(p) + 1 \in Int /\ n \in Int
    BY <1>1, <2>2
  <2>4. Min(ends(p)) \in ends(p)
    <3> HIDE DEF ends
    <3> QED BY <2>3, LeastInRange
  <2>5. Min(ends(p)) \in stop(p) + 1..n
    BY <2>4
  <2> HIDE DEF ends
  <2>6. cut[p] = Min(ends(p))
    OBVIOUS
  <2> QED BY <2>2, <2>5, <2>6
<1> HIDE DEF cut
<1>4. ASSUME NEW p \in 0..n - 1
      PROVE  /\ made[p] \in Seq(Win) /\ ToSet(made[p]) = {Window(p, cut[p])}
             /\ InOrder(made[p], Follows) /\ Window(p, cut[p]) \in Win
             /\ Window(p, cut[p]).start = p /\ Window(p, cut[p]).end = cut[p]
  <2>1. cut[p] \in Nat /\ p \in Nat
    BY <1>1, <1>3
  <2>2. Window(p, cut[p]) \in Win /\ Window(p, cut[p]).start = p /\ Window(p, cut[p]).end = cut[p]
    BY <2>1, WindowFields
  <2>3. made[p] = <<Window(p, cut[p])>>
    OBVIOUS
  <2> QED BY <2>2, <2>3, SingleList
<1> HIDE DEF made
<1>5. IsPath(0, n, Win, made, cut)
  BY <1>1, <1>3, <1>4 DEF IsPath
<1>6. chain \in Seq(Win) /\ \E P : Visits(chain, P, 0, n, made, cut)
  BY <1>1, <1>5, ChainFollows
<1>7. InOrder(chain, Follows)
  <2>1. ASSUME NEW k \in 0..n - 1, NEW l \in 0..n - 1, cut[k] <= l,
               NEW x \in ToSet(made[k]), NEW y \in ToSet(made[l])
        PROVE  <<x, y>> \in Follows
    <3>1. x = Window(k, cut[k]) /\ y = Window(l, cut[l])
      BY <1>4
    <3>2. x \in Win /\ y \in Win /\ x.end = cut[k] /\ y.start = l
      BY <1>4, <3>1
    <3> QED BY <2>1, <3>2 DEF Follows
  <2>2. \A k \in 0..n - 1 : InOrder(made[k], Follows)
    BY <1>4
  <2>3. \A k, l \in 0..n - 1 : cut[k] <= l =>
          \A x \in ToSet(made[k]), y \in ToSet(made[l]) : <<x, y>> \in Follows
    BY <2>1
  <2>4. 0 \in Int /\ n \in Int
    BY <1>1
  <2> QED BY <1>5, <2>2, <2>3, <2>4, ChainInOrder
<1>8. PICK P : Visits(chain, P, 0, n, made, cut)
  BY <1>6
<1> HIDE DEF chain
<1>9. ASSUME NEW w \in ToSet(chain) PROVE 0 <= w.start /\ w.end <= n /\ Width(w) <= n
  <2>1. PICK p \in P : w \in ToSet(made[p])
    BY <1>8 DEF Visits
  <2>2. p \in 0..n - 1
    BY <1>8 DEF Visits
  <2>3. w.start = p /\ w.end = cut[p]
    BY <1>4, <2>1, <2>2
  <2> QED BY <1>1, <1>3, <2>2, <2>3 DEF Width
<1>10. ASSUME NEW i \in Inked(text, Window(0, n)) PROVE Held(ToSet(chain), i)
  <2>1. i \in 0..n - 1
    <3>1. Window(0, n) \in Win /\ Window(0, n).end = n
      BY <1>1, WindowFields
    <3>2. i \in Nat /\ i < n
      BY <3>1, InkedIn
    <3> QED BY <1>1, <3>2
  <2>2. PICK k \in P : k <= i /\ i < cut[k]
    BY <1>8, <2>1 DEF Visits
  <2>3. k \in 0..n - 1
    BY <1>8 DEF Visits
  <2>4. Window(k, cut[k]) \in ToSet(made[k])
    BY <1>4, <2>3
  <2>5. Window(k, cut[k]) \in ToSet(chain)
    BY <1>8, <2>4 DEF Visits
  <2>6. Window(k, cut[k]).start <= i /\ i < Window(k, cut[k]).end
    BY <1>4, <2>2, <2>3
  <2> QED BY <2>5, <2>6 DEF Held
<1>11. /\ Trimmed(text, chain) \in Seq(Win)
       /\ CutsText(text, ToSet(Trimmed(text, chain)), 0, n, n)
  BY <1>1, <1>6, <1>9, <1>10, TrimmedCuts
<1>12. InOrder(Trimmed(text, chain), Follows)
  BY <1>6, <1>7, TrimmedOrder
<1> QED BY <1>2, <1>11, <1>12 DEF n


\* The multiples of the step.
LEMMA Multiples ==
  ASSUME NEW s \in Nat, s >= 1
  PROVE  \E m : /\ \A k \in Nat : m[k] = k * s /\ m[k] \in Nat /\ m[k] >= k /\ m[k + 1] = m[k] + s
                /\ \A j, k \in Nat : j <= k => m[j] <= m[k]
<1> DEFINE m == [k \in Nat |-> k * s]
<1>1. \A k \in Nat : m[k] = k * s
  OBVIOUS
<1> HIDE DEF m
<1>2. ASSUME NEW k \in Nat PROVE k * s \in Nat
  OBVIOUS
<1>3. ASSUME NEW k \in Nat PROVE (k + 1) * s = k * s + s
  OBVIOUS
<1> DEFINE N == {k \in Nat : m[k] >= k /\ \A j \in Nat : j <= k => m[j] <= m[k]}
<1>4. 0 \in N
  <2>1. \A j \in Nat : j <= 0 => j = 0
    OBVIOUS
  <2>2. m[0] \in Nat
    BY <1>1, <1>2
  <2> QED BY <2>1, <2>2
<1>5. ASSUME NEW k \in Nat, k \in N PROVE k + 1 \in N
  <2>1. m[k + 1] = m[k] + s /\ m[k] \in Nat /\ m[k] >= k
    BY <1>1, <1>2, <1>3, <1>5
  <2>2. ASSUME NEW j \in Nat, j <= k + 1 PROVE m[j] <= m[k + 1]
    <3>1. CASE j = k + 1
      BY <2>1, <3>1
    <3>2. CASE j # k + 1
      <4>1. j <= k
        BY <2>2, <3>2
      <4>2. m[j] <= m[k] /\ m[j] \in Nat
        BY <1>1, <1>2, <1>5, <4>1
      <4> QED BY <2>1, <4>2
    <3> QED BY <3>1, <3>2
  <2>3. m[k + 1] >= k + 1
    BY <2>1
  <2> QED BY <2>2, <2>3
<1>6. Nat \subseteq N
  <2> HIDE DEF N
  <2> QED BY <1>4, <1>5, NatSetInduction
<1>7. \A k \in Nat : m[k] = k * s /\ m[k] \in Nat /\ m[k] >= k /\ m[k + 1] = m[k] + s
  BY <1>1, <1>2, <1>3, <1>6
<1> QED BY <1>6, <1>7

\* A list [k \in 1..n |-> f(k)] in a form that can be cited.
LEMMA ListOf ==
  ASSUME NEW V, NEW n \in Nat, NEW f, f \in [1..n -> V]
  PROVE  f \in Seq(V) /\ DOMAIN f = 1..n /\ Len(f) = n /\ \A k \in 1..n : f[k] \in ToSet(f)
BY DEF ToSet

\* Windows of one width, a step apart, from the start to the end of a span.
LEMMA FixedLengthCuts ==
  ASSUME NEW c, NEW span \in Win, span.start <= span.end,
         NEW size \in Nat, NEW overlap \in 0..size - 1
  PROVE  /\ FixedLength(c, span, size, overlap) \in Seq(Win)
         /\ CutsText(c, ToSet(FixedLength(c, span, size, overlap)), span.start, span.end, size)
         /\ InOrder(FixedLength(c, span, size, overlap), Rises)
<1> DEFINE s == span.start
           e == span.end
           wd == e - s
           stride == size - overlap
           T == {k \in 0..wd : k * stride + size >= wd}
           last == Min(T)
           piece(k) == Window(s + k * stride, Min({e, s + k * stride + size}))
           ws == [k \in 1..last + 1 |-> piece(k - 1)]
<1>1. s \in Nat /\ e \in Nat /\ s <= e /\ wd \in Nat /\ stride \in Nat /\ stride >= 1 /\ stride <= size
  BY DEF Win
<1>2. FixedLength(c, span, size, overlap) = Trimmed(c, ws)
  BY DEF FixedLength, Width
<1> HIDE DEF s, e, wd, stride
<1>3. PICK m : /\ \A k \in Nat : m[k] = k * stride /\ m[k] \in Nat /\ m[k] >= k /\ m[k + 1] = m[k] + stride
               /\ \A j, k \in Nat : j <= k => m[j] <= m[k]
  BY <1>1, Multiples
<1>4. last \in T /\ last \in Nat /\ m[last] + size >= wd
  <2>1. wd \in T
    <3>1. m[wd] >= wd /\ m[wd] = wd * stride /\ m[wd] \in Nat
      BY <1>1, <1>3
    <3>2. wd * stride + size >= wd
      BY <1>1, <3>1
    <3> QED BY <1>1, <3>2
  <2>5. T \in SUBSET (0..wd)
    OBVIOUS
  <2>2. T \in SUBSET (0..wd) /\ T # {} /\ 0 \in Int /\ wd \in Int
    <3> HIDE DEF T
    <3> QED BY <1>1, <2>1, <2>5
  <2>3. Min(T) \in T
    <3> HIDE DEF T
    <3> QED BY <2>2, LeastInRange
  <2>4. last \in 0..wd /\ last * stride + size >= wd
    BY <2>3
  <2>7. last \in Nat
    BY <2>4
  <2> HIDE DEF last
  <2>6. m[last] = last * stride
    BY <1>3, <2>7
  <2> QED BY <2>3, <2>4, <2>7, <2>6 DEF last
<1> HIDE DEF T, last
<1> DEFINE till(k) == Min({e, s + m[k] + size})
<1>5. ASSUME NEW k \in Nat
      PROVE  /\ s + m[k] \in Nat /\ till(k) \in Nat /\ till(k) <= e /\ till(k) <= s + m[k] + size
             /\ till(k) \in {e, s + m[k] + size}
             /\ piece(k) = Window(s + m[k], till(k))
  <2>1. m[k] \in Nat /\ m[k] = k * stride
    BY <1>3
  <2>2. s + m[k] + size \in Nat /\ s + m[k] \in Nat
    BY <1>1, <2>1
  <2>3. till(k) \in {e, s + m[k] + size} /\ till(k) <= e /\ till(k) <= s + m[k] + size
    <3> DEFINE z == s + m[k] + size
    <3> HIDE DEF z
    <3>1. e \in Int /\ z \in Int
      BY <1>1, <2>2 DEF z
    <3>2. Min({e, z}) \in {e, z} /\ Min({e, z}) <= e /\ Min({e, z}) <= z
      BY <3>1, MinOfTwo
    <3> QED BY <3>2 DEF z
  <2>4. piece(k) = Window(s + m[k], till(k))
    BY <2>1
  <2> HIDE DEF till, piece
  <2> QED BY <1>1, <2>2, <2>3, <2>4
<1>6. ASSUME NEW k \in Nat
      PROVE  piece(k) \in Win /\ piece(k).start = s + m[k] /\ piece(k).end = till(k)
  <2> DEFINE a == s + m[k]
             z == till(k)
             w == piece(k)
  <2>1. a \in Nat /\ z \in Nat /\ w = Window(a, z)
    BY <1>5
  <2> HIDE DEF a, z, w
  <2>2. w \in Win /\ w.start = a /\ w.end = z
    BY <2>1, WindowFields
  <2> QED BY <2>2 DEF a, z, w
<1> HIDE DEF piece, till
<1>7. /\ ws \in Seq(Win) /\ DOMAIN ws = 1..last + 1 /\ \A k \in 1..last + 1 : ws[k] = piece(k - 1) /\ k - 1 \in Nat
      /\ \A k \in 1..last + 1 : ws[k] \in ToSet(ws)
  <2>1. \A k \in 1..last + 1 : k - 1 \in Nat
    BY <1>4
  <2>2. last + 1 \in Nat /\ ws \in [1..last + 1 -> Win]
    BY <1>4, <1>6, <2>1
  <2>3. \A k \in 1..last + 1 : ws[k] = piece(k - 1)
    OBVIOUS
  <2> HIDE DEF ws
  <2>4. ws \in Seq(Win) /\ DOMAIN ws = 1..last + 1 /\ \A k \in 1..last + 1 : ws[k] \in ToSet(ws)
    BY <2>2, ListOf
  <2> QED BY <2>1, <2>3, <2>4
<1> HIDE DEF ws
<1>8. ASSUME NEW w \in ToSet(ws) PROVE s <= w.start /\ w.end <= e /\ Width(w) <= size
  <2>1. PICK k \in 1..last + 1 : w = ws[k]
    BY <1>7 DEF ToSet
  <2>2. w = piece(k - 1) /\ k - 1 \in Nat
    BY <1>7, <2>1
  <2>3. w.start = s + m[k - 1] /\ w.end = till(k - 1) /\ m[k - 1] \in Nat
    BY <1>3, <1>6, <2>2
  <2>4. till(k - 1) <= e /\ till(k - 1) <= s + m[k - 1] + size /\ till(k - 1) \in Nat
    BY <1>5, <2>2
  <2> QED BY <1>1, <2>3, <2>4 DEF Width
<1>9. ASSUME NEW i \in Inked(c, Window(s, e)) PROVE Held(ToSet(ws), i)
  <2>1. i \in Nat /\ s <= i /\ i < e
    <3>1. Window(s, e) \in Win /\ Window(s, e).start = s /\ Window(s, e).end = e
      BY <1>1, WindowFields
    <3> QED BY <3>1, InkedIn
  <2> DEFINE r == i - s
  <2>2. r \in Nat /\ r < wd
    BY <1>1, <2>1 DEF wd
  <2> HIDE DEF r
  <2>3. \E k \in 0..last : m[k] <= r /\ r < m[k] + size
    <3>1. CASE m[last] <= r
      BY <1>1, <1>3, <1>4, <2>2, <3>1
    <3>2. CASE ~(m[last] <= r)
      <4> DEFINE U == {k \in 0..last : r < m[k]}
      <4>1. last \in U /\ U \in SUBSET (0..last) /\ U # {} /\ 0 \in Int /\ last \in Int
        <5>1. last \in 0..last /\ r < m[last] /\ 0 \in Int /\ last \in Int
          BY <1>3, <1>4, <2>2, <3>2
        <5>2. last \in U
          BY <5>1
        <5>3. U \in SUBSET (0..last)
          OBVIOUS
        <5> HIDE DEF U
        <5> QED BY <5>1, <5>2, <5>3
      <4>2. Min(U) \in U /\ \A y \in U : Min(U) <= y
        <5> HIDE DEF U
        <5> QED BY <4>1, LeastInRange
      <4>3. PICK k \in 0..last : r < m[k] /\ \A y \in U : k <= y
        BY <4>2
      <4>4. k # 0
        <5>1. m[0] = 0 * stride
          BY <1>3
        <5>2. m[0] = 0
          BY <1>1, <5>1
        <5> QED BY <2>2, <4>3, <5>2
      <4>5. k - 1 \in 0..last /\ k - 1 \in Nat /\ (k - 1) + 1 = k /\ k - 1 < k
        BY <1>4, <4>4
      <4>6. ~(r < m[k - 1])
        BY <4>3, <4>5
      <4>7. m[k] = m[k - 1] + stride /\ m[k - 1] \in Nat
        BY <1>3, <4>5
      <4>8. m[k - 1] <= r /\ r < m[k - 1] + size
        BY <1>1, <2>2, <4>3, <4>6, <4>7
      <4> QED BY <4>5, <4>8
    <3> QED BY <3>1, <3>2
  <2>4. PICK k \in 0..last : m[k] <= r /\ r < m[k] + size
    BY <2>3
  <2>5. k \in Nat /\ k + 1 \in 1..last + 1 /\ (k + 1) - 1 = k
    BY <1>4
  <2>6. ws[k + 1] = piece(k) /\ ws[k + 1] \in ToSet(ws)
    BY <1>7, <2>5
  <2>7. piece(k).start = s + m[k] /\ piece(k).end = till(k) /\ m[k] \in Nat /\ till(k) \in {e, s + m[k] + size}
    BY <1>3, <1>5, <1>6, <2>5
  <2>8. s + m[k] <= i /\ i < s + m[k] + size
    BY <1>1, <2>1, <2>4, <2>7 DEF r
  <2>9. i < till(k)
    BY <2>1, <2>7, <2>8
  <2> QED BY <2>6, <2>7, <2>8, <2>9 DEF Held
<1>10. InOrder(ws, Rises)
  <2> SUFFICES ASSUME NEW j \in 1..last + 1, NEW k \in 1..last + 1, j < k PROVE <<ws[j], ws[k]>> \in Rises
    BY <1>7 DEF InOrder
  <2>1. j - 1 \in Nat /\ k - 1 \in Nat /\ j - 1 <= k - 1
    BY <1>4
  <2>2. m[j - 1] <= m[k - 1] /\ m[j - 1] \in Nat /\ m[k - 1] \in Nat
    BY <1>3, <2>1
  <2>3. /\ till(j - 1) \in Nat /\ till(j - 1) <= e /\ till(j - 1) <= s + m[j - 1] + size
        /\ till(k - 1) \in {e, s + m[k - 1] + size}
    BY <1>5, <2>1
  <2>4. s + m[j - 1] <= s + m[k - 1] /\ till(j - 1) <= till(k - 1)
    BY <1>1, <2>2, <2>3
  <2>5. /\ ws[j] \in Win /\ ws[k] \in Win /\ ws[j].start = s + m[j - 1] /\ ws[k].start = s + m[k - 1]
        /\ ws[j].end = till(j - 1) /\ ws[k].end = till(k - 1)
    BY <1>6, <1>7, <2>1
  <2> QED BY <2>4, <2>5 DEF Rises
<1>11. Trimmed(c, ws) \in Seq(Win) /\ CutsText(c, ToSet(Trimmed(c, ws)), s, e, size)
  BY <1>1, <1>7, <1>8, <1>9, TrimmedCuts
<1>12. InOrder(Trimmed(c, ws), Rises)
  BY <1>7, <1>10, TrimmedOrder
<1> QED BY <1>2, <1>11, <1>12 DEF s, e

\* A function on 1..n that has values in V is a list of V.
LEMMA SeqByDomain ==
  ASSUME NEW V, NEW n \in Nat, NEW f, f = [k \in 1..n |-> f[k]], \A k \in 1..n : f[k] \in V
  PROVE  f \in Seq(V)
<1>1. f \in [1..n -> V]
  OBVIOUS
<1> QED BY <1>1

\* What is in a list of V is in V.
LEMMA MemberOf ==
  ASSUME NEW V, NEW s \in Seq(V), NEW x \in ToSet(s)
  PROVE  x \in V
<1>1. \A k \in DOMAIN s : s[k] \in V
  OBVIOUS
<1> QED BY <1>1 DEF ToSet

\* Where the window from a to b has text.
LEMMA InkOfWindow ==
  ASSUME NEW c, NEW a \in Nat, NEW b \in Nat, NEW i
  PROVE  i \in Inked(c, Window(a, b)) <=> i \in Nat /\ a <= i /\ i < b /\ c[i + 1] # "_"
<1>1. Window(a, b) \in Win /\ Window(a, b).start = a /\ Window(a, b).end = b
  BY WindowFields
<1> QED BY <1>1, InkedIn

\* What CutsText says of a window,
LEMMA CutMember ==
  ASSUME NEW c, NEW S, NEW a, NEW b, NEW size, CutsText(c, S, a, b, size), NEW w \in S
  PROVE  Lies(w, a, b) /\ Inked(c, w) # {} /\ Width(w) <= size
BY DEF CutsText

\* and of an offset with text.
LEMMA CutHolds ==
  ASSUME NEW c, NEW S, NEW a \in Nat, NEW b \in Nat, NEW size, CutsText(c, S, a, b, size),
         NEW i \in Nat, a <= i, i < b, c[i + 1] # "_"
  PROVE  Held(S, i)
<1>1. Window(a, b) \in Win /\ Window(a, b).start = a /\ Window(a, b).end = b
  BY WindowFields
<1>2. i \in Inked(c, Window(a, b))
  BY <1>1, InkedIn
<1> QED BY <1>2 DEF CutsText

\* Sentences that are too long are cut again.
LEMMA PreparedCut ==
  ASSUME NEW c \in Text, NEW size \in Nat, NEW overlap \in 0..size - 1
  PROVE  /\ PreparedSpans(c, size, overlap) \in Seq(Win)
         /\ CutsText(c, ToSet(PreparedSpans(c, size, overlap)), 0, Len(c), size)
         /\ InOrder(PreparedSpans(c, size, overlap), Rises)
<1> DEFINE sp == SentenceSpans(c)
           n == Len(c)
           bd == [k \in DOMAIN sp |-> IF Width(sp[k]) <= size THEN <<sp[k]>>
                                      ELSE FixedLength(c, sp[k], size, overlap)]
<1>1. PreparedSpans(c, size, overlap) = FlattenSeq(bd)
  BY DEF PreparedSpans
<1>2. n \in Nat /\ sp \in Seq(Win) /\ CutsText(c, ToSet(sp), 0, n, n) /\ InOrder(sp, Follows)
  BY SentencesCut DEF Text
<1> HIDE DEF sp, n
<1>3. Len(sp) \in Nat /\ DOMAIN sp = 1..Len(sp) /\ \A k \in 1..Len(sp) : sp[k] \in Win
  BY <1>2
<1>4. ASSUME NEW k \in 1..Len(sp)
      PROVE  /\ sp[k] \in Win /\ sp[k].start \in Nat /\ sp[k].end \in Nat /\ sp[k].start < sp[k].end
             /\ sp[k].end <= n /\ Inked(c, sp[k]) # {}
  <2>1. sp[k] \in ToSet(sp)
    BY <1>3 DEF ToSet
  <2>2. Lies(sp[k], 0, n) /\ Inked(c, sp[k]) # {}
    BY <1>2, <2>1, CutMember
  <2> QED BY <1>3, <2>2 DEF Lies, Win
<1>5. ASSUME NEW k \in 1..Len(sp)
      PROVE  /\ bd[k] \in Seq(Win) /\ InOrder(bd[k], Rises)
             /\ CutsText(c, ToSet(bd[k]), sp[k].start, sp[k].end, size)
  <2> DEFINE w == sp[k]
  <2>0. w \in Win /\ w.start \in Nat /\ w.end \in Nat /\ w.start < w.end /\ w.end <= n /\ Inked(c, w) # {}
    BY <1>4
  <2>1. CASE Width(w) <= size
    <3>1. bd[k] = <<w>>
      BY <1>3, <2>1
    <3> HIDE DEF bd, w
    <3>2. <<w>> \in Seq(Win) /\ ToSet(<<w>>) = {w} /\ InOrder(<<w>>, Rises)
      BY <2>0, SingleList
    <3>3. Lies(w, w.start, w.end)
      BY <2>0 DEF Lies
    <3>4. ASSUME NEW i \in Inked(c, Window(w.start, w.end)) PROVE Held({w}, i)
      <4>2. w.start <= i /\ i < w.end
        BY <2>0, InkOfWindow
      <4> QED BY <4>2 DEF Held
    <3>5. CutsText(c, {w}, w.start, w.end, size)
      BY <2>0, <2>1, <3>3, <3>4 DEF CutsText
    <3> QED BY <3>1, <3>2, <3>5 DEF w
  <2>2. CASE ~(Width(w) <= size)
    <3>1. bd[k] = FixedLength(c, w, size, overlap)
      BY <1>3, <2>2
    <3> HIDE DEF bd, w
    <3>2. w.start <= w.end
      BY <2>0
    <3>3. /\ bd[k] \in Seq(Win) /\ InOrder(bd[k], Rises)
          /\ CutsText(c, ToSet(bd[k]), w.start, w.end, size)
      BY <2>0, <3>1, <3>2, FixedLengthCuts
    <3> QED BY <3>3 DEF w
  <2> QED BY <2>1, <2>2
<1>6. DOMAIN bd = 1..Len(sp) /\ bd = [k \in 1..Len(sp) |-> bd[k]]
  BY <1>3
<1> HIDE DEF bd
<1>7. bd \in Seq(Seq(Win))
  BY <1>3, <1>5, <1>6, SeqByDomain
<1>8. ASSUME NEW j \in DOMAIN bd, NEW k \in DOMAIN bd, j < k, NEW x \in ToSet(bd[j]), NEW y \in ToSet(bd[k])
      PROVE  <<x, y>> \in Rises
  <2>1. j \in 1..Len(sp) /\ k \in 1..Len(sp)
    BY <1>6
  <2>2. <<sp[j], sp[k]>> \in Follows
    BY <1>2, <1>3, <1>8, <2>1 DEF InOrder
  <2>3. sp[j].end <= sp[k].start
    BY <2>2 DEF Follows
  <2>4. Lies(x, sp[j].start, sp[j].end) /\ Lies(y, sp[k].start, sp[k].end)
    BY <1>5, <2>1, CutMember
  <2>5. x \in Win /\ y \in Win
    BY <1>5, <2>1, MemberOf
  <2>6. /\ x.start \in Nat /\ x.end \in Nat /\ y.start \in Nat /\ y.end \in Nat
        /\ sp[j].start \in Nat /\ sp[j].end \in Nat /\ sp[k].start \in Nat /\ sp[k].end \in Nat
    BY <1>4, <2>1, <2>5 DEF Win
  <2>7. x.start <= y.start /\ x.end <= y.end
    BY <2>3, <2>4, <2>6 DEF Lies
  <2> QED BY <2>5, <2>7 DEF Rises
<1>9. /\ FlattenSeq(bd) \in Seq(Win) /\ InOrder(FlattenSeq(bd), Rises)
      /\ ToSet(FlattenSeq(bd)) = UNION {ToSet(bd[k]) : k \in DOMAIN bd}
  <2>1. \A k \in DOMAIN bd : InOrder(bd[k], Rises)
    BY <1>5, <1>6
  <2>2. \A j, k \in DOMAIN bd : j < k => \A x \in ToSet(bd[j]), y \in ToSet(bd[k]) : <<x, y>> \in Rises
    BY <1>8
  <2> QED BY <1>7, <2>1, <2>2, FlatInOrder
<1>10. ASSUME NEW w \in ToSet(FlattenSeq(bd)) PROVE Lies(w, 0, n) /\ Inked(c, w) # {} /\ Width(w) <= size
  <2>1. PICK k \in 1..Len(sp) : w \in ToSet(bd[k])
    BY <1>6, <1>9
  <2>2. Lies(w, sp[k].start, sp[k].end) /\ Inked(c, w) # {} /\ Width(w) <= size
    BY <1>5, <2>1, CutMember
  <2>3. w \in Win
    BY <1>5, <2>1, MemberOf
  <2>4. w.start \in Nat /\ w.end \in Nat /\ sp[k].start \in Nat /\ sp[k].end \in Nat /\ sp[k].end <= n
    BY <1>4, <2>3 DEF Win
  <2> QED BY <1>2, <2>2, <2>4 DEF Lies
<1>11. ASSUME NEW i \in Inked(c, Window(0, n)) PROVE Held(ToSet(FlattenSeq(bd)), i)
  <2>1. Held(ToSet(sp), i)
    BY <1>2 DEF CutsText
  <2>2. PICK k \in 1..Len(sp) : sp[k].start <= i /\ i < sp[k].end
    BY <1>3, <2>1 DEF Held, ToSet
  <2>3. i \in Nat /\ c[i + 1] # "_"
    <3>1. 0 \in Nat /\ n \in Nat
      BY <1>2
    <3> QED BY <3>1, InkOfWindow
  <2>4. Held(ToSet(bd[k]), i)
    BY <1>4, <1>5, <2>2, <2>3, CutHolds
  <2> QED BY <1>6, <1>9, <2>4 DEF Held
<1>12. CutsText(c, ToSet(FlattenSeq(bd)), 0, n, size)
  BY <1>10, <1>11 DEF CutsText
<1> QED BY <1>1, <1>9, <1>12 DEF n

\* Sentences are joined to windows of at most size.
LEMMA ContentCut ==
  ASSUME NEW c \in Text, NEW size \in Nat, NEW overlap \in 0..size - 1
  PROVE  /\ ContentSpans(c, size, overlap) \in Seq(Win)
         /\ CutsText(c, ToSet(ContentSpans(c, size, overlap)), 0, Len(c), size)
<1> DEFINE sp == PreparedSpans(c, size, overlap)
           L == Len(c)
           n == Len(sp)
           Fit(k) == {e \in k..n : \A i \in k + 1..e : sp[i].end - sp[k].start <= size}
           last == [k \in 1..n |-> Packed(k, n, LAMBDA i : sp[i].end - sp[k].start <= size)]
           joined == [k \in 1..n |-> <<Window(sp[k].start, sp[last[k]].end)>>]
           next == [k \in 1..n |-> IF last[k] = n THEN n + 1 ELSE NextCursor(sp, k, last[k], overlap)]
           ch == Chain(1, n + 1, joined, next)
<1>1. ContentSpans(c, size, overlap) = Trimmed(c, ch)
  BY DEF ContentSpans, JoinedSentences
<1>2. L \in Nat /\ sp \in Seq(Win) /\ CutsText(c, ToSet(sp), 0, L, size) /\ InOrder(sp, Rises)
  BY PreparedCut DEF Text
<1> HIDE DEF sp, L
<1>3. n \in Nat /\ DOMAIN sp = 1..n /\ \A k \in 1..n : sp[k] \in Win
  BY <1>2
<1> HIDE DEF n
<1>4. ASSUME NEW k \in 1..n
      PROVE  /\ sp[k].start \in Nat /\ sp[k].end \in Nat /\ sp[k].start < sp[k].end /\ sp[k].end <= L
             /\ sp[k].end - sp[k].start <= size
  <2>1. sp[k] \in ToSet(sp) /\ sp[k] \in Win
    BY <1>3 DEF ToSet
  <2>2. Lies(sp[k], 0, L) /\ Width(sp[k]) <= size
    BY <1>2, <2>1, CutMember
  <2> QED BY <2>1, <2>2 DEF Lies, Win, Width
<1>5. ASSUME NEW k \in 1..n
      PROVE  last[k] \in k..n /\ \A i \in k + 1..last[k] : sp[i].end - sp[k].start <= size
  <2>1. last[k] = Max(Fit(k))
    BY DEF Packed
  <2>2. Fit(k) \in SUBSET (k..n)
    OBVIOUS
  <2>3. k \in Fit(k)
    <3>1. k \in k..n /\ k + 1..k = {}
      BY <1>3
    <3> QED BY <3>1
  <2>4. Max(Fit(k)) \in Fit(k)
    <3> HIDE DEF Fit
    <3>1. k \in Int /\ n \in Int
      BY <1>3
    <3> QED BY <2>2, <2>3, <3>1, GreatestInRange
  <2>5. Max(Fit(k)) \in k..n /\ \A i \in k + 1..Max(Fit(k)) : sp[i].end - sp[k].start <= size
    BY <2>4
  <2> HIDE DEF Fit, last
  <2> QED BY <2>1, <2>5
<1>6. ASSUME NEW k \in 1..n PROVE next[k] \in k + 1..last[k] + 1
  <2>1. CASE last[k] = n
    <3>1. next[k] = n + 1
      BY <2>1
    <3> HIDE DEF next, last
    <3> QED BY <1>3, <2>1, <3>1
  <2>2. CASE last[k] # n
    <3> DEFINE U == {i \in k + 1..last[k] : MapThenSumSet(LAMBDA m : Width(sp[m]), i..last[k]) <= overlap}
               T == {last[k] + 1} \cup U
    <3>1. next[k] = NextCursor(sp, k, last[k], overlap)
      BY <2>2
    <3> HIDE DEF next
    <3>2. NextCursor(sp, k, last[k], overlap) = Min(T)
      BY DEF NextCursor
    <3>3. U \subseteq k + 1..last[k]
      OBVIOUS
    <3> HIDE DEF U
    <3>4. last[k] \in k..n
      BY <1>5
    <3> HIDE DEF last
    <3>5. last[k] + 1 \in k + 1..last[k] + 1 /\ k + 1 \in Int /\ last[k] + 1 \in Int /\ last[k] \in Int
      BY <1>3, <3>4
    <3>6. T \in SUBSET (k + 1..last[k] + 1)
      <4>1. \A x \in k + 1..last[k] : x \in k + 1..last[k] + 1
        BY <3>5
      <4>2. U \subseteq k + 1..last[k] + 1
        BY <3>3, <4>1
      <4> QED BY <3>5, <4>2
    <3>7. T # {}
      OBVIOUS
    <3>8. Min(T) \in T
      <4> HIDE DEF T
      <4> QED BY <3>5, <3>6, <3>7, LeastInRange
    <3> HIDE DEF T
    <3> QED BY <3>1, <3>2, <3>6, <3>8
  <2> QED BY <2>1, <2>2
<1>7. ASSUME NEW k \in 1..n
      PROVE  /\ joined[k] \in Seq(Win) /\ ToSet(joined[k]) = {Window(sp[k].start, sp[last[k]].end)}
             /\ Window(sp[k].start, sp[last[k]].end) \in Win
             /\ Window(sp[k].start, sp[last[k]].end).start = sp[k].start
             /\ Window(sp[k].start, sp[last[k]].end).end = sp[last[k]].end
  <2> DEFINE w == Window(sp[k].start, sp[last[k]].end)
  <2>1. joined[k] = <<w>>
    OBVIOUS
  <2>2. last[k] \in k..n
    BY <1>5
  <2> HIDE DEF last, joined
  <2>3. last[k] \in 1..n
    BY <2>2
  <2>4. sp[k].start \in Nat /\ sp[last[k]].end \in Nat
    BY <1>4, <2>3
  <2>5. w \in Win /\ w.start = sp[k].start /\ w.end = sp[last[k]].end
    BY <2>4, WindowFields
  <2> HIDE DEF w
  <2>6. <<w>> \in Seq(Win) /\ ToSet(<<w>>) = {w}
    BY <2>5, SingleList
  <2> QED BY <2>1, <2>5, <2>6 DEF w
<1> HIDE DEF joined, next, last
<1>8. IsPath(1, n + 1, Win, joined, next)
  <2>1. ASSUME NEW k \in 1..(n + 1) - 1 PROVE joined[k] \in Seq(Win) /\ next[k] \in k + 1..n + 1
    <3>1. k \in 1..n
      BY <1>3
    <3>2. last[k] \in k..n /\ next[k] \in k + 1..last[k] + 1
      BY <1>5, <1>6, <3>1
    <3> QED BY <1>3, <1>7, <3>1, <3>2
  <2> QED BY <1>3, <2>1 DEF IsPath
<1>9. ch \in Seq(Win) /\ \E P : Visits(ch, P, 1, n + 1, joined, next)
  <2>1. 1 \in Int /\ n + 1 \in Int
    BY <1>3
  <2> QED BY <1>8, <2>1, ChainFollows
<1>10. PICK P : Visits(ch, P, 1, n + 1, joined, next)
  BY <1>9
<1> HIDE DEF ch
<1>11. /\ P \in SUBSET (1..n) /\ ToSet(ch) = UNION {ToSet(joined[k]) : k \in P}
       /\ \A i \in 1..n : \E k \in P : k <= i /\ i < next[k]
  <2>1. (n + 1) - 1 = n
    BY <1>3
  <2> QED BY <1>10, <2>1 DEF Visits
<1>12. ASSUME NEW w \in ToSet(ch) PROVE 0 <= w.start /\ w.end <= L /\ Width(w) <= size
  <2>1. PICK k \in P : w \in ToSet(joined[k])
    BY <1>11
  <2>2. k \in 1..n
    BY <1>11
  <2>3. w.start = sp[k].start /\ w.end = sp[last[k]].end
    BY <1>7, <2>1, <2>2
  <2>4. last[k] \in 1..n /\ last[k] \in k..n
    BY <1>3, <1>5, <2>2
  <2>5. /\ sp[k].start \in Nat /\ sp[k].end \in Nat /\ sp[last[k]].end \in Nat /\ sp[last[k]].end <= L
        /\ sp[k].end - sp[k].start <= size
    BY <1>4, <2>2, <2>4
  <2>6. sp[last[k]].end - sp[k].start <= size
    <3>1. CASE last[k] = k
      BY <2>5, <3>1
    <3>2. CASE last[k] # k
      <4>1. last[k] \in k + 1..last[k]
        BY <2>2, <2>4, <3>2
      <4> QED BY <1>5, <2>2, <4>1
    <3> QED BY <3>1, <3>2
  <2> QED BY <2>3, <2>5, <2>6 DEF Width
<1>13. ASSUME NEW i \in Inked(c, Window(0, L)) PROVE Held(ToSet(ch), i)
  <2>1. Held(ToSet(sp), i)
    BY <1>2 DEF CutsText
  <2>2. PICK m \in 1..n : sp[m].start <= i /\ i < sp[m].end
    BY <1>3, <2>1 DEF Held, ToSet
  <2>3. PICK k \in P : k <= m /\ m < next[k]
    BY <1>11
  <2>4. k \in 1..n
    BY <1>11
  <2>5. last[k] \in k..n /\ next[k] \in k + 1..last[k] + 1
    BY <1>5, <1>6, <2>4
  <2>6. m <= last[k] /\ last[k] \in 1..n
    BY <1>3, <2>3, <2>4, <2>5
  <2>7. sp[k].start <= sp[m].start
    <3>1. CASE k = m
      BY <1>4, <3>1
    <3>2. CASE k # m
      <4>1. k < m
        BY <2>3, <2>4, <3>2
      <4>2. <<sp[k], sp[m]>> \in Rises
        BY <1>2, <1>3, <2>4, <4>1 DEF InOrder
      <4> QED BY <4>2 DEF Rises
    <3> QED BY <3>1, <3>2
  <2>8. sp[m].end <= sp[last[k]].end
    <3>1. CASE m = last[k]
      BY <1>4, <3>1
    <3>2. CASE m # last[k]
      <4>1. m < last[k]
        BY <2>6, <3>2
      <4>2. <<sp[m], sp[last[k]]>> \in Rises
        BY <1>2, <1>3, <2>6, <4>1 DEF InOrder
      <4> QED BY <4>2 DEF Rises
    <3> QED BY <3>1, <3>2
  <2> DEFINE w == Window(sp[k].start, sp[last[k]].end)
  <2>9. w \in ToSet(joined[k]) /\ w.start = sp[k].start /\ w.end = sp[last[k]].end
    BY <1>7, <2>4
  <2> HIDE DEF w
  <2>10. w \in ToSet(ch)
    BY <1>11, <2>9
  <2>11. w.start <= i /\ i < w.end
    <3>1. i \in Nat
      BY <1>2, InkOfWindow
    <3>2. /\ sp[k].start \in Nat /\ sp[m].start \in Nat /\ sp[m].end \in Nat /\ sp[last[k]].end \in Nat
      BY <1>4, <2>4, <2>6
    <3> QED BY <2>2, <2>7, <2>8, <2>9, <3>1, <3>2
  <2> QED BY <2>10, <2>11 DEF Held
<1>14. Trimmed(c, ch) \in Seq(Win) /\ CutsText(c, ToSet(Trimmed(c, ch)), 0, L, size)
  BY <1>2, <1>9, <1>12, <1>13, TrimmedCuts
<1> QED BY <1>1, <1>14 DEF L

\* The same for a part of the text, which is cut by itself and moved to its place.
LEMMA PartCut ==
  ASSUME NEW c \in Text, NEW w \in Win, w.start <= w.end, w.end <= Len(c),
         NEW size \in Nat, NEW overlap \in 0..size - 1
  PROVE  /\ SpansWithin(c, w, size, overlap) \in Seq(Win)
         /\ CutsText(c, ToSet(SpansWithin(c, w, size, overlap)), w.start, w.end, size)
<1> DEFINE s == w.start
           e == w.end
           part == SubSeq(c, s + 1, e)
           sp == ContentSpans(part, size, overlap)
           mv == [n \in DOMAIN sp |-> Window(s + sp[n].start, s + sp[n].end)]
<1>1. SpansWithin(c, w, size, overlap) = mv
  BY DEF SpansWithin
<1>2. s \in Nat /\ e \in Nat /\ s <= e /\ e <= Len(c) /\ Len(c) \in Nat
  BY DEF Win, Text
<1> HIDE DEF s, e
<1>0. s \in Int /\ e \in Int /\ 0 <= s /\ s <= e
  BY <1>2
<1>3. /\ part \in Text /\ Len(part) = e - s
      /\ \A j \in Nat : j < e - s => part[j + 1] = c[s + j + 1]
  <2>1. c \in Seq(Characters) /\ s + 1 \in 1..Len(c) + 1 /\ e \in s..Len(c)
    BY <1>2 DEF Text
  <2>2. /\ part \in Seq(Characters) /\ Len(part) = e - s
        /\ \A j \in 1..e - s : part[j] = c[s + 1 + j - 1]
    BY <1>2, <2>1, SubSeqProperties
  <2>3. ASSUME NEW j \in Nat, j < e - s PROVE part[j + 1] = c[s + j + 1]
    <3>1. j + 1 \in 1..e - s /\ s + 1 + (j + 1) - 1 = s + j + 1
      BY <1>2, <2>3
    <3> QED BY <2>2, <3>1
  <2> QED BY <2>2, <2>3 DEF Text
<1> HIDE DEF part
<1>4. sp \in Seq(Win) /\ CutsText(part, ToSet(sp), 0, e - s, size)
  BY <1>3, ContentCut
<1> HIDE DEF sp
<1>5. Len(sp) \in Nat /\ DOMAIN sp = 1..Len(sp) /\ \A n \in 1..Len(sp) : sp[n] \in Win /\ sp[n] \in ToSet(sp)
  BY <1>4 DEF ToSet
<1>6. ASSUME NEW n \in 1..Len(sp)
      PROVE  /\ sp[n].start \in Nat /\ sp[n].end \in Nat /\ sp[n].start < sp[n].end /\ sp[n].end <= e - s
             /\ sp[n].end - sp[n].start <= size /\ Inked(part, sp[n]) # {} /\ sp[n] \in Win
             /\ mv[n] \in Win /\ mv[n].start = s + sp[n].start /\ mv[n].end = s + sp[n].end
  <2>1. Lies(sp[n], 0, e - s) /\ Inked(part, sp[n]) # {} /\ Width(sp[n]) <= size
    BY <1>4, <1>5, CutMember
  <2>2. sp[n].start \in Nat /\ sp[n].end \in Nat
    BY <1>5 DEF Win
  <2>3. mv[n] = Window(s + sp[n].start, s + sp[n].end)
    BY <1>5
  <2> HIDE DEF mv
  <2>4. s + sp[n].start \in Nat /\ s + sp[n].end \in Nat
    BY <1>2, <2>2
  <2>5. mv[n] \in Win /\ mv[n].start = s + sp[n].start /\ mv[n].end = s + sp[n].end
    BY <2>3, <2>4, WindowFields
  <2> QED BY <1>5, <2>1, <2>2, <2>5 DEF Lies, Width
<1>7. DOMAIN mv = 1..Len(sp) /\ mv = [n \in 1..Len(sp) |-> mv[n]]
  BY <1>5
<1> HIDE DEF mv
<1>8. mv \in Seq(Win)
  BY <1>5, <1>6, <1>7, SeqByDomain
<1>9. ASSUME NEW v \in ToSet(mv) PROVE Lies(v, s, e) /\ Inked(c, v) # {} /\ Width(v) <= size
  <2>1. PICK n \in 1..Len(sp) : v = mv[n]
    BY <1>7 DEF ToSet
  <2>2. PICK i : i \in Inked(part, sp[n])
    BY <1>6
  <2>3. i \in Nat /\ sp[n].start <= i /\ i < sp[n].end /\ part[i + 1] # "_"
    BY <1>6, <2>2, InkedIn
  <2>0. /\ sp[n].start \in Nat /\ sp[n].end \in Nat /\ sp[n].start < sp[n].end /\ sp[n].end <= e - s
        /\ sp[n].end - sp[n].start <= size
        /\ v \in Win /\ v.start = s + sp[n].start /\ v.end = s + sp[n].end
    BY <1>6, <2>1
  <2>10. i \in Nat /\ sp[n].start <= i /\ i < sp[n].end
    BY <2>3
  <2>4. i < e - s
    BY <1>0, <2>0, <2>10
  <2>5. c[s + i + 1] # "_"
    BY <1>3, <2>3, <2>4
  <2>6. s + i \in Inked(c, v)
    <3> DEFINE j == s + i
    <3>1. j \in Nat /\ v.start <= j /\ j < v.end /\ v \in Win
      BY <1>0, <2>0, <2>10
    <3>2. c[j + 1] # "_"
      BY <2>5
    <3> HIDE DEF j
    <3>3. j \in Inked(c, v)
      BY <3>1, <3>2, InkedIn
    <3> QED BY <3>3 DEF j
  <2>7. Lies(v, s, e) /\ Width(v) <= size
    <3> DEFINE a == sp[n].start
               z == sp[n].end
    <3>1. /\ a \in Nat /\ z \in Nat /\ a < z /\ z <= e - s /\ z - a <= size
          /\ v.start = s + a /\ v.end = s + z
      BY <2>0
    <3> HIDE DEF a, z
    <3>2. s <= s + a /\ s + a < s + z /\ s + z <= e /\ (s + z) - (s + a) <= size
      BY <1>0, <3>1
    <3> QED BY <3>1, <3>2 DEF Lies, Width
  <2> QED BY <2>6, <2>7
<1>10. ASSUME NEW i \in Inked(c, Window(s, e)) PROVE Held(ToSet(mv), i)
  <2>1. i \in Nat /\ s <= i /\ i < e /\ c[i + 1] # "_"
    BY <1>2, InkOfWindow
  <2> DEFINE j == i - s
  <2>2. j \in Nat /\ 0 <= j /\ j < e - s /\ s + j + 1 = i + 1 /\ e - s \in Nat /\ i = s + j
    <3>1. i \in Nat /\ s <= i /\ i < e
      BY <2>1
    <3> QED BY <1>0, <3>1
  <2> HIDE DEF j
  <2>3. part[j + 1] # "_"
    BY <1>3, <2>1, <2>2
  <2>4. Held(ToSet(sp), j)
    BY <1>4, <2>2, <2>3, CutHolds
  <2>5. PICK n \in 1..Len(sp) : sp[n].start <= j /\ j < sp[n].end
    BY <1>5, <2>4 DEF Held, ToSet
  <2>6. mv[n].start <= i /\ i < mv[n].end
    BY <1>2, <1>6, <2>2, <2>5
  <2>7. mv[n] \in ToSet(mv)
    BY <1>7 DEF ToSet
  <2> QED BY <2>6, <2>7 DEF Held
<1>11. CutsText(c, ToSet(mv), s, e, size)
  BY <1>9, <1>10 DEF CutsText
<1> QED BY <1>1, <1>8, <1>11 DEF s, e

-----------------------------------------------------------------------------
(* The canonical text *)

Gap(g) == [k \in 1..g |-> "_"]
Gapped(parts, g) == [n \in DOMAIN parts |-> IF n = 1 THEN parts[n] ELSE Gap(g) \o parts[n]]
PartsUpto(parts, m) == SubSeq(parts, 1, m)

\* White space between two parts.
LEMMA GapText ==
  ASSUME NEW g \in Nat
  PROVE  Gap(g) \in Text /\ Len(Gap(g)) = g /\ \A k \in 1..g : Gap(g)[k] = "_"
<1>1. "_" \in Characters
  BY DEF Characters
<1>2. Gap(g) \in [1..g -> Characters]
  BY <1>1 DEF Gap
<1>3. \A k \in 1..g : Gap(g)[k] = "_"
  BY DEF Gap
<1>4. Gap(g) \in Seq(Characters) /\ Len(Gap(g)) = g
  BY <1>2
<1> QED BY <1>3, <1>4 DEF Text

\* A text has a length.
LEMMA TextLength ==
  ASSUME NEW t \in Text
  PROVE  Len(t) \in Nat /\ Len(t) \in Int /\ 0 <= Len(t)
BY DEF Text

\* Parts with their gaps are texts.
LEMMA GappedType ==
  ASSUME NEW parts \in Seq(Text), NEW g \in Nat
  PROVE  Gapped(parts, g) \in Seq(Text) /\ Len(Gapped(parts, g)) = Len(parts)
<1>1. Len(parts) \in Nat /\ DOMAIN parts = 1..Len(parts) /\ \A n \in 1..Len(parts) : parts[n] \in Text
  OBVIOUS
<1>2. ASSUME NEW n \in 1..Len(parts) PROVE Gapped(parts, g)[n] \in Text
  <2>1. Gap(g) \o parts[n] \in Text
    <3>1. Gap(g) \in Seq(Characters) /\ parts[n] \in Seq(Characters)
      BY <1>1, GapText DEF Text
    <3>2. Gap(g) \o parts[n] \in Seq(Characters)
      BY <3>1, ConcatProperties
    <3> QED BY <3>2 DEF Text
  <2> QED BY <1>1, <2>1 DEF Gapped
<1>3. Gapped(parts, g) = [n \in 1..Len(parts) |-> Gapped(parts, g)[n]]
  BY <1>1 DEF Gapped
<1>4. Gapped(parts, g) \in Seq(Text)
  BY <1>1, <1>2, <1>3, SeqByDomain
<1> QED BY <1>1, <1>3, <1>4

\* The first m parts.
LEMMA FirstParts ==
  ASSUME NEW V, NEW parts \in Seq(V), NEW m \in 0..Len(parts)
  PROVE  /\ PartsUpto(parts, m) \in Seq(V) /\ Len(PartsUpto(parts, m)) = m
         /\ \A k \in 1..m : PartsUpto(parts, m)[k] = parts[k]
<1>1. Len(parts) \in Nat /\ \A i \in 1..m : parts[i] \in V
  OBVIOUS
<1>2. /\ PartsUpto(parts, m) \in Seq(V) /\ Len(PartsUpto(parts, m)) = IF 1 <= m THEN m - 1 + 1 ELSE 0
      /\ \A i \in 1..m - 1 + 1 : PartsUpto(parts, m)[i] = parts[1 + i - 1]
  BY <1>1, SubSeqProperties DEF PartsUpto
<1>3. \A k \in 1..m : k \in 1..m - 1 + 1 /\ 1 + k - 1 = k
  OBVIOUS
<1> QED BY <1>2, <1>3

\* One part more is appended behind a gap.
LEMMA JoinedGrows ==
  ASSUME NEW parts \in Seq(Text), NEW g \in Nat, NEW m \in Nat, m < Len(parts)
  PROVE  /\ JoinedText(PartsUpto(parts, m), g) \in Text /\ parts[m + 1] \in Text
         /\ JoinedText(PartsUpto(parts, m + 1), g) =
              JoinedText(PartsUpto(parts, m), g) \o IF m = 0 THEN parts[1] ELSE Gap(g) \o parts[m + 1]
<1> DEFINE a == PartsUpto(parts, m)
           b == PartsUpto(parts, m + 1)
           s == Gapped(a, g)
           p == IF m = 0 THEN parts[1] ELSE Gap(g) \o parts[m + 1]
<1>1. Len(parts) \in Nat /\ m \in 0..Len(parts) /\ m + 1 \in 0..Len(parts) /\ m + 1 \in 1..Len(parts)
  OBVIOUS
<1>2. a \in Seq(Text) /\ Len(a) = m /\ \A k \in 1..m : a[k] = parts[k]
  BY <1>1, FirstParts
<1>3. b \in Seq(Text) /\ Len(b) = m + 1 /\ \A k \in 1..m + 1 : b[k] = parts[k]
  BY <1>1, FirstParts
<1> HIDE DEF a, b
<1>4. s \in Seq(Text) /\ Len(s) = m /\ Gapped(b, g) \in Seq(Text) /\ Len(Gapped(b, g)) = m + 1
  BY <1>2, <1>3, GappedType
<1>5. parts[m + 1] \in Text
  BY <1>1
<1>6. p \in Text
  <2>1. CASE m = 0
    BY <1>5, <2>1
  <2>2. CASE m # 0
    <3>1. Gap(g) \in Seq(Characters) /\ parts[m + 1] \in Seq(Characters)
      BY <1>5, GapText DEF Text
    <3>2. Gap(g) \o parts[m + 1] \in Seq(Characters)
      BY <3>1, ConcatProperties
    <3> QED BY <2>2, <3>2 DEF Text
  <2> QED BY <2>1, <2>2
<1> DEFINE q == Append(s, p)
<1>7. Gapped(b, g) = q
  <2>0. DOMAIN a = 1..m /\ DOMAIN b = 1..m + 1
    BY <1>2, <1>3
  <2>1. \A k \in 1..m : s[k] = IF k = 1 THEN parts[k] ELSE Gap(g) \o parts[k]
    BY <1>2, <2>0 DEF Gapped
  <2>2. \A k \in 1..m + 1 : Gapped(b, g)[k] = IF k = 1 THEN parts[k] ELSE Gap(g) \o parts[k]
    BY <1>3, <2>0 DEF Gapped
  <2>3. p = IF m + 1 = 1 THEN parts[m + 1] ELSE Gap(g) \o parts[m + 1]
    <3>1. m = 0 <=> m + 1 = 1
      OBVIOUS
    <3> QED BY <3>1
  <2> HIDE DEF s, p
  <2>4. q \in Seq(Text) /\ Len(q) = m + 1 /\ q[m + 1] = p /\ \A k \in 1..m : q[k] = s[k]
    BY <1>4, <1>6
  <2> HIDE DEF q
  <2>5. ASSUME NEW k \in 1..m + 1 PROVE Gapped(b, g)[k] = q[k]
    <3>1. CASE k = m + 1
      BY <2>2, <2>3, <2>4, <3>1
    <3>2. CASE k # m + 1
      <4>1. k \in 1..m
        BY <3>2
      <4> QED BY <2>1, <2>2, <2>4, <4>1
    <3> QED BY <3>1, <3>2
  <2> QED BY <1>4, <2>4, <2>5, SeqEqual
<1> HIDE DEF s, p, q
<1>8. FlattenSeq(q) = FlattenSeq(s) \o p /\ FlattenSeq(s) \in Text
  <2>1. s \in Seq(Seq(Characters)) /\ p \in Seq(Characters)
    BY <1>4, <1>6 DEF Text
  <2>2. FlattenSeq(Append(s, p)) = FlattenSeq(s) \o p /\ FlattenSeq(s) \in Seq(Characters)
    BY <2>1, FlattenAppend
  <2> QED BY <2>2 DEF Text, q
<1>9. JoinedText(a, g) = FlattenSeq(s) /\ JoinedText(b, g) = FlattenSeq(Gapped(b, g))
  BY DEF JoinedText, Gapped, Gap, s
<1> QED BY <1>5, <1>7, <1>8, <1>9 DEF a, b, p

\* The k-th part lies at its offset in t.
PartAt(parts, g, t, k) ==
  /\ OffsetOf(parts, k, g) \in Nat /\ OffsetOf(parts, k, g) + Len(parts[k]) <= Len(t)
  /\ \A i \in 1..Len(parts[k]) : t[OffsetOf(parts, k, g) + i] = parts[k][i]

\* Between the parts there is only white space.
LaidUpto(parts, g, m) ==
  LET t == JoinedText(PartsUpto(parts, m), g)
      off(k) == OffsetOf(parts, k, g)
  IN /\ t \in Text /\ Len(t) = off(m) + Len(parts[m])
     /\ \A k \in 1..m : PartAt(parts, g, t, k)
     /\ \A j \in 1..Len(t) : t[j] # "_" =>
          \E k \in 1..m : off(k) < j /\ j <= off(k) + Len(parts[k])
     /\ \A k \in 1..m - 1 : off(k + 1) = off(k) + Len(parts[k]) + g

\* The first part lies at the start,
LEMMA LaidFirst ==
  ASSUME NEW parts \in Seq(Text), NEW g \in Nat, Len(parts) >= 1
  PROVE  LaidUpto(parts, g, 1)
<1> DEFINE t == JoinedText(PartsUpto(parts, 1), g)
           p == parts[1]
<1>1. Len(parts) \in Nat /\ p \in Text
  OBVIOUS
<1>2. PartsUpto(parts, 0) = <<>>
  BY <1>1, FirstParts
<1>3. JoinedText(<<>>, g) = <<>>
  <2>1. Gapped(<<>>, g) = <<>>
    BY DEF Gapped
  <2>2. JoinedText(<<>>, g) = FlattenSeq(Gapped(<<>>, g))
    BY DEF JoinedText, Gapped, Gap
  <2> QED BY <2>1, <2>2, FlattenEmpty
<1>4. t = <<>> \o p
  <2>1. 0 < Len(parts) /\ 0 + 1 = 1
    BY <1>1
  <2>2. JoinedText(PartsUpto(parts, 0 + 1), g) =
              JoinedText(PartsUpto(parts, 0), g) \o IF 0 = 0 THEN parts[1] ELSE Gap(g) \o parts[0 + 1]
    BY <2>1, JoinedGrows
  <2> QED BY <1>2, <1>3, <2>1, <2>2
<1>5. t = p
  BY <1>1, <1>4, ConcatEmptySeq DEF Text
<1>6. OffsetOf(parts, 1, g) = 0
  BY DEF OffsetOf
<1>7. Len(p) \in Nat
  BY <1>1 DEF Text
<1>8. PartAt(parts, g, p, 1)
  <2>1. \A i \in 1..Len(p) : p[0 + i] = p[i]
    BY <1>7
  <2> QED BY <1>6, <1>7, <2>1 DEF PartAt
<1>9. \A k \in 1..1 : PartAt(parts, g, p, k)
  BY <1>8
<1>10. \A j \in 1..Len(p) : \E k \in 1..1 : 0 < j /\ j <= 0 + Len(parts[k]) /\ k = 1
  BY <1>7
<1>11. \A j \in 1..Len(p) : p[j] # "_" =>
          \E k \in 1..1 : OffsetOf(parts, k, g) < j /\ j <= OffsetOf(parts, k, g) + Len(parts[k])
  BY <1>6, <1>10
<1>12. 1..1 - 1 = {} /\ Len(p) = 0 + Len(p)
  BY <1>7
<1> HIDE DEF t
<1>13. t = JoinedText(PartsUpto(parts, 1), g)
  BY DEF t
<1> QED BY <1>1, <1>5, <1>6, <1>9, <1>11, <1>12, <1>13 DEF LaidUpto

\* and each next one behind a gap.
LEMMA LaidNext ==
  ASSUME NEW parts \in Seq(Text), NEW g \in Nat, NEW m \in Nat, m >= 1, m < Len(parts), LaidUpto(parts, g, m)
  PROVE  LaidUpto(parts, g, m + 1)
<1> DEFINE t == JoinedText(PartsUpto(parts, m), g)
           p == parts[m + 1]
           z == t \o (Gap(g) \o p)
           off(k) == OffsetOf(parts, k, g)
<1>1. Len(parts) \in Nat /\ m + 1 \in 1..Len(parts) /\ m \in 1..Len(parts)
  OBVIOUS
<1>2. t \in Text /\ p \in Text
  BY JoinedGrows
<1>3. JoinedText(PartsUpto(parts, m + 1), g) = z
  <2>1. JoinedText(PartsUpto(parts, m + 1), g) = t \o IF m = 0 THEN parts[1] ELSE Gap(g) \o p
    BY JoinedGrows
  <2>2. m # 0
    OBVIOUS
  <2> QED BY <2>1, <2>2
<1>4. /\ Len(t) = off(m) + Len(parts[m])
      /\ \A k \in 1..m : PartAt(parts, g, t, k)
      /\ \A j \in 1..Len(t) : t[j] # "_" => \E k \in 1..m : off(k) < j /\ j <= off(k) + Len(parts[k])
      /\ \A k \in 1..m - 1 : off(k + 1) = off(k) + Len(parts[k]) + g
  BY DEF LaidUpto
<1>5. off(m + 1) = Len(t) + g
  <2>1. m + 1 # 1 /\ (m + 1) - 1 = m
    OBVIOUS
  <2> QED BY <2>1 DEF OffsetOf, PartsUpto
<1> HIDE DEF t, p
<1>6. Gap(g) \in Text /\ Len(Gap(g)) = g /\ \A k \in 1..g : Gap(g)[k] = "_"
  BY GapText
<1>20. Len(t) \in Nat /\ Len(p) \in Nat /\ g \in Nat
  BY <1>2, TextLength
<1>7. /\ z \in Text /\ Len(z) = Len(t) + g + Len(p)
      /\ \A i \in 1..Len(t) : z[i] = t[i]
      /\ \A i \in Len(t) + 1..Len(t) + g : z[i] = "_"
      /\ \A i \in 1..Len(p) : z[Len(t) + g + i] = p[i]
  <2> DEFINE q == Gap(g) \o p
  <2>1. t \in Seq(Characters) /\ p \in Seq(Characters) /\ Gap(g) \in Seq(Characters)
    BY <1>2, <1>6 DEF Text
  <2>2. /\ q \in Seq(Characters) /\ Len(q) = g + Len(p)
        /\ \A i \in 1..g + Len(p) : q[i] = IF i <= g THEN Gap(g)[i] ELSE p[i - g]
    <3>1. /\ q \in Seq(Characters) /\ Len(q) = Len(Gap(g)) + Len(p)
          /\ \A i \in 1..Len(Gap(g)) + Len(p) : q[i] = IF i <= Len(Gap(g)) THEN Gap(g)[i] ELSE p[i - Len(Gap(g))]
      BY <2>1, ConcatProperties
    <3>2. Len(Gap(g)) = g
      BY <1>6
    <3> HIDE DEF q
    <3> QED BY <3>1, <3>2
  <2>10. Len(q) = g + Len(p)
    BY <2>2
  <2> HIDE DEF q
  <2>3. /\ t \o q \in Seq(Characters) /\ Len(t \o q) = Len(t) + Len(q)
        /\ \A i \in 1..Len(t) + Len(q) : (t \o q)[i] = IF i <= Len(t) THEN t[i] ELSE q[i - Len(t)]
    BY <2>1, <2>2, ConcatProperties
  <2>4. z = t \o q
    BY DEF q
  <2> HIDE DEF z
  <2>5. ASSUME NEW i \in 1..Len(t) PROVE z[i] = t[i]
    <3>1. i \in 1..Len(t) + Len(q) /\ i <= Len(t)
      BY <1>20, <2>10
    <3> QED BY <2>3, <2>4, <3>1
  <2>6. ASSUME NEW i \in Len(t) + 1..Len(t) + g PROVE z[i] = "_"
    <3>1. i \in 1..Len(t) + Len(q) /\ ~(i <= Len(t)) /\ i - Len(t) \in 1..g + Len(p) /\ i - Len(t) <= g
          /\ i - Len(t) \in 1..g
      BY <1>20, <2>10
    <3>2. z[i] = q[i - Len(t)]
      BY <2>3, <2>4, <3>1
    <3>3. q[i - Len(t)] = Gap(g)[i - Len(t)]
      BY <2>2, <3>1
    <3> QED BY <1>6, <3>1, <3>2, <3>3
  <2>7. ASSUME NEW i \in 1..Len(p) PROVE z[Len(t) + g + i] = p[i]
    <3> DEFINE j == Len(t) + g + i
    <3>1. j \in 1..Len(t) + Len(q) /\ ~(j <= Len(t)) /\ j - Len(t) \in 1..g + Len(p) /\ ~(j - Len(t) <= g)
          /\ (j - Len(t)) - g = i
      BY <1>20, <2>10
    <3> HIDE DEF j
    <3>2. z[j] = q[j - Len(t)]
      BY <2>3, <2>4, <3>1
    <3>3. q[j - Len(t)] = p[(j - Len(t)) - g]
      BY <2>2, <3>1
    <3> QED BY <3>1, <3>2, <3>3 DEF j
  <2>8. Len(z) = Len(t) + g + Len(p)
    BY <1>20, <2>3, <2>4, <2>10
  <2>9. z \in Text
    BY <2>3, <2>4 DEF Text
  <2> QED BY <2>5, <2>6, <2>7, <2>8, <2>9
<1>21. Len(z) = Len(t) + g + Len(p)
  BY <1>7
<1> HIDE DEF z
<1>8. ASSUME NEW k \in 1..m + 1 PROVE PartAt(parts, g, z, k)
  <2>1. CASE k = m + 1
    <3>1. /\ off(k) \in Nat /\ off(k) + Len(p) <= Len(z) /\ off(k) = Len(t) + g
      BY <1>5, <1>20, <1>21, <2>1
    <3>2. \A i \in 1..Len(p) : z[off(k) + i] = p[i]
      BY <1>7, <3>1
    <3>3. parts[k] = p
      BY <2>1 DEF p
    <3> HIDE DEF off
    <3> QED BY <3>1, <3>2, <3>3 DEF PartAt, off
  <2>2. CASE k # m + 1
    <3>1. k \in 1..m /\ k \in 1..Len(parts)
      BY <1>1, <2>2
    <3>2. PartAt(parts, g, t, k)
      BY <1>4, <3>1
    <3>3. /\ off(k) \in Nat /\ off(k) + Len(parts[k]) <= Len(t)
          /\ \A i \in 1..Len(parts[k]) : t[off(k) + i] = parts[k][i]
      BY <3>2 DEF PartAt
    <3> HIDE DEF off
    <3>4. Len(parts[k]) \in Nat
      BY <3>1 DEF Text
    <3>5. off(k) + Len(parts[k]) <= Len(z)
      BY <1>20, <1>21, <3>3, <3>4
    <3>6. ASSUME NEW i \in 1..Len(parts[k]) PROVE z[off(k) + i] = parts[k][i]
      <4>1. off(k) + i \in 1..Len(t)
        BY <1>20, <3>3, <3>4
      <4> QED BY <1>7, <3>3, <4>1
    <3> QED BY <3>3, <3>5, <3>6 DEF PartAt, off
  <2> QED BY <2>1, <2>2
<1>9. ASSUME NEW j \in 1..Len(z), z[j] # "_"
      PROVE  \E k \in 1..m + 1 : off(k) < j /\ j <= off(k) + Len(parts[k])
  <2>1. CASE j <= Len(t)
    <3>1. j \in 1..Len(t)
      BY <1>20, <2>1
    <3>2. PICK k \in 1..m : off(k) < j /\ j <= off(k) + Len(parts[k])
      BY <1>4, <1>7, <1>9, <3>1
    <3>3. k \in 1..m + 1
      OBVIOUS
    <3> QED BY <3>2, <3>3
  <2>2. CASE ~(j <= Len(t))
    <3>1. ~(j \in Len(t) + 1..Len(t) + g)
      BY <1>7, <1>9
    <3>2. Len(t) + g < j /\ j <= Len(t) + g + Len(p)
      BY <1>20, <1>21, <2>2, <3>1
    <3>3. m + 1 \in 1..m + 1 /\ parts[m + 1] = p
      BY DEF p
    <3> HIDE DEF off
    <3>4. off(m + 1) < j /\ j <= off(m + 1) + Len(parts[m + 1])
      BY <1>5, <3>2, <3>3
    <3> QED BY <3>3, <3>4
  <2> QED BY <2>1, <2>2
<1>10. ASSUME NEW k \in 1..(m + 1) - 1 PROVE off(k + 1) = off(k) + Len(parts[k]) + g
  <2>1. CASE k = m
    <3> HIDE DEF off
    <3> QED BY <1>4, <1>5, <2>1
  <2>2. CASE k # m
    <3>1. k \in 1..m - 1
      BY <2>2
    <3> HIDE DEF off
    <3> QED BY <1>4, <3>1
  <2> QED BY <2>1, <2>2
<1>11. Len(z) = off(m + 1) + Len(parts[m + 1])
  <2>1. parts[m + 1] = p
    BY DEF p
  <2> HIDE DEF off
  <2> QED BY <1>5, <1>7, <2>1
<1>12. /\ z \in Text
       /\ \A k \in 1..m + 1 : PartAt(parts, g, z, k)
       /\ \A j \in 1..Len(z) : z[j] # "_" => \E k \in 1..m + 1 : off(k) < j /\ j <= off(k) + Len(parts[k])
       /\ \A k \in 1..(m + 1) - 1 : off(k + 1) = off(k) + Len(parts[k]) + g
  BY <1>7, <1>8, <1>9, <1>10
<1> QED BY <1>3, <1>11, <1>12 DEF LaidUpto

\* The ink of t is in its parts.
Laid(parts, g, t) ==
  /\ t \in Text /\ Len(t) = OffsetOf(parts, Len(parts), g) + Len(parts[Len(parts)])
  /\ OffsetOf(parts, 1, g) = 0
  /\ \A k \in 1..Len(parts) : PartAt(parts, g, t, k)
  /\ \A j \in 1..Len(t) : t[j] # "_" =>
       \E k \in 1..Len(parts) : OffsetOf(parts, k, g) < j /\ j <= OffsetOf(parts, k, g) + Len(parts[k])
  /\ \A k \in 1..Len(parts) - 1 : OffsetOf(parts, k + 1, g) = OffsetOf(parts, k, g) + Len(parts[k]) + g

\* In a joined text every part lies at its offset (structure.py join of the blocks).
LEMMA JoinedLaid ==
  ASSUME NEW parts \in Seq(Text), NEW g \in Nat, Len(parts) >= 1
  PROVE  Laid(parts, g, JoinedText(parts, g))
<1> DEFINE n == Len(parts)
           N == {k \in Nat : k + 1 <= n => LaidUpto(parts, g, k + 1)}
<1>1. n \in Nat /\ n \in 0..n
  OBVIOUS
<1>2. 0 \in N
  BY LaidFirst
<1>3. ASSUME NEW k \in Nat, k \in N PROVE k + 1 \in N
  <2> SUFFICES ASSUME (k + 1) + 1 <= n PROVE LaidUpto(parts, g, (k + 1) + 1)
    OBVIOUS
  <2> DEFINE m == k + 1
  <2>1. m \in Nat /\ m >= 1 /\ m < n /\ k + 1 <= n
    BY <1>1
  <2>2. LaidUpto(parts, g, m)
    BY <1>3, <2>1
  <2> HIDE DEF m
  <2>3. LaidUpto(parts, g, m + 1)
    BY <2>1, <2>2, LaidNext
  <2> QED BY <2>3 DEF m
<1>4. Nat \subseteq N
  <2> HIDE DEF N
  <2> QED BY <1>2, <1>3, NatSetInduction
<1>5. LaidUpto(parts, g, n)
  <2>1. n - 1 \in Nat /\ (n - 1) + 1 = n
    BY <1>1
  <2>2. n - 1 \in N
    BY <1>4, <2>1
  <2> QED BY <2>1, <2>2
<1>6. PartsUpto(parts, n) = parts
  <2>1. /\ PartsUpto(parts, n) \in Seq(Text) /\ Len(PartsUpto(parts, n)) = n
        /\ \A k \in 1..n : PartsUpto(parts, n)[k] = parts[k]
    BY <1>1, FirstParts
  <2> QED BY <2>1, SeqEqual
<1>7. OffsetOf(parts, 1, g) = 0
  BY DEF OffsetOf
<1> QED BY <1>5, <1>6, <1>7 DEF LaidUpto, Laid

\* Later parts begin behind the gap after the earlier ones.
LEMMA OffsetsRise ==
  ASSUME NEW parts \in Seq(Text), NEW g \in Nat, NEW t, Laid(parts, g, t),
         NEW j \in 1..Len(parts), NEW k \in 1..Len(parts), j < k
  PROVE  OffsetOf(parts, j, g) + Len(parts[j]) + g <= OffsetOf(parts, k, g)
<1> DEFINE n == Len(parts)
           off(i) == OffsetOf(parts, i, g)
           N == {d \in Nat : j + 1 + d <= n => off(j) + Len(parts[j]) + g <= off(j + 1 + d)}
<1>1. n \in Nat /\ \A i \in 1..n : Len(parts[i]) \in Nat
  <2>1. \A i \in 1..n : parts[i] \in Text
    OBVIOUS
  <2> QED BY <2>1, TextLength
<1>2. \A i \in 1..n : off(i) \in Nat
  BY DEF Laid, PartAt
<1>3. \A i \in 1..n - 1 : off(i + 1) = off(i) + Len(parts[i]) + g
  BY DEF Laid
<1> HIDE DEF n, off
<1>4. j \in 1..n /\ k \in 1..n
  BY DEF n
<1>5. 0 \in N
  <2> SUFFICES ASSUME j + 1 + 0 <= n PROVE off(j) + Len(parts[j]) + g <= off(j + 1 + 0)
    OBVIOUS
  <2>1. j \in 1..n - 1 /\ j + 1 + 0 = j + 1 /\ j + 1 \in 1..n
    BY <1>1, <1>4
  <2>2. off(j + 1) = off(j) + Len(parts[j]) + g /\ off(j + 1) \in Nat
    BY <1>2, <1>3, <2>1
  <2> QED BY <2>1, <2>2
<1>6. ASSUME NEW d \in Nat, d \in N PROVE d + 1 \in N
  <2> SUFFICES ASSUME j + 1 + (d + 1) <= n PROVE off(j) + Len(parts[j]) + g <= off(j + 1 + (d + 1))
    OBVIOUS
  <2> DEFINE m == j + 1 + d
  <2>1. j + 1 + (d + 1) = m + 1 /\ m \in 1..n - 1 /\ m \in 1..n /\ m + 1 \in 1..n /\ m <= n
    BY <1>1, <1>4
  <2>2. off(j) + Len(parts[j]) + g <= off(m)
    BY <1>6, <2>1
  <2> HIDE DEF m
  <2>3. off(m + 1) = off(m) + Len(parts[m]) + g /\ Len(parts[m]) \in Nat /\ off(m) \in Nat
    BY <1>1, <1>2, <1>3, <2>1
  <2>4. off(j) \in Nat /\ Len(parts[j]) \in Nat
    BY <1>1, <1>2, <1>4
  <2>5. off(j) + Len(parts[j]) + g <= off(m + 1)
    <3> DEFINE a == off(j) + Len(parts[j]) + g
               z == off(m)
    <3>0. a <= z
      BY <2>2
    <3>1. a \in Nat /\ z \in Nat
      <4> DEFINE q == Len(parts[j])
      <4>1. q \in Nat /\ off(j) \in Nat /\ z \in Nat
        BY <2>3, <2>4
      <4> HIDE DEF q, z
      <4>2. off(j) + q + g \in Nat
        BY <4>1
      <4> QED BY <4>1, <4>2 DEF q
    <3>2. off(m + 1) = z + Len(parts[m]) + g /\ Len(parts[m]) \in Nat
      BY <2>3
    <3> HIDE DEF a, z
    <3>3. a <= off(m + 1)
      BY <3>0, <3>1, <3>2
    <3> QED BY <3>3 DEF a
  <2> QED BY <2>1, <2>5
<1>7. Nat \subseteq N
  <2> HIDE DEF N
  <2> QED BY <1>5, <1>6, NatSetInduction
<1>8. k - (j + 1) \in Nat /\ j + 1 + (k - (j + 1)) = k /\ k <= n
  BY <1>1, <1>4
<1>9. k - (j + 1) \in N
  BY <1>7, <1>8
<1> QED BY <1>8, <1>9 DEF off

Ink(c) == {i \in 0..Len(c) - 1 : c[i + 1] # "_"}

\* An offset with ink is an offset of the text,
LEMMA InkIsText ==
  ASSUME NEW c \in Text, NEW i \in Ink(c)
  PROVE  i \in Nat /\ i < Len(c) /\ i + 1 \in 1..Len(c) /\ c[i + 1] # "_"
<1>1. Len(c) \in Nat
  BY TextLength
<1>2. i \in 0..Len(c) - 1 /\ c[i + 1] # "_"
  BY DEF Ink
<1>3. i \in 0..Len(c) - 1
  BY <1>2
<1>4. i \in Nat /\ i < Len(c) /\ i + 1 \in 1..Len(c)
  BY <1>1, <1>3
<1> QED BY <1>2, <1>4

\* and an offset of the text that is no blank has ink.
LEMMA TextIsInk ==
  ASSUME NEW c \in Text, NEW i \in Nat, i < Len(c)
  PROVE  c[i + 1] # "_" => i \in Ink(c)
<1>1. Len(c) \in Nat
  BY TextLength
<1>2. i \in 0..Len(c) - 1
  BY <1>1
<1> QED BY <1>2 DEF Ink

\* Inked is ink between the window's ends.
LEMMA InkWithin ==
  ASSUME NEW c \in Text, NEW w, w.start \in Nat, w.end \in Nat, w.end <= Len(c), NEW i
  PROVE  i \in Inked(c, w) <=> i \in Ink(c) /\ w.start <= i /\ i < w.end
<1>1. Len(c) \in Nat
  BY TextLength
<1>2. i \in w.start..w.end - 1 <=> i \in 0..Len(c) - 1 /\ w.start <= i /\ i < w.end
  BY <1>1
<1>3. i \in Ink(c) <=> i \in 0..Len(c) - 1 /\ c[i + 1] # "_"
  BY DEF Ink
<1> QED BY <1>2, <1>3, InkedMember

-----------------------------------------------------------------------------
(* Rows and lines *)

LineAt(raw, from, i) ==
  Window(from + OffsetOf(raw.lines, i, 1), from + OffsetOf(raw.lines, i, 1) + Len(raw.lines[i]))

LineFacts(raw, from, n, to) ==
  /\ \A q \in 1..n : /\ LineAt(raw, from, q) \in Win
                     /\ LineAt(raw, from, q).start \in Nat /\ LineAt(raw, from, q).end \in Nat
                     /\ from <= LineAt(raw, from, q).start
                     /\ LineAt(raw, from, q).end = LineAt(raw, from, q).start + Len(raw.lines[q])
                     /\ Len(raw.lines[q]) \in Nat
                     /\ LineAt(raw, from, q).end <= to
  /\ \A q, r \in 1..n : q < r => LineAt(raw, from, q).end + 1 <= LineAt(raw, from, r).start
  /\ \A q \in 1..n - 1 : LineAt(raw, from, q + 1).start = LineAt(raw, from, q).end + 1
  /\ LineAt(raw, from, 1).start = from /\ LineAt(raw, from, n).end = to

IsRaw(raw) == raw.lines \in Seq(Text) /\ Len(raw.lines) >= 1

\* The lines of a block lie in it, at their offsets.
LEMMA LinesLie ==
  ASSUME NEW raw, IsRaw(raw), NEW from \in Nat
  PROVE  /\ BlockText(raw) \in Text /\ Laid(raw.lines, 1, BlockText(raw))
         /\ LineFacts(raw, from, Len(raw.lines), from + Len(BlockText(raw)))
<1> DEFINE n == Len(raw.lines)
           t == BlockText(raw)
           off(q) == OffsetOf(raw.lines, q, 1)
           wd(q) == Len(raw.lines[q])
           to == from + Len(t)
<1>1. raw.lines \in Seq(Text) /\ Len(raw.lines) >= 1 /\ n \in Nat
  BY DEF IsRaw
<1>2. Laid(raw.lines, 1, t)
  BY <1>1, JoinedLaid DEF BlockText
<1>3. t \in Text /\ Len(t) = off(n) + wd(n) /\ Len(t) \in Nat
  BY <1>2, TextLength DEF Laid
<1>4. ASSUME NEW q \in 1..n
      PROVE  off(q) \in Nat /\ wd(q) \in Nat /\ off(q) + wd(q) <= Len(t)
  <2>1. off(q) \in Nat /\ off(q) + wd(q) <= Len(t)
    BY <1>2 DEF Laid, PartAt
  <2>2. raw.lines[q] \in Text
    BY <1>1
  <2> QED BY <2>1, <2>2, TextLength
<1>5. off(1) = 0 /\ \A q \in 1..n - 1 : off(q + 1) = off(q) + wd(q) + 1
  BY <1>2 DEF Laid
<1>6. ASSUME NEW q \in 1..n, NEW r \in 1..n, q < r PROVE off(q) + wd(q) + 1 <= off(r)
  BY <1>1, <1>2, <1>6, OffsetsRise
<1>7. ASSUME NEW q \in 1..n
      PROVE  /\ LineAt(raw, from, q) \in Win
             /\ LineAt(raw, from, q).start = from + off(q) /\ LineAt(raw, from, q).end = from + off(q) + wd(q)
  <2>1. from + off(q) \in Nat /\ from + off(q) + wd(q) \in Nat
    BY <1>4
  <2>2. LineAt(raw, from, q) = Window(from + off(q), from + off(q) + wd(q))
    BY DEF LineAt
  <2> QED BY <2>1, <2>2, WindowFields
<1>8. 1 \in 1..n /\ n \in 1..n
  BY <1>1
<1> HIDE DEF n, off, wd
<1> USE DEF to
<1>9. ASSUME NEW q \in 1..n
      PROVE  /\ LineAt(raw, from, q) \in Win
             /\ LineAt(raw, from, q).start \in Nat /\ LineAt(raw, from, q).end \in Nat
             /\ from <= LineAt(raw, from, q).start
             /\ LineAt(raw, from, q).end = LineAt(raw, from, q).start + wd(q)
             /\ wd(q) \in Nat
             /\ LineAt(raw, from, q).end <= from + Len(t)
  <2>1. off(q) \in Nat /\ wd(q) \in Nat /\ off(q) + wd(q) <= Len(t)
    BY <1>4
  <2>2. /\ LineAt(raw, from, q) \in Win
        /\ LineAt(raw, from, q).start = from + off(q) /\ LineAt(raw, from, q).end = from + off(q) + wd(q)
    BY <1>7
  <2>3. Len(t) \in Nat
    BY <1>3
  <2> HIDE DEF t
  <2> QED BY <2>1, <2>2, <2>3
<1>10. ASSUME NEW q \in 1..n, NEW r \in 1..n, q < r
       PROVE  LineAt(raw, from, q).end + 1 <= LineAt(raw, from, r).start
  <2>1. off(q) + wd(q) + 1 <= off(r) /\ off(q) \in Nat /\ wd(q) \in Nat /\ off(r) \in Nat
    BY <1>4, <1>6, <1>10
  <2>2. LineAt(raw, from, q).end = from + off(q) + wd(q) /\ LineAt(raw, from, r).start = from + off(r)
    BY <1>7
  <2> QED BY <2>1, <2>2
<1>11. ASSUME NEW q \in 1..n - 1
       PROVE  LineAt(raw, from, q + 1).start = LineAt(raw, from, q).end + 1
  <2>1. q \in 1..n /\ q + 1 \in 1..n
    BY <1>1
  <2>2. off(q + 1) = off(q) + wd(q) + 1 /\ off(q) \in Nat /\ wd(q) \in Nat
    BY <1>4, <1>5, <2>1
  <2>3. LineAt(raw, from, q).end = from + off(q) + wd(q) /\ LineAt(raw, from, q + 1).start = from + off(q + 1)
    BY <1>7, <2>1
  <2> QED BY <2>2, <2>3
<1>12. LineAt(raw, from, 1).start = from /\ LineAt(raw, from, n).end = from + Len(t)
  <2>1. LineAt(raw, from, 1).start = from + off(1) /\ LineAt(raw, from, n).end = from + off(n) + wd(n)
    BY <1>7, <1>8
  <2>2. off(n) \in Nat /\ wd(n) \in Nat /\ off(1) = 0 /\ Len(t) = off(n) + wd(n)
    BY <1>3, <1>4, <1>5, <1>8
  <2> HIDE DEF t
  <2> QED BY <2>1, <2>2
<1> HIDE DEF t
<1>13. LineFacts(raw, from, n, from + Len(t))
  BY <1>9, <1>10, <1>11, <1>12 DEF LineFacts, wd
<1> QED BY <1>2, <1>3, <1>13 DEF n, t

\* The units X of a block follow each other, and hold its lines but a header.
UnitFacts(X, raw, from, n, to) ==
  /\ X \in Seq(Win) /\ InOrder(X, Follows) /\ (raw.kind = "code" => X # <<>>)
  /\ \A u \in ToSet(X) : Lies(u, from, to) /\ LineAt(raw, from, 1).end <= u.end
  /\ \A q \in 1..n : \/ \E u \in ToSet(X) : u.start <= LineAt(raw, from, q).start /\ LineAt(raw, from, q).end <= u.end
                     \/ raw.kind = "table" /\ \A u \in ToSet(X) : LineAt(raw, from, q).end <= u.start

\* The rows of a table are its lines below the header,
LEMMA RowsFit ==
  ASSUME NEW raw, NEW from \in Nat, NEW to \in Nat, IsRaw(raw), LineFacts(raw, from, Len(raw.lines), to),
         raw.kind = "table", <<>> \notin ToSet(raw.lines)
  PROVE  UnitFacts(UnitsOf(raw, from), raw, from, Len(raw.lines), to)
<1> DEFINE n == Len(raw.lines)
           line(q) == LineAt(raw, from, q)
           X == [i \in 1..n - 1 |-> line(i + 1)]
<1>1. UnitsOf(raw, from) = X
  BY DEF UnitsOf, LineAt
<1>2. n \in Nat /\ n >= 1
  BY DEF IsRaw
<1>3. ASSUME NEW q \in 1..n
      PROVE  /\ line(q) \in Win /\ line(q).start \in Nat /\ line(q).end \in Nat
             /\ from <= line(q).start /\ line(q).start < line(q).end /\ line(q).end <= to
  <2>1. Len(raw.lines[q]) \in Nat /\ Len(raw.lines[q]) # 0
    <3>1. raw.lines[q] \in ToSet(raw.lines) /\ raw.lines[q] \in Seq(Characters)
      BY DEF IsRaw, ToSet, Text
    <3>2. raw.lines[q] # <<>>
      BY <3>1
    <3> QED BY <3>1, <3>2, EmptySeq
  <2>2. /\ line(q) \in Win /\ line(q).start \in Nat /\ line(q).end \in Nat
        /\ from <= line(q).start /\ line(q).end = line(q).start + Len(raw.lines[q]) /\ line(q).end <= to
    BY DEF LineFacts
  <2> HIDE DEF line
  <2> QED BY <2>1, <2>2
<1>4. \A q, r \in 1..n : q < r => line(q).end + 1 <= line(r).start
  BY DEF LineFacts
<1> HIDE DEF n, line
<1>5. X \in Seq(Win) /\ DOMAIN X = 1..n - 1 /\ \A i \in 1..n - 1 : X[i] = line(i + 1) /\ i + 1 \in 1..n
  <2>1. \A i \in 1..n - 1 : i + 1 \in 1..n
    BY <1>2
  <2>2. \A i \in 1..n - 1 : line(i + 1) \in Win
    BY <1>3, <2>1
  <2>3. n - 1 \in Nat
    BY <1>2
  <2>4. X = [i \in 1..n - 1 |-> X[i]] /\ \A i \in 1..n - 1 : X[i] = line(i + 1)
    OBVIOUS
  <2> HIDE DEF X
  <2>5. X \in Seq(Win)
    BY <2>2, <2>3, <2>4, SeqByDomain
  <2> QED BY <2>1, <2>4, <2>5
<1> HIDE DEF X
<1>6. InOrder(X, Follows)
  <2> SUFFICES ASSUME NEW i \in 1..n - 1, NEW j \in 1..n - 1, i < j PROVE <<X[i], X[j]>> \in Follows
    BY <1>5 DEF InOrder
  <2>1. i + 1 \in 1..n /\ j + 1 \in 1..n /\ i + 1 < j + 1
    BY <1>5
  <2>2. line(i + 1).end + 1 <= line(j + 1).start /\ line(i + 1) \in Win /\ line(j + 1) \in Win
        /\ line(i + 1).end \in Nat /\ line(j + 1).start \in Nat
    BY <1>3, <1>4, <2>1
  <2>3. line(i + 1).end <= line(j + 1).start
    BY <2>2
  <2> QED BY <1>5, <2>2, <2>3 DEF Follows
<1>7. \A u \in ToSet(X) : \E i \in 1..n - 1 : u = line(i + 1)
  BY <1>5 DEF ToSet
<1>8. ASSUME NEW u \in ToSet(X) PROVE Lies(u, from, to) /\ line(1).end <= u.start /\ line(1).end <= u.end
  <2>1. PICK i \in 1..n - 1 : u = line(i + 1)
    BY <1>7
  <2>2. i + 1 \in 1..n /\ 1 \in 1..n /\ 1 < i + 1
    BY <1>2
  <2>3. line(1).end + 1 <= line(i + 1).start /\ line(1).end \in Nat
    BY <1>3, <1>4, <2>2
  <2>4. /\ u.start \in Nat /\ u.end \in Nat
        /\ from <= u.start /\ u.start < u.end /\ u.end <= to
    BY <1>3, <2>1, <2>2
  <2>5. line(1).end + 1 <= u.start
    BY <2>1, <2>3
  <2>6. line(1).end <= u.start /\ line(1).end <= u.end
    BY <2>3, <2>4, <2>5
  <2> QED BY <2>4, <2>6 DEF Lies
<1>9. ASSUME NEW q \in 1..n
      PROVE  (\E u \in ToSet(X) : u.start <= line(q).start /\ line(q).end <= u.end)
             \/ \A u \in ToSet(X) : line(q).end <= u.start
  <2>1. CASE q = 1
    BY <1>8, <2>1
  <2>2. CASE q # 1
    <3>1. q - 1 \in 1..n - 1 /\ (q - 1) + 1 = q
      BY <1>2, <2>2
    <3>2. X[q - 1] = line(q)
      BY <1>5, <3>1
    <3>3. line(q) \in ToSet(X)
      BY <1>5, <3>1, <3>2 DEF ToSet
    <3>4. line(q).start <= line(q).start /\ line(q).end <= line(q).end
      BY <1>3
    <3> QED BY <3>3, <3>4
  <2> QED BY <2>1, <2>2
<1>10. UnitFacts(X, raw, from, n, to)
  BY <1>5, <1>6, <1>8, <1>9 DEF UnitFacts, line
<1> QED BY <1>1, <1>10 DEF n

\* the lines of code those between the fences,
LEMMA LinesFit ==
  ASSUME NEW raw, NEW from \in Nat, NEW to \in Nat, IsRaw(raw), LineFacts(raw, from, Len(raw.lines), to),
         raw.kind = "code", Len(raw.lines) > 2
  PROVE  UnitFacts(UnitsOf(raw, from), raw, from, Len(raw.lines), to)
<1> DEFINE n == Len(raw.lines)
           line(q) == LineAt(raw, from, q)
           lo(i) == IF i = 1 THEN from ELSE line(i + 1).start
           hi(i) == IF i = n - 2 THEN line(n).end ELSE line(i + 1).end + IF i + 1 = n THEN 0 ELSE 1
           X == [i \in 1..n - 2 |-> Window(lo(i), hi(i))]
<1>1. UnitsOf(raw, from) = X
  BY DEF UnitsOf, LineAt
<1>2. n \in Nat /\ n > 2
  BY DEF IsRaw
<1>3. ASSUME NEW q \in 1..n
      PROVE  /\ line(q).start \in Nat /\ line(q).end \in Nat
             /\ from <= line(q).start /\ line(q).start <= line(q).end /\ line(q).end <= to
  <2>1. Len(raw.lines[q]) \in Nat
    BY DEF LineFacts
  <2>2. /\ line(q).start \in Nat /\ line(q).end \in Nat
        /\ from <= line(q).start /\ line(q).end = line(q).start + Len(raw.lines[q]) /\ line(q).end <= to
    BY DEF LineFacts
  <2> HIDE DEF line
  <2> QED BY <2>1, <2>2
<1>4. \A q, r \in 1..n : q < r => line(q).end + 1 <= line(r).start
  BY DEF LineFacts
<1>5. line(1).start = from /\ line(n).end = to
  BY DEF LineFacts
<1> HIDE DEF n, line
<1>6. ASSUME NEW i \in 1..n - 2
      PROVE  /\ lo(i) \in Nat /\ hi(i) \in Nat /\ from <= lo(i) /\ lo(i) <= line(i + 1).start
             /\ line(i + 1).end <= hi(i) /\ lo(i) < hi(i) /\ hi(i) <= to /\ line(1).end <= hi(i)
             /\ i + 1 \in 1..n
  <2>1. i + 1 \in 1..n /\ i \in 1..n /\ n \in 1..n /\ 1 \in 1..n /\ i + 1 < n /\ 1 < i + 1 /\ i + 1 # n
    BY <1>2
  <2>2. /\ line(i + 1).start \in Nat /\ line(i + 1).end \in Nat /\ line(n).end \in Nat /\ line(n).start \in Nat
        /\ from <= line(i + 1).start /\ line(i + 1).start <= line(i + 1).end
        /\ line(n).start <= line(n).end /\ line(n).end <= to /\ line(1).end \in Nat
    BY <1>3, <2>1
  <2>3. line(i + 1).end + 1 <= line(n).start /\ line(1).end + 1 <= line(i + 1).start
    BY <1>4, <2>1
  <2>4. lo(i) = from \/ lo(i) = line(i + 1).start
    OBVIOUS
  <2>5. hi(i) = line(n).end \/ hi(i) = line(i + 1).end + 1
    BY <2>1
  <2> DEFINE a == line(i + 1).start
             b == line(i + 1).end
             f == line(n).start
             e == line(n).end
             h == line(1).end
  <2>6. /\ a \in Nat /\ b \in Nat /\ e \in Nat /\ f \in Nat /\ h \in Nat /\ from <= a /\ a <= b /\ f <= e /\ e <= to
        /\ b + 1 <= f /\ h + 1 <= a
    BY <2>2, <2>3
  <2>7. lo(i) \in {from, a} /\ hi(i) \in {e, b + 1}
    BY <2>4, <2>5
  <2> HIDE DEF lo, hi, a, b, e, f, h
  <2>8. lo(i) \in Nat /\ from <= lo(i) /\ lo(i) <= a
    BY <2>6, <2>7
  <2>9. hi(i) \in Nat /\ b + 1 <= hi(i) /\ hi(i) <= to
    BY <2>6, <2>7
  <2>10. b <= hi(i) /\ lo(i) < hi(i) /\ h <= hi(i)
    BY <2>6, <2>8, <2>9
  <2> QED BY <2>1, <2>8, <2>9, <2>10 DEF a, b, h
<1>7. ASSUME NEW i \in 1..n - 2, NEW j \in 1..n - 2, i < j PROVE hi(i) <= lo(j)
  <2>1. i # n - 2 /\ j # 1 /\ i + 1 \in 1..n /\ j + 1 \in 1..n /\ i + 1 < j + 1 /\ i + 1 # n
    BY <1>2, <1>7
  <2>2. hi(i) = line(i + 1).end + 1 /\ lo(j) = line(j + 1).start
    BY <2>1
  <2>3. line(i + 1).end + 1 <= line(j + 1).start
    BY <1>4, <2>1
  <2> HIDE DEF lo, hi
  <2> QED BY <2>2, <2>3
<1>20. hi(n - 2) = line(n).end /\ lo(1) = from
  OBVIOUS
<1> HIDE DEF lo, hi
<1>8. /\ X \in Seq(Win) /\ DOMAIN X = 1..n - 2
      /\ \A i \in 1..n - 2 : X[i] \in Win /\ X[i].start = lo(i) /\ X[i].end = hi(i) /\ X[i] \in ToSet(X)
  <2>1. ASSUME NEW i \in 1..n - 2 PROVE X[i] \in Win /\ X[i].start = lo(i) /\ X[i].end = hi(i)
    <3>1. X[i] = Window(lo(i), hi(i))
      OBVIOUS
    <3> HIDE DEF X
    <3> QED BY <1>6, <3>1, WindowFields
  <2>2. n - 2 \in Nat
    BY <1>2
  <2>3. X = [i \in 1..n - 2 |-> X[i]] /\ DOMAIN X = 1..n - 2
    OBVIOUS
  <2> HIDE DEF X
  <2>4. X \in Seq(Win)
    BY <2>1, <2>2, <2>3, SeqByDomain
  <2> QED BY <2>1, <2>3, <2>4 DEF ToSet
<1> HIDE DEF X
<1>9. InOrder(X, Follows)
  BY <1>7, <1>8 DEF InOrder, Follows
<1>10. X # <<>>
  <2>1. 1 \in 1..n - 2
    BY <1>2
  <2>2. DOMAIN X # {}
    BY <1>8, <2>1
  <2> QED BY <2>2
<1>11. ASSUME NEW u \in ToSet(X) PROVE Lies(u, from, to) /\ line(1).end <= u.end
  <2>1. PICK i \in 1..n - 2 : u = X[i]
    BY <1>8 DEF ToSet
  <2> QED BY <1>6, <1>8, <2>1 DEF Lies
<1>12. ASSUME NEW q \in 1..n
       PROVE  \E u \in ToSet(X) : u.start <= line(q).start /\ line(q).end <= u.end
  <2>1. CASE q = 1
    <3>1. 1 \in 1..n - 2 /\ 1 \in 1..n
      BY <1>2
    <3>2. X[1].start = from /\ X[1].end = hi(1) /\ X[1] \in ToSet(X) /\ line(1).end <= hi(1)
      BY <1>6, <1>8, <1>20, <3>1
    <3>3. X[1].start <= line(1).start
      BY <1>3, <3>1, <3>2
    <3> QED BY <2>1, <3>2, <3>3
  <2>2. CASE q = n
    <3>1. n - 2 \in 1..n - 2 /\ (n - 2) + 1 \in 1..n /\ n \in 1..n /\ (n - 2) + 1 < n
      BY <1>2
    <3>2. X[n - 2].end = line(n).end /\ X[n - 2].start = lo(n - 2) /\ X[n - 2] \in ToSet(X)
      BY <1>8, <1>20, <3>1
    <3>3. lo(n - 2) <= line((n - 2) + 1).start /\ lo(n - 2) \in Nat
      BY <1>6, <3>1
    <3>4. line((n - 2) + 1).end + 1 <= line(n).start /\ line((n - 2) + 1).start <= line((n - 2) + 1).end
      BY <1>3, <1>4, <3>1
    <3>5. line((n - 2) + 1).start \in Nat /\ line((n - 2) + 1).end \in Nat /\ line(n).start \in Nat /\ line(n).end \in Nat
      BY <1>3, <3>1
    <3>6. lo(n - 2) <= line(n).start /\ line(n).end <= line(n).end
      BY <3>3, <3>4, <3>5
    <3> QED BY <2>2, <3>2, <3>6
  <2>3. CASE q # 1 /\ q # n
    <3>1. q - 1 \in 1..n - 2 /\ (q - 1) + 1 = q
      BY <1>2, <2>3
    <3>2. X[q - 1].start <= line(q).start /\ line(q).end <= X[q - 1].end /\ X[q - 1] \in ToSet(X)
      BY <1>6, <1>8, <3>1
    <3> QED BY <3>2
  <2> QED BY <2>1, <2>2, <2>3
<1>13. UnitFacts(X, raw, from, n, to)
  BY <1>8, <1>9, <1>10, <1>11, <1>12 DEF UnitFacts, line
<1> QED BY <1>1, <1>13 DEF n

\* and code without lines is one unit.
LEMMA WholeFits ==
  ASSUME NEW raw, NEW from \in Nat, NEW to \in Nat, IsRaw(raw), LineFacts(raw, from, Len(raw.lines), to),
         raw.kind = "code", Len(raw.lines) <= 2, Len(raw.lines[1]) # 0, to = from + Len(BlockText(raw))
  PROVE  UnitFacts(UnitsOf(raw, from), raw, from, Len(raw.lines), to)
<1> DEFINE n == Len(raw.lines)
           line(q) == LineAt(raw, from, q)
           w == Window(from, from + Len(BlockText(raw)))
<1>1. UnitsOf(raw, from) = <<w>>
  <2>1. ~(Len(raw.lines) > 2)
    BY DEF IsRaw
  <2> QED BY <2>1 DEF UnitsOf
<1>2. w = Window(from, to)
  OBVIOUS
<1> HIDE DEF w
<1>3. w \in Win /\ w.start = from /\ w.end = to
  BY <1>2, WindowFields
<1>4. <<w>> \in Seq(Win) /\ ToSet(<<w>>) = {w} /\ InOrder(<<w>>, Follows) /\ <<w>> # <<>>
  BY <1>3, SingleList
<1>5. \A q \in 1..n : from <= line(q).start /\ line(q).end <= to
  BY DEF LineFacts
<1>6. from < to /\ line(1).end <= to
  <2>1. 1 \in 1..n
    BY DEF IsRaw
  <2>2. /\ line(1).start \in Nat /\ from <= line(1).start /\ line(1).end = line(1).start + Len(raw.lines[1])
        /\ Len(raw.lines[1]) \in Nat /\ line(1).end <= to
    BY <2>1 DEF LineFacts
  <2> HIDE DEF line
  <2> QED BY <2>2
<1>7. Lies(w, from, to) /\ line(1).end <= w.end
  <2>1. from <= from /\ to <= to
    OBVIOUS
  <2> QED BY <1>3, <1>6, <2>1 DEF Lies
<1> HIDE DEF n
<1>8. UnitFacts(<<w>>, raw, from, n, to)
  BY <1>3, <1>4, <1>5, <1>7 DEF UnitFacts
<1> QED BY <1>1, <1>8 DEF n

-----------------------------------------------------------------------------
(* Blocks *)

InBlock(x, b) == b.start <= x /\ x < b.end

\* What FitUnits says of rows and lines: they follow each other in their block
\* and hold its text, but for the header of a table, which is before all rows.
FitUnits(c, b) ==
  /\ b.units \in Seq(Win) /\ InOrder(b.units, Follows) /\ (b.kind = "code" => b.units # <<>>)
  /\ \A u \in ToSet(b.units) : Lies(u, b.start, b.end)
  /\ \A x \in Ink(c) : InBlock(x, b) =>
       \/ Held(ToSet(b.units), x)
       \/ b.kind = "table" /\ \A u \in ToSet(b.units) : x < u.start
  /\ \E x \in Ink(c) : InBlock(x, b) /\ \A u \in ToSet(b.units) : x < u.end

IsBlock(c, b) ==
  /\ b.start \in Nat /\ b.end \in Nat /\ b.start < b.end /\ b.end <= Len(c)
  /\ b.title \in Nat /\ b.opening \in Nat /\ b.opening > 0 /\ b.closing \in Nat
  /\ b.kind \in {"paragraph", "heading", "table", "code"}
  /\ \E x \in Ink(c) : InBlock(x, b)
  /\ b.kind \in {"table", "code"} => FitUnits(c, b)

BlocksFit(c, bs) ==
  /\ DOMAIN bs = 1..Len(bs) /\ Len(bs) \in Nat
  /\ \A k \in 1..Len(bs) : IsBlock(c, bs[k])
  /\ \A j, k \in 1..Len(bs) : j < k => bs[j].end < bs[k].start
  /\ \A x \in Ink(c) : \E k \in 1..Len(bs) : InBlock(x, bs[k])

\* There is ink on the line.
Marked(line) == \E i \in DOMAIN line : line[i] # "_"

\* A text lies in c from there on.
TextAt(c, from, t) == from + Len(t) <= Len(c) /\ \A i \in 1..Len(t) : c[from + i] = t[i]

\* Ink of a text that lies in another.
LEMMA InkAt ==
  ASSUME NEW c \in Text, NEW t \in Text, NEW from \in Nat, TextAt(c, from, t), NEW i \in 1..Len(t)
  PROVE  from + i - 1 \in Nat /\ (t[i] # "_" <=> from + i - 1 \in Ink(c))
<1> DEFINE x == from + i - 1
<1>1. Len(t) \in Nat /\ Len(c) \in Nat
  BY TextLength
<1>2. x \in Nat /\ x < Len(c) /\ x + 1 = from + i
  BY <1>1 DEF TextAt
<1>3. c[from + i] = t[i]
  BY DEF TextAt
<1> HIDE DEF x
<1>4. c[x + 1] = t[i]
  BY <1>2, <1>3
<1>5. c[x + 1] # "_" => x \in Ink(c)
  BY <1>2, TextIsInk
<1>6. x \in Ink(c) => c[x + 1] # "_"
  BY InkIsText
<1> QED BY <1>2, <1>4, <1>5, <1>6 DEF x

\* The j-th character is on the line that begins o after the first.
LEMMA PlaceInLine ==
  ASSUME NEW from \in Nat, NEW o \in Nat, NEW l \in Nat, NEW x \in Nat, NEW j \in Int,
         from + j - 1 = x, o < j, j <= o + l
  PROVE  from + o <= x /\ x < from + o + l
OBVIOUS

\* The ink of a block is on its lines, and there is some on the first.
LEMMA InkOnLines ==
  ASSUME NEW c \in Text, NEW raw, IsRaw(raw), NEW from \in Nat, TextAt(c, from, BlockText(raw)),
         Marked(raw.lines[1])
  PROVE  /\ \A x \in Ink(c) : from <= x /\ x < from + Len(BlockText(raw)) =>
              \E q \in 1..Len(raw.lines) : LineAt(raw, from, q).start <= x /\ x < LineAt(raw, from, q).end
         /\ \E x \in Ink(c) : from <= x /\ x < LineAt(raw, from, 1).end
<1> DEFINE t == BlockText(raw)
           n == Len(raw.lines)
           off(q) == OffsetOf(raw.lines, q, 1)
<1>1. t \in Text /\ Laid(raw.lines, 1, t) /\ LineFacts(raw, from, n, from + Len(t)) /\ TextAt(c, from, t)
  BY LinesLie
<1>2. raw.lines \in Seq(Text) /\ n \in Nat /\ n >= 1 /\ Len(t) \in Nat /\ Len(c) \in Nat
  BY <1>1, TextLength DEF IsRaw
<1> HIDE DEF t
<1>3. ASSUME NEW q \in 1..n
      PROVE  /\ off(q) \in Nat /\ Len(raw.lines[q]) \in Nat
             /\ LineAt(raw, from, q).start = from + off(q)
             /\ LineAt(raw, from, q).end = from + off(q) + Len(raw.lines[q])
  <2>1. off(q) \in Nat
    BY <1>1 DEF Laid, PartAt
  <2>2. raw.lines[q] \in Text
    BY <1>2
  <2>3. Len(raw.lines[q]) \in Nat
    BY <2>2, TextLength
  <2>4. LineAt(raw, from, q) = Window(from + off(q), from + off(q) + Len(raw.lines[q]))
    BY DEF LineAt
  <2> HIDE DEF off
  <2>5. from + off(q) \in Nat /\ from + off(q) + Len(raw.lines[q]) \in Nat
    BY <2>1, <2>3
  <2> QED BY <2>1, <2>3, <2>4, <2>5, WindowFields
<1>4. ASSUME NEW x \in Ink(c), from <= x, x < from + Len(t)
      PROVE  \E q \in 1..n : LineAt(raw, from, q).start <= x /\ x < LineAt(raw, from, q).end
  <2> DEFINE j == x - from + 1
  <2>1. x \in Nat
    BY InkIsText
  <2>2. j \in 1..Len(t) /\ from + j - 1 = x
    BY <1>2, <1>4, <2>1
  <2> HIDE DEF j
  <2>3. t[j] # "_"
    BY <1>1, <2>2, InkAt
  <2>4. PICK q \in 1..n : off(q) < j /\ j <= off(q) + Len(raw.lines[q])
    BY <1>1, <2>2, <2>3 DEF Laid
  <2>5. /\ off(q) \in Nat /\ Len(raw.lines[q]) \in Nat
        /\ LineAt(raw, from, q).start = from + off(q)
        /\ LineAt(raw, from, q).end = from + off(q) + Len(raw.lines[q])
    BY <1>3
  <2> HIDE DEF off
  <2>6. from + off(q) <= x /\ x < from + off(q) + Len(raw.lines[q])
    <3>1. from + j - 1 = x /\ j \in Int
      BY <2>1, <2>2
    <3> QED BY <2>1, <2>4, <2>5, <3>1, PlaceInLine
  <2> QED BY <2>5, <2>6
<1>5. \E x \in Ink(c) : from <= x /\ x < LineAt(raw, from, 1).end
  <2>0. 1 \in 1..n
    BY <1>2
  <2>1. PICK i \in DOMAIN raw.lines[1] : raw.lines[1][i] # "_"
    BY DEF Marked
  <2>2. raw.lines[1] \in Text
    BY <1>2, <2>0
  <2>3. i \in 1..Len(raw.lines[1]) /\ Len(raw.lines[1]) \in Nat
    BY <2>2 DEF Text
  <2>4. OffsetOf(raw.lines, 1, 1) = 0 /\ PartAt(raw.lines, 1, t, 1)
    BY <1>1, <2>0 DEF Laid
  <2>5. 0 + Len(raw.lines[1]) <= Len(t) /\ t[0 + i] = raw.lines[1][i]
    BY <2>3, <2>4 DEF PartAt
  <2>6. i \in 1..Len(t) /\ 0 + i = i
    BY <1>2, <2>3, <2>5
  <2>7. t[i] # "_"
    BY <2>1, <2>5, <2>6
  <2>8. from + i - 1 \in Ink(c)
    BY <1>1, <2>6, <2>7, InkAt
  <2>9. LineAt(raw, from, 1).end = from + 0 + Len(raw.lines[1])
    BY <1>3, <2>0, <2>4
  <2>10. from <= from + i - 1 /\ from + i - 1 < LineAt(raw, from, 1).end
    BY <2>3, <2>9
  <2> QED BY <2>8, <2>10
<1> QED BY <1>4, <1>5 DEF n, t

\* The units of a table or of code fit.
LEMMA BlockFits ==
  ASSUME NEW c \in Text, NEW raw, IsRaw(raw), NEW from \in Nat, TextAt(c, from, BlockText(raw)),
         Marked(raw.lines[1]),
         raw.kind \in {"table", "code"}, raw.kind = "table" => <<>> \notin ToSet(raw.lines),
         NEW b, b.kind = raw.kind, b.start = from, b.end = from + Len(BlockText(raw)), b.units = UnitsOf(raw, from)
  PROVE  FitUnits(c, b)
<1> DEFINE n == Len(raw.lines)
           to == from + Len(BlockText(raw))
           X == UnitsOf(raw, from)
<1>1. LineFacts(raw, from, n, to) /\ BlockText(raw) \in Text
  BY LinesLie
<1>2. to \in Nat
  BY <1>1, TextLength
<1>3. UnitFacts(X, raw, from, n, to)
  <2>1. CASE raw.kind = "table"
    <3> HIDE DEF to
    <3> QED BY <1>1, <1>2, <2>1, RowsFit
  <2>2. CASE raw.kind = "code"
    <3>1. CASE n > 2
      <4> HIDE DEF to
      <4> QED BY <1>1, <1>2, <2>2, <3>1, LinesFit
    <3>2. CASE ~(n > 2)
      <4>1. raw.lines[1] \in Seq(Characters)
        <5>1. 1 \in 1..Len(raw.lines) /\ raw.lines \in Seq(Text)
          BY DEF IsRaw
        <5> QED BY <5>1 DEF Text
      <4>2. Len(raw.lines[1]) # 0
        <5>1. PICK i \in DOMAIN raw.lines[1] : TRUE
          BY DEF Marked
        <5>2. i \in 1..Len(raw.lines[1]) /\ Len(raw.lines[1]) \in Nat
          BY <4>1, <5>1
        <5> QED BY <5>2
      <4>3. n <= 2 /\ to = from + Len(BlockText(raw))
        BY <3>2 DEF IsRaw
      <4> HIDE DEF to
      <4> QED BY <1>1, <1>2, <2>2, <4>2, <4>3, WholeFits
    <3> QED BY <3>1, <3>2
  <2> QED BY <2>1, <2>2
<1> HIDE DEF X, to
<1>4. b.units = X /\ b.start = from /\ b.end = to
  BY DEF X, to
<1>5. /\ X \in Seq(Win) /\ InOrder(X, Follows) /\ (raw.kind = "code" => X # <<>>)
      /\ \A u \in ToSet(X) : Lies(u, from, to) /\ LineAt(raw, from, 1).end <= u.end
      /\ \A q \in 1..n : \/ \E u \in ToSet(X) : u.start <= LineAt(raw, from, q).start /\ LineAt(raw, from, q).end <= u.end
                         \/ raw.kind = "table" /\ \A u \in ToSet(X) : LineAt(raw, from, q).end <= u.start
  BY <1>3 DEF UnitFacts
<1>6. /\ \A x \in Ink(c) : from <= x /\ x < to =>
              \E q \in 1..n : LineAt(raw, from, q).start <= x /\ x < LineAt(raw, from, q).end
      /\ \E x \in Ink(c) : from <= x /\ x < LineAt(raw, from, 1).end
  BY InkOnLines DEF to
<1>7. ASSUME NEW u \in ToSet(X) PROVE u.start \in Nat /\ u.end \in Nat
  <2>1. u \in Win
    BY <1>5, MemberOf
  <2> QED BY <2>1 DEF Win
<1>8. \A q \in 1..n : LineAt(raw, from, q).start \in Nat /\ LineAt(raw, from, q).end \in Nat /\ LineAt(raw, from, q).end <= to
  BY <1>1 DEF LineFacts
<1>9. ASSUME NEW x \in Ink(c), InBlock(x, b)
      PROVE  Held(ToSet(X), x) \/ (raw.kind = "table" /\ \A u \in ToSet(X) : x < u.start)
  <2>1. PICK q \in 1..n : LineAt(raw, from, q).start <= x /\ x < LineAt(raw, from, q).end
    BY <1>4, <1>6, <1>9 DEF InBlock
  <2>2. x \in Nat /\ LineAt(raw, from, q).start \in Nat /\ LineAt(raw, from, q).end \in Nat
    BY <1>8, InkIsText
  <2>3. CASE \E u \in ToSet(X) : u.start <= LineAt(raw, from, q).start /\ LineAt(raw, from, q).end <= u.end
    <3>1. PICK u \in ToSet(X) : u.start <= LineAt(raw, from, q).start /\ LineAt(raw, from, q).end <= u.end
      BY <2>3
    <3>2. u.start <= x /\ x < u.end
      BY <1>7, <2>1, <2>2, <3>1
    <3>3. Held(ToSet(X), x)
      BY <3>1, <3>2 DEF Held
    <3> QED BY <3>3
  <2>4. CASE raw.kind = "table" /\ \A u \in ToSet(X) : LineAt(raw, from, q).end <= u.start
    <3>1. \A u \in ToSet(X) : x < u.start
      BY <1>7, <2>1, <2>2, <2>4
    <3> QED BY <2>4, <3>1
  <2> QED BY <1>5, <2>3, <2>4
<1>10. \E x \in Ink(c) : InBlock(x, b) /\ \A u \in ToSet(X) : x < u.end
  <2>1. PICK x \in Ink(c) : from <= x /\ x < LineAt(raw, from, 1).end
    BY <1>6
  <2>2. x \in Nat /\ 1 \in 1..n
    <3>1. x \in Nat
      BY InkIsText
    <3>2. 1 \in 1..n
      BY DEF IsRaw
    <3> QED BY <3>1, <3>2
  <2>3. LineAt(raw, from, 1).end \in Nat /\ LineAt(raw, from, 1).end <= to
    BY <1>8, <2>2
  <2>4. x < to /\ \A u \in ToSet(X) : x < u.end
    BY <1>2, <1>5, <1>7, <2>1, <2>2, <2>3
  <2> QED BY <1>4, <2>1, <2>4 DEF InBlock
<1> QED BY <1>4, <1>5, <1>9, <1>10 DEF FitUnits

TextsOf(doc) == [n \in DOMAIN doc.blocks |-> BlockText(doc.blocks[n])]

\* What the parser hands on.
IsParsed(raw) ==
  /\ raw.title \in Nat /\ raw.kind \in {"paragraph", "heading", "table", "code"}
  /\ Marked(raw.lines[1])
  /\ raw.kind = "table" => <<>> \notin ToSet(raw.lines)

\* A document has blocks, of lines.
LEMMA RawBlocks ==
  ASSUME NEW doc \in Documents
  PROVE  /\ Len(doc.blocks) \in Nat /\ Len(doc.blocks) >= 1 /\ DOMAIN doc.blocks = 1..Len(doc.blocks)
         /\ \A n \in 1..Len(doc.blocks) : IsRaw(doc.blocks[n]) /\ (doc.structured => IsParsed(doc.blocks[n]))
<1>1. doc.blocks \in Seq(ToSet(doc.blocks)) /\ doc.blocks # <<>>
  BY ChunkAssumption
<1>2. Len(doc.blocks) \in Nat /\ Len(doc.blocks) >= 1 /\ DOMAIN doc.blocks = 1..Len(doc.blocks)
  BY <1>1
<1>3. ASSUME NEW n \in 1..Len(doc.blocks)
      PROVE  IsRaw(doc.blocks[n]) /\ (doc.structured => IsParsed(doc.blocks[n]))
  <2> DEFINE raw == doc.blocks[n]
  <2>1. raw \in ToSet(doc.blocks)
    BY <1>2 DEF ToSet
  <2> HIDE DEF raw
  <2>2. /\ raw.title \in Nat
        /\ raw.lines \in Seq(Seq(Characters)) /\ raw.lines # <<>>
        /\ doc.structured =>
             /\ raw.kind \in {"paragraph", "heading", "table", "code"}
             /\ Marked(raw.lines[1])
             /\ raw.kind = "table" => <<>> \notin ToSet(raw.lines)
    BY <2>1, ChunkAssumption DEF Marked
  <2>3. Len(raw.lines) >= 1
    BY <2>2
  <2>4. IsRaw(raw)
    BY <2>2, <2>3 DEF IsRaw, Text
  <2>5. doc.structured => IsParsed(raw)
    BY <2>2 DEF IsParsed
  <2> QED BY <2>4, <2>5 DEF raw
<1> QED BY <1>2, <1>3

\* The blocks' texts lie in the canonical text.
LEMMA ContentLaid ==
  ASSUME NEW doc \in Documents
  PROVE  /\ TextsOf(doc) \in Seq(Text) /\ Len(TextsOf(doc)) = Len(doc.blocks)
         /\ \A n \in 1..Len(doc.blocks) : TextsOf(doc)[n] = BlockText(doc.blocks[n])
         /\ Laid(TextsOf(doc), 2, Content(doc)) /\ Content(doc) \in Text
<1>1. /\ Len(doc.blocks) \in Nat /\ Len(doc.blocks) >= 1 /\ DOMAIN doc.blocks = 1..Len(doc.blocks)
      /\ \A n \in 1..Len(doc.blocks) : IsRaw(doc.blocks[n])
  BY RawBlocks
<1>2. \A n \in 1..Len(doc.blocks) : TextsOf(doc)[n] = BlockText(doc.blocks[n])
  BY <1>1 DEF TextsOf
<1>3. ASSUME NEW n \in 1..Len(doc.blocks) PROVE TextsOf(doc)[n] \in Text
  BY <1>1, <1>2, LinesLie, 0 \in Nat
<1>4. TextsOf(doc) = [n \in 1..Len(doc.blocks) |-> TextsOf(doc)[n]]
  BY <1>1 DEF TextsOf
<1>5. TextsOf(doc) \in Seq(Text)
  BY <1>1, <1>3, <1>4, SeqByDomain
<1>6. Len(TextsOf(doc)) = Len(doc.blocks)
  BY <1>1, <1>4, <1>5
<1>7. Content(doc) = JoinedText(TextsOf(doc), 2)
  BY DEF Content, TextsOf
<1>8. Laid(TextsOf(doc), 2, Content(doc))
  BY <1>1, <1>5, <1>6, <1>7, JoinedLaid
<1>9. Content(doc) \in Text
  BY <1>8 DEF Laid
<1> QED BY <1>2, <1>5, <1>6, <1>8, <1>9

\* The blocks that the assembly makes lie in its text, in order, and hold its ink.
LEMMA AssembledFit ==
  ASSUME NEW doc \in Documents, doc.structured
  PROVE  BlocksFit(Content(doc), AssembledBlocks(doc))
<1> DEFINE c == Content(doc)
           bs == AssembledBlocks(doc)
           n == Len(doc.blocks)
           ts == TextsOf(doc)
           off(k) == OffsetOf(ts, k, 2)
<1>1. /\ n \in Nat /\ n >= 1 /\ DOMAIN doc.blocks = 1..n
      /\ \A k \in 1..n : IsRaw(doc.blocks[k]) /\ IsParsed(doc.blocks[k])
  BY RawBlocks
<1>2. /\ ts \in Seq(Text) /\ Len(ts) = n
      /\ \A k \in 1..n : ts[k] = BlockText(doc.blocks[k])
      /\ Laid(ts, 2, c) /\ c \in Text
  BY ContentLaid
<1>3. /\ DOMAIN bs = 1..n
      /\ \A k \in 1..n : /\ bs[k].start = off(k) /\ bs[k].end = off(k) + Len(ts[k])
                         /\ bs[k].kind = doc.blocks[k].kind /\ bs[k].title = doc.blocks[k].title
                         /\ bs[k].units = UnitsOf(doc.blocks[k], off(k))
                         /\ bs[k].opening = Len(doc.blocks[k].lines[1]) + 1
                         /\ bs[k].closing = Len(Last(doc.blocks[k].lines)) + 1
                         /\ bs[k].section = doc.blocks[k].section
  BY <1>1 DEF AssembledBlocks, TextsOf
<1>4. Len(bs) = n
  <2>1. bs = [k \in 1..n |-> bs[k]]
    BY <1>3 DEF AssembledBlocks
  <2> QED BY <1>1, <2>1
<1> HIDE DEF c, bs, n, ts, off
<1>5. ASSUME NEW k \in 1..n
      PROVE  /\ off(k) \in Nat /\ Len(ts[k]) \in Nat /\ off(k) + Len(ts[k]) <= Len(c)
             /\ TextAt(c, off(k), BlockText(doc.blocks[k])) /\ ts[k] = BlockText(doc.blocks[k])
  <2>1. PartAt(ts, 2, c, k) /\ ts[k] \in Text /\ ts[k] = BlockText(doc.blocks[k])
    <3>1. k \in 1..Len(ts)
      BY <1>2
    <3>2. PartAt(ts, 2, c, k)
      BY <1>2, <3>1 DEF Laid
    <3> QED BY <1>2, <3>1, <3>2
  <2>2. Len(ts[k]) \in Nat
    BY <2>1, TextLength
  <2>3. /\ off(k) \in Nat /\ off(k) + Len(ts[k]) <= Len(c)
        /\ \A i \in 1..Len(ts[k]) : c[off(k) + i] = ts[k][i]
    BY <2>1 DEF PartAt, off
  <2> QED BY <2>1, <2>2, <2>3 DEF TextAt
<1>6. ASSUME NEW k \in 1..n PROVE IsBlock(c, bs[k])
  <2> DEFINE raw == doc.blocks[k]
             b == bs[k]
             from == off(k)
  <2>1. IsRaw(raw) /\ IsParsed(raw)
    BY <1>1
  <2>2. /\ from \in Nat /\ TextAt(c, from, BlockText(raw)) /\ b.start = from /\ b.end = from + Len(BlockText(raw))
        /\ b.kind = raw.kind /\ b.title = raw.title /\ b.units = UnitsOf(raw, from)
        /\ b.opening = Len(raw.lines[1]) + 1 /\ b.closing = Len(Last(raw.lines)) + 1
        /\ b.end <= Len(c) /\ b.end \in Nat
    <3>1. /\ off(k) \in Nat /\ Len(ts[k]) \in Nat /\ off(k) + Len(ts[k]) <= Len(c)
          /\ TextAt(c, off(k), BlockText(doc.blocks[k])) /\ ts[k] = BlockText(doc.blocks[k])
      BY <1>5
    <3>2. bs[k].end \in Nat
      BY <1>3, <3>1
    <3> QED BY <1>3, <3>1, <3>2
  <2> HIDE DEF raw, b, from
  <2>3. raw.title \in Nat /\ raw.kind \in {"paragraph", "heading", "table", "code"} /\ Marked(raw.lines[1])
        /\ (raw.kind = "table" => <<>> \notin ToSet(raw.lines))
    BY <2>1 DEF IsParsed
  <2>4. PICK x \in Ink(c) : from <= x /\ x < LineAt(raw, from, 1).end
    BY <1>2, <2>1, <2>2, <2>3, InkOnLines
  <2>5. /\ 1 \in 1..Len(raw.lines) /\ LineFacts(raw, from, Len(raw.lines), from + Len(BlockText(raw)))
        /\ raw.lines \in Seq(Text) /\ Len(raw.lines) \in 1..Len(raw.lines)
    BY <2>1, <2>2, LinesLie DEF IsRaw
  <2>6. LineAt(raw, from, 1).end <= b.end /\ LineAt(raw, from, 1).end \in Nat
    BY <2>2, <2>5 DEF LineFacts
  <2>7. x \in Nat
    BY <1>2, InkIsText
  <2>8. InBlock(x, b) /\ b.start < b.end
    BY <2>2, <2>4, <2>6, <2>7 DEF InBlock
  <2>9. Len(raw.lines[1]) \in Nat /\ Len(Last(raw.lines)) \in Nat
    <3>1. raw.lines[1] \in Text /\ raw.lines[Len(raw.lines)] \in Text
      BY <2>5
    <3>2. Last(raw.lines) = raw.lines[Len(raw.lines)]
      BY DEF Last
    <3> QED BY <3>1, <3>2, TextLength
  <2>10. b.kind \in {"table", "code"} => FitUnits(c, b)
    BY <1>2, <2>1, <2>2, <2>3, BlockFits
  <2>11. b.opening \in Nat /\ b.opening > 0 /\ b.closing \in Nat
    <3> DEFINE o == Len(raw.lines[1])
               z == Len(Last(raw.lines))
    <3>1. o \in Nat /\ z \in Nat
      BY <2>9
    <3>2. b.opening = o + 1 /\ b.closing = z + 1
      BY <2>2
    <3> HIDE DEF o, z
    <3>3. o + 1 \in Nat /\ o + 1 > 0 /\ z + 1 \in Nat
      BY <3>1
    <3> QED BY <3>2, <3>3
  <2>12. /\ b.start \in Nat /\ b.end \in Nat /\ b.start < b.end /\ b.end <= Len(c) /\ b.title \in Nat
         /\ b.kind \in {"paragraph", "heading", "table", "code"}
    BY <2>2, <2>3, <2>8
  <2>13. IsBlock(c, b)
    BY <2>8, <2>10, <2>11, <2>12 DEF IsBlock
  <2> QED BY <2>13 DEF b
<1>7. ASSUME NEW j \in 1..n, NEW k \in 1..n, j < k PROVE bs[j].end < bs[k].start
  <2>1. off(j) + Len(ts[j]) + 2 <= off(k)
    BY <1>2, <1>7, OffsetsRise DEF off
  <2>2. off(j) \in Nat /\ Len(ts[j]) \in Nat /\ off(k) \in Nat
    BY <1>5
  <2>3. bs[j].end = off(j) + Len(ts[j]) /\ bs[k].start = off(k)
    BY <1>3
  <2> QED BY <2>1, <2>2, <2>3
<1>8. ASSUME NEW x \in Ink(c) PROVE \E k \in 1..n : InBlock(x, bs[k])
  <2> DEFINE j == x + 1
  <2>1. x \in Nat /\ j \in 1..Len(c) /\ c[j] # "_" /\ j = x + 1
    BY <1>2, InkIsText
  <2>5. x \in Nat /\ j = x + 1
    BY <2>1
  <2> HIDE DEF j
  <2>2. PICK k \in 1..n : off(k) < j /\ j <= off(k) + Len(ts[k])
    BY <1>2, <2>1 DEF Laid, off
  <2>3. off(k) \in Nat /\ Len(ts[k]) \in Nat
    BY <1>5
  <2>6. bs[k].start = off(k) /\ bs[k].end = off(k) + Len(ts[k])
    BY <1>3
  <2>4. bs[k].start <= x /\ x < bs[k].end
    BY <2>2, <2>3, <2>5, <2>6
  <2> QED BY <2>4 DEF InBlock
<1> QED BY <1>1, <1>3, <1>4, <1>6, <1>7, <1>8 DEF BlocksFit, c, bs

-----------------------------------------------------------------------------
(* Prose *)

PieceSet(kinds, sections) ==
  [start : Nat, end : Nat, kind : kinds, section : sections,
   prefix : Nat, suffix : Nat, units : Nat, parent : Nat]

Fitting(p, size) ==
  \/ p.prefix + Width(p) + p.suffix <= size
  \/ p.kind \in {"table", "code"} /\ p.units <= 1
  \/ p.prefix >= size

\* From the start of one paragraph to the end of it or a later one, or in one.
FromProse(c, ps, p) ==
  \/ \E i, j \in 1..Len(ps) : i <= j /\ p.start = ps[i].start /\ p.end = ps[j].end
  \/ \E i \in 1..Len(ps) : Lies(p, ps[i].start, ps[i].end) /\ \E x \in Ink(c) : InBlock(x, p)

IsProsePiece(c, block, ps, size, p) ==
  /\ p \in PieceSet({block.kind}, {block.section})
  /\ p.parent = 0 /\ Fitting(p, size) /\ FromProse(c, ps, p)

Paragraphs(c, ps) ==
  /\ ps \in Seq(Win) /\ InOrder(ps, Follows)
  /\ \A i \in 1..Len(ps) : /\ ps[i].start < ps[i].end /\ ps[i].end <= Len(c)
                           /\ \E x \in Ink(c) : InBlock(x, ps[i])

\* Paragraphs lie in the text, one behind the other.
LEMMA ParagraphsLie ==
  ASSUME NEW c, NEW ps, Paragraphs(c, ps)
  PROVE  /\ Len(ps) \in Nat
         /\ \A i \in 1..Len(ps) : /\ ps[i] \in Win /\ ps[i].start \in Nat /\ ps[i].end \in Nat
                                  /\ ps[i].start < ps[i].end /\ ps[i].end <= Len(c)
         /\ \A i, j \in 1..Len(ps) : i < j => ps[i].end <= ps[j].start
         /\ \A i, j \in 1..Len(ps) : i <= j => ps[i].start <= ps[j].start /\ ps[i].end <= ps[j].end
<1>1. ps \in Seq(Win) /\ Len(ps) \in Nat /\ DOMAIN ps = 1..Len(ps)
  BY DEF Paragraphs
<1>2. ASSUME NEW i \in 1..Len(ps)
      PROVE  /\ ps[i] \in Win /\ ps[i].start \in Nat /\ ps[i].end \in Nat
             /\ ps[i].start < ps[i].end /\ ps[i].end <= Len(c)
  <2>1. ps[i] \in Win
    BY <1>1
  <2>2. ps[i].start \in Nat /\ ps[i].end \in Nat
    BY <2>1 DEF Win
  <2>3. ps[i].start < ps[i].end /\ ps[i].end <= Len(c)
    BY DEF Paragraphs
  <2> QED BY <2>1, <2>2, <2>3
<1>3. ASSUME NEW i \in 1..Len(ps), NEW j \in 1..Len(ps), i < j PROVE ps[i].end <= ps[j].start
  <2>1. <<ps[i], ps[j]>> \in Follows
    BY <1>1, <1>3 DEF Paragraphs, InOrder
  <2> QED BY <2>1 DEF Follows
<1>4. ASSUME NEW i \in 1..Len(ps), NEW j \in 1..Len(ps), i <= j
      PROVE  ps[i].start <= ps[j].start /\ ps[i].end <= ps[j].end
  <2>1. CASE i = j
    BY <1>2, <2>1
  <2>2. CASE i # j
    <3>1. ps[i].end <= ps[j].start
      BY <1>3, <1>4, <2>2
    <3> QED BY <1>2, <3>1
  <2> QED BY <2>1, <2>2
<1> QED BY <1>1, <1>2, <1>3, <1>4

\* Prose is cut without loss: the paragraphs are packed, and what is too long is
\* cut with an overlap.
LEMMA ProseFits ==
  ASSUME NEW c \in Text, NEW ps, Paragraphs(c, ps), NEW block, block.title \in Nat,
         NEW size \in Nat, NEW overlap \in 0..size - 1
  PROVE  /\ ProsePieces(c, block, ps, size, overlap) \in Seq(PieceSet({block.kind}, {block.section}))
         /\ \A p \in ToSet(ProsePieces(c, block, ps, size, overlap)) : IsProsePiece(c, block, ps, size, p)
         /\ \A x \in Ink(c), i \in 1..Len(ps) :
              InBlock(x, ps[i]) => Held(ToSet(ProsePieces(c, block, ps, size, overlap)), x)
<1> DEFINE room == Max({1, size - block.title})
           least == Min({overlap, room - 1})
           n == Len(ps)
           wide(i) == Width(ps[i]) > room
           Fit(i) == {e \in i..n : \A j \in i + 1..e : ps[j].end - ps[i].start <= room}
           last == [i \in 1..n |-> IF wide(i) THEN i
                                   ELSE Packed(i, n, LAMBDA j : ps[j].end - ps[i].start <= room)]
           spans == [i \in 1..n |-> IF wide(i) THEN SpansWithin(c, ps[i], room, least)
                                    ELSE <<Window(ps[i].start, ps[last[i]].end)>>]
           next == [i \in 1..n |-> last[i] + 1]
           ch == Chain(1, n + 1, spans, next)
           piece(w) == Piece(w, block.kind, block.section, block.title, 0, 1)
           out == [k \in DOMAIN ch |-> piece(ch[k])]
           V == PieceSet({block.kind}, {block.section})
<1>0. ProsePieces(c, block, ps, size, overlap) = out
  BY DEF ProsePieces
<1>1. /\ n \in Nat
      /\ \A i \in 1..n : /\ ps[i] \in Win /\ ps[i].start \in Nat /\ ps[i].end \in Nat
                         /\ ps[i].start < ps[i].end /\ ps[i].end <= Len(c)
      /\ \A i, j \in 1..n : i < j => ps[i].end <= ps[j].start
      /\ \A i, j \in 1..n : i <= j => ps[i].start <= ps[j].start /\ ps[i].end <= ps[j].end
  BY ParagraphsLie
<1>2. room \in Nat /\ room >= 1 /\ (block.title + room <= size \/ block.title >= size)
  <2>1. size - block.title \in Int
    OBVIOUS
  <2>2. room = IF 1 >= size - block.title THEN 1 ELSE size - block.title
    BY <2>1, MaxOfTwo
  <2> HIDE DEF room
  <2> QED BY <2>1, <2>2
<1> HIDE DEF room
<1>3. least \in 0..room - 1
  <2>1. least = IF overlap <= room - 1 THEN overlap ELSE room - 1
    BY <1>2, MinOfTwo
  <2> HIDE DEF least
  <2> QED BY <1>2, <2>1
<1> HIDE DEF n, least
<1>4. ASSUME NEW i \in 1..n, ~wide(i)
      PROVE  last[i] \in i..n /\ ps[last[i]].end - ps[i].start <= room
  <2>1. last[i] = Max(Fit(i))
    BY <1>4 DEF Packed
  <2>2. Fit(i) \in SUBSET (i..n)
    OBVIOUS
  <2>3. i \in Fit(i)
    <3>1. i \in i..n /\ i + 1..i = {}
      BY <1>1
    <3> QED BY <3>1
  <2>4. Max(Fit(i)) \in Fit(i)
    <3> HIDE DEF Fit
    <3>1. i \in Int /\ n \in Int
      BY <1>1
    <3> QED BY <2>2, <2>3, <3>1, GreatestInRange
  <2>5. Max(Fit(i)) \in i..n /\ \A j \in i + 1..Max(Fit(i)) : ps[j].end - ps[i].start <= room
    BY <2>4
  <2>6. ps[i].end - ps[i].start <= room
    <3>1. ~(Width(ps[i]) > room)
      BY <1>4
    <3> QED BY <1>1, <1>2, <3>1 DEF Width
  <2> HIDE DEF Fit, last
  <2>7. ps[last[i]].end - ps[i].start <= room
    <3>1. CASE last[i] = i
      BY <2>6, <3>1
    <3>2. CASE last[i] # i
      <4>1. last[i] \in i + 1..last[i]
        BY <2>1, <2>5, <3>2
      <4> QED BY <2>1, <2>5, <4>1
    <3> QED BY <3>1, <3>2
  <2> QED BY <2>1, <2>5, <2>7
<1>5. ASSUME NEW i \in 1..n PROVE last[i] \in i..n
  <2>1. CASE wide(i)
    <3>1. last[i] = i
      BY <2>1
    <3> HIDE DEF last
    <3> QED BY <1>1, <3>1
  <2>2. CASE ~wide(i)
    <3> HIDE DEF last
    <3> QED BY <1>4, <2>2
  <2> QED BY <2>1, <2>2
<1>6. ASSUME NEW i \in 1..n, wide(i)
      PROVE  /\ spans[i] \in Seq(Win) /\ last[i] = i
             /\ CutsText(c, ToSet(spans[i]), ps[i].start, ps[i].end, room)
  <2>1. spans[i] = SpansWithin(c, ps[i], room, least) /\ last[i] = i
    BY <1>6
  <2> HIDE DEF spans, last
  <2>2. /\ ps[i] \in Win /\ ps[i].start <= ps[i].end /\ ps[i].end <= Len(c)
        /\ room \in Nat /\ least \in 0..room - 1
    BY <1>1, <1>2, <1>3
  <2>3. /\ SpansWithin(c, ps[i], room, least) \in Seq(Win)
        /\ CutsText(c, ToSet(SpansWithin(c, ps[i], room, least)), ps[i].start, ps[i].end, room)
    BY <2>2, PartCut
  <2> QED BY <2>1, <2>3
<1>7. ASSUME NEW i \in 1..n, ~wide(i)
      PROVE  \E w \in Win : /\ w.start = ps[i].start /\ w.end = ps[last[i]].end
                            /\ spans[i] \in Seq(Win) /\ ToSet(spans[i]) = {w}
  <2> DEFINE w == Window(ps[i].start, ps[last[i]].end)
  <2>1. spans[i] = <<w>>
    BY <1>7
  <2>2. last[i] \in 1..n
    <3>1. last[i] \in i..n
      BY <1>5
    <3> HIDE DEF last
    <3> QED BY <3>1
  <2> HIDE DEF spans, last
  <2>3. w \in Win /\ w.start = ps[i].start /\ w.end = ps[last[i]].end
    BY <1>1, <2>2, WindowFields
  <2> HIDE DEF w
  <2> QED BY <2>1, <2>3, SingleList
<1>8. ASSUME NEW i \in 1..n PROVE next[i] = last[i] + 1
  OBVIOUS
<1> HIDE DEF last, spans, next
<1>9. \A i \in 1..n : spans[i] \in Seq(Win)
  BY <1>6, <1>7
<1> DEFINE Broad(i) == wide(i)
<1> HIDE DEF wide
<1>10. IsPath(1, n + 1, Win, spans, next)
  <2>1. ASSUME NEW i \in 1..(n + 1) - 1 PROVE spans[i] \in Seq(Win) /\ next[i] \in i + 1..n + 1
    <3>1. i \in 1..n
      BY <1>1
    <3>2. last[i] \in i..n
      BY <1>5, <3>1
    <3> QED BY <1>1, <1>8, <1>9, <3>1, <3>2
  <2> QED BY <1>1, <2>1 DEF IsPath
<1>11. ch \in Seq(Win) /\ \E P : Visits(ch, P, 1, n + 1, spans, next)
  <2>1. 1 \in Int /\ n + 1 \in Int
    BY <1>1
  <2> QED BY <1>10, <2>1, ChainFollows
<1>12. PICK P : Visits(ch, P, 1, n + 1, spans, next)
  BY <1>11
<1> HIDE DEF ch
<1>13. /\ P \in SUBSET (1..n) /\ ToSet(ch) = UNION {ToSet(spans[k]) : k \in P}
       /\ \A i \in 1..n : \E k \in P : k <= i /\ i < next[k]
  <2>1. (n + 1) - 1 = n
    BY <1>1
  <2> QED BY <1>12, <2>1 DEF Visits
<1>14. ASSUME NEW w \in Win, w.start <= w.end
       PROVE  /\ piece(w) \in V /\ piece(w).start = w.start /\ piece(w).end = w.end /\ piece(w).parent = 0
              /\ piece(w).prefix = block.title /\ piece(w).suffix = 0
  BY DEF Piece, PieceSet, Win
<1> HIDE DEF piece, V
<1>15. ASSUME NEW w \in ToSet(ch)
       PROVE  w \in Win /\ w.start <= w.end /\ FromProse(c, ps, w) /\ Width(w) <= room
  <2>1. PICK k \in P : w \in ToSet(spans[k])
    BY <1>13
  <2>2. k \in 1..n /\ w \in Win
    BY <1>11, <1>13, MemberOf
  <2>3. CASE wide(k)
    <3>1. Lies(w, ps[k].start, ps[k].end) /\ Inked(c, w) # {} /\ Width(w) <= room
      BY <1>6, <2>1, <2>2, <2>3, CutMember
    <3>2. PICK x : x \in Inked(c, w)
      BY <3>1
    <3>3. w.start \in Nat /\ w.end \in Nat /\ w.end <= Len(c)
      <4>1. w.start \in Nat /\ w.end \in Nat /\ w.end <= ps[k].end
        BY <2>2, <3>1 DEF Win, Lies
      <4>2. Len(c) \in Nat
        BY TextLength
      <4> QED BY <1>1, <2>2, <4>1, <4>2
    <3>4. x \in Ink(c) /\ InBlock(x, w)
      BY <3>2, <3>3, InkWithin DEF InBlock
    <3>5. w.start <= w.end
      BY <3>1, <3>3 DEF Lies
    <3> QED BY <2>2, <3>1, <3>4, <3>5 DEF FromProse, n
  <2>4. CASE ~wide(k)
    <3>1. w.start = ps[k].start /\ w.end = ps[last[k]].end
      BY <1>7, <2>1, <2>2, <2>4
    <3>2. last[k] \in k..n
      BY <1>5, <2>2
    <3>3. last[k] \in 1..n /\ k <= last[k]
      BY <2>2, <3>2
    <3>4. ps[k].end <= ps[last[k]].end /\ ps[k].start < ps[k].end
      BY <1>1, <2>2, <3>3
    <3>5. ps[k].start \in Nat /\ ps[k].end \in Nat /\ ps[last[k]].end \in Nat
      BY <1>1, <2>2, <3>3
    <3>6. Width(w) <= room
      BY <1>4, <2>2, <2>4, <3>1 DEF Width
    <3>7. w.start <= w.end
      BY <3>1, <3>4, <3>5
    <3>8. FromProse(c, ps, w)
      BY <2>2, <3>1, <3>3 DEF FromProse, n
    <3> QED BY <2>2, <3>6, <3>7, <3>8
  <2> QED BY <2>3, <2>4
<1>16. DOMAIN out = 1..Len(ch) /\ Len(ch) \in Nat /\ out = [k \in 1..Len(ch) |-> out[k]]
       /\ \A k \in 1..Len(ch) : out[k] = piece(ch[k]) /\ ch[k] \in ToSet(ch)
  BY <1>11 DEF ToSet
<1>17. ASSUME NEW w \in ToSet(ch) PROVE piece(w) \in V /\ IsProsePiece(c, block, ps, size, piece(w))
  <2> DEFINE p == piece(w)
  <2>1. /\ p \in V /\ p.start = w.start /\ p.end = w.end /\ p.parent = 0
        /\ p.prefix = block.title /\ p.suffix = 0
    BY <1>14, <1>15
  <2> HIDE DEF p
  <2>2. FromProse(c, ps, p)
    <3>1. FromProse(c, ps, w)
      BY <1>15
    <3> QED BY <2>1, <3>1 DEF FromProse, Lies, InBlock
  <2>3. Fitting(p, size)
    <3>1. w.start \in Nat /\ w.end \in Nat /\ w.start <= w.end /\ w.end - w.start <= room
      BY <1>15 DEF Win, Width
    <3>2. Width(p) = w.end - w.start
      BY <2>1 DEF Width
    <3>3. p.prefix + Width(p) + p.suffix <= size \/ p.prefix >= size
      BY <1>2, <2>1, <3>1, <3>2
    <3> QED BY <3>3 DEF Fitting
  <2> QED BY <2>1, <2>2, <2>3 DEF IsProsePiece, V, p
<1> HIDE DEF out
<1>18. out \in Seq(V)
  BY <1>16, <1>17, SeqByDomain
<1>19. \A p \in ToSet(out) : IsProsePiece(c, block, ps, size, p)
  <2>1. \A p \in ToSet(out) : \E k \in 1..Len(ch) : p = out[k]
    BY <1>16 DEF ToSet
  <2> QED BY <1>16, <1>17, <2>1
<1>20. ASSUME NEW x \in Ink(c), NEW i \in 1..n, InBlock(x, ps[i]) PROVE Held(ToSet(out), x)
  <2>1. PICK k \in P : k <= i /\ i < next[k]
    BY <1>13
  <2>2. k \in 1..n
    BY <1>13
  <2>3. last[k] \in k..n /\ next[k] = last[k] + 1
    BY <1>5, <1>8, <2>2
  <2>4. i <= last[k] /\ last[k] \in 1..n
    BY <2>1, <2>2, <2>3
  <2>5. x \in Nat /\ ps[i].start <= x /\ x < ps[i].end
    BY <1>20, InkIsText DEF InBlock
  <2>6. Held(ToSet(spans[k]), x)
    <3>1. CASE wide(k)
      <4>1. k = i
        BY <1>6, <2>1, <2>2, <2>4, <3>1
      <4>2. CutsText(c, ToSet(spans[i]), ps[i].start, ps[i].end, room)
        BY <1>6, <3>1, <4>1
      <4>3. c[x + 1] # "_"
        BY InkIsText
      <4> QED BY <1>1, <2>5, <4>1, <4>2, <4>3, CutHolds
    <3>2. CASE ~wide(k)
      <4>1. PICK w \in Win : w.start = ps[k].start /\ w.end = ps[last[k]].end /\ ToSet(spans[k]) = {w}
        BY <1>7, <2>2, <3>2
      <4>2. ps[k].start <= ps[i].start /\ ps[i].end <= ps[last[k]].end
        BY <1>1, <2>1, <2>2, <2>4
      <4>3. ps[k].start \in Nat /\ ps[i].start \in Nat /\ ps[i].end \in Nat /\ ps[last[k]].end \in Nat
        BY <1>1, <2>2, <2>4
      <4>4. w.start <= x /\ x < w.end
        BY <2>5, <4>1, <4>2, <4>3
      <4> QED BY <4>1, <4>4 DEF Held
    <3> QED BY <3>1, <3>2
  <2>7. PICK w \in ToSet(spans[k]) : w.start <= x /\ x < w.end
    BY <2>6 DEF Held
  <2>8. w \in ToSet(ch)
    BY <1>13, <2>7
  <2>9. PICK m \in 1..Len(ch) : w = ch[m]
    BY <1>16, <2>8, <1>11 DEF ToSet
  <2>10. out[m] \in ToSet(out) /\ out[m] = piece(w)
    BY <1>16, <2>9 DEF ToSet
  <2>11. piece(w).start = w.start /\ piece(w).end = w.end
    BY <1>14, <1>15, <2>8
  <2> QED BY <2>7, <2>10, <2>11 DEF Held
<1> QED BY <1>0, <1>18, <1>19, <1>20 DEF n, V

-----------------------------------------------------------------------------
(* Tables and code *)

\* From the start of one row or line to the end of it or a later one.
IsUnitPiece(block, H, size, p) ==
  /\ p \in PieceSet({block.kind}, {block.section})
  /\ p.parent = 0 /\ Fitting(p, size)
  /\ p.prefix = Prefix(block, p) /\ p.suffix = Suffix(block, p)
  /\ \E i, j \in 1..Len(H) : i <= j /\ p.start = H[i].start /\ p.end = H[j].end

Rows(H) == H \in Seq(Win) /\ InOrder(H, Follows) /\ \A i \in 1..Len(H) : H[i].start < H[i].end

\* Rows lie one behind the other.
LEMMA RowsLie ==
  ASSUME NEW H, Rows(H)
  PROVE  /\ Len(H) \in Nat /\ DOMAIN H = 1..Len(H)
         /\ \A i \in 1..Len(H) : /\ H[i] \in Win /\ H[i].start \in Nat /\ H[i].end \in Nat
                                 /\ H[i].start < H[i].end
         /\ \A i, j \in 1..Len(H) : i < j => H[i].end <= H[j].start
         /\ \A i, j \in 1..Len(H) : i <= j => H[i].start <= H[j].start /\ H[i].end <= H[j].end
<1>1. H \in Seq(Win) /\ Len(H) \in Nat /\ DOMAIN H = 1..Len(H)
  BY DEF Rows
<1>2. ASSUME NEW i \in 1..Len(H)
      PROVE  /\ H[i] \in Win /\ H[i].start \in Nat /\ H[i].end \in Nat
             /\ H[i].start < H[i].end
  <2>1. H[i] \in Win
    BY <1>1
  <2>2. H[i].start \in Nat /\ H[i].end \in Nat
    BY <2>1 DEF Win
  <2>3. H[i].start < H[i].end
    BY DEF Rows
  <2> QED BY <2>1, <2>2, <2>3
<1>3. ASSUME NEW i \in 1..Len(H), NEW j \in 1..Len(H), i < j PROVE H[i].end <= H[j].start
  <2>1. <<H[i], H[j]>> \in Follows
    BY <1>1, <1>3 DEF Rows, InOrder
  <2> QED BY <2>1 DEF Follows
<1>4. ASSUME NEW i \in 1..Len(H), NEW j \in 1..Len(H), i <= j
      PROVE  H[i].start <= H[j].start /\ H[i].end <= H[j].end
  <2>1. CASE i = j
    BY <1>2, <2>1
  <2>2. CASE i # j
    <3>1. H[i].end <= H[j].start
      BY <1>3, <1>4, <2>2
    <3> QED BY <1>2, <3>1
  <2> QED BY <2>1, <2>2
<1> QED BY <1>1, <1>2, <1>3, <1>4

MadeOfRows(block, H, size, s) ==
  /\ s \in Seq(PieceSet({block.kind}, {block.section}))
  /\ \A p \in ToSet(s) : IsUnitPiece(block, H, size, p)
  /\ \A m \in 1..Len(H) : \E p \in ToSet(s) : p.start <= H[m].start /\ H[m].end <= p.end

\* Rows are packed, each into a piece, in order.
LEMMA UnitsPacked ==
  ASSUME NEW H, Rows(H), NEW size \in Nat,
         NEW block, block.kind \in {"table", "code"}, block.title \in Nat, block.opening \in Nat,
         block.closing \in Nat
  PROVE  MadeOfRows(block, H, size, PackedUnits(block, H, size))
<1> DEFINE n == Len(H)
           upTo(i, k) == Window(H[i].start, H[k].end)
           whole(w) == Prefix(block, w) + Width(w) + Suffix(block, w)
           Fit(i) == {e \in i..n : \A k \in i + 1..e : whole(upTo(i, k)) <= size}
           last == [i \in 1..n |-> Packed(i, n, LAMBDA k : whole(upTo(i, k)) <= size)]
           piece(w, held) == Piece(w, block.kind, block.section, Prefix(block, w), Suffix(block, w), held)
           packed == [i \in 1..n |-> <<piece(upTo(i, last[i]), last[i] - i + 1)>>]
           next == [i \in 1..n |-> last[i] + 1]
           ch == Chain(1, n + 1, packed, next)
           V == PieceSet({block.kind}, {block.section})
<1>0. PackedUnits(block, H, size) = ch
  BY DEF PackedUnits
<1>1. /\ n \in Nat
      /\ \A i \in 1..n : /\ H[i] \in Win /\ H[i].start \in Nat /\ H[i].end \in Nat
                         /\ H[i].start < H[i].end
      /\ \A i, j \in 1..n : i < j => H[i].end <= H[j].start
      /\ \A i, j \in 1..n : i <= j => H[i].start <= H[j].start /\ H[i].end <= H[j].end
  BY RowsLie
<1> HIDE DEF n
<1>2. ASSUME NEW w \in Win PROVE Prefix(block, w) \in Nat /\ Suffix(block, w) \in Nat
  BY DEF Prefix, Suffix
<1>3. ASSUME NEW i \in 1..n, NEW k \in 1..n, i <= k
      PROVE  /\ upTo(i, k) \in Win /\ upTo(i, k).start = H[i].start /\ upTo(i, k).end = H[k].end
             /\ upTo(i, k).start < upTo(i, k).end
  <2>1. H[i].start \in Nat /\ H[k].end \in Nat /\ H[i].start < H[i].end /\ H[i].end \in Nat
        /\ H[i].end <= H[k].end
    BY <1>1, <1>3
  <2>2. upTo(i, k) \in Win /\ upTo(i, k).start = H[i].start /\ upTo(i, k).end = H[k].end
    BY <2>1, WindowFields
  <2> HIDE DEF upTo
  <2> QED BY <2>1, <2>2
<1> HIDE DEF upTo, whole
<1>4. ASSUME NEW i \in 1..n
      PROVE  last[i] \in i..n /\ (last[i] # i => whole(upTo(i, last[i])) <= size)
  <2>1. last[i] = Max(Fit(i))
    BY DEF Packed
  <2>2. Fit(i) \in SUBSET (i..n)
    OBVIOUS
  <2>3. i \in Fit(i)
    <3>1. i \in i..n /\ i + 1..i = {}
      BY <1>1
    <3> QED BY <3>1
  <2>4. Max(Fit(i)) \in Fit(i)
    <3> HIDE DEF Fit
    <3>1. i \in Int /\ n \in Int
      BY <1>1
    <3> QED BY <2>2, <2>3, <3>1, GreatestInRange
  <2>5. Max(Fit(i)) \in i..n /\ \A k \in i + 1..Max(Fit(i)) : whole(upTo(i, k)) <= size
    BY <2>4
  <2> HIDE DEF Fit, last
  <2>6. ASSUME last[i] # i PROVE whole(upTo(i, last[i])) <= size
    <3>1. last[i] \in i + 1..last[i]
      BY <2>1, <2>5, <2>6
    <3> QED BY <2>1, <2>5, <3>1
  <2> QED BY <2>1, <2>5, <2>6
<1>5. ASSUME NEW i \in 1..n
      PROVE  \E p \in V : /\ packed[i] \in Seq(V) /\ ToSet(packed[i]) = {p}
                          /\ p.start = H[i].start /\ p.end = H[last[i]].end
                          /\ IsUnitPiece(block, H, size, p)
  <2> DEFINE w == upTo(i, last[i])
             h == last[i] - i + 1
             p == piece(w, h)
  <2>1. packed[i] = <<p>>
    OBVIOUS
  <2>2. last[i] \in i..n /\ (last[i] # i => whole(w) <= size)
    BY <1>4
  <2> HIDE DEF last, packed
  <2>3. last[i] \in 1..n /\ i <= last[i]
    BY <2>2
  <2>4. w \in Win /\ w.start = H[i].start /\ w.end = H[last[i]].end /\ w.start < w.end
    BY <1>3, <2>3
  <2>5. h \in Nat /\ (last[i] = i => h = 1)
    BY <2>3
  <2> HIDE DEF w, h
  <2>6. Prefix(block, w) \in Nat /\ Suffix(block, w) \in Nat
    BY <1>2, <2>4
  <2>7. /\ p \in V /\ p.start = w.start /\ p.end = w.end /\ p.parent = 0 /\ p.kind = block.kind
        /\ p.prefix = Prefix(block, w) /\ p.suffix = Suffix(block, w) /\ p.units = h
    BY <2>4, <2>5, <2>6 DEF Piece, PieceSet, Win
  <2> HIDE DEF p, V
  <2>8. Prefix(block, p) = Prefix(block, w) /\ Suffix(block, p) = Suffix(block, w) /\ Width(p) = Width(w)
    BY <2>7 DEF Prefix, Suffix, Width
  <2>9. Fitting(p, size)
    <3>1. CASE last[i] = i
      <4>1. p.units <= 1
        BY <2>5, <2>7, <3>1
      <4> QED BY <2>7, <4>1 DEF Fitting
    <3>2. CASE last[i] # i
      <4>1. whole(w) <= size
        BY <2>2, <3>2
      <4> QED BY <2>7, <2>8, <4>1 DEF Fitting, whole
    <3> QED BY <3>1, <3>2
  <2>10. IsUnitPiece(block, H, size, p)
    BY <2>3, <2>4, <2>7, <2>8, <2>9 DEF IsUnitPiece, V, n
  <2>11. <<p>> \in Seq(V) /\ ToSet(<<p>>) = {p}
    BY <2>7, SingleList
  <2> QED BY <2>1, <2>4, <2>7, <2>10, <2>11
<1>6. ASSUME NEW i \in 1..n PROVE next[i] = last[i] + 1
  OBVIOUS
<1> HIDE DEF last, packed, next, V
<1>7. IsPath(1, n + 1, V, packed, next)
  <2>1. ASSUME NEW i \in 1..(n + 1) - 1 PROVE packed[i] \in Seq(V) /\ next[i] \in i + 1..n + 1
    <3>1. i \in 1..n
      BY <1>1
    <3>2. last[i] \in i..n
      BY <1>4, <3>1
    <3>3. packed[i] \in Seq(V)
      BY <1>5, <3>1
    <3>4. next[i] \in i + 1..n + 1
      BY <1>1, <1>6, <3>1, <3>2
    <3> QED BY <3>3, <3>4
  <2> QED BY <1>1, <2>1 DEF IsPath
<1>8. ch \in Seq(V) /\ \E P : Visits(ch, P, 1, n + 1, packed, next)
  <2>1. 1 \in Int /\ n + 1 \in Int
    BY <1>1
  <2> QED BY <1>7, <2>1, ChainFollows
<1>9. PICK P : Visits(ch, P, 1, n + 1, packed, next)
  BY <1>8
<1> HIDE DEF ch
<1>10. /\ P \in SUBSET (1..n) /\ ToSet(ch) = UNION {ToSet(packed[k]) : k \in P}
       /\ \A i \in 1..n : \E k \in P : k <= i /\ i < next[k]
  <2>1. (n + 1) - 1 = n
    BY <1>1
  <2> QED BY <1>9, <2>1 DEF Visits
<1>11. ASSUME NEW p \in ToSet(ch) PROVE IsUnitPiece(block, H, size, p)
  <2>1. PICK k \in P : p \in ToSet(packed[k])
    BY <1>10
  <2>2. k \in 1..n
    BY <1>10
  <2> QED BY <1>5, <2>1, <2>2
<1>12. ASSUME NEW m \in 1..n PROVE \E p \in ToSet(ch) : p.start <= H[m].start /\ H[m].end <= p.end
  <2>1. PICK k \in P : k <= m /\ m < next[k]
    BY <1>10
  <2>2. k \in 1..n
    BY <1>10
  <2>3. last[k] \in k..n /\ next[k] = last[k] + 1
    BY <1>4, <1>6, <2>2
  <2>4. m <= last[k] /\ last[k] \in 1..n
    BY <1>1, <2>1, <2>2, <2>3
  <2>5. PICK p \in V : ToSet(packed[k]) = {p} /\ p.start = H[k].start /\ p.end = H[last[k]].end
    BY <1>5, <2>2
  <2>6. p \in ToSet(ch)
    BY <1>10, <2>5
  <2>7. H[k].start <= H[m].start /\ H[m].end <= H[last[k]].end
    BY <1>1, <2>1, <2>2, <2>4
  <2> QED BY <2>5, <2>6, <2>7
<1> QED BY <1>0, <1>8, <1>11, <1>12 DEF MadeOfRows, n, V

Over(w, b) == w.start < b.end /\ b.start < w.end
Inside(u, w) == w.start <= u.start /\ u.end <= w.end
HasRow(b, w) == \E u \in ToSet(b.units) : Inside(u, w)

\* A window cuts no row and no line of the block, and holds one.
GoodUnits(c, b, w) ==
  /\ HasRow(b, w)
  /\ \A x \in Ink(c) : InBlock(x, b) /\ InBlock(x, w) =>
       \/ \E u \in ToSet(b.units) : Inside(u, w) /\ InBlock(x, u)
       \/ b.kind = "table" /\ w.start <= b.start /\ \A u \in ToSet(b.units) : x < u.start

\* The rows or lines in w, the first with the header if w has it.
HeadedUnits(c, b, w, H) ==
  /\ Rows(H) /\ Len(H) >= 1
  /\ \A m \in 1..Len(H) : /\ Inside(H[m], b) /\ Inside(H[m], w)
                          /\ \E u \in ToSet(b.units) : Inside(u, H[m]) /\ u.end = H[m].end
  /\ \A x \in Ink(c) : InBlock(x, b) /\ InBlock(x, w) =>
       \E m \in 1..Len(H) :
         /\ InBlock(x, H[m])
         /\ \/ \E u \in ToSet(b.units) : Inside(u, H[m]) /\ InBlock(x, u)
            \/ b.kind = "table" /\ H[m].start <= b.start /\ \A u \in ToSet(b.units) : x < u.start

WholeUnit(u, w) == IF u.start >= w.start /\ u.end <= w.end THEN <<u>> ELSE <<>>
UnitsIn(b, w) == FlattenSeq([i \in DOMAIN b.units |-> WholeUnit(b.units[i], w)])
Headed(b, w) ==
  IF b.kind = "table" /\ UnitsIn(b, w) # <<>> /\ w.start <= b.start
  THEN [UnitsIn(b, w) EXCEPT ![1].start = b.start] ELSE UnitsIn(b, w)

\* The units of a block in a window.
LEMMA UnitsInside ==
  ASSUME NEW c, NEW b, FitUnits(c, b), NEW w
  PROVE  /\ Rows(UnitsIn(b, w))
         /\ ToSet(UnitsIn(b, w)) = {u \in ToSet(b.units) : Inside(u, w)}
         /\ \A u \in ToSet(b.units) : u \in Win /\ Lies(u, b.start, b.end)
<1> DEFINE X == b.units
           ss == [i \in DOMAIN X |-> WholeUnit(X[i], w)]
           U == FlattenSeq(ss)
<1>1. UnitsIn(b, w) = U
  BY DEF UnitsIn
<1>2. X \in Seq(Win) /\ InOrder(X, Follows) /\ \A u \in ToSet(X) : Lies(u, b.start, b.end)
  BY DEF FitUnits
<1>3. Len(X) \in Nat /\ DOMAIN X = 1..Len(X) /\ \A i \in 1..Len(X) : X[i] \in Win /\ X[i] \in ToSet(X)
  BY <1>2 DEF ToSet
<1>4. \A u \in ToSet(X) : u \in Win /\ \E i \in 1..Len(X) : u = X[i]
  BY <1>2, <1>3, MemberOf DEF ToSet
<1> HIDE DEF X
<1>5. ASSUME NEW i \in 1..Len(X)
      PROVE  /\ ss[i] \in Seq(Win) /\ InOrder(ss[i], Follows)
             /\ ToSet(ss[i]) = IF Inside(X[i], w) THEN {X[i]} ELSE {}
  <2>1. ss[i] = WholeUnit(X[i], w)
    BY <1>3
  <2> HIDE DEF ss
  <2>2. CASE Inside(X[i], w)
    <3>1. ss[i] = <<X[i]>>
      BY <2>1, <2>2 DEF WholeUnit, Inside
    <3> QED BY <1>3, <2>2, <3>1, SingleList
  <2>3. CASE ~Inside(X[i], w)
    <3>1. ss[i] = <<>>
      BY <2>1, <2>3 DEF WholeUnit, Inside
    <3> QED BY <2>3, <3>1 DEF InOrder, ToSet
  <2> QED BY <2>2, <2>3
<1>6. ss \in Seq(Seq(Win)) /\ DOMAIN ss = 1..Len(X)
  <2>1. ss = [i \in 1..Len(X) |-> ss[i]] /\ DOMAIN ss = 1..Len(X)
    BY <1>3
  <2> HIDE DEF ss
  <2> QED BY <1>3, <1>5, <2>1, SeqByDomain
<1> HIDE DEF ss
<1>7. ASSUME NEW i \in DOMAIN ss, NEW j \in DOMAIN ss, i < j, NEW x \in ToSet(ss[i]), NEW y \in ToSet(ss[j])
      PROVE  <<x, y>> \in Follows
  <2>1. i \in 1..Len(X) /\ j \in 1..Len(X)
    BY <1>6
  <2>2. x = X[i] /\ y = X[j]
    BY <1>5, <2>1
  <2> QED BY <1>2, <1>3, <1>7, <2>1, <2>2 DEF InOrder
<1>8. \A i \in DOMAIN ss : InOrder(ss[i], Follows)
  BY <1>5, <1>6
<1>9. /\ U \in Seq(Win) /\ InOrder(U, Follows)
      /\ ToSet(U) = UNION {ToSet(ss[i]) : i \in DOMAIN ss}
  BY <1>6, <1>7, <1>8, FlatInOrder
<1> HIDE DEF U
<1>10. ToSet(U) = {u \in ToSet(X) : Inside(u, w)}
  <2>1. ASSUME NEW u \in ToSet(U) PROVE u \in ToSet(X) /\ Inside(u, w)
    <3>1. PICK i \in 1..Len(X) : u \in ToSet(ss[i])
      BY <1>6, <1>9
    <3> QED BY <1>3, <1>5, <3>1
  <2>2. ASSUME NEW u \in ToSet(X), Inside(u, w) PROVE u \in ToSet(U)
    <3>1. PICK i \in 1..Len(X) : u = X[i]
      BY <1>4
    <3>2. u \in ToSet(ss[i])
      BY <1>5, <2>2, <3>1
    <3> QED BY <1>6, <1>9, <3>2
  <2> QED BY <2>1, <2>2
<1>11. \A i \in 1..Len(U) : U[i].start < U[i].end
  <2> SUFFICES ASSUME NEW i \in 1..Len(U) PROVE U[i].start < U[i].end
    OBVIOUS
  <2>1. U[i] \in ToSet(U)
    BY <1>9 DEF ToSet
  <2>2. Lies(U[i], b.start, b.end)
    BY <1>2, <1>10, <2>1
  <2> QED BY <2>2 DEF Lies
<1> QED BY <1>1, <1>2, <1>4, <1>9, <1>10, <1>11 DEF Rows, X

\* They hold the ink that block and window share, the first with the header.
LEMMA HeadedFits ==
  ASSUME NEW c \in Text, NEW b, IsBlock(c, b), b.kind \in {"table", "code"},
         NEW w, w.start \in Nat, w.end \in Nat, GoodUnits(c, b, w)
  PROVE  HeadedUnits(c, b, w, Headed(b, w))
<1> DEFINE U == UnitsIn(b, w)
           H == Headed(b, w)
           n == Len(U)
<1>1. FitUnits(c, b) /\ b.start \in Nat /\ b.end \in Nat
  BY DEF IsBlock
<1>2. /\ Rows(U) /\ ToSet(U) = {u \in ToSet(b.units) : Inside(u, w)}
      /\ \A u \in ToSet(b.units) : u \in Win /\ Lies(u, b.start, b.end)
  BY <1>1, UnitsInside
<1> HIDE DEF U
<1>3. /\ n \in Nat /\ DOMAIN U = 1..n
      /\ \A i \in 1..n : U[i] \in Win /\ U[i].start \in Nat /\ U[i].end \in Nat /\ U[i].start < U[i].end
      /\ \A i, j \in 1..n : i < j => U[i].end <= U[j].start
  BY <1>2, RowsLie
<1>4. \A i \in 1..n : U[i] \in ToSet(U)
  BY <1>3 DEF ToSet
<1>5. ASSUME NEW u \in ToSet(U) PROVE \E i \in 1..n : u = U[i]
  BY <1>3 DEF ToSet
<1>6. n >= 1 /\ U # <<>>
  <2>1. PICK u \in ToSet(b.units) : Inside(u, w)
    BY DEF GoodUnits, HasRow
  <2>2. PICK i \in 1..n : u = U[i]
    BY <1>2, <1>5, <2>1
  <2>3. n >= 1
    BY <1>3, <2>2
  <2>4. U # <<>>
    <3> SUFFICES ASSUME U = <<>> PROVE FALSE
      OBVIOUS
    <3>1. n = 0
      OBVIOUS
    <3> QED BY <2>3, <3>1
  <2> QED BY <2>3, <2>4
<1>7. ASSUME NEW i \in 1..n
      PROVE  Inside(U[i], w) /\ U[i] \in ToSet(b.units) /\ Inside(U[i], b)
  <2>1. Inside(U[i], w) /\ U[i] \in ToSet(b.units) /\ Lies(U[i], b.start, b.end)
    BY <1>2, <1>4
  <2> QED BY <2>1 DEF Lies, Inside
<1> DEFINE head == b.kind = "table" /\ w.start <= b.start
<1>8. /\ DOMAIN H = 1..n /\ H = [i \in 1..n |-> H[i]]
      /\ \A i \in 1..n : IF head /\ i = 1 THEN H[i] = [U[1] EXCEPT !.start = b.start] ELSE H[i] = U[i]
  <2>1. CASE head
    <3>1. H = [U EXCEPT ![1].start = b.start]
      BY <1>6, <2>1 DEF Headed, U
    <3> QED BY <1>3, <1>6, <2>1, <3>1
  <2>2. CASE ~head
    <3>1. H = U
      BY <2>2 DEF Headed, U
    <3>2. U = [i \in 1..n |-> U[i]]
      BY <1>2, <1>3 DEF Rows
    <3> QED BY <1>3, <2>2, <3>1, <3>2
  <2> QED BY <2>1, <2>2
<1> HIDE DEF H, n
<1>9. ASSUME NEW i \in 1..n
      PROVE  /\ H[i] \in Win /\ H[i].start \in Nat /\ H[i].end \in Nat /\ H[i].end = U[i].end
             /\ H[i].start = IF head /\ i = 1 THEN b.start ELSE U[i].start
             /\ H[i].start <= U[i].start
  <2>1. CASE head /\ i = 1
    <3>1. H[i] = [U[1] EXCEPT !.start = b.start]
      BY <1>8, <2>1
    <3>2. H[i].start = b.start /\ H[i].end = U[1].end /\ H[i] \in Win
      BY <1>1, <1>3, <3>1 DEF Win
    <3>3. b.start <= U[i].start
      BY <1>7 DEF Inside
    <3> QED BY <1>1, <1>3, <2>1, <3>2, <3>3
  <2>2. CASE ~(head /\ i = 1)
    <3>1. H[i] = U[i]
      BY <1>8, <2>2
    <3> QED BY <1>3, <2>2, <3>1
  <2> QED BY <2>1, <2>2
<1>10. H \in Seq(Win) /\ Len(H) = n
  <2>1. H \in Seq(Win)
    BY <1>3, <1>8, <1>9, SeqByDomain
  <2> QED BY <1>3, <1>8, <2>1
<1>11. Rows(H)
  <2>1. ASSUME NEW i \in 1..n, NEW j \in 1..n, i < j PROVE <<H[i], H[j]>> \in Follows
    <3>1. U[i].end <= U[j].start /\ j # 1
      BY <1>3, <2>1
    <3>2. H[i].end = U[i].end /\ H[j].start = U[j].start
      BY <1>9, <3>1
    <3> QED BY <1>9, <3>1, <3>2 DEF Follows
  <2>2. InOrder(H, Follows)
    BY <1>8, <2>1 DEF InOrder
  <2>3. ASSUME NEW i \in 1..n PROVE H[i].start < H[i].end
    BY <1>3, <1>9
  <2> QED BY <1>10, <2>2, <2>3 DEF Rows
<1>12. ASSUME NEW m \in 1..n
       PROVE  /\ Inside(H[m], b) /\ Inside(H[m], w)
              /\ Inside(U[m], H[m]) /\ U[m].end = H[m].end /\ U[m] \in ToSet(b.units)
  <2>1. /\ b.start <= U[m].start /\ U[m].end <= b.end /\ w.start <= U[m].start /\ U[m].end <= w.end
        /\ U[m] \in ToSet(b.units)
    BY <1>7 DEF Inside
  <2>2. b.start <= H[m].start /\ w.start <= H[m].start
    <3>1. CASE head /\ m = 1
      BY <1>1, <1>9, <3>1
    <3>2. CASE ~(head /\ m = 1)
      BY <1>9, <2>1, <3>2
    <3> QED BY <3>1, <3>2
  <2>3. H[m].end = U[m].end /\ H[m].start <= U[m].start /\ U[m].end <= U[m].end
    BY <1>3, <1>9
  <2> QED BY <2>1, <2>2, <2>3 DEF Inside
<1>13. ASSUME NEW x \in Ink(c), InBlock(x, b), InBlock(x, w)
       PROVE  \E m \in 1..n :
                /\ InBlock(x, H[m])
                /\ \/ \E u \in ToSet(b.units) : Inside(u, H[m]) /\ InBlock(x, u)
                   \/ b.kind = "table" /\ H[m].start <= b.start /\ \A u \in ToSet(b.units) : x < u.start
  <2>1. x \in Nat
    BY InkIsText
  <2>2. CASE \E u \in ToSet(b.units) : Inside(u, w) /\ InBlock(x, u)
    <3>1. PICK u \in ToSet(b.units) : Inside(u, w) /\ InBlock(x, u)
      BY <2>2
    <3>2. PICK m \in 1..n : u = U[m]
      BY <1>2, <1>5, <3>1
    <3>3. U[m].start <= x /\ x < U[m].end
      BY <3>1, <3>2 DEF InBlock
    <3>4. H[m].start <= x /\ x < H[m].end
      BY <1>3, <1>9, <2>1, <3>3
    <3> QED BY <1>12, <3>1, <3>2, <3>4 DEF InBlock
  <2>3. CASE b.kind = "table" /\ w.start <= b.start /\ \A u \in ToSet(b.units) : x < u.start
    <3>1. 1 \in 1..n
      BY <1>3, <1>6 DEF n
    <3>2. H[1].start = b.start
      BY <1>9, <2>3, <3>1
    <3>3. x < U[1].start
      BY <1>7, <2>3, <3>1
    <3>4. x < H[1].end
      BY <1>3, <1>9, <2>1, <3>1, <3>3
    <3>5. InBlock(x, H[1])
      BY <1>13, <3>2, <3>4 DEF InBlock
    <3>6. H[1].start <= b.start
      BY <1>1, <3>2
    <3> QED BY <2>3, <3>1, <3>5, <3>6
  <2> QED BY <1>13, <2>2, <2>3 DEF GoodUnits
<1> QED BY <1>6, <1>10, <1>11, <1>12, <1>13 DEF HeadedUnits, H

IsProse(b) == b.kind \in {"paragraph", "heading"}
Shown(c, p) == (\E x \in Ink(c) : InBlock(x, p)) \/ p.prefix + p.suffix > 0
HasInk(c, b, w) == \E x \in Ink(c) : InBlock(x, b) /\ InBlock(x, w)

\* A window can be cut again where it lies over the block.
GoodBlock(c, b, w) ==
  IF IsProse(b) \/ b.units = <<>> THEN HasInk(c, b, w) ELSE GoodUnits(c, b, w)

IsBlockPiece(c, b, w, size, p) ==
  /\ p \in PieceSet({b.kind}, {b.section}) /\ p.parent = 0 /\ Fitting(p, size)
  /\ Inside(p, b) /\ Inside(p, w) /\ p.start < p.end
  /\ Shown(c, p) /\ GoodBlock(c, b, p)

MadeOfBlock(c, b, w, size, s) ==
  /\ s \in Seq(PieceSet({b.kind}, {b.section})) /\ ToSet(s) # {}
  /\ \A p \in ToSet(s) : IsBlockPiece(c, b, w, size, p)
  /\ \A x \in Ink(c) : InBlock(x, b) /\ InBlock(x, w) => Held(ToSet(s), x)

\* The numbers of a block.
LEMMA BlockFields ==
  ASSUME NEW c, NEW b, IsBlock(c, b)
  PROVE  /\ b.start \in Nat /\ b.end \in Nat /\ b.start < b.end
         /\ b.title \in Nat /\ b.opening \in Nat /\ b.opening > 0 /\ b.closing \in Nat
BY DEF IsBlock

\* A piece of rows is a piece of its block.
LEMMA UnitPieceFits ==
  ASSUME NEW c \in Text, NEW b, IsBlock(c, b), b.kind \in {"table", "code"}, b.units # <<>>,
         NEW w, w.start \in Nat, w.end \in Nat, NEW size \in Nat,
         NEW H, HeadedUnits(c, b, w, H), NEW p, IsUnitPiece(b, H, size, p)
  PROVE  IsBlockPiece(c, b, w, size, p)
<1> DEFINE n == Len(H)
<1>1. Rows(H) /\ n >= 1
  BY DEF HeadedUnits
<1>2. /\ n \in Nat
      /\ \A i \in 1..n : H[i].start \in Nat /\ H[i].end \in Nat /\ H[i].start < H[i].end
      /\ \A i, j \in 1..n : i < j => H[i].end <= H[j].start
      /\ \A i, j \in 1..n : i <= j => H[i].start <= H[j].start /\ H[i].end <= H[j].end
  BY <1>1, RowsLie
<1>3. PICK i \in 1..n, j \in 1..n : i <= j /\ p.start = H[i].start /\ p.end = H[j].end
  BY DEF IsUnitPiece
<1>4. /\ b.start \in Nat /\ b.end \in Nat /\ b.start < b.end
      /\ b.title \in Nat /\ b.opening \in Nat /\ b.opening > 0 /\ b.closing \in Nat
  BY BlockFields
<1>5. \A m \in 1..n : /\ Inside(H[m], b) /\ Inside(H[m], w)
                      /\ \E u \in ToSet(b.units) : Inside(u, H[m]) /\ u.end = H[m].end
  BY DEF HeadedUnits
<1>6. H[i].start <= H[j].start /\ H[i].end <= H[j].end
  BY <1>2, <1>3
<1>7. /\ p.start \in Nat /\ p.end \in Nat /\ p.start < p.end
      /\ H[i].end <= p.end
  BY <1>2, <1>3, <1>6
<1>8. Inside(p, b) /\ Inside(p, w)
  <2>1. Inside(H[i], b) /\ Inside(H[j], b) /\ Inside(H[i], w) /\ Inside(H[j], w)
    BY <1>5
  <2> QED BY <1>3, <2>1 DEF Inside
<1>9. HasRow(b, p)
  <2>1. PICK u \in ToSet(b.units) : Inside(u, H[i]) /\ u.end = H[i].end
    BY <1>5
  <2>2. Inside(u, p)
    BY <1>3, <1>7, <2>1 DEF Inside
  <2> QED BY <2>2 DEF HasRow
<1>10. ASSUME NEW m \in 1..n, i <= m, m <= j, NEW u \in ToSet(b.units), Inside(u, H[m]) PROVE Inside(u, p)
  <2>1. H[i].start <= H[m].start /\ H[m].end <= H[j].end
    BY <1>2, <1>10
  <2>2. FitUnits(c, b)
    BY DEF IsBlock
  <2>3. u \in Win
    BY <2>2, UnitsInside
  <2>4. u.start \in Nat /\ u.end \in Nat
    BY <2>3 DEF Win
  <2>5. H[m].start <= u.start /\ u.end <= H[m].end
    BY <1>10 DEF Inside
  <2>6. p.start <= u.start /\ u.end <= p.end
    <3>1. /\ H[i].start \in Nat /\ H[j].end \in Nat
          /\ H[m].start \in Nat /\ H[m].end \in Nat
      BY <1>2
    <3>2. H[i].start <= u.start
      BY <2>1, <2>4, <2>5, <3>1, LeLe
    <3>3. u.end <= H[j].end
      BY <2>1, <2>4, <2>5, <3>1, LeLe
    <3> QED BY <1>3, <3>2, <3>3
  <2> QED BY <2>6 DEF Inside
<1>11. ASSUME NEW x \in Ink(c), InBlock(x, b), InBlock(x, p)
       PROVE  \/ \E u \in ToSet(b.units) : Inside(u, p) /\ InBlock(x, u)
              \/ b.kind = "table" /\ p.start <= b.start /\ \A u \in ToSet(b.units) : x < u.start
  <2>1. x \in Nat /\ p.start <= x /\ x < p.end
    BY <1>11, InkIsText DEF InBlock
  <2>2. InBlock(x, w)
    BY <1>7, <1>8, <2>1 DEF InBlock, Inside
  <2>3. PICK m \in 1..n :
          /\ InBlock(x, H[m])
          /\ \/ \E u \in ToSet(b.units) : Inside(u, H[m]) /\ InBlock(x, u)
             \/ b.kind = "table" /\ H[m].start <= b.start /\ \A u \in ToSet(b.units) : x < u.start
    BY <1>11, <2>2 DEF HeadedUnits
  <2>4. H[m].start <= x /\ x < H[m].end
    BY <2>3 DEF InBlock
  <2>5. i <= m
    <3> SUFFICES ASSUME m < i PROVE FALSE
      BY <1>2
    <3>1. H[m].end <= H[i].start
      BY <1>2
    <3> QED BY <1>2, <1>3, <2>1, <2>4, <3>1
  <2>6. m <= j
    <3> SUFFICES ASSUME j < m PROVE FALSE
      BY <1>2
    <3>1. H[j].end <= H[m].start
      BY <1>2
    <3> QED BY <1>2, <1>3, <2>1, <2>4, <3>1
  <2>7. H[i].start <= H[m].start
    BY <1>2, <2>5
  <2>8. CASE \E u \in ToSet(b.units) : Inside(u, H[m]) /\ InBlock(x, u)
    BY <1>10, <2>5, <2>6, <2>8
  <2>9. CASE b.kind = "table" /\ H[m].start <= b.start /\ \A u \in ToSet(b.units) : x < u.start
    <3>1. H[m].start <= b.start
      BY <2>9
    <3>2. p.start <= b.start
      <4>1. p.start = H[i].start /\ H[i].start \in Nat /\ H[m].start \in Nat
        BY <1>2, <1>3
      <4>2. H[i].start <= H[m].start /\ b.start \in Nat
        BY <1>4, <2>7
      <4> QED BY <3>1, <4>1, <4>2
    <3> QED BY <2>9, <3>2
  <2> QED BY <2>3, <2>8, <2>9
<1>12. GoodBlock(c, b, p)
  <2>1. ~IsProse(b)
    BY DEF IsProse
  <2> QED BY <1>9, <1>11, <2>1 DEF GoodBlock, GoodUnits
<1>13. Shown(c, p)
  <2>1. CASE p.start = b.start
    <3>1. PICK x \in Ink(c) : InBlock(x, b) /\ \A u \in ToSet(b.units) : x < u.end
      BY DEF IsBlock, FitUnits
    <3>2. PICK u \in ToSet(b.units) : u.end = H[j].end
      BY <1>5
    <3>3. InBlock(x, p)
      BY <1>3, <2>1, <3>1, <3>2 DEF InBlock
    <3> QED BY <3>3 DEF Shown
  <2>2. CASE p.start # b.start
    <3>1. p.start > b.start
      BY <1>4, <1>7, <1>8, <2>2 DEF Inside
    <3>2. p.prefix = b.title + b.opening
      BY <3>1 DEF IsUnitPiece, Prefix
    <3>3. p.suffix \in Nat
      BY DEF IsUnitPiece, PieceSet
    <3>4. p.prefix + p.suffix > 0
      BY <1>4, <3>2, <3>3
    <3> QED BY <3>4 DEF Shown
  <2> QED BY <2>1, <2>2
<1> QED BY <1>7, <1>8, <1>12, <1>13 DEF IsUnitPiece, IsBlockPiece

\* A window that holds the clip of block and bounds.
LEMMA ClipFields ==
  ASSUME NEW w, NEW b, w.start \in Nat, w.end \in Nat, b.start \in Nat, b.end \in Nat
  PROVE  LET v == Window(Max({w.start, b.start}), Min({w.end, b.end}))
         IN /\ v \in Win /\ v.start \in Nat /\ v.end \in Nat
            /\ v.start = (IF w.start >= b.start THEN w.start ELSE b.start)
            /\ v.end = (IF w.end <= b.end THEN w.end ELSE b.end)
<1> DEFINE f == Max({w.start, b.start})
           t == Min({w.end, b.end})
<1>1. f = IF w.start >= b.start THEN w.start ELSE b.start
  BY MaxOfTwo
<1>2. t = IF w.end <= b.end THEN w.end ELSE b.end
  BY MinOfTwo
<1> HIDE DEF f, t
<1>3. f \in Nat /\ t \in Nat
  BY <1>1, <1>2
<1>4. Window(f, t) \in Win /\ Window(f, t).start = f /\ Window(f, t).end = t
  BY <1>3, WindowFields
<1> QED BY <1>1, <1>2, <1>3, <1>4 DEF f, t

\* The larger start and the smaller end bound what block and window share.
LEMMA ClipLies ==
  ASSUME NEW c \in Text, NEW w, NEW b, w.start \in Nat, w.end \in Nat, b.start \in Nat, b.end \in Nat,
         NEW v, v.start = (IF w.start >= b.start THEN w.start ELSE b.start),
         v.end = (IF w.end <= b.end THEN w.end ELSE b.end)
  PROVE  /\ Inside(v, w) /\ Inside(v, b)
         /\ \A x \in Ink(c) : InBlock(x, v) <=> InBlock(x, b) /\ InBlock(x, w)
<1>1. Inside(v, w) /\ Inside(v, b)
  BY DEF Inside
<1>2. ASSUME NEW x \in Ink(c) PROVE InBlock(x, v) <=> InBlock(x, b) /\ InBlock(x, w)
  <2>1. x \in Nat
    BY InkIsText
  <2> QED BY <2>1 DEF InBlock
<1> QED BY <1>1, <1>2

\* A table without rows is one piece.
LEMMA BareTable ==
  ASSUME NEW c \in Text, NEW b, IsBlock(c, b), b.kind = "table", b.units = <<>>,
         NEW w, w.start \in Nat, w.end \in Nat, GoodBlock(c, b, w), NEW size \in Nat
  PROVE  MadeOfBlock(c, b, w, size, UnitPieces(b, size, w))
<1> DEFINE v == Window(Max({w.start, b.start}), Min({w.end, b.end}))
           p == Piece(v, "table", b.section, b.title, 0, 0)
           V == PieceSet({b.kind}, {b.section})
<1>1. UnitPieces(b, size, w) = <<p>>
  BY DEF UnitPieces
<1>2. b.start \in Nat /\ b.end \in Nat /\ b.title \in Nat
  BY BlockFields
<1>3. /\ v \in Win /\ v.start \in Nat /\ v.end \in Nat
      /\ v.start = (IF w.start >= b.start THEN w.start ELSE b.start)
      /\ v.end = (IF w.end <= b.end THEN w.end ELSE b.end)
  BY <1>2, ClipFields
<1> HIDE DEF v
<1>4. /\ Inside(v, w) /\ Inside(v, b)
      /\ \A x \in Ink(c) : InBlock(x, v) <=> InBlock(x, b) /\ InBlock(x, w)
  BY <1>2, <1>3, ClipLies
<1>5. PICK x \in Ink(c) : InBlock(x, b) /\ InBlock(x, w)
  BY DEF GoodBlock, HasInk
<1>6. x \in Nat /\ v.start <= x /\ x < v.end
  <2>1. InBlock(x, v) /\ x \in Nat
    BY <1>4, <1>5, InkIsText
  <2> QED BY <2>1 DEF InBlock
<1>7. v.start < v.end
  BY <1>3, <1>6
<1>8. /\ p \in V /\ p.start = v.start /\ p.end = v.end /\ p.parent = 0 /\ p.kind = "table" /\ p.units = 0
  BY <1>2, <1>3 DEF Piece, PieceSet
<1> HIDE DEF p, V
<1>9. Inside(p, w) /\ Inside(p, b) /\ p.start < p.end
  BY <1>4, <1>7, <1>8 DEF Inside
<1>10. Fitting(p, size)
  <2>1. p.units <= 1
    BY <1>8
  <2> QED BY <1>8, <2>1 DEF Fitting
<1>11. InBlock(x, p)
  BY <1>6, <1>8 DEF InBlock
<1>12. Shown(c, p) /\ GoodBlock(c, b, p)
  BY <1>5, <1>11 DEF Shown, GoodBlock, HasInk
<1>13. IsBlockPiece(c, b, w, size, p)
  BY <1>8, <1>9, <1>10, <1>12 DEF IsBlockPiece, V
<1>14. <<p>> \in Seq(V) /\ ToSet(<<p>>) = {p}
  BY <1>8, SingleList
<1>15. ASSUME NEW y \in Ink(c), InBlock(y, b), InBlock(y, w) PROVE Held({p}, y)
  <2>1. InBlock(y, v)
    BY <1>4, <1>15
  <2> QED BY <1>8, <2>1 DEF Held, InBlock
<1> QED BY <1>1, <1>13, <1>14, <1>15 DEF MadeOfBlock, V

\* A table or code that lies in a good window is cut without loss.
LEMMA UnitsMade ==
  ASSUME NEW c \in Text, NEW b, IsBlock(c, b), ~IsProse(b),
         NEW w, w.start \in Nat, w.end \in Nat, GoodBlock(c, b, w), NEW size \in Nat
  PROVE  MadeOfBlock(c, b, w, size, UnitPieces(b, size, w))
<1>1. b.kind \in {"table", "code"} /\ (b.kind = "code" => b.units # <<>>)
  BY DEF IsBlock, IsProse, FitUnits
<1>2. CASE b.units = <<>>
  BY <1>1, <1>2, BareTable
<1>3. CASE b.units # <<>>
  <2> DEFINE H == Headed(b, w)
             s == PackedUnits(b, H, size)
  <2>1. UnitPieces(b, size, w) = s
    BY <1>3 DEF UnitPieces, Headed, UnitsIn, WholeUnit
  <2>2. HeadedUnits(c, b, w, H)
    <3>1. GoodUnits(c, b, w)
      BY <1>3 DEF GoodBlock
    <3> QED BY <1>1, <3>1, HeadedFits
  <2> HIDE DEF H
  <2>3. Rows(H) /\ Len(H) >= 1
    BY <2>2 DEF HeadedUnits
  <2>4. /\ s \in Seq(PieceSet({b.kind}, {b.section}))
        /\ \A p \in ToSet(s) : IsUnitPiece(b, H, size, p)
        /\ \A m \in 1..Len(H) : \E p \in ToSet(s) : p.start <= H[m].start /\ H[m].end <= p.end
    <3>1. b.title \in Nat /\ b.opening \in Nat /\ b.closing \in Nat
      BY BlockFields
    <3>2. b.kind \in {"table", "code"} /\ Rows(H)
      BY <1>1, <2>3
    <3>3. MadeOfRows(b, H, size, PackedUnits(b, H, size))
      BY <3>1, <3>2, UnitsPacked
    <3> QED BY <3>3 DEF MadeOfRows
  <2> HIDE DEF s
  <2>5. \A p \in ToSet(s) : IsBlockPiece(c, b, w, size, p)
    BY <1>1, <1>3, <2>2, <2>4, UnitPieceFits
  <2>6. ASSUME NEW x \in Ink(c), InBlock(x, b), InBlock(x, w) PROVE Held(ToSet(s), x)
    <3>1. PICK m \in 1..Len(H) : InBlock(x, H[m])
      BY <2>2, <2>6 DEF HeadedUnits
    <3>2. PICK p \in ToSet(s) : p.start <= H[m].start /\ H[m].end <= p.end
      BY <2>4
    <3>3. H[m].start \in Nat /\ H[m].end \in Nat
      BY <2>3, RowsLie
    <3>4. p.start \in Nat /\ p.end \in Nat
      <4>1. p \in PieceSet({b.kind}, {b.section})
        BY <2>4 DEF IsUnitPiece
      <4> QED BY <4>1 DEF PieceSet
    <3>5. x \in Nat /\ H[m].start <= x /\ x < H[m].end
      BY <3>1, InkIsText DEF InBlock
    <3>6. p.start <= x /\ x < p.end
      BY <3>2, <3>3, <3>4, <3>5
    <3> QED BY <3>6 DEF Held
  <2>7. ToSet(s) # {}
    <3>1. 1 \in 1..Len(H)
      BY <2>3, RowsLie
    <3> QED BY <2>4, <3>1
  <2> QED BY <2>1, <2>4, <2>5, <2>6, <2>7 DEF MadeOfBlock
<1> QED BY <1>2, <1>3

-----------------------------------------------------------------------------
(* A part of a structured text *)

\* A window that can be cut again.
GoodBounds(c, bs, w) ==
  /\ w.start \in Nat /\ w.end \in Nat /\ w.start < w.end /\ w.end <= Len(c)
  /\ \E k \in 1..Len(bs) : Over(w, bs[k])
  /\ \A k \in 1..Len(bs) : Over(w, bs[k]) => GoodBlock(c, bs[k], w)

Made(bs) == PieceSet({bs[k].kind : k \in 1..Len(bs)}, {bs[k].section : k \in 1..Len(bs)})

PieceFits(c, bs, w, size, p) ==
  /\ p \in Made(bs) /\ p.parent = 0 /\ Fitting(p, size)
  /\ Inside(p, w) /\ Shown(c, p) /\ GoodBounds(c, bs, p)
  /\ \A k \in 1..Len(bs) : Over(p, bs[k]) => bs[k].section = p.section

Clip(w, b) == Window(Max({w.start, b.start}), Min({w.end, b.end}))
Clips(bs, w, k, l) == [i \in 1..l - k + 1 |-> Clip(w, bs[k + i - 1])]

\* What block and window share.
LEMMA ClipFacts ==
  ASSUME NEW c \in Text, NEW w, NEW b, w.start \in Nat, w.end \in Nat, b.start \in Nat, b.end \in Nat,
         w.start < w.end, b.start < b.end
  PROVE  /\ Clip(w, b) \in Win /\ Inside(Clip(w, b), w) /\ Inside(Clip(w, b), b)
         /\ Width(Clip(w, b)) > 0 <=> Over(w, b)
         /\ Over(w, b) => Clip(w, b).start < Clip(w, b).end
         /\ \A x \in Ink(c) : InBlock(x, Clip(w, b)) <=> InBlock(x, b) /\ InBlock(x, w)
<1> DEFINE v == Clip(w, b)
<1>1. /\ v \in Win /\ v.start \in Nat /\ v.end \in Nat
      /\ v.start = (IF w.start >= b.start THEN w.start ELSE b.start)
      /\ v.end = (IF w.end <= b.end THEN w.end ELSE b.end)
  BY ClipFields DEF Clip
<1> HIDE DEF v
<1>2. /\ Inside(v, w) /\ Inside(v, b)
      /\ \A x \in Ink(c) : InBlock(x, v) <=> InBlock(x, b) /\ InBlock(x, w)
  BY <1>1, ClipLies
<1>3. Over(w, b) <=> v.start < v.end
  BY <1>1 DEF Over
<1>4. Width(v) > 0 <=> v.start < v.end
  BY <1>1 DEF Width
<1> QED BY <1>1, <1>2, <1>3, <1>4 DEF v

\* Blocks lie one behind the other.
LEMMA BlocksLie ==
  ASSUME NEW c, NEW bs, BlocksFit(c, bs)
  PROVE  /\ Len(bs) \in Nat
         /\ \A k \in 1..Len(bs) : IsBlock(c, bs[k]) /\ bs[k].start \in Nat /\ bs[k].end \in Nat
                                  /\ bs[k].start < bs[k].end
         /\ \A j, k \in 1..Len(bs) : j < k => bs[j].end < bs[k].start
BY DEF BlocksFit, IsBlock

\* A piece of the blocks from a to e, which are of one section.
LEMMA SpanFits ==
  ASSUME NEW c \in Text, NEW bs, BlocksFit(c, bs), NEW w, GoodBounds(c, bs, w), NEW size,
         NEW p, p \in Made(bs), p.parent = 0, Fitting(p, size), Shown(c, p), Inside(p, w), p.start < p.end,
         NEW a \in 1..Len(bs), NEW e \in 1..Len(bs), a <= e,
         bs[a].start <= p.start, p.start < bs[a].end, bs[e].start < p.end, p.end <= bs[e].end,
         \A m \in a..e : GoodBlock(c, bs[m], p) /\ bs[m].section = p.section
  PROVE  PieceFits(c, bs, w, size, p)
<1>1. /\ Len(bs) \in Nat
      /\ \A k \in 1..Len(bs) : bs[k].start \in Nat /\ bs[k].end \in Nat /\ bs[k].start < bs[k].end
      /\ \A j, k \in 1..Len(bs) : j < k => bs[j].end < bs[k].start
  BY BlocksLie
<1>2. p.start \in Nat /\ p.end \in Nat
  BY DEF Made, PieceSet
<1>3. w.start \in Nat /\ w.end \in Nat /\ w.end <= Len(c) /\ Len(c) \in Nat
  BY TextLength DEF GoodBounds
<1>4. p.end <= Len(c)
  <2>1. p.end <= w.end
    BY DEF Inside
  <2> QED BY <1>2, <1>3, <2>1
<1>5. Over(p, bs[a])
  <2>1. bs[a].start < p.end
    BY <1>1, <1>2
  <2> QED BY <2>1 DEF Over
<1>6. ASSUME NEW m \in 1..Len(bs), Over(p, bs[m]) PROVE m \in a..e
  <2>1. p.start < bs[m].end /\ bs[m].start < p.end
    BY <1>6 DEF Over
  <2>2. a <= m
    <3> SUFFICES ASSUME m < a PROVE FALSE
      BY <1>1
    <3>1. bs[m].end < bs[a].start
      BY <1>1
    <3> QED BY <1>1, <1>2, <2>1, <3>1
  <2>3. m <= e
    <3> SUFFICES ASSUME e < m PROVE FALSE
      BY <1>1
    <3>1. bs[e].end < bs[m].start
      BY <1>1
    <3> QED BY <1>1, <1>2, <2>1, <3>1
  <2> QED BY <2>2, <2>3
<1>7. GoodBounds(c, bs, p)
  BY <1>2, <1>4, <1>5, <1>6 DEF GoodBounds
<1> QED BY <1>6, <1>7 DEF PieceFits

\* A list of A is one of B when A is part of B.
LEMMA SeqWiden ==
  ASSUME NEW A, NEW B, A \subseteq B, NEW s \in Seq(A)
  PROVE  s \in Seq(B)
OBVIOUS

MadeOfText(c, bs, w, size, s, a, e) ==
  /\ s \in Seq(Made(bs)) /\ ToSet(s) # {}
  /\ \A p \in ToSet(s) : PieceFits(c, bs, w, size, p)
  /\ \A x \in Ink(c), k \in a..e : InBlock(x, bs[k]) /\ InBlock(x, w) => Held(ToSet(s), x)

\* The pieces of a block are pieces of the blocks.
LEMMA BlockKindSection ==
  ASSUME NEW bs, NEW k \in 1..Len(bs)
  PROVE  PieceSet({bs[k].kind}, {bs[k].section}) \subseteq Made(bs)
BY DEF PieceSet, Made

\* A table or code.
LEMMA UnitsFit ==
  ASSUME NEW c \in Text, NEW bs, BlocksFit(c, bs), NEW w, GoodBounds(c, bs, w), NEW size \in Nat,
         NEW k \in 1..Len(bs), ~IsProse(bs[k]), Over(w, bs[k])
  PROVE  MadeOfText(c, bs, w, size, UnitPieces(bs[k], size, w), k, k)
<1> DEFINE s == UnitPieces(bs[k], size, w)
           V == PieceSet({bs[k].kind}, {bs[k].section})
<1>1. MadeOfBlock(c, bs[k], w, size, s)
  <2>1. IsBlock(c, bs[k])
    BY BlocksLie
  <2>2. w.start \in Nat /\ w.end \in Nat /\ GoodBlock(c, bs[k], w)
    BY DEF GoodBounds
  <2> QED BY <2>1, <2>2, UnitsMade
<1> HIDE DEF s
<1>2. V \subseteq Made(bs)
  BY BlockKindSection
<1>3. s \in Seq(Made(bs)) /\ ToSet(s) # {}
  <2>1. s \in Seq(V) /\ ToSet(s) # {}
    BY <1>1 DEF MadeOfBlock
  <2> HIDE DEF V
  <2> QED BY <1>2, <2>1, SeqWiden
<1>4. Len(bs) \in Nat /\ bs[k].start \in Nat /\ bs[k].end \in Nat /\ bs[k].start < bs[k].end
  BY BlocksLie
<1>5. ASSUME NEW p \in ToSet(s) PROVE PieceFits(c, bs, w, size, p)
  <2>1. IsBlockPiece(c, bs[k], w, size, p)
    BY <1>1 DEF MadeOfBlock
  <2>2. /\ p \in V /\ p.parent = 0 /\ Fitting(p, size) /\ Shown(c, p) /\ Inside(p, w)
        /\ p.start < p.end /\ GoodBlock(c, bs[k], p)
    BY <2>1 DEF IsBlockPiece
  <2>3. bs[k].start <= p.start /\ p.end <= bs[k].end
    BY <2>1 DEF IsBlockPiece, Inside
  <2>4. p.start \in Nat /\ p.end \in Nat /\ bs[k].section = p.section
    BY <2>2 DEF PieceSet
  <2>5. p.start < bs[k].end /\ bs[k].start < p.end
    BY <1>4, <2>2, <2>3, <2>4
  <2>6. p \in Made(bs)
    BY <1>2, <2>2
  <2>7. \A m \in k..k : m = k
    BY <1>4
  <2>8. \A m \in k..k : GoodBlock(c, bs[m], p) /\ bs[m].section = p.section
    BY <2>2, <2>4, <2>7
  <2>9. k <= k
    BY <1>4
  <2> HIDE DEF V
  <2> QED BY <2>2, <2>3, <2>5, <2>6, <2>8, <2>9, SpanFits
<1>6. ASSUME NEW x \in Ink(c), NEW m \in k..k, InBlock(x, bs[m]), InBlock(x, w) PROVE Held(ToSet(s), x)
  <2>1. m = k
    BY <1>4
  <2> QED BY <1>1, <1>6, <2>1 DEF MadeOfBlock
<1> QED BY <1>3, <1>5, <1>6 DEF MadeOfText, s

\* The blocks from k to l are paragraphs of one section that begin in w.
IsRun(bs, w, k, l) ==
  /\ \A i \in k..l : IsProse(bs[i]) /\ bs[i].section = bs[k].section
  /\ \A i \in k + 1..l : bs[i].start < w.end

\* All blocks of a run share text with the window.
LEMMA RunIsOver ==
  ASSUME NEW c \in Text, NEW bs, BlocksFit(c, bs), NEW w, GoodBounds(c, bs, w),
         NEW k \in 1..Len(bs), NEW l \in k..Len(bs), Over(w, bs[k]), IsRun(bs, w, k, l)
  PROVE  \A i \in k..l : Over(w, bs[i]) /\ HasInk(c, bs[i], w)
<1>1. /\ Len(bs) \in Nat
      /\ \A i \in 1..Len(bs) : bs[i].start \in Nat /\ bs[i].end \in Nat /\ bs[i].start < bs[i].end
      /\ \A i, j \in 1..Len(bs) : i < j => bs[i].end < bs[j].start
  BY BlocksLie
<1>2. w.start \in Nat /\ w.end \in Nat
  BY DEF GoodBounds
<1>3. ASSUME NEW i \in k..l PROVE i \in 1..Len(bs) /\ Over(w, bs[i])
  <2>1. i \in 1..Len(bs)
    BY <1>1
  <2>2. CASE i = k
    BY <2>1, <2>2
  <2>3. CASE i # k
    <3>1. i \in k + 1..l /\ k < i
      BY <1>1, <2>3
    <3>2. bs[i].start < w.end
      BY <3>1 DEF IsRun
    <3>3. bs[k].end < bs[i].start
      BY <1>1, <2>1, <3>1
    <3>4. w.start < bs[k].end
      BY DEF Over
    <3>5. w.start < bs[i].end
      BY <1>1, <1>2, <2>1, <3>3, <3>4
    <3> QED BY <2>1, <3>2, <3>5 DEF Over
  <2> QED BY <2>2, <2>3
<1>4. ASSUME NEW i \in k..l PROVE HasInk(c, bs[i], w)
  <2>1. GoodBlock(c, bs[i], w)
    BY <1>3 DEF GoodBounds
  <2>2. IsProse(bs[i])
    BY DEF IsRun
  <2> QED BY <2>1, <2>2 DEF GoodBlock
<1> QED BY <1>3, <1>4

\* The clips of a run are paragraphs.
LEMMA ClipsLie ==
  ASSUME NEW c \in Text, NEW bs, BlocksFit(c, bs), NEW w, GoodBounds(c, bs, w),
         NEW k \in 1..Len(bs), NEW l \in k..Len(bs), Over(w, bs[k]), IsRun(bs, w, k, l)
  PROVE  /\ Paragraphs(c, Clips(bs, w, k, l)) /\ Len(Clips(bs, w, k, l)) = l - k + 1
         /\ \A i \in 1..l - k + 1 :
              /\ Clips(bs, w, k, l)[i] = Clip(w, bs[k + i - 1])
              /\ Inside(Clips(bs, w, k, l)[i], w) /\ Inside(Clips(bs, w, k, l)[i], bs[k + i - 1])
         /\ \A i \in k..l : \A x \in Ink(c) :
              InBlock(x, bs[i]) /\ InBlock(x, w) => InBlock(x, Clips(bs, w, k, l)[i - k + 1])
<1> DEFINE n == l - k + 1
           ps == Clips(bs, w, k, l)
<1>1. /\ Len(bs) \in Nat
      /\ \A i \in 1..Len(bs) : bs[i].start \in Nat /\ bs[i].end \in Nat /\ bs[i].start < bs[i].end
      /\ \A i, j \in 1..Len(bs) : i < j => bs[i].end < bs[j].start
  BY BlocksLie
<1>2. w.start \in Nat /\ w.end \in Nat /\ w.start < w.end /\ w.end <= Len(c) /\ Len(c) \in Nat
  BY TextLength DEF GoodBounds
<1>3. n \in Nat /\ n >= 1 /\ \A i \in 1..n : k + i - 1 \in k..l /\ k + i - 1 \in 1..Len(bs)
  BY <1>1
<1>4. DOMAIN ps = 1..n /\ ps = [i \in 1..n |-> ps[i]] /\ \A i \in 1..n : ps[i] = Clip(w, bs[k + i - 1])
  BY DEF Clips
<1> HIDE DEF ps
<1>5. ASSUME NEW i \in 1..n
      PROVE  /\ ps[i] \in Win /\ Inside(ps[i], w) /\ Inside(ps[i], bs[k + i - 1])
             /\ ps[i].start < ps[i].end
             /\ \A x \in Ink(c) : InBlock(x, ps[i]) <=> InBlock(x, bs[k + i - 1]) /\ InBlock(x, w)
  <2> DEFINE b == bs[k + i - 1]
  <2>1. b.start \in Nat /\ b.end \in Nat /\ b.start < b.end
    BY <1>1, <1>3
  <2>2. Over(w, b)
    BY <1>3, RunIsOver
  <2>3. ps[i] = Clip(w, b)
    BY <1>4
  <2> HIDE DEF b
  <2>4. /\ Clip(w, b) \in Win /\ Inside(Clip(w, b), w) /\ Inside(Clip(w, b), b)
        /\ Clip(w, b).start < Clip(w, b).end
        /\ \A x \in Ink(c) : InBlock(x, Clip(w, b)) <=> InBlock(x, b) /\ InBlock(x, w)
    BY <1>2, <2>1, <2>2, ClipFacts
  <2> QED BY <2>3, <2>4 DEF b
<1>6. ps \in Seq(Win) /\ Len(ps) = n
  <2>1. ps \in Seq(Win)
    BY <1>3, <1>4, <1>5, SeqByDomain
  <2> QED BY <1>3, <1>4, <2>1
<1>7. ASSUME NEW i \in 1..n, NEW j \in 1..n, i < j PROVE <<ps[i], ps[j]>> \in Follows
  <2>1. bs[k + i - 1].end < bs[k + j - 1].start
    <3>1. k + i - 1 < k + j - 1
      BY <1>7
    <3> QED BY <1>1, <1>3, <3>1
  <2>2. ps[i].end <= bs[k + i - 1].end /\ bs[k + j - 1].start <= ps[j].start
    BY <1>5 DEF Inside
  <2>3. ps[i].end \in Nat /\ ps[j].start \in Nat /\ ps[i] \in Win /\ ps[j] \in Win
    BY <1>5 DEF Win
  <2>4. bs[k + i - 1].end \in Nat /\ bs[k + j - 1].start \in Nat
    BY <1>1, <1>3
  <2>5. ps[i].end <= ps[j].start
    <3> DEFINE a == bs[k + i - 1].end
               e == bs[k + j - 1].start
    <3>1. a < e /\ ps[i].end <= a /\ e <= ps[j].start /\ a \in Nat /\ e \in Nat
      BY <2>1, <2>2, <2>4
    <3>2. ps[i].end \in Nat /\ ps[j].start \in Nat
      BY <2>3
    <3> HIDE DEF a, e
    <3> QED BY <3>1, <3>2, LeLtLe
  <2> QED BY <2>3, <2>5 DEF Follows
<1>8. InOrder(ps, Follows)
  BY <1>4, <1>7 DEF InOrder
<1>9. ASSUME NEW i \in 1..n PROVE ps[i].end <= Len(c) /\ \E x \in Ink(c) : InBlock(x, ps[i])
  <2>1. ps[i].end <= w.end
    BY <1>5 DEF Inside
  <2>2. ps[i].end \in Nat
    BY <1>5 DEF Win
  <2>3. HasInk(c, bs[k + i - 1], w)
    BY <1>3, RunIsOver
  <2>4. PICK x \in Ink(c) : InBlock(x, bs[k + i - 1]) /\ InBlock(x, w)
    BY <2>3 DEF HasInk
  <2>5. InBlock(x, ps[i])
    BY <1>5, <2>4
  <2>6. ps[i].end <= Len(c)
    BY <1>2, <2>1, <2>2
  <2> QED BY <2>5, <2>6
<1>10. Paragraphs(c, ps)
  BY <1>5, <1>6, <1>8, <1>9 DEF Paragraphs
<1>11. ASSUME NEW i \in k..l, NEW x \in Ink(c), InBlock(x, bs[i]), InBlock(x, w)
       PROVE  InBlock(x, ps[i - k + 1])
  <2>1. i - k + 1 \in 1..n /\ k + (i - k + 1) - 1 = i
    BY <1>1
  <2> QED BY <1>5, <1>11, <2>1
<1> QED BY <1>4, <1>5, <1>6, <1>10, <1>11 DEF ps

\* A piece begins in a block if it begins in a part of the block, and so it ends.
LEMMA OverFirst ==
  ASSUME NEW p, NEW q, NEW b, p.start \in Nat, q.start \in Nat, q.end \in Nat,
         b.start \in Nat, b.end \in Nat, b.start <= q.start, q.end <= b.end,
         q.start <= p.start, p.start < q.end
  PROVE  b.start <= p.start /\ p.start < b.end
OBVIOUS

\* And a piece ends in a block likewise.
LEMMA OverLast ==
  ASSUME NEW p, NEW q, NEW b, p.end \in Nat, q.start \in Nat, q.end \in Nat,
         b.start \in Nat, b.end \in Nat, b.start <= q.start, q.end <= b.end,
         q.start < p.end, p.end <= q.end
  PROVE  b.start < p.end /\ p.end <= b.end
OBVIOUS

\* All blocks from a to e have ink in the piece.
InkFromTo(c, bs, a, e, p) == \A m \in a..e : HasInk(c, bs[m], p)

\* A piece of the run.
LEMMA ProsePieceFits ==
  ASSUME NEW c \in Text, NEW bs, BlocksFit(c, bs), NEW w, GoodBounds(c, bs, w), NEW size \in Nat,
         NEW k \in 1..Len(bs), NEW l \in k..Len(bs), Over(w, bs[k]), IsRun(bs, w, k, l),
         NEW p, IsProsePiece(c, bs[k], Clips(bs, w, k, l), size, p)
  PROVE  PieceFits(c, bs, w, size, p)
<1> DEFINE n == l - k + 1
           ps == Clips(bs, w, k, l)
<1>1. /\ Len(bs) \in Nat
      /\ \A i \in 1..Len(bs) : bs[i].start \in Nat /\ bs[i].end \in Nat /\ bs[i].start < bs[i].end
      /\ \A i, j \in 1..Len(bs) : i < j => bs[i].end < bs[j].start
  BY BlocksLie
<1>2. /\ Paragraphs(c, ps) /\ Len(ps) = n
      /\ \A i \in 1..n : Inside(ps[i], w) /\ Inside(ps[i], bs[k + i - 1])
      /\ \A i \in k..l : \A x \in Ink(c) :
              InBlock(x, bs[i]) /\ InBlock(x, w) => InBlock(x, ps[i - k + 1])
  BY ClipsLie
<1> HIDE DEF ps
<1>3. n \in Nat /\ \A i \in 1..n : k + i - 1 \in k..l /\ k + i - 1 \in 1..Len(bs)
  BY <1>1
<1>4. /\ \A i \in 1..n : ps[i].start \in Nat /\ ps[i].end \in Nat /\ ps[i].start < ps[i].end
      /\ \A i, j \in 1..n : i <= j => ps[i].start <= ps[j].start /\ ps[i].end <= ps[j].end
  BY <1>2, ParagraphsLie
<1>5. w.start \in Nat /\ w.end \in Nat
  BY DEF GoodBounds
<1>6. /\ p \in PieceSet({bs[k].kind}, {bs[k].section}) /\ p.parent = 0 /\ Fitting(p, size)
      /\ p.start \in Nat /\ p.end \in Nat /\ p.section = bs[k].section
  <2>1. p \in PieceSet({bs[k].kind}, {bs[k].section}) /\ p.parent = 0 /\ Fitting(p, size)
    BY DEF IsProsePiece
  <2> QED BY <2>1 DEF PieceSet
<1>7. p \in Made(bs)
  BY <1>6, BlockKindSection
<1>8. ASSUME NEW a \in 1..n, NEW e \in 1..n, a <= e, ps[a].start <= p.start, p.start < ps[a].end,
             ps[e].start < p.end, p.end <= ps[e].end, p.start < p.end,
             InkFromTo(c, bs, k + a - 1, k + e - 1, p)
      PROVE  PieceFits(c, bs, w, size, p)
  <2> DEFINE A == k + a - 1
             E == k + e - 1
  <2>1. A \in k..l /\ E \in k..l /\ A \in 1..Len(bs) /\ E \in 1..Len(bs) /\ A <= E
    <3>1. A \in k..l /\ E \in k..l /\ A \in 1..Len(bs) /\ E \in 1..Len(bs)
      BY <1>3
    <3>2. A <= E
      BY <1>8
    <3> QED BY <3>1, <3>2
  <2>2. ps[a].start \in Nat /\ ps[a].end \in Nat /\ ps[e].start \in Nat /\ ps[e].end \in Nat
    BY <1>4
  <2>3. w.start <= ps[a].start /\ ps[e].end <= w.end
    BY <1>2 DEF Inside
  <2>4. bs[A].start <= ps[a].start /\ ps[a].end <= bs[A].end /\ bs[E].start <= ps[e].start /\ ps[e].end <= bs[E].end
    BY <1>2 DEF Inside
  <2>5. A \in Int /\ E \in Int
    BY <1>3
  <2>6. InkFromTo(c, bs, A, E, p)
    BY <1>8
  <2> HIDE DEF A, E
  <2>7. bs[A].start \in Nat /\ bs[A].end \in Nat /\ bs[E].start \in Nat /\ bs[E].end \in Nat
    BY <1>1, <2>1
  <2>12. /\ ps[a].start <= p.start /\ p.start < ps[a].end /\ ps[e].start < p.end /\ p.end <= ps[e].end
         /\ p.start < p.end
    BY <1>8
  <2>13. p.start \in Nat /\ p.end \in Nat
    BY <1>6
  <2>8. Inside(p, w)
    <3>1. w.start <= p.start
      BY <1>5, <2>2, <2>3, <2>12, <2>13, LeLe
    <3>2. p.end <= w.end
      BY <1>5, <2>2, <2>3, <2>12, <2>13, LeLe
    <3> QED BY <3>1, <3>2 DEF Inside
  <2>9. bs[A].start <= p.start /\ p.start < bs[A].end /\ bs[E].start < p.end /\ p.end <= bs[E].end
    <3> DEFINE v == bs[A]
               y == bs[E]
    <3>1. v.start <= ps[a].start /\ ps[a].end <= v.end /\ y.start <= ps[e].start /\ ps[e].end <= y.end
      BY <2>4
    <3>2. v.start \in Nat /\ v.end \in Nat /\ y.start \in Nat /\ y.end \in Nat
      BY <2>7
    <3> HIDE DEF v, y
    <3>3. v.start <= p.start /\ p.start < v.end
      BY <2>2, <2>12, <2>13, <3>1, <3>2, OverFirst
    <3>4. y.start < p.end /\ p.end <= y.end
      BY <2>2, <2>12, <2>13, <3>1, <3>2, OverLast
    <3> QED BY <3>3, <3>4 DEF v, y
  <2>10. ASSUME NEW m \in A..E PROVE GoodBlock(c, bs[m], p) /\ bs[m].section = p.section
    <3>1. m \in k..l
      BY <2>1, <2>5
    <3>2. IsProse(bs[m]) /\ bs[m].section = bs[k].section
      BY <3>1 DEF IsRun
    <3>3. HasInk(c, bs[m], p)
      BY <2>6 DEF InkFromTo
    <3> QED BY <1>6, <3>2, <3>3 DEF GoodBlock
  <2>11. Shown(c, p)
    <3>1. A \in A..E
      BY <2>1, <2>5
    <3>2. HasInk(c, bs[A], p)
      BY <2>6, <3>1 DEF InkFromTo
    <3> QED BY <3>2 DEF HasInk, Shown
  <2> QED BY <1>6, <1>7, <1>8, <2>1, <2>8, <2>9, <2>10, <2>11, SpanFits
<1>9. CASE \E i, j \in 1..n : i <= j /\ p.start = ps[i].start /\ p.end = ps[j].end
  <2>1. PICK i \in 1..n, j \in 1..n : i <= j /\ p.start = ps[i].start /\ p.end = ps[j].end
    BY <1>9
  <2>2. /\ ps[i].start \in Nat /\ ps[i].end \in Nat /\ ps[j].start \in Nat /\ ps[j].end \in Nat
        /\ ps[i].start < ps[i].end /\ ps[j].start < ps[j].end
        /\ ps[i].start <= ps[j].start /\ ps[i].end <= ps[j].end
    BY <1>4, <2>1
  <2>3. ASSUME NEW m \in k + i - 1..k + j - 1 PROVE HasInk(c, bs[m], p)
    <3> DEFINE q == m - k + 1
    <3>1. m \in k..l /\ q \in 1..n /\ i <= q /\ q <= j
      BY <1>3
    <3> HIDE DEF q
    <3>2. HasInk(c, bs[m], w)
      BY <3>1, RunIsOver
    <3>3. PICK x \in Ink(c) : InBlock(x, bs[m]) /\ InBlock(x, w)
      BY <3>2 DEF HasInk
    <3>4. InBlock(x, ps[q])
      BY <1>2, <3>1, <3>3 DEF q
    <3>5. x \in Nat /\ ps[q].start <= x /\ x < ps[q].end
      BY <3>4, InkIsText DEF InBlock
    <3>6. ps[i].start <= ps[q].start /\ ps[q].end <= ps[j].end /\ ps[q].start \in Nat /\ ps[q].end \in Nat
      BY <1>4, <3>1
    <3>7. p.start <= x /\ x < p.end
      <4>1. ps[i].start <= x /\ x < ps[j].end
        <5>1. ps[i].start \in Nat /\ ps[j].end \in Nat
          BY <2>2
        <5>2. ps[q].start \in Nat /\ ps[q].end \in Nat
          BY <3>6
        <5>3. ps[i].start <= x
          BY <3>5, <3>6, <5>1, <5>2, LeLe
        <5>4. x < ps[j].end
          BY <3>5, <3>6, <5>1, <5>2, LtLe
        <5> QED BY <5>3, <5>4
      <4>2. p.start = ps[i].start /\ p.end = ps[j].end
        BY <2>1
      <4> QED BY <4>1, <4>2
    <3> QED BY <3>3, <3>7 DEF HasInk, InBlock
  <2>4. /\ ps[i].start <= p.start /\ p.start < ps[i].end
        /\ ps[j].start < p.end /\ p.end <= ps[j].end /\ p.start < p.end
    <3>1. p.start = ps[i].start /\ p.end = ps[j].end
      BY <2>1
    <3>2. ps[i].start <= ps[i].start /\ ps[j].end <= ps[j].end
      BY <2>2
    <3>3. ps[i].start < ps[j].end
      BY <2>2, LtLe
    <3> QED BY <2>2, <3>1, <3>2, <3>3
  <2>5. InkFromTo(c, bs, k + i - 1, k + j - 1, p)
    BY <2>3 DEF InkFromTo
  <2>6. i <= j
    BY <2>1
  <2> QED BY <1>8, <2>4, <2>5, <2>6
<1>10. CASE \E i \in 1..n : Lies(p, ps[i].start, ps[i].end) /\ \E x \in Ink(c) : InBlock(x, p)
  <2>1. PICK i \in 1..n : Lies(p, ps[i].start, ps[i].end) /\ \E x \in Ink(c) : InBlock(x, p)
    BY <1>10
  <2>2. PICK x \in Ink(c) : InBlock(x, p)
    BY <2>1
  <2>3. ps[i].start <= p.start /\ p.start < p.end /\ p.end <= ps[i].end
    BY <2>1 DEF Lies
  <2>4. ps[i].start \in Nat /\ ps[i].end \in Nat
    BY <1>4
  <2>5. p.start < ps[i].end /\ ps[i].start < p.end
    BY <1>6, <2>3, <2>4
  <2>6. x \in Nat /\ p.start <= x /\ x < p.end
    BY <2>2, InkIsText DEF InBlock
  <2>7. bs[k + i - 1].start <= ps[i].start /\ ps[i].end <= bs[k + i - 1].end
    BY <1>2 DEF Inside
  <2>8. bs[k + i - 1].start \in Nat /\ bs[k + i - 1].end \in Nat
    BY <1>1, <1>3
  <2>9. bs[k + i - 1].start <= x /\ x < bs[k + i - 1].end
    <3> DEFINE a == bs[k + i - 1].start
               e == bs[k + i - 1].end
    <3>1. a <= ps[i].start /\ ps[i].end <= e /\ a \in Nat /\ e \in Nat
      BY <2>7, <2>8
    <3>2. p.start \in Nat /\ p.end \in Nat
      BY <1>6
    <3> HIDE DEF a, e
    <3>3. a <= p.start /\ p.end <= e
      BY <2>3, <2>4, <3>1, <3>2, LeLe
    <3>4. a <= x
      BY <2>6, <3>1, <3>2, <3>3, LeLe
    <3>5. x < e
      BY <2>6, <3>1, <3>2, <3>3, LtLe
    <3> QED BY <3>4, <3>5 DEF a, e
  <2>10. ASSUME NEW m \in k + i - 1..k + i - 1 PROVE HasInk(c, bs[m], p)
    <3>1. m = k + i - 1
      BY <1>3
    <3> QED BY <2>2, <2>9, <3>1 DEF HasInk, InBlock
  <2>11. i <= i
    BY <1>3
  <2>12. InkFromTo(c, bs, k + i - 1, k + i - 1, p)
    BY <2>10 DEF InkFromTo
  <2> QED BY <1>8, <2>3, <2>5, <2>11, <2>12
<1> QED BY <1>2, <1>9, <1>10 DEF IsProsePiece, FromProse, ps

\* The paragraphs of a run.
LEMMA ProseMade ==
  ASSUME NEW c \in Text, NEW bs, BlocksFit(c, bs), NEW w, GoodBounds(c, bs, w),
         NEW size \in Nat, NEW overlap \in 0..size - 1,
         NEW k \in 1..Len(bs), NEW l \in k..Len(bs), Over(w, bs[k]), IsRun(bs, w, k, l)
  PROVE  MadeOfText(c, bs, w, size, ProsePieces(c, bs[k], Clips(bs, w, k, l), size, overlap), k, l)
<1> DEFINE ps == Clips(bs, w, k, l)
           s == ProsePieces(c, bs[k], ps, size, overlap)
           V == PieceSet({bs[k].kind}, {bs[k].section})
<1>1. /\ Paragraphs(c, ps) /\ Len(ps) = l - k + 1
      /\ \A i \in k..l : \A x \in Ink(c) :
              InBlock(x, bs[i]) /\ InBlock(x, w) => InBlock(x, ps[i - k + 1])
  BY ClipsLie
<1>2. Len(bs) \in Nat /\ bs[k].title \in Nat
  <2>1. IsBlock(c, bs[k]) /\ Len(bs) \in Nat
    BY BlocksLie
  <2> QED BY <2>1, BlockFields
<1> HIDE DEF ps
<1>3. /\ s \in Seq(V)
      /\ \A p \in ToSet(s) : IsProsePiece(c, bs[k], ps, size, p)
      /\ \A x \in Ink(c), i \in 1..Len(ps) : InBlock(x, ps[i]) => Held(ToSet(s), x)
  BY <1>1, <1>2, ProseFits
<1> HIDE DEF s
<1>4. s \in Seq(Made(bs))
  <2>1. V \subseteq Made(bs)
    BY BlockKindSection
  <2> HIDE DEF V
  <2> QED BY <1>3, <2>1, SeqWiden
<1>5. ASSUME NEW p \in ToSet(s) PROVE PieceFits(c, bs, w, size, p)
  BY <1>3, ProsePieceFits DEF ps
<1>6. ASSUME NEW x \in Ink(c), NEW i \in k..l, InBlock(x, bs[i]), InBlock(x, w) PROVE Held(ToSet(s), x)
  <2>1. InBlock(x, ps[i - k + 1])
    BY <1>1, <1>6
  <2>2. i - k + 1 \in 1..Len(ps)
    BY <1>1, <1>2
  <2> QED BY <1>3, <2>1, <2>2
<1>7. ToSet(s) # {}
  <2>1. k \in k..l
    BY <1>2
  <2>2. HasInk(c, bs[k], w)
    BY <2>1, RunIsOver
  <2>3. PICK x \in Ink(c) : InBlock(x, bs[k]) /\ InBlock(x, w)
    BY <2>2 DEF HasInk
  <2>4. Held(ToSet(s), x)
    BY <1>6, <2>1, <2>3
  <2> QED BY <2>4 DEF Held
<1> QED BY <1>4, <1>5, <1>6, <1>7 DEF MadeOfText, s, ps

\* A good part of a structured text is cut without loss.
LEMMA StructuralFits ==
  ASSUME NEW c \in Text, NEW bs, BlocksFit(c, bs), NEW w, GoodBounds(c, bs, w),
         NEW size \in Nat, NEW overlap \in 0..size - 1
  PROVE  MadeOfText(c, bs, w, size, StructuralPieces(c, bs, size, overlap, w), 1, Len(bs))
<1> DEFINE n == Len(bs)
           clipped(k) == Window(Max({w.start, bs[k].start}), Min({w.end, bs[k].end}))
           prose(k) == bs[k].kind \in {"paragraph", "heading"}
           Test(k, i) == prose(i) /\ bs[i].section = bs[k].section /\ bs[i].start < w.end
           Fit(k) == {e \in k..n : \A i \in k + 1..e : Test(k, i)}
           run(k) == Packed(k, n, LAMBDA i : prose(i) /\ bs[i].section = bs[k].section /\ bs[i].start < w.end)
           last == [k \in 1..n |-> IF Width(clipped(k)) > 0 /\ prose(k) THEN run(k) ELSE k]
           made == [k \in 1..n |->
                 IF Width(clipped(k)) <= 0 THEN <<>>
                 ELSE IF prose(k)
                      THEN ProsePieces(c, bs[k],
                                       [i \in 1..last[k] - k + 1 |-> clipped(k + i - 1)], size, overlap)
                      ELSE UnitPieces(bs[k], size, w)]
           next == [k \in 1..n |-> last[k] + 1]
           ch == Chain(1, n + 1, made, next)
           V == Made(bs)
           Whole(k) == Over(w, bs[k])
<1>0. StructuralPieces(c, bs, size, overlap, w) = ch
  BY DEF StructuralPieces
<1>1. /\ n \in Nat
      /\ \A k \in 1..n : /\ IsBlock(c, bs[k])
                         /\ bs[k].start \in Nat /\ bs[k].end \in Nat /\ bs[k].start < bs[k].end
  BY BlocksLie
<1>2. w.start \in Nat /\ w.end \in Nat /\ w.start < w.end
  BY DEF GoodBounds
<1>3. ASSUME NEW k \in 1..n
      PROVE  clipped(k) = Clip(w, bs[k]) /\ (Width(clipped(k)) > 0 <=> Whole(k)) /\ (Width(clipped(k)) <= 0 <=> ~Whole(k))
             /\ (prose(k) <=> IsProse(bs[k]))
  <2>1. clipped(k) = Clip(w, bs[k])
    BY DEF Clip
  <2>2. bs[k].start \in Nat /\ bs[k].end \in Nat /\ bs[k].start < bs[k].end
    BY <1>1
  <2>3. (Width(Clip(w, bs[k])) > 0 <=> Over(w, bs[k])) /\ Clip(w, bs[k]) \in Win
    BY <1>2, <2>2, ClipFacts
  <2>4. Width(Clip(w, bs[k])) \in Int
    BY <2>3 DEF Width, Win
  <2>5. Width(Clip(w, bs[k])) <= 0 <=> ~Over(w, bs[k])
    BY <2>3, <2>4
  <2> QED BY <2>1, <2>3, <2>5 DEF IsProse
<1>4. ASSUME NEW k \in 1..n
      PROVE  run(k) \in k..n /\ \A i \in k + 1..run(k) : Test(k, i)
  <2>1. run(k) = Max(Fit(k))
    BY DEF Packed
  <2>2. Fit(k) \in SUBSET (k..n)
    OBVIOUS
  <2>3. k \in Fit(k)
    <3>1. k \in k..n /\ k + 1..k = {}
      BY <1>1
    <3> QED BY <3>1
  <2>4. Max(Fit(k)) \in Fit(k)
    <3> HIDE DEF Fit
    <3>1. k \in Int /\ n \in Int
      BY <1>1
    <3> QED BY <2>2, <2>3, <3>1, GreatestInRange
  <2>5. Max(Fit(k)) \in k..n /\ \A i \in k + 1..Max(Fit(k)) : Test(k, i)
    BY <2>4
  <2> HIDE DEF Fit, run, Test
  <2> QED BY <2>1, <2>5
<1> HIDE DEF run
<1>5. ASSUME NEW k \in 1..n, ~Whole(k) PROVE made[k] = <<>> /\ last[k] = k
  <2>1. ~(Width(clipped(k)) > 0) /\ Width(clipped(k)) <= 0
    BY <1>3, <1>5
  <2> QED BY <2>1
<1>6. ASSUME NEW k \in 1..n, Whole(k), ~IsProse(bs[k])
      PROVE  made[k] = UnitPieces(bs[k], size, w) /\ last[k] = k
  <2>1. ~(Width(clipped(k)) <= 0) /\ ~prose(k)
    BY <1>3, <1>6
  <2> QED BY <2>1
<1>7. ASSUME NEW k \in 1..n, Whole(k), IsProse(bs[k])
      PROVE  /\ last[k] = run(k)
             /\ made[k] = ProsePieces(c, bs[k], [i \in 1..last[k] - k + 1 |-> clipped(k + i - 1)], size, overlap)
  <2>1. Width(clipped(k)) > 0 /\ ~(Width(clipped(k)) <= 0) /\ prose(k)
    BY <1>3, <1>7
  <2> QED BY <2>1
<1>8. ASSUME NEW k \in 1..n PROVE next[k] = last[k] + 1
  OBVIOUS
<1> HIDE DEF last, made, next
<1>9. ASSUME NEW k \in 1..n
      PROVE  /\ last[k] \in k..n /\ made[k] \in Seq(V)
             /\ \A p \in ToSet(made[k]) : PieceFits(c, bs, w, size, p)
             /\ Whole(k) => MadeOfText(c, bs, w, size, made[k], k, last[k])
             /\ ~Whole(k) => last[k] = k
  <2>1. CASE ~Whole(k)
    <3>1. made[k] = <<>> /\ last[k] = k
      BY <1>5, <2>1
    <3>2. k \in k..n
      BY <1>1
    <3>3. <<>> \in Seq(V) /\ ToSet(<<>>) = {}
      BY DEF ToSet
    <3> QED BY <2>1, <3>1, <3>2, <3>3
  <2>2. CASE Whole(k) /\ ~IsProse(bs[k])
    <3>1. made[k] = UnitPieces(bs[k], size, w) /\ last[k] = k
      BY <1>6, <2>2
    <3>2. MadeOfText(c, bs, w, size, UnitPieces(bs[k], size, w), k, k)
      BY <2>2, UnitsFit
    <3>3. k \in k..n
      BY <1>1
    <3> QED BY <2>2, <3>1, <3>2, <3>3 DEF MadeOfText
  <2>3. CASE Whole(k) /\ IsProse(bs[k])
    <3> DEFINE l == last[k]
    <3>1. l = run(k)
      BY <1>7, <2>3
    <3>2. l \in k..n /\ \A i \in k + 1..l : Test(k, i)
      BY <1>4, <3>1
    <3>3. made[k] = ProsePieces(c, bs[k], [i \in 1..l - k + 1 |-> clipped(k + i - 1)], size, overlap)
      BY <1>7, <2>3
    <3> HIDE DEF l
    <3>4. [i \in 1..l - k + 1 |-> clipped(k + i - 1)] = Clips(bs, w, k, l)
      BY DEF Clips, Clip
    <3>5. IsRun(bs, w, k, l)
      <4>1. ASSUME NEW i \in k + 1..l PROVE IsProse(bs[i]) /\ bs[i].section = bs[k].section /\ bs[i].start < w.end
        BY <3>2 DEF IsProse
      <4>2. ASSUME NEW i \in k..l PROVE i = k \/ i \in k + 1..l
        BY <1>1, <3>2
      <4>3. ASSUME NEW i \in k..l PROVE IsProse(bs[i]) /\ bs[i].section = bs[k].section
        BY <2>3, <4>1, <4>2
      <4> QED BY <4>1, <4>3 DEF IsRun
    <3>6. MadeOfText(c, bs, w, size, ProsePieces(c, bs[k], Clips(bs, w, k, l), size, overlap), k, l)
      BY <2>3, <3>2, <3>5, ProseMade
    <3>7. MadeOfText(c, bs, w, size, made[k], k, l)
      BY <3>3, <3>4, <3>6
    <3> QED BY <2>3, <3>2, <3>7 DEF MadeOfText, l
  <2> QED BY <2>1, <2>2, <2>3
<1> HIDE DEF clipped, prose, Test, Fit, Whole, V
<1>10. IsPath(1, n + 1, V, made, next)
  <2>1. ASSUME NEW i \in 1..(n + 1) - 1 PROVE made[i] \in Seq(V) /\ next[i] \in i + 1..n + 1
    <3>1. i \in 1..n
      BY <1>1
    <3>2. last[i] \in i..n /\ made[i] \in Seq(V)
      BY <1>9, <3>1
    <3>3. next[i] \in i + 1..n + 1
      BY <1>1, <1>8, <3>1, <3>2
    <3> QED BY <3>2, <3>3
  <2> QED BY <1>1, <2>1 DEF IsPath
<1>11. ch \in Seq(V) /\ \E P : Visits(ch, P, 1, n + 1, made, next)
  <2>1. 1 \in Int /\ n + 1 \in Int
    BY <1>1
  <2> QED BY <1>10, <2>1, ChainFollows
<1>12. PICK P : Visits(ch, P, 1, n + 1, made, next)
  BY <1>11
<1> HIDE DEF ch
<1>13. /\ P \in SUBSET (1..n) /\ ToSet(ch) = UNION {ToSet(made[k]) : k \in P}
       /\ \A i \in 1..n : \E k \in P : k <= i /\ i < next[k]
  <2>1. (n + 1) - 1 = n
    BY <1>1
  <2> QED BY <1>12, <2>1 DEF Visits
<1>14. ASSUME NEW m \in 1..n, Whole(m)
       PROVE  \E k \in P : k \in 1..n /\ Whole(k) /\ m \in k..last[k]
  <2>1. PICK k \in P : k <= m /\ m < next[k]
    BY <1>13
  <2>2. k \in 1..n
    BY <1>13
  <2>3. last[k] \in k..n /\ next[k] = last[k] + 1
    BY <1>8, <1>9, <2>2
  <2>4. m \in k..last[k]
    BY <1>1, <2>1, <2>2, <2>3
  <2>5. Whole(k)
    <3> SUFFICES ASSUME ~Whole(k) PROVE FALSE
      OBVIOUS
    <3>1. last[k] = k
      BY <1>9, <2>2
    <3>2. m = k
      BY <1>1, <2>1, <2>3, <3>1
    <3> QED BY <1>14, <3>2
  <2> QED BY <2>2, <2>4, <2>5
<1>15. ASSUME NEW p \in ToSet(ch) PROVE PieceFits(c, bs, w, size, p)
  <2>1. PICK k \in P : p \in ToSet(made[k])
    BY <1>13
  <2>2. k \in 1..n
    BY <1>13
  <2> QED BY <1>9, <2>1, <2>2
<1>16. ASSUME NEW x \in Ink(c), NEW m \in 1..n, InBlock(x, bs[m]), InBlock(x, w) PROVE Held(ToSet(ch), x)
  <2>1. Whole(m)
    <3>1. x \in Nat /\ bs[m].start <= x /\ x < bs[m].end /\ w.start <= x /\ x < w.end
      BY <1>16, InkIsText DEF InBlock
    <3>2. w.start < bs[m].end /\ bs[m].start < w.end
      BY <1>1, <1>2, <3>1
    <3> QED BY <3>2 DEF Over, Whole
  <2>2. PICK k \in P : k \in 1..n /\ Whole(k) /\ m \in k..last[k]
    BY <1>14, <2>1
  <2>3. MadeOfText(c, bs, w, size, made[k], k, last[k])
    BY <1>9, <2>2
  <2>4. Held(ToSet(made[k]), x)
    BY <1>16, <2>2, <2>3 DEF MadeOfText
  <2>5. ToSet(made[k]) \subseteq ToSet(ch)
    BY <1>13
  <2> QED BY <2>4, <2>5 DEF Held
<1>17. ToSet(ch) # {}
  <2>1. PICK m \in 1..n : Whole(m)
    BY DEF GoodBounds, Whole
  <2>2. PICK k \in P : k \in 1..n /\ Whole(k) /\ m \in k..last[k]
    BY <1>14, <2>1
  <2>3. ToSet(made[k]) # {}
    BY <1>9, <2>2 DEF MadeOfText
  <2> QED BY <1>13, <2>3
<1> QED BY <1>0, <1>11, <1>15, <1>16, <1>17 DEF MadeOfText, n, V

\* The whole text can be cut.
LEMMA WholeIsGood ==
  ASSUME NEW c \in Text, NEW bs, BlocksFit(c, bs), Len(bs) >= 1,
         NEW w, w.start = 0, w.end = Len(c)
  PROVE  GoodBounds(c, bs, w)
<1>1. /\ Len(bs) \in Nat
      /\ \A k \in 1..Len(bs) : IsBlock(c, bs[k]) /\ bs[k].start \in Nat /\ bs[k].end \in Nat
                               /\ bs[k].start < bs[k].end
  BY BlocksLie
<1>2. Len(c) \in Nat
  BY TextLength
<1>3. ASSUME NEW k \in 1..Len(bs)
      PROVE  0 < Len(c) /\ Over(w, bs[k]) /\ GoodBlock(c, bs[k], w)
  <2> DEFINE b == bs[k]
  <2>1. IsBlock(c, b) /\ b.start \in Nat /\ b.end \in Nat /\ b.start < b.end
    BY <1>1
  <2> HIDE DEF b
  <2>2. b.end <= Len(c) /\ \E x \in Ink(c) : InBlock(x, b)
    BY <2>1 DEF IsBlock
  <2>3. w.start < b.end /\ b.start < w.end /\ 0 < Len(c)
    BY <1>2, <2>1, <2>2
  <2>4. ASSUME NEW x \in Ink(c) PROVE InBlock(x, w)
    <3>1. x \in Nat /\ x < Len(c)
      BY InkIsText
    <3>2. w.start <= x /\ x < w.end
      BY <3>1
    <3> QED BY <3>2 DEF InBlock
  <2>5. GoodBlock(c, b, w)
    <3>1. CASE IsProse(b) \/ b.units = <<>>
      BY <2>2, <2>4, <3>1 DEF GoodBlock, HasInk
    <3>2. CASE ~(IsProse(b) \/ b.units = <<>>)
      <4>1. FitUnits(c, b)
        BY <2>1, <3>2 DEF IsBlock, IsProse
      <4>2. ASSUME NEW u \in ToSet(b.units) PROVE Inside(u, w)
        <5>1. u \in Win /\ b.start <= u.start /\ u.end <= b.end
          BY <4>1, UnitsInside DEF Lies
        <5>2. u.start \in Nat /\ u.end \in Nat
          BY <5>1 DEF Win
        <5>3. w.start <= u.start /\ u.end <= w.end
          BY <1>2, <2>1, <2>2, <5>1, <5>2
        <5> QED BY <5>3 DEF Inside
      <4>3. b.units[1] \in ToSet(b.units)
        <5>1. b.units \in Seq(Win) /\ b.units # <<>>
          BY <3>2, <4>1 DEF FitUnits
        <5> QED BY <5>1 DEF ToSet
      <4>4. w.start <= b.start
        BY <2>1
      <4>5. ASSUME NEW x \in Ink(c), InBlock(x, b)
            PROVE  \/ \E u \in ToSet(b.units) : Inside(u, w) /\ InBlock(x, u)
                   \/ b.kind = "table" /\ w.start <= b.start /\ \A u \in ToSet(b.units) : x < u.start
        <5>1. \/ Held(ToSet(b.units), x)
              \/ b.kind = "table" /\ \A u \in ToSet(b.units) : x < u.start
          BY <4>1, <4>5 DEF FitUnits
        <5> QED BY <4>2, <4>4, <5>1 DEF Held, InBlock
      <4>6. GoodUnits(c, b, w)
        BY <4>2, <4>3, <4>5 DEF GoodUnits, HasRow
      <4> QED BY <3>2, <4>6 DEF GoodBlock
    <3> QED BY <3>1, <3>2
  <2> QED BY <2>3, <2>5 DEF Over, b
<1>4. 1 \in 1..Len(bs)
  BY <1>1
<1>5. 0 < Len(c)
  BY <1>3, <1>4
<1> QED BY <1>2, <1>3, <1>4, <1>5 DEF GoodBounds

-----------------------------------------------------------------------------
(* The operations *)

AnyPiece(doc) ==
  IF doc.structured THEN Made(AssembledBlocks(doc)) ELSE PieceSet({"paragraph"}, {0})

HasText(doc, w) == doc.structured \/ \E x \in Ink(Content(doc)) : InBlock(x, w)

CanCut(doc, w) ==
  /\ w.start \in Nat /\ w.end \in Nat /\ w.start <= w.end /\ w.end <= Len(Content(doc))
  /\ doc.structured => GoodBounds(Content(doc), AssembledBlocks(doc), w)

SameSection(doc, p) ==
  IF doc.structured
  THEN \A k \in 1..Len(AssembledBlocks(doc)) :
         Over(p, AssembledBlocks(doc)[k]) => AssembledBlocks(doc)[k].section = p.section
  ELSE p.section = 0

CutFits(doc, w, size, p) ==
  /\ p \in AnyPiece(doc) /\ p.parent = 0 /\ Fitting(p, size)
  /\ Inside(p, w) /\ p.start < p.end /\ Shown(Content(doc), p)
  /\ HasText(doc, p) /\ CanCut(doc, p) /\ SameSection(doc, p)

CutMade(doc, w, size, s) ==
  /\ s \in Seq(AnyPiece(doc))
  /\ \A p \in ToSet(s) : CutFits(doc, w, size, p)
  /\ \A x \in Ink(Content(doc)) : InBlock(x, w) => Held(ToSet(s), x)
  /\ HasText(doc, w) => ToSet(s) # {}

\* The limits of a cut: an overlap is smaller than its size (config.py).
LEMMA BudgetType ==
  ASSUME NEW lim \in Limits
  PROVE  lim.size \in Nat /\ lim.overlap \in 0..lim.size - 1
BY ChunkAssumption

\* A structured document's window is cut without loss,
LEMMA StructuredCut ==
  ASSUME NEW doc \in Documents, doc.structured, NEW lim \in Limits, NEW w, CanCut(doc, w)
  PROVE  CutMade(doc, w, lim.size, CutUp(doc, lim, w))
<1> DEFINE c == Content(doc)
           bs == AssembledBlocks(doc)
           size == lim.size
           s == StructuralPieces(c, bs, size, lim.overlap, w)
<1>1. CutUp(doc, lim, w) = s
  BY DEF CutUp
<1>2. c \in Text /\ BlocksFit(c, bs)
  BY ContentLaid, AssembledFit
<1>3. GoodBounds(c, bs, w)
  BY DEF CanCut
<1>4. size \in Nat /\ lim.overlap \in 0..size - 1
  BY BudgetType
<1> HIDE DEF c, bs, size
<1>5. MadeOfText(c, bs, w, size, s, 1, Len(bs))
  BY <1>2, <1>3, <1>4, StructuralFits
<1> HIDE DEF s
<1>6. AnyPiece(doc) = Made(bs)
  BY DEF AnyPiece, bs
<1>7. s \in Seq(Made(bs)) /\ ToSet(s) # {}
  BY <1>5 DEF MadeOfText
<1>8. ASSUME NEW p \in ToSet(s) PROVE CutFits(doc, w, size, p)
  <2>1. PieceFits(c, bs, w, size, p)
    BY <1>5 DEF MadeOfText
  <2>2. /\ p \in Made(bs) /\ p.parent = 0 /\ Fitting(p, size)
        /\ Inside(p, w) /\ Shown(c, p) /\ GoodBounds(c, bs, p)
    BY <2>1 DEF PieceFits
  <2>3. SameSection(doc, p)
    BY <2>1 DEF PieceFits, SameSection, bs
  <2>4. p.start \in Nat /\ p.end \in Nat /\ p.start < p.end /\ p.end <= Len(c)
    BY <2>2 DEF GoodBounds
  <2>5. p.start <= p.end
    BY <2>4
  <2>6. CanCut(doc, p)
    BY <2>2, <2>4, <2>5 DEF CanCut, c, bs
  <2> QED BY <1>6, <2>2, <2>3, <2>4, <2>6 DEF CutFits, HasText, c
<1>9. ASSUME NEW x \in Ink(c), InBlock(x, w) PROVE Held(ToSet(s), x)
  <2>1. PICK k \in 1..Len(bs) : InBlock(x, bs[k])
    BY <1>2 DEF BlocksFit
  <2> QED BY <1>5, <1>9, <2>1 DEF MadeOfText
<1> QED BY <1>1, <1>6, <1>7, <1>8, <1>9 DEF CutMade, c, size

\* and a plain one's.
LEMMA PlainCut ==
  ASSUME NEW doc \in Documents, ~doc.structured, NEW lim \in Limits, NEW w \in Win, CanCut(doc, w)
  PROVE  CutMade(doc, w, lim.size, CutUp(doc, lim, w))
<1> DEFINE c == Content(doc)
           size == lim.size
           sp == SpansWithin(c, w, size, lim.overlap)
           s == [n \in DOMAIN sp |-> Plain(sp[n])]
           V == PieceSet({"paragraph"}, {0})
<1>1. CutUp(doc, lim, w) = s
  BY DEF CutUp
<1>2. c \in Text
  BY ContentLaid
<1>3. w.start \in Nat /\ w.end \in Nat /\ w.start <= w.end /\ w.end <= Len(c)
  BY DEF CanCut
<1>4. size \in Nat /\ lim.overlap \in 0..size - 1
  BY BudgetType
<1> HIDE DEF c, size
<1>5. sp \in Seq(Win) /\ CutsText(c, ToSet(sp), w.start, w.end, size)
  BY <1>2, <1>3, <1>4, PartCut
<1> HIDE DEF sp
<1>6. AnyPiece(doc) = V
  BY DEF AnyPiece
<1>7. ASSUME NEW v \in Win
      PROVE  /\ Plain(v) \in V /\ Plain(v).start = v.start /\ Plain(v).end = v.end /\ Plain(v).parent = 0
             /\ Plain(v).prefix = 0 /\ Plain(v).suffix = 0 /\ Plain(v).section = 0
  BY DEF Plain, Piece, PieceSet, Win
<1> HIDE DEF V
<1>8. ASSUME NEW v \in ToSet(sp) PROVE v \in Win /\ CutFits(doc, w, size, Plain(v))
  <2> DEFINE p == Plain(v)
  <2>1. v \in Win
    BY <1>5, MemberOf
  <2>2. /\ p \in V /\ p.start = v.start /\ p.end = v.end /\ p.parent = 0
        /\ p.prefix = 0 /\ p.suffix = 0 /\ p.section = 0
    BY <1>7, <2>1
  <2> HIDE DEF p
  <2>3. Lies(v, w.start, w.end) /\ Inked(c, v) # {} /\ Width(v) <= size
    BY <1>5, CutMember
  <2>4. v.start \in Nat /\ v.end \in Nat
    BY <2>1 DEF Win
  <2>5. w.start <= v.start /\ v.start < v.end /\ v.end <= w.end
    BY <2>3 DEF Lies
  <2>6. Len(c) \in Nat
    BY <1>2, TextLength
  <2>7. v.end <= Len(c) /\ v.start <= v.end
    BY <1>3, <2>4, <2>5, <2>6
  <2>8. PICK x : x \in Inked(c, v)
    BY <2>3
  <2>9. x \in Ink(c) /\ v.start <= x /\ x < v.end
    BY <1>2, <2>4, <2>7, <2>8, InkWithin
  <2>10. InBlock(x, p)
    BY <2>2, <2>9 DEF InBlock
  <2>11. Fitting(p, size)
    <3>1. Width(p) = Width(v) /\ Width(v) \in Int
      BY <2>2, <2>4 DEF Width
    <3>2. p.prefix + Width(p) + p.suffix <= size
      BY <1>4, <2>2, <2>3, <3>1
    <3> QED BY <3>2 DEF Fitting
  <2>12. Inside(p, w) /\ p.start < p.end
    BY <2>2, <2>5 DEF Inside
  <2>13. CanCut(doc, p)
    BY <2>2, <2>4, <2>7 DEF CanCut, c
  <2>14. HasText(doc, p) /\ Shown(c, p)
    BY <2>9, <2>10 DEF HasText, Shown, c
  <2>15. SameSection(doc, p)
    BY <2>2 DEF SameSection
  <2> QED BY <1>6, <2>1, <2>2, <2>11, <2>12, <2>13, <2>14, <2>15 DEF CutFits, c, p
<1>9. Len(sp) \in Nat /\ DOMAIN sp = 1..Len(sp) /\ \A n \in 1..Len(sp) : sp[n] \in ToSet(sp)
  BY <1>5 DEF ToSet
<1>10. DOMAIN s = 1..Len(sp) /\ s = [n \in 1..Len(sp) |-> s[n]] /\ \A n \in 1..Len(sp) : s[n] = Plain(sp[n])
  BY <1>9
<1> HIDE DEF s
<1>11. s \in Seq(V)
  <2>1. \A n \in 1..Len(sp) : s[n] \in V
    BY <1>7, <1>8, <1>9, <1>10
  <2> QED BY <1>9, <1>10, <2>1, SeqByDomain
<1>12. ASSUME NEW p \in ToSet(s) PROVE CutFits(doc, w, size, p)
  <2>1. PICK n \in 1..Len(sp) : p = s[n]
    BY <1>10 DEF ToSet
  <2> QED BY <1>8, <1>9, <1>10, <2>1
<1>13. ASSUME NEW x \in Ink(c), InBlock(x, w) PROVE Held(ToSet(s), x)
  <2>1. x \in Nat /\ c[x + 1] # "_"
    BY <1>2, InkIsText
  <2>2. w.start <= x /\ x < w.end
    BY <1>13 DEF InBlock
  <2>3. Held(ToSet(sp), x)
    BY <1>3, <1>5, <2>1, <2>2, CutHolds
  <2>4. PICK v \in ToSet(sp) : v.start <= x /\ x < v.end
    BY <2>3 DEF Held
  <2>5. PICK n \in 1..Len(sp) : v = sp[n]
    BY <1>9, <2>4 DEF ToSet
  <2>6. s[n] \in ToSet(s) /\ s[n] = Plain(v)
    BY <1>10, <2>5 DEF ToSet
  <2>7. Plain(v).start = v.start /\ Plain(v).end = v.end
    BY <1>7, <1>8, <2>4
  <2> QED BY <2>4, <2>6, <2>7 DEF Held
<1>14. ASSUME HasText(doc, w) PROVE ToSet(s) # {}
  <2>1. PICK x \in Ink(c) : InBlock(x, w)
    BY <1>14 DEF HasText, c
  <2>2. Held(ToSet(s), x)
    BY <1>13, <2>1
  <2> QED BY <2>2 DEF Held
<1> QED BY <1>1, <1>6, <1>11, <1>12, <1>13, <1>14 DEF CutMade, c, size

\* CutUp loses nothing of a part that can be cut.
LEMMA CutUpFits ==
  ASSUME NEW doc \in Documents, NEW lim \in Limits, NEW w \in Win, CanCut(doc, w)
  PROVE  CutMade(doc, w, lim.size, CutUp(doc, lim, w))
BY StructuredCut, PlainCut

\* The whole document can be cut.
LEMMA WholeCanCut ==
  ASSUME NEW doc \in Documents
  PROVE  /\ Window(0, Len(Content(doc))) \in Win /\ CanCut(doc, Window(0, Len(Content(doc))))
         /\ \A x \in Ink(Content(doc)) : InBlock(x, Window(0, Len(Content(doc))))
<1> DEFINE c == Content(doc)
           bs == AssembledBlocks(doc)
           w == Window(0, Len(c))
<1>1. c \in Text
  BY ContentLaid
<1>2. Len(c) \in Nat /\ 0 <= Len(c) /\ 0 \in Nat
  BY <1>1, TextLength
<1>3. w \in Win /\ w.start = 0 /\ w.end = Len(c)
  BY <1>2, WindowFields
<1> HIDE DEF w
<1>4. ASSUME doc.structured PROVE GoodBounds(c, bs, w)
  <2>1. BlocksFit(c, bs)
    BY <1>4, AssembledFit
  <2>2. Len(bs) >= 1
    <3>1. DOMAIN bs = 1..Len(bs) /\ Len(bs) \in Nat
      BY <2>1 DEF BlocksFit
    <3>2. DOMAIN bs = DOMAIN doc.blocks
      BY DEF AssembledBlocks
    <3>3. 1 \in DOMAIN doc.blocks
      BY RawBlocks
    <3> HIDE DEF bs
    <3> QED BY <3>1, <3>2, <3>3
  <2> HIDE DEF c, bs
  <2> QED BY <1>1, <1>3, <2>1, <2>2, WholeIsGood
<1>5. CanCut(doc, w)
  BY <1>2, <1>3, <1>4 DEF CanCut
<1>6. ASSUME NEW x \in Ink(c) PROVE InBlock(x, w)
  <2>1. x \in Nat /\ x < Len(c)
    BY <1>1, InkIsText
  <2>2. w.start <= x /\ x < w.end
    BY <1>3, <2>1
  <2> QED BY <2>2 DEF InBlock
<1> QED BY <1>3, <1>5, <1>6 DEF w

\* Only the ends of a window count.
LEMMA SameWindow ==
  ASSUME NEW doc, NEW v, NEW w, v.start = w.start, v.end = w.end
  PROVE  /\ CanCut(doc, w) => CanCut(doc, v)
         /\ HasText(doc, w) => HasText(doc, v)
         /\ \A u : Inside(u, v) <=> Inside(u, w)
         /\ \A x : InBlock(x, v) <=> InBlock(x, w)
<1>1. \A u : Inside(u, v) <=> Inside(u, w)
  BY DEF Inside
<1>2. \A x : InBlock(x, v) <=> InBlock(x, w)
  BY DEF InBlock
<1>3. \A b : Over(v, b) <=> Over(w, b)
  BY DEF Over
<1>4. \A b : HasRow(b, w) => HasRow(b, v)
  BY <1>1 DEF HasRow
<1>5. ASSUME NEW c, NEW b, GoodUnits(c, b, w) PROVE GoodUnits(c, b, v)
  <2>1. HasRow(b, v)
    BY <1>4, <1>5 DEF GoodUnits
  <2>2. ASSUME NEW x \in Ink(c), InBlock(x, b), InBlock(x, v)
        PROVE  \/ \E u \in ToSet(b.units) : Inside(u, v) /\ InBlock(x, u)
               \/ b.kind = "table" /\ v.start <= b.start /\ \A u \in ToSet(b.units) : x < u.start
    <3>1. InBlock(x, w)
      BY <1>2, <2>2
    <3>2. \/ \E u \in ToSet(b.units) : Inside(u, w) /\ InBlock(x, u)
          \/ b.kind = "table" /\ w.start <= b.start /\ \A u \in ToSet(b.units) : x < u.start
      BY <1>5, <2>2, <3>1 DEF GoodUnits
    <3> QED BY <1>1, <3>2
  <2> QED BY <2>1, <2>2 DEF GoodUnits
<1>6. ASSUME NEW c, NEW b, HasInk(c, b, w) PROVE HasInk(c, b, v)
  BY <1>2, <1>6 DEF HasInk
<1>7. ASSUME NEW c, NEW b, GoodBlock(c, b, w) PROVE GoodBlock(c, b, v)
  BY <1>5, <1>6, <1>7 DEF GoodBlock
<1>8. ASSUME NEW c, NEW bs, GoodBounds(c, bs, w) PROVE GoodBounds(c, bs, v)
  BY <1>3, <1>7, <1>8 DEF GoodBounds
<1>9. CanCut(doc, w) => CanCut(doc, v)
  BY <1>8 DEF CanCut
<1>10. HasText(doc, w) => HasText(doc, v)
  BY <1>2 DEF HasText
<1> QED BY <1>1, <1>2, <1>9, <1>10

GoodPiece(doc, ps, size, p) ==
  /\ p.start \in Nat /\ p.end \in Nat /\ p.start < p.end /\ p.end <= Len(Content(doc))
  /\ Shown(Content(doc), p) /\ Fitting(p, size)
  /\ p.parent # 0 => Inside(p, ps[p.parent]) /\ ps[p.parent].section = p.section

\* What the two ways to cut a document have in common.
PiecesAreGood(doc, ps, size, s) ==
  /\ s \in Seq(AnyPiece(doc))
  /\ \A p \in ToSet(s) : GoodPiece(doc, ps, size, p)
  /\ \A x \in Ink(Content(doc)) : Held(ToSet(s), x)
  /\ \A q \in DOMAIN ps : \E p \in ToSet(s) : p.parent = q
  /\ \A q \in ToSet(ps) : q.start \in Nat /\ q.end \in Nat /\ q.start < q.end /\ q.end <= Len(Content(doc))

WholeOf(doc) == Window(0, Len(Content(doc)))

\* A document is cut into good pieces,
LEMMA DocumentCut ==
  ASSUME NEW doc \in Documents, NEW lim \in Limits
  PROVE  PiecesAreGood(doc, <<>>, lim.size, CutUp(doc, lim, WholeOf(doc)))
<1> DEFINE w == WholeOf(doc)
           s == CutUp(doc, lim, w)
<1>1. w \in Win /\ CanCut(doc, w) /\ \A x \in Ink(Content(doc)) : InBlock(x, w)
  BY WholeCanCut DEF WholeOf
<1> HIDE DEF w
<1>2. CutMade(doc, w, lim.size, s)
  BY <1>1, CutUpFits
<1> HIDE DEF s
<1>3. ASSUME NEW p \in ToSet(s) PROVE GoodPiece(doc, <<>>, lim.size, p)
  <2>1. CutFits(doc, w, lim.size, p)
    BY <1>2 DEF CutMade
  <2> QED BY <2>1 DEF CutFits, CanCut, GoodPiece
<1>4. DOMAIN <<>> = {} /\ ToSet(<<>>) = {}
  BY DEF ToSet
<1>5. s \in Seq(AnyPiece(doc)) /\ \A x \in Ink(Content(doc)) : Held(ToSet(s), x)
  BY <1>1, <1>2 DEF CutMade
<1> QED BY <1>3, <1>4, <1>5 DEF PiecesAreGood, s, w

Children(doc, lim, q) == CutUp(doc, lim, Window(q.start, q.end))
Owned(s, n) == [k \in DOMAIN s |-> [s[k] EXCEPT !.parent = n]]
AllChildren(doc, lim, ps) == FlattenSeq([n \in DOMAIN ps |-> Owned(Children(doc, lim, ps[n]), n)])

IsOwned(p, n, o) ==
  /\ o.start = p.start /\ o.end = p.end /\ o.section = p.section
  /\ o.kind = p.kind /\ o.prefix = p.prefix /\ o.suffix = p.suffix /\ o.units = p.units
  /\ o.parent = n

\* a piece is given its parent,
LEMMA OwnedPiece ==
  ASSUME NEW doc, NEW p \in AnyPiece(doc), NEW n \in Nat
  PROVE  [p EXCEPT !.parent = n] \in AnyPiece(doc) /\ IsOwned(p, n, [p EXCEPT !.parent = n])
<1>1. PICK K, S : AnyPiece(doc) = PieceSet(K, S)
  BY DEF AnyPiece, Made
<1> QED BY <1>1 DEF PieceSet, IsOwned

\* What the children of the n-th parent q are.
ChildrenAre(doc, ps, size, q, n, s) ==
  /\ s \in Seq(AnyPiece(doc)) /\ ToSet(s) # {}
  /\ \A p \in ToSet(s) : GoodPiece(doc, ps, size, p) /\ p.parent = n
  /\ \A x \in Ink(Content(doc)) : InBlock(x, q) => Held(ToSet(s), x)

\* The children of a parent.
LEMMA ChildrenCut ==
  ASSUME NEW doc \in Documents, NEW lim \in Limits, NEW ps, NEW n \in Nat, n # 0,
         NEW q, ps[n] = q, q.start < q.end, HasText(doc, q), CanCut(doc, q), SameSection(doc, q)
  PROVE  ChildrenAre(doc, ps, lim.size, q, n, Owned(Children(doc, lim, q), n))
<1> DEFINE w == Window(q.start, q.end)
           t == CutUp(doc, lim, w)
           s == Owned(t, n)
           V == AnyPiece(doc)
<1>1. Children(doc, lim, q) = t
  BY DEF Children
<1>2. q.start \in Nat /\ q.end \in Nat
  BY DEF CanCut
<1>3. w \in Win /\ w.start = q.start /\ w.end = q.end
  BY <1>2, WindowFields
<1> HIDE DEF w
<1>4. /\ CanCut(doc, w) /\ HasText(doc, w)
      /\ \A u : Inside(u, w) => Inside(u, q)
      /\ \A x : InBlock(x, q) => InBlock(x, w)
  BY <1>3, SameWindow
<1>5. CutMade(doc, w, lim.size, t)
  BY <1>3, <1>4, CutUpFits
<1> HIDE DEF t
<1>6. /\ t \in Seq(V) /\ ToSet(t) # {} /\ \A p \in ToSet(t) : CutFits(doc, w, lim.size, p)
      /\ \A x \in Ink(Content(doc)) : InBlock(x, w) => Held(ToSet(t), x)
  BY <1>4, <1>5 DEF CutMade
<1> HIDE DEF V
<1>7. /\ Len(t) \in Nat /\ DOMAIN t = 1..Len(t)
      /\ \A k \in 1..Len(t) : t[k] \in V /\ t[k] \in ToSet(t)
      /\ \A p \in ToSet(t) : \E k \in 1..Len(t) : p = t[k]
  BY <1>6 DEF ToSet
<1>8. /\ DOMAIN s = 1..Len(t) /\ s = [k \in 1..Len(t) |-> s[k]]
      /\ \A k \in 1..Len(t) : s[k] = [t[k] EXCEPT !.parent = n]
  BY <1>7 DEF Owned
<1> HIDE DEF s
<1>9. ASSUME NEW k \in 1..Len(t)
      PROVE  /\ s[k] \in V /\ s[k].start = t[k].start /\ s[k].end = t[k].end /\ s[k].section = t[k].section
             /\ s[k].kind = t[k].kind /\ s[k].prefix = t[k].prefix /\ s[k].suffix = t[k].suffix
             /\ s[k].units = t[k].units /\ s[k].parent = n /\ s[k] \in ToSet(s)
  <2>1. t[k] \in AnyPiece(doc)
    BY <1>7 DEF V
  <2>2. s[k] \in ToSet(s)
    BY <1>8 DEF ToSet
  <2>3. [t[k] EXCEPT !.parent = n] \in AnyPiece(doc) /\ IsOwned(t[k], n, [t[k] EXCEPT !.parent = n])
    BY <2>1, OwnedPiece
  <2>4. s[k] \in V /\ IsOwned(t[k], n, s[k])
    BY <1>8, <2>3 DEF V
  <2> QED BY <2>2, <2>4 DEF IsOwned
<1>10. s \in Seq(V)
  BY <1>7, <1>8, <1>9, SeqByDomain
<1>11. ASSUME NEW p \in ToSet(s) PROVE GoodPiece(doc, ps, lim.size, p) /\ p.parent = n
  <2>1. PICK k \in 1..Len(t) : p = s[k]
    BY <1>8 DEF ToSet
  <2> DEFINE r == t[k]
  <2>2. /\ p.start = r.start /\ p.end = r.end /\ p.section = r.section /\ p.kind = r.kind
        /\ p.prefix = r.prefix /\ p.suffix = r.suffix /\ p.units = r.units /\ p.parent = n
    BY <1>9, <2>1
  <2>3. CutFits(doc, w, lim.size, r)
    BY <1>6, <1>7
  <2> HIDE DEF r
  <2>4. /\ Fitting(r, lim.size) /\ Inside(r, w) /\ r.start < r.end /\ Shown(Content(doc), r)
        /\ CanCut(doc, r) /\ SameSection(doc, r)
    BY <2>3 DEF CutFits
  <2>5. p.start \in Nat /\ p.end \in Nat /\ p.start < p.end /\ p.end <= Len(Content(doc))
    BY <2>2, <2>4 DEF CanCut
  <2>6. Fitting(p, lim.size)
    BY <2>2, <2>4 DEF Fitting, Width
  <2>7. Shown(Content(doc), p)
    BY <2>2, <2>4 DEF Shown, InBlock
  <2>8. r.start >= q.start /\ r.end <= q.end /\ Inside(p, q)
    BY <1>3, <2>2, <2>4 DEF Inside
  <2>9. q.section = p.section
    <3>1. CASE doc.structured
      <4> DEFINE bs == AssembledBlocks(doc)
      <4>1. GoodBounds(Content(doc), bs, r)
        BY <2>4, <3>1 DEF CanCut
      <4>2. BlocksFit(Content(doc), bs)
        BY <3>1, AssembledFit
      <4>3. /\ \A k1 \in 1..Len(bs) : Over(r, bs[k1]) => bs[k1].section = r.section
            /\ \A k1 \in 1..Len(bs) : Over(q, bs[k1]) => bs[k1].section = q.section
        BY <2>4, <3>1 DEF SameSection
      <4> HIDE DEF bs
      <4>4. PICK m \in 1..Len(bs) : Over(r, bs[m])
        BY <4>1 DEF GoodBounds
      <4>5. bs[m].start \in Nat /\ bs[m].end \in Nat
        BY <4>2, BlocksLie
      <4>6. r.start \in Nat /\ r.end \in Nat
        BY <2>2, <2>5
      <4>7. r.start < bs[m].end /\ bs[m].start < r.end
        BY <4>4 DEF Over
      <4>8. q.start < bs[m].end
        BY <1>2, <2>8, <4>5, <4>6, <4>7
      <4>9. bs[m].start < q.end
        BY <1>2, <2>8, <4>5, <4>6, <4>7
      <4>10. Over(q, bs[m])
        BY <4>8, <4>9 DEF Over
      <4> QED BY <2>2, <4>3, <4>4, <4>10
    <3>2. CASE ~doc.structured
      BY <2>2, <2>4, <3>2 DEF SameSection
    <3> QED BY <3>1, <3>2
  <2> QED BY <2>2, <2>5, <2>6, <2>7, <2>8, <2>9 DEF GoodPiece
<1>12. ToSet(s) # {}
  BY <1>6, <1>7, <1>9
<1>13. ASSUME NEW x \in Ink(Content(doc)), InBlock(x, q) PROVE Held(ToSet(s), x)
  <2>1. Held(ToSet(t), x)
    BY <1>4, <1>6, <1>13
  <2>2. PICK v \in ToSet(t) : v.start <= x /\ x < v.end
    BY <2>1 DEF Held
  <2>3. PICK k \in 1..Len(t) : v = t[k]
    BY <1>7
  <2> QED BY <1>9, <2>2, <2>3 DEF Held
<1> QED BY <1>1, <1>10, <1>11, <1>12, <1>13 DEF ChildrenAre, V, s

\* and the parents are cut into good children.
LEMMA ParentsCut ==
  ASSUME NEW doc \in Documents, NEW larger \in Limits, NEW lim \in Limits
  PROVE  PiecesAreGood(doc, CutUp(doc, larger, WholeOf(doc)), lim.size,
                       AllChildren(doc, lim, CutUp(doc, larger, WholeOf(doc))))
<1> DEFINE w == WholeOf(doc)
           ps == CutUp(doc, larger, w)
           ss == [n \in DOMAIN ps |-> Owned(Children(doc, lim, ps[n]), n)]
           s == FlattenSeq(ss)
           V == AnyPiece(doc)
<1>1. w \in Win /\ CanCut(doc, w) /\ \A x \in Ink(Content(doc)) : InBlock(x, w)
  BY WholeCanCut DEF WholeOf
<1> HIDE DEF w
<1>2. CutMade(doc, w, larger.size, ps)
  BY <1>1, CutUpFits
<1>3. AllChildren(doc, lim, ps) = s
  BY DEF AllChildren
<1> HIDE DEF ps
<1>4. /\ ps \in Seq(V) /\ \A p \in ToSet(ps) : CutFits(doc, w, larger.size, p)
      /\ \A x \in Ink(Content(doc)) : Held(ToSet(ps), x)
  BY <1>1, <1>2 DEF CutMade
<1> HIDE DEF V
<1>5. /\ Len(ps) \in Nat /\ DOMAIN ps = 1..Len(ps)
      /\ \A n \in 1..Len(ps) : ps[n] \in ToSet(ps)
      /\ \A p \in ToSet(ps) : \E n \in 1..Len(ps) : p = ps[n]
  BY <1>4 DEF ToSet
<1>6. DOMAIN ss = 1..Len(ps) /\ ss = [n \in 1..Len(ps) |-> ss[n]]
      /\ \A n \in 1..Len(ps) : ss[n] = Owned(Children(doc, lim, ps[n]), n)
  BY <1>5
<1> HIDE DEF ss
<1>7. ASSUME NEW n \in 1..Len(ps)
      PROVE  /\ ss[n] \in Seq(V) /\ ToSet(ss[n]) # {}
             /\ \A p \in ToSet(ss[n]) : GoodPiece(doc, ps, lim.size, p) /\ p.parent = n
             /\ \A x \in Ink(Content(doc)) : InBlock(x, ps[n]) => Held(ToSet(ss[n]), x)
  <2> DEFINE q == ps[n]
  <2>1. n \in Nat /\ n # 0 /\ ps[n] = q
    BY <1>5
  <2>2. CutFits(doc, w, larger.size, q)
    BY <1>4, <1>5
  <2> HIDE DEF q
  <2>3. q.start < q.end /\ HasText(doc, q) /\ CanCut(doc, q) /\ SameSection(doc, q)
    BY <2>2 DEF CutFits
  <2> DEFINE t == Owned(Children(doc, lim, q), n)
  <2>4. ChildrenAre(doc, ps, lim.size, q, n, t)
    BY <2>1, <2>3, ChildrenCut
  <2>5. ss[n] = t
    BY <1>6, <2>1
  <2> HIDE DEF t
  <2> QED BY <2>1, <2>4, <2>5 DEF ChildrenAre, V
<1>8. ss \in Seq(Seq(V))
  <2>1. \A n \in 1..Len(ps) : ss[n] \in Seq(V)
    BY <1>7
  <2> QED BY <1>5, <1>6, <2>1, SeqByDomain
<1>9. s \in Seq(V) /\ ToSet(s) = UNION {ToSet(ss[n]) : n \in 1..Len(ps)}
  BY <1>6, <1>8, FlatMembers
<1> HIDE DEF s
<1>10. ASSUME NEW p \in ToSet(s) PROVE GoodPiece(doc, ps, lim.size, p)
  <2>1. PICK n \in 1..Len(ps) : p \in ToSet(ss[n])
    BY <1>9
  <2> QED BY <1>7, <2>1
<1>11. ASSUME NEW n \in 1..Len(ps) PROVE \E p \in ToSet(s) : p.parent = n
  <2>1. PICK p : p \in ToSet(ss[n])
    BY <1>7
  <2>2. p \in ToSet(s)
    BY <1>9, <2>1
  <2> QED BY <1>7, <2>1, <2>2
<1>12. ASSUME NEW x \in Ink(Content(doc)) PROVE Held(ToSet(s), x)
  <2>1. Held(ToSet(ps), x)
    BY <1>4
  <2>2. PICK q \in ToSet(ps) : InBlock(x, q)
    BY <2>1 DEF Held, InBlock
  <2>3. PICK n \in 1..Len(ps) : q = ps[n]
    BY <1>5
  <2>4. Held(ToSet(ss[n]), x)
    BY <1>7, <2>2, <2>3
  <2>5. ToSet(ss[n]) \subseteq ToSet(s)
    BY <1>9
  <2> QED BY <2>4, <2>5 DEF Held
<1>13. ASSUME NEW q \in ToSet(ps)
       PROVE  q.start \in Nat /\ q.end \in Nat /\ q.start < q.end /\ q.end <= Len(Content(doc))
  <2>1. CutFits(doc, w, larger.size, q)
    BY <1>4
  <2> QED BY <2>1 DEF CutFits, CanCut
<1>14. PiecesAreGood(doc, ps, lim.size, s)
  BY <1>5, <1>9, <1>10, <1>11, <1>12, <1>13 DEF PiecesAreGood, V
<1> QED BY <1>3, <1>14 DEF ps, w

-----------------------------------------------------------------------------
(* The text is read back *)

Less == {p \in Nat \X Nat : p[1] < p[2]}
ReadTo(v, n) == Max({0} \cup {v[m].end : m \in 1..n - 1})
From(v, n) == Max({ReadTo(v, n), v[n].start})
NewIn(v, n) == [k \in 1..v[n].end - From(v, n) |-> From(v, n) + k - 1]

\* v has windows of a text of length L, by their starts.
ByStart(v, N, L) ==
  /\ \A n \in 1..N : v[n].start \in Nat /\ v[n].end \in Nat /\ v[n].start < v[n].end /\ v[n].end <= L
  /\ \A m, n \in 1..N : m < n => v[m].start <= v[n].start

\* Where reading has come to, and where it goes on.
LEMMA NewBounds ==
  ASSUME NEW v, NEW N \in Nat, NEW L \in Nat, ByStart(v, N, L), NEW n \in 1..N
  PROVE  /\ ReadTo(v, n) \in Nat /\ \A m \in 1..n - 1 : v[m].end <= ReadTo(v, n)
         /\ ReadTo(v, n) = 0 \/ \E m \in 1..n - 1 : ReadTo(v, n) = v[m].end
         /\ From(v, n) = (IF ReadTo(v, n) >= v[n].start THEN ReadTo(v, n) ELSE v[n].start)
         /\ From(v, n) \in Nat /\ v[n].start \in Nat /\ v[n].end \in Nat
<1> DEFINE T == {0} \cup {v[m].end : m \in 1..n - 1}
<1>1. \A m \in 1..n - 1 : m \in 1..N
  OBVIOUS
<1>2. \A m \in 1..N : v[m].end \in Nat /\ v[m].end <= L
  BY DEF ByStart
<1>3. T \in SUBSET (0..L) /\ T # {}
  BY <1>1, <1>2
<1>4. Max(T) \in T /\ \A y \in T : y <= Max(T)
  <2> HIDE DEF T
  <2>1. 0 \in Int /\ L \in Int
    OBVIOUS
  <2> QED BY <1>3, <2>1, GreatestInRange
<1>5. ReadTo(v, n) = Max(T)
  BY DEF ReadTo
<1>6. Max(T) \in Nat
  <2> HIDE DEF T
  <2>1. Max(T) \in 0..L
    BY <1>3, <1>4
  <2> QED BY <2>1
<1>7. \A m \in 1..n - 1 : v[m].end \in T
  OBVIOUS
<1>8. Max(T) = 0 \/ \E m \in 1..n - 1 : Max(T) = v[m].end
  BY <1>4
<1> HIDE DEF T
<1>9. v[n].start \in Nat /\ v[n].end \in Nat
  BY DEF ByStart
<1> DEFINE r == ReadTo(v, n)
<1>10. r \in Nat
  BY <1>5, <1>6
<1> HIDE DEF r
<1>11. Max({r, v[n].start}) = IF r >= v[n].start THEN r ELSE v[n].start
  BY <1>9, <1>10, MaxOfTwo
<1>12. From(v, n) = IF r >= v[n].start THEN r ELSE v[n].start
  BY <1>11 DEF From, r
<1>13. From(v, n) \in Nat
  BY <1>9, <1>10, <1>12
<1> QED BY <1>4, <1>5, <1>7, <1>8, <1>9, <1>10, <1>12, <1>13 DEF r

\* The offsets of one window that are new.
LEMMA NewOffsets ==
  ASSUME NEW v, NEW N \in Nat, NEW L \in Nat, ByStart(v, N, L), NEW n \in 1..N
  PROVE  /\ NewIn(v, n) \in Seq(Nat) /\ InOrder(NewIn(v, n), Less)
         /\ ToSet(NewIn(v, n)) = {x \in Nat : From(v, n) <= x /\ x < v[n].end}
<1> DEFINE f == From(v, n)
           e == v[n].end
           s == NewIn(v, n)
           d == IF e - f < 0 THEN 0 ELSE e - f
<1>1. f \in Nat /\ e \in Nat
  BY NewBounds
<1>2. s = [k \in 1..e - f |-> f + k - 1]
  BY DEF NewIn
<1> HIDE DEF f, e, s
<1>3. d \in Nat /\ 1..e - f = 1..d
  BY <1>1
<1>4. s = [k \in 1..d |-> f + k - 1]
  BY <1>2, <1>3
<1> HIDE DEF d
<1>5. DOMAIN s = 1..d /\ s = [k \in 1..d |-> s[k]] /\ \A k \in 1..d : s[k] = f + k - 1
  BY <1>4
<1>6. \A k \in 1..d : s[k] \in Nat
  BY <1>1, <1>5
<1>7. s \in Seq(Nat)
  BY <1>3, <1>5, <1>6, SeqByDomain
<1>8. \A i, j \in 1..d : i < j => s[i] < s[j]
  BY <1>1, <1>5
<1>9. InOrder(s, Less)
  BY <1>5, <1>6, <1>8 DEF InOrder, Less
<1>10. ASSUME NEW x \in ToSet(s) PROVE x \in Nat /\ f <= x /\ x < e
  <2>1. PICK k \in 1..d : x = f + k - 1
    BY <1>5 DEF ToSet
  <2>2. k \in 1..e - f
    BY <1>3
  <2> QED BY <1>1, <2>1, <2>2
<1>11. ASSUME NEW x \in Nat, f <= x, x < e PROVE x \in ToSet(s)
  <2> DEFINE k == x - f + 1
  <2>1. k \in 1..e - f /\ x = f + k - 1
    BY <1>1, <1>11
  <2> HIDE DEF k
  <2>2. k \in 1..d /\ s[k] = x
    BY <1>3, <1>5, <2>1
  <2> QED BY <1>5, <2>2 DEF ToSet
<1> QED BY <1>7, <1>9, <1>10, <1>11 DEF f, e, s

\* What is read of each window.
IsReading(ss, v, N) == ss = [n \in 1..N |-> NewIn(v, n)]

\* All that a window holds is read, once and in order.
LEMMA ReadInOrder ==
  ASSUME NEW v, NEW N \in Nat, NEW L \in Nat, ByStart(v, N, L),
         NEW ss, IsReading(ss, v, N)
  PROVE  /\ FlattenSeq(ss) \in Seq(Nat) /\ InOrder(FlattenSeq(ss), Less)
         /\ \A i \in Nat : (\E n \in 1..N : v[n].start <= i /\ i < v[n].end) => i \in ToSet(FlattenSeq(ss))
<1>1. DOMAIN ss = 1..N /\ ss = [n \in 1..N |-> ss[n]]
  BY DEF IsReading
<1>2. ASSUME NEW n \in 1..N
      PROVE  /\ ss[n] \in Seq(Nat) /\ InOrder(ss[n], Less)
             /\ ToSet(ss[n]) = {x \in Nat : From(v, n) <= x /\ x < v[n].end}
             /\ From(v, n) \in Nat /\ v[n].start \in Nat /\ v[n].end \in Nat /\ ReadTo(v, n) \in Nat
             /\ ReadTo(v, n) <= From(v, n)
             /\ \A m \in 1..n - 1 : v[m].end <= ReadTo(v, n)
  <2>1. ss[n] = NewIn(v, n)
    BY DEF IsReading
  <2>2. /\ From(v, n) = (IF ReadTo(v, n) >= v[n].start THEN ReadTo(v, n) ELSE v[n].start)
        /\ v[n].start \in Nat /\ v[n].end \in Nat /\ ReadTo(v, n) \in Nat /\ From(v, n) \in Nat
        /\ \A m \in 1..n - 1 : v[m].end <= ReadTo(v, n)
    BY NewBounds
  <2>3. ReadTo(v, n) <= From(v, n)
    BY <2>2
  <2>4. /\ NewIn(v, n) \in Seq(Nat) /\ InOrder(NewIn(v, n), Less)
        /\ ToSet(NewIn(v, n)) = {x \in Nat : From(v, n) <= x /\ x < v[n].end}
    BY NewOffsets
  <2> QED BY <2>1, <2>2, <2>3, <2>4
<1>3. ss \in Seq(Seq(Nat))
  BY <1>1, <1>2, SeqByDomain
<1>4. ASSUME NEW m \in 1..N, NEW n \in 1..N, m < n, NEW x \in ToSet(ss[m]), NEW y \in ToSet(ss[n])
      PROVE  <<x, y>> \in Less
  <2>1. x \in Nat /\ x < v[m].end /\ v[m].end \in Nat
    BY <1>2
  <2>2. y \in Nat /\ From(v, n) <= y /\ From(v, n) \in Nat
    BY <1>2
  <2>3. m \in 1..n - 1
    BY <1>4
  <2>4. v[m].end <= ReadTo(v, n) /\ ReadTo(v, n) <= From(v, n) /\ ReadTo(v, n) \in Nat
    BY <1>2, <2>3
  <2>5. x < y
    BY <2>1, <2>2, <2>4
  <2> QED BY <2>1, <2>2, <2>5 DEF Less
<1>5. \A n \in DOMAIN ss : InOrder(ss[n], Less)
  BY <1>1, <1>2
<1>6. /\ FlattenSeq(ss) \in Seq(Nat) /\ InOrder(FlattenSeq(ss), Less)
      /\ ToSet(FlattenSeq(ss)) = UNION {ToSet(ss[n]) : n \in DOMAIN ss}
  <2>1. \A m, n \in DOMAIN ss : m < n => \A x \in ToSet(ss[m]), y \in ToSet(ss[n]) : <<x, y>> \in Less
    BY <1>1, <1>4
  <2> DEFINE Before == Less
  <2>2. /\ \A n \in DOMAIN ss : InOrder(ss[n], Before)
        /\ \A m, n \in DOMAIN ss : m < n => \A x \in ToSet(ss[m]), y \in ToSet(ss[n]) : <<x, y>> \in Before
    BY <1>5, <2>1
  <2> HIDE DEF Before
  <2>3. /\ FlattenSeq(ss) \in Seq(Nat) /\ InOrder(FlattenSeq(ss), Before)
        /\ ToSet(FlattenSeq(ss)) = UNION {ToSet(ss[n]) : n \in DOMAIN ss}
    BY <1>3, <2>2, FlatInOrder
  <2> QED BY <2>3 DEF Before
<1>7. ASSUME NEW i \in Nat, NEW n0 \in 1..N, v[n0].start <= i, i < v[n0].end
      PROVE  i \in ToSet(FlattenSeq(ss))
  <2> DEFINE T == {m \in 1..N : v[m].end > i}
             n == Min(T)
  <2>1. n0 \in T
    BY <1>2, <1>7
  <2>2. T \in SUBSET (1..N)
    OBVIOUS
  <2>3. n \in T /\ \A m \in T : n <= m
    <3> HIDE DEF T
    <3>1. 1 \in Int /\ N \in Int /\ T # {}
      BY <2>1
    <3> QED BY <2>2, <3>1, LeastInRange
  <2>4. n \in 1..N /\ v[n].end > i
    BY <2>3
  <2>5. \A m \in 1..N : v[m].end > i => n <= m
    BY <2>3
  <2>6. n <= n0
    BY <2>1, <2>3
  <2> HIDE DEF n, T
  <2>7. v[n].start <= i
    <3>1. CASE n = n0
      BY <1>7, <3>1
    <3>2. CASE n # n0
      <4>1. n < n0
        BY <2>4, <2>6, <3>2
      <4>2. v[n].start <= v[n0].start
        BY <2>4, <4>1 DEF ByStart
      <4>3. v[n].start \in Nat /\ v[n0].start \in Nat
        BY <1>2, <2>4
      <4> QED BY <1>7, <4>2, <4>3
    <3> QED BY <3>1, <3>2
  <2>8. ReadTo(v, n) <= i
    <3>1. ReadTo(v, n) = 0 \/ \E m \in 1..n - 1 : ReadTo(v, n) = v[m].end
      BY <2>4, NewBounds
    <3>2. ASSUME NEW m \in 1..n - 1 PROVE v[m].end <= i
      <4>1. m \in 1..N /\ m < n
        BY <2>4
      <4>2. v[m].end \in Nat
        BY <1>2, <4>1
      <4>3. ~(v[m].end > i)
        BY <2>4, <2>5, <4>1
      <4> QED BY <4>2, <4>3
    <3> QED BY <3>1, <3>2
  <2>9. From(v, n) <= i
    <3>1. From(v, n) = (IF ReadTo(v, n) >= v[n].start THEN ReadTo(v, n) ELSE v[n].start)
      BY <2>4, NewBounds
    <3> QED BY <2>7, <2>8, <3>1
  <2>10. i < v[n].end
    BY <1>2, <2>4
  <2>11. i \in ToSet(ss[n])
    BY <1>2, <2>4, <2>9, <2>10
  <2> QED BY <1>1, <1>6, <2>4, <2>11
<1> QED BY <1>6, <1>7

Earlier(s) ==
  {p \in (DOMAIN s) \X (DOMAIN s) :
     \/ s[p[1]].start < s[p[2]].start
     \/ s[p[1]].start = s[p[2]].start /\ p[1] < p[2]}
Nth(s) == [n \in DOMAIN s |-> s[At(DOMAIN s, Earlier(s), n)]]
ReadOf(s) == FlattenSeq([n \in DOMAIN s |-> NewIn(Nth(s), n)])

InText(s, L) == \A p \in ToSet(s) : p.start \in Nat /\ p.end \in Nat /\ p.start < p.end /\ p.end <= L

\* ReadIndexed sorts the pieces by their starts.
LEMMA InOrderOfStarts ==
  ASSUME NEW V, NEW s \in Seq(V), NEW L \in Nat, InText(s, L)
  PROVE  /\ ByStart(Nth(s), Len(s), L)
         /\ \A i \in 1..Len(s) : \E n \in 1..Len(s) : Nth(s)[n] = s[i]
<1> DEFINE N == Len(s)
           I == 1..N
           R == Earlier(s)
           v == Nth(s)
<1>1. N \in Nat /\ DOMAIN s = I /\ \A i \in I : s[i] \in ToSet(s)
  BY DEF ToSet
<1>2. \A i \in I : s[i].start \in Nat /\ s[i].end \in Nat /\ s[i].start < s[i].end /\ s[i].end <= L
  BY <1>1 DEF InText
<1>3. \A i, j : <<j, i>> \in R <=> /\ i \in I /\ j \in I
                                   /\ \/ s[j].start < s[i].start
                                      \/ s[j].start = s[i].start /\ j < i
  BY <1>1 DEF Earlier
<1>4. \A n \in I : v[n] = s[At(I, R, n)]
  BY <1>1 DEF Nth
<1>5. IsFiniteSet(I) /\ Cardinality(I) = N
  BY <1>1, UpTo
<1> HIDE DEF R, v
<1>6. InRow(I, R)
  <2>1. ASSUME NEW i \in I PROVE <<i, i>> \notin R
    BY <1>1, <1>2, <1>3
  <2>2. ASSUME NEW i \in I, NEW j \in I, i # j PROVE <<i, j>> \in R \/ <<j, i>> \in R
    <3>1. s[i].start \in Nat /\ s[j].start \in Nat
      BY <1>2
    <3>2. i \in Nat /\ j \in Nat
      BY <1>1
    <3> QED BY <1>3, <2>2, <3>1, <3>2
  <2>3. ASSUME NEW i \in I, NEW j \in I, NEW k \in I, <<i, j>> \in R, <<j, k>> \in R
        PROVE  <<i, k>> \in R
    <3>1. s[i].start \in Nat /\ s[j].start \in Nat /\ s[k].start \in Nat
      BY <1>2
    <3>2. i \in Nat /\ j \in Nat /\ k \in Nat
      BY <1>1
    <3> DEFINE a == s[i].start
               b == s[j].start
               z == s[k].start
    <3>3. (a < b \/ (a = b /\ i < j)) /\ (b < z \/ (b = z /\ j < k))
      BY <1>3, <2>3
    <3>4. a \in Nat /\ b \in Nat /\ z \in Nat
      BY <3>1
    <3> HIDE DEF a, b, z
    <3>5. a < z \/ (a = z /\ i < k)
      BY <3>2, <3>3, <3>4
    <3> QED BY <1>3, <3>5 DEF a, z
  <2> QED BY <2>1, <2>2, <2>3 DEF InRow
<1>7. IsOrder(I, R)
  BY <1>5, <1>6, PlacesAreTaken
<1>8. \A n \in I : At(I, R, n) \in I
  BY <1>5, <1>7 DEF IsOrder
<1>9. ASSUME NEW m \in I, NEW n \in I, m < n PROVE v[m].start <= v[n].start
  <2> DEFINE i == At(I, R, m)
             j == At(I, R, n)
  <2>1. <<i, j>> \in R
    BY <1>5, <1>7, <1>9 DEF IsOrder
  <2>2. i \in I /\ j \in I /\ v[m] = s[i] /\ v[n] = s[j]
    BY <1>4, <1>8
  <2> HIDE DEF i, j
  <2>3. s[i].start < s[j].start \/ s[i].start = s[j].start
    BY <1>3, <2>1
  <2>4. s[i].start \in Nat /\ s[j].start \in Nat
    BY <1>2, <2>2
  <2> QED BY <2>2, <2>3, <2>4
<1>10. ASSUME NEW n \in I
       PROVE  v[n].start \in Nat /\ v[n].end \in Nat /\ v[n].start < v[n].end /\ v[n].end <= L
  BY <1>2, <1>4, <1>8
<1>11. ASSUME NEW i \in I PROVE \E n \in I : v[n] = s[i]
  <2>1. PICK n \in I : At(I, R, n) = i
    BY <1>5, <1>7 DEF IsOrder
  <2> QED BY <1>4, <2>1
<1> QED BY <1>9, <1>10, <1>11 DEF ByStart, v

\* What the pieces hold is read back, once and in order.
LEMMA TextIsRead ==
  ASSUME NEW V, NEW s \in Seq(V), NEW L \in Nat, InText(s, L)
  PROVE  /\ ReadOf(s) \in Seq(Nat) /\ InOrder(ReadOf(s), Less)
         /\ \A x \in Nat : Held(ToSet(s), x) => x \in ToSet(ReadOf(s))
<1> DEFINE N == Len(s)
           v == Nth(s)
           ss == [n \in DOMAIN s |-> NewIn(v, n)]
<1>1. N \in Nat /\ DOMAIN s = 1..N
  OBVIOUS
<1>2. ByStart(v, N, L) /\ \A i \in 1..N : \E n \in 1..N : v[n] = s[i]
  BY InOrderOfStarts
<1> HIDE DEF v
<1>3. IsReading(ss, v, N)
  BY <1>1 DEF IsReading
<1>4. ReadOf(s) = FlattenSeq(ss)
  BY DEF ReadOf, v
<1> HIDE DEF ss
<1>5. /\ FlattenSeq(ss) \in Seq(Nat) /\ InOrder(FlattenSeq(ss), Less)
      /\ \A i \in Nat : (\E n \in 1..N : v[n].start <= i /\ i < v[n].end) => i \in ToSet(FlattenSeq(ss))
  BY <1>1, <1>2, <1>3, ReadInOrder
<1>6. ASSUME NEW x \in Nat, Held(ToSet(s), x) PROVE x \in ToSet(ReadOf(s))
  <2>1. PICK i \in 1..N : s[i].start <= x /\ x < s[i].end
    BY <1>1, <1>6 DEF Held, ToSet
  <2>2. PICK n \in 1..N : v[n] = s[i]
    BY <1>2
  <2> QED BY <1>4, <1>5, <2>1, <2>2
<1> QED BY <1>4, <1>5, <1>6

-----------------------------------------------------------------------------
(* The invariant *)

ChunkInv ==
  /\ pieceLimit \in Limits /\ cutting \in {"idle", "cut", "read"}
  /\ cutting = "idle" => pieces = <<>> /\ parents = <<>>
  /\ cutting # "idle" => document \in Documents /\ PiecesAreGood(document, parents, pieceLimit.size, pieces)
  /\ cutting = "read" => readBack = ReadOf(pieces)

\* The inductive invariant holds in every state.
LEMMA ChunkInvHolds == ChunkSpec => []ChunkInv
<1>1. ChunkInit => ChunkInv
  BY DEF ChunkInit, ChunkInv
<1>2. ChunkInv /\ [ChunkNext]_chunkVars => ChunkInv'
  <2> SUFFICES ASSUME ChunkInv, [ChunkNext]_chunkVars PROVE ChunkInv'
    OBVIOUS
  <2>1. CASE ChunkDocument
    <3>1. /\ document' \in Documents /\ cutting' = "cut" /\ pieceLimit' = pieceLimit
          /\ cutting = "idle" /\ parents' = parents
          /\ pieces' = CutUp(document', pieceLimit, WholeOf(document'))
      BY <2>1 DEF ChunkDocument, WholeOf
    <3>2. parents' = <<>> /\ pieceLimit \in Limits
      BY <3>1 DEF ChunkInv
    <3>3. PiecesAreGood(document', <<>>, pieceLimit.size, CutUp(document', pieceLimit, WholeOf(document')))
      BY <3>1, <3>2, DocumentCut
    <3>4. PiecesAreGood(document', parents', pieceLimit'.size, pieces')
      BY <3>1, <3>2, <3>3
    <3> QED BY <3>1, <3>2, <3>4 DEF ChunkInv
  <2>2. CASE ChunkParentsAndChildren
    <3>1. /\ document' \in Documents /\ cutting' = "cut" /\ pieceLimit' = pieceLimit
          /\ \E larger \in Limits : parents' = CutUp(document', larger, WholeOf(document'))
          /\ pieces' = AllChildren(document', pieceLimit, parents')
      BY <2>2 DEF ChunkParentsAndChildren, WholeOf, AllChildren, Owned, Children
    <3>2. pieceLimit \in Limits
      BY DEF ChunkInv
    <3>3. PICK larger \in Limits : parents' = CutUp(document', larger, WholeOf(document'))
      BY <3>1
    <3>4. PiecesAreGood(document', CutUp(document', larger, WholeOf(document')), pieceLimit.size,
                        AllChildren(document', pieceLimit, CutUp(document', larger, WholeOf(document'))))
      BY <3>1, <3>2, ParentsCut
    <3>5. PiecesAreGood(document', parents', pieceLimit'.size, pieces')
      BY <3>1, <3>3, <3>4
    <3> QED BY <3>1, <3>2, <3>5 DEF ChunkInv
  <2>3. CASE ReadIndexed
    <3>1. /\ cutting = "cut" /\ cutting' = "read" /\ readBack' = ReadOf(pieces)
          /\ document' = document /\ parents' = parents /\ pieces' = pieces /\ pieceLimit' = pieceLimit
      BY <2>3 DEF ReadIndexed, ReadOf, NewIn, From, ReadTo, Nth, At, Earlier
    <3> QED BY <3>1 DEF ChunkInv
  <2>4. CASE UNCHANGED chunkVars
    BY <2>4 DEF ChunkInv, chunkVars
  <2> QED BY <2>1, <2>2, <2>3, <2>4 DEF ChunkNext
<1> QED BY <1>1, <1>2, PTL DEF ChunkSpec

\* However a document is cut, by one limit or into parents and children
\* (chunker.py): every piece is a window of it, holds some text and fits its
\* limit where it can; a child lies in its parent, and no parent is without
\* one; and what the pieces hold, read back by their starts
\* (startup_ingest.py _read_indexed_content), is all of the document's text, once
\* and in order.
THEOREM ChunkedTextIsWhole == ChunkSpec => []PiecesHoldTheText
<1>1. ChunkInv => PiecesHoldTheText
  <2> SUFFICES ASSUME ChunkInv PROVE PiecesHoldTheText
    OBVIOUS
  <2> DEFINE L == Len(Content(document))
  <2>1. CASE cutting = "idle"
    <3>1. pieces = <<>> /\ parents = <<>> /\ ToSet(<<>>) = {}
      BY <2>1 DEF ChunkInv, ToSet
    <3>2. ChunkTypeOK
      BY <2>1, <3>1 DEF ChunkTypeOK, ChunkInv
    <3> QED BY <2>1, <3>1, <3>2 DEF PiecesHoldTheText
  <2>2. CASE cutting # "idle"
    <3>1. document \in Documents /\ PiecesAreGood(document, parents, pieceLimit.size, pieces)
      BY <2>2 DEF ChunkInv
    <3>2. Content(document) \in Text /\ L \in Nat
      BY <3>1, ContentLaid, TextLength
    <3>3. /\ pieces \in Seq(AnyPiece(document))
          /\ \A p \in ToSet(pieces) : GoodPiece(document, parents, pieceLimit.size, p)
          /\ \A x \in Ink(Content(document)) : Held(ToSet(pieces), x)
          /\ \A q \in DOMAIN parents : \E p \in ToSet(pieces) : p.parent = q
      BY <3>1 DEF PiecesAreGood
    <3>4. \A q \in ToSet(parents) : q.start \in Nat /\ q.end \in Nat /\ q.start < q.end /\ q.end <= L
      BY <3>1 DEF PiecesAreGood
    <3> HIDE DEF L
    <3>5. ASSUME NEW p \in ToSet(pieces) \cup ToSet(parents)
          PROVE  p.start \in Nat /\ p.end \in p.start + 1..L
      <4>1. p.start \in Nat /\ p.end \in Nat /\ p.start < p.end /\ p.end <= L
        BY <3>3, <3>4 DEF GoodPiece, L
      <4> QED BY <3>2, <4>1
    <3>6. ChunkTypeOK
      BY <3>1, <3>5 DEF ChunkTypeOK, ChunkInv, L
    <3>7. ASSUME NEW p \in ToSet(pieces)
          PROVE  /\ Inked(Content(document), p) # {} \/ p.prefix + p.suffix > 0
                 /\ Length(p) <= pieceLimit.size \/ MayExceed(p)
                 /\ p.parent # 0 =>
                      LET q == parents[p.parent]
                      IN q.start <= p.start /\ p.end <= q.end /\ q.section = p.section
      <4>1. GoodPiece(document, parents, pieceLimit.size, p)
        BY <3>3
      <4>2. Inked(Content(document), p) # {} \/ p.prefix + p.suffix > 0
        <5>1. Shown(Content(document), p)
          BY <4>1 DEF GoodPiece
        <5>2. CASE \E x \in Ink(Content(document)) : InBlock(x, p)
          <6>1. PICK x \in Ink(Content(document)) : InBlock(x, p)
            BY <5>2
          <6>2. p.start \in Nat /\ p.end \in Nat /\ p.end <= Len(Content(document))
            BY <4>1 DEF GoodPiece
          <6>3. x \in Inked(Content(document), p)
            BY <3>2, <6>1, <6>2, InkWithin DEF InBlock
          <6> QED BY <6>3
        <5> QED BY <5>1, <5>2 DEF Shown
      <4>3. Length(p) <= pieceLimit.size \/ MayExceed(p)
        BY <4>1 DEF GoodPiece, Fitting, Length, MayExceed
      <4>4. p.parent # 0 =>
                      LET q == parents[p.parent]
                      IN q.start <= p.start /\ p.end <= q.end /\ q.section = p.section
        BY <4>1 DEF GoodPiece, Inside
      <4> QED BY <4>2, <4>3, <4>4
    <3>8. ASSUME cutting = "read"
          PROVE  /\ InkOf(document) \subseteq ToSet(readBack)
                 /\ \A m, n \in DOMAIN readBack : m < n => readBack[m] < readBack[n]
      <4>1. readBack = ReadOf(pieces)
        BY <3>8 DEF ChunkInv
      <4>2. InText(pieces, L)
        BY <3>3 DEF InText, GoodPiece, L
      <4>3. /\ ReadOf(pieces) \in Seq(Nat) /\ InOrder(ReadOf(pieces), Less)
            /\ \A x \in Nat : Held(ToSet(pieces), x) => x \in ToSet(ReadOf(pieces))
        BY <3>2, <3>3, <4>2, TextIsRead
      <4>4. \A m, n \in DOMAIN readBack : m < n => readBack[m] < readBack[n]
        BY <4>1, <4>3 DEF InOrder, Less
      <4>5. ASSUME NEW x \in InkOf(document) PROVE x \in ToSet(readBack)
        <5>1. x \in Inked(Content(document), Window(0, L))
          BY DEF InkOf, L
        <5>2. Window(0, L).start = 0 /\ Window(0, L).end = L
          BY <3>2, WindowFields
        <5>3. L <= Len(Content(document))
          BY <3>2 DEF L
        <5>4. x \in Ink(Content(document))
          BY <3>2, <5>1, <5>2, <5>3, InkWithin
        <5>5. x \in Nat
          BY <3>2, <5>4, InkIsText
        <5> QED BY <3>3, <4>1, <4>3, <5>4, <5>5
      <4> QED BY <4>4, <4>5
    <3> QED BY <3>3, <3>6, <3>7, <3>8 DEF PiecesHoldTheText
  <2> QED BY <2>1, <2>2
<1> QED BY <1>1, ChunkInvHolds, PTL

=============================================================================
