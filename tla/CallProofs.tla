----------------------------- MODULE CallProofs -----------------------------
(***************************************************************************)
(* Proofs about the parts of an answer's work that call others: the ledger *)
(* of the model's calls (LlmGovernance), the fan-out of sub-questions      *)
(* (SubqueryFanout) and the loop of tool calls (AgentLoop), and the lemmas *)
(* about sums, folds and sequences that they rest on.                      *)
(***************************************************************************)
EXTENDS LlmGovernance, SubqueryFanout, AgentLoop, FiniteSetTheorems, FunctionTheorems,
        SequenceTheorems, TLAPS

-----------------------------------------------------------------------------
(* Induction over finite sets, and sums *)

\* Induction in the form of sets: the least number that S lacks would follow one
\* that S has.
LEMMA NatSetInduction ==
  ASSUME NEW S, 0 \in S, \A n \in Nat : n \in S => n + 1 \in S
  PROVE  Nat \subseteq S
<1> DEFINE R == OpToRel(<, Nat)
<1> HIDE DEF R
<1>1. IsWellFoundedOn(R, Nat)
  BY NatLessThanWellFounded DEF R
<1>2. SUFFICES ASSUME Nat \ S # {} PROVE FALSE
  OBVIOUS
<1>3. PICK x \in Nat \ S : \A y \in Nat \ S : <<y, x>> \notin R
  BY <1>1, <1>2, WFMin
<1>4. x # 0 /\ x - 1 \in Nat
  BY <1>3
<1>5. x - 1 \notin S
  BY <1>3, <1>4
<1>6. <<x - 1, x>> \in R
  BY <1>4, <1>3 DEF OpToRel, R
<1> QED BY <1>3, <1>4, <1>5, <1>6

\* A set of subsets of a finite S that a set joins with its members' removal is
\* all of them.
LEMMA SubsetInduction ==
  ASSUME NEW S, IsFiniteSet(S), NEW I, {} \in I,
         \A s \in SUBSET S : s # {} /\ (\A x \in s : s \ {x} \in I) => s \in I
  PROVE  SUBSET S \subseteq I
<1> DEFINE N == {n \in Nat : \A s \in SUBSET S : Cardinality(s) = n => s \in I}
<1>1. 0 \in N
  <2> SUFFICES ASSUME NEW s \in SUBSET S, Cardinality(s) = 0 PROVE s \in I
    OBVIOUS
  <2>1. IsFiniteSet(s)
    BY FS_Subset
  <2>2. s = {}
    BY <2>1, FS_EmptySet
  <2> QED BY <2>2
<1>2. ASSUME NEW n \in Nat, n \in N PROVE n + 1 \in N
  <2> SUFFICES ASSUME NEW s \in SUBSET S, Cardinality(s) = n + 1 PROVE s \in I
    OBVIOUS
  <2>1. IsFiniteSet(s)
    BY FS_Subset
  <2>2. Cardinality({}) = 0
    BY FS_EmptySet
  <2>3. ASSUME NEW x \in s PROVE s \ {x} \in I
    <3>1. Cardinality(s \ {x}) = Cardinality(s) - 1
      BY <2>1, <2>3, FS_RemoveElement, Zenon
    <3>2. Cardinality(s \ {x}) = n
      BY <3>1
    <3> QED BY <3>2, <1>2
  <2>4. s # {}
    BY <2>2
  <2> QED BY <2>3, <2>4
<1>3. Nat \subseteq N
  <2> HIDE DEF N
  <2> QED BY <1>1, <1>2, NatSetInduction
<1>4. ASSUME NEW s \in SUBSET S PROVE s \in I
  <2>1. Cardinality(s) \in Nat
    BY FS_Subset, FS_CardinalityType
  <2> QED BY <1>3, <2>1
<1> QED BY <1>4

\* A function computed over the subsets of S, one chosen element at a time.
Computes(it, S, V, b, ch, st) ==
  /\ it \in [SUBSET S -> V]
  /\ it = [s \in SUBSET S |-> IF s = {} THEN b ELSE st[<<ch[s], it[s \ {ch[s]}]>>]]

\* A function may be defined over the subsets of a finite set by taking out an
\* element that ch chooses: what the folds of the community modules do.
LEMMA SubsetRecursion ==
  ASSUME NEW S, IsFiniteSet(S), NEW V, NEW b \in V,
         NEW ch, \A s \in SUBSET S : s # {} => ch[s] \in s,
         NEW st, \A x \in S, v \in V : st[<<x, v>>] \in V
  PROVE  \E it : Computes(it, S, V, b, ch, st)
<1> DEFINE Small(n) == {s \in SUBSET S : Cardinality(s) <= n}
           Fits(it, n) == \A s \in Small(n) :
                            it[s] = IF s = {} THEN b ELSE st[<<ch[s], it[s \ {ch[s]}]>>]
           N == {n \in Nat : \E it \in [SUBSET S -> V] : Fits(it, n)}
<1>1. 0 \in N
  <2> DEFINE it == [s \in SUBSET S |-> b]
  <2>1. ASSUME NEW s \in Small(0) PROVE s = {}
    <3>1. IsFiniteSet(s) /\ Cardinality(s) \in Nat
      BY FS_Subset, FS_CardinalityType
    <3> QED BY <3>1, FS_EmptySet
  <2>2. it \in [SUBSET S -> V] /\ Fits(it, 0)
    BY <2>1
  <2> QED BY <2>2
<1>2. ASSUME NEW n \in Nat, n \in N PROVE n + 1 \in N
  <2>1. PICK g \in [SUBSET S -> V] : Fits(g, n)
    BY <1>2
  <2> DEFINE it == [s \in SUBSET S |-> IF s = {} THEN b ELSE st[<<ch[s], g[s \ {ch[s]}]>>]]
  <2>2. it \in [SUBSET S -> V]
    <3> SUFFICES ASSUME NEW s \in SUBSET S, s # {} PROVE st[<<ch[s], g[s \ {ch[s]}]>>] \in V
      OBVIOUS
    <3>1. ch[s] \in S /\ g[s \ {ch[s]}] \in V
      OBVIOUS
    <3> QED BY <3>1
  <2>3. ASSUME NEW s \in Small(n + 1), s # {} PROVE it[s \ {ch[s]}] = g[s \ {ch[s]}]
    <3>1. IsFiniteSet(s) /\ Cardinality(s) \in Nat
      BY FS_Subset, FS_CardinalityType
    <3>2. ch[s] \in s
      BY <2>3
    <3>3. Cardinality(s \ {ch[s]}) = Cardinality(s) - 1
      BY <3>1, <3>2, FS_RemoveElement, ZenonT(30)
    <3>4. s \ {ch[s]} \in Small(n)
      BY <1>2, <2>3, <3>1, <3>3
    <3> QED BY <3>4, <2>1
  <2>4. Fits(it, n + 1)
    <3> SUFFICES ASSUME NEW s \in Small(n + 1)
                 PROVE  it[s] = IF s = {} THEN b ELSE st[<<ch[s], it[s \ {ch[s]}]>>]
      OBVIOUS
    <3>1. CASE s = {}
      BY <3>1
    <3>2. CASE s # {}
      BY <3>2, <2>3
    <3> QED BY <3>1, <3>2
  <2> HIDE DEF it, Fits
  <2> QED BY <2>2, <2>4
<1>3. Nat \subseteq N
  <2> HIDE DEF N
  <2> QED BY <1>1, <1>2, NatSetInduction
<1>4. Cardinality(S) \in Nat
  BY FS_CardinalityType
<1>5. PICK it \in [SUBSET S -> V] : Fits(it, Cardinality(S))
  BY <1>3, <1>4
<1>6. \A s \in SUBSET S : s \in Small(Cardinality(S))
  BY FS_Subset
<1>7. \A s \in SUBSET S : it[s] = IF s = {} THEN b ELSE st[<<ch[s], it[s \ {ch[s]}]>>]
  BY <1>5, <1>6
<1>8. it = [s \in SUBSET S |-> IF s = {} THEN b ELSE st[<<ch[s], it[s \ {ch[s]}]>>]]
  BY <1>7
<1> QED BY <1>8 DEF Computes

-----------------------------------------------------------------------------

Some(s) == CHOOSE x \in s : TRUE

IsSum(h, w, S) ==
  h = [s \in SUBSET S |-> IF s = {} THEN 0 ELSE w[Some(s)] + h[s \ {Some(s)}]]

\* SumOf is the value of such a function.
LEMMA SumsExist ==
  ASSUME NEW S, IsFiniteSet(S), NEW w, \A x \in S : w[x] \in Nat
  PROVE  \E h : IsSum(h, w, S) /\ SumOf(w, S) = h[S]
<1> DEFINE st == [p \in S \X Nat |-> w[p[1]] + p[2]]
           ch == [s \in SUBSET S |-> Some(s)]
<1>1. \A s \in SUBSET S : s # {} => ch[s] \in s
  BY DEF Some
<1>2. \A x \in S, v \in Nat : st[<<x, v>>] = w[x] + v /\ st[<<x, v>>] \in Nat
  OBVIOUS
<1>3. \E it : Computes(it, S, Nat, 0, ch, st)
  <2>1. \A x \in S, v \in Nat : st[<<x, v>>] \in Nat
    OBVIOUS
  <2>2. 0 \in Nat
    OBVIOUS
  <2> HIDE DEF st, ch
  <2> QED BY <1>1, <2>1, <2>2, SubsetRecursion
<1>4. PICK it \in [SUBSET S -> Nat] :
        it = [s \in SUBSET S |-> IF s = {} THEN 0 ELSE st[<<ch[s], it[s \ {ch[s]}]>>]]
  BY <1>3 DEF Computes
<1>5. \A s \in SUBSET S : it[s] = IF s = {} THEN 0 ELSE w[Some(s)] + it[s \ {Some(s)}]
  <2> SUFFICES ASSUME NEW s \in SUBSET S, s # {} PROVE it[s] = w[Some(s)] + it[s \ {Some(s)}]
    BY <1>4
  <2>1. ch[s] = Some(s) /\ Some(s) \in S /\ it[s \ {Some(s)}] \in Nat
    BY <1>1
  <2>2. it[s] = st[<<Some(s), it[s \ {Some(s)}]>>]
    BY <1>4, <2>1
  <2> HIDE DEF st
  <2> QED BY <1>2, <2>1, <2>2
<1>6. IsSum(it, w, S)
  <2>1. it = [s \in SUBSET S |-> it[s]]
    OBVIOUS
  <2> QED BY <1>5, <2>1 DEF IsSum
<1> QED BY <1>6, ZenonT(30) DEF IsSum, SumOf, MapThenSumSet, MapThenFoldSet, Some

\* Two such functions agree where their weights do.
LEMMA SumsAgree ==
  ASSUME NEW S, NEW T \in SUBSET S, IsFiniteSet(T), NEW w, NEW v,
         \A x \in T : w[x] \in Nat /\ v[x] = w[x],
         NEW g, IsSum(g, w, S), NEW h, IsSum(h, v, T)
  PROVE  \A s \in SUBSET T : g[s] \in Nat /\ h[s] = g[s]
<1> DEFINE I == {s \in SUBSET T : g[s] \in Nat /\ h[s] = g[s]}
<1>1. {} \in I
  BY DEF IsSum
<1>2. ASSUME NEW s \in SUBSET T, s # {}, \A x \in s : s \ {x} \in I PROVE s \in I
  <2>1. Some(s) \in s
    BY <1>2 DEF Some
  <2>2. g[s] = w[Some(s)] + g[s \ {Some(s)}]
    BY <1>2 DEF IsSum
  <2>3. h[s] = v[Some(s)] + h[s \ {Some(s)}]
    BY <1>2 DEF IsSum
  <2>4. s \ {Some(s)} \in I
    BY <1>2, <2>1
  <2> QED BY <2>1, <2>2, <2>3, <2>4
<1>3. SUBSET T \subseteq I
  <2> HIDE DEF I
  <2> QED BY <1>1, <1>2, SubsetInduction
<1> QED BY <1>3

\* The sum depends on the weights of the members only.
LEMMA SumCongruence ==
  ASSUME NEW S, IsFiniteSet(S), NEW w, NEW v, \A x \in S : w[x] \in Nat /\ v[x] = w[x]
  PROVE  SumOf(w, S) \in Nat /\ SumOf(v, S) = SumOf(w, S)
<1>1. PICK g : IsSum(g, w, S) /\ SumOf(w, S) = g[S]
  BY SumsExist
<1>2. PICK h : IsSum(h, v, S) /\ SumOf(v, S) = h[S]
  BY SumsExist
<1>3. \A s \in SUBSET S : g[s] \in Nat /\ h[s] = g[s]
  BY <1>1, <1>2, SumsAgree
<1> QED BY <1>1, <1>2, <1>3

\* The sum over nothing, and with the chosen element taken out.
LEMMA SumEmpty ==
  ASSUME NEW w
  PROVE  SumOf(w, {}) = 0
<1>1. IsFiniteSet({})
  BY FS_EmptySet
<1>2. PICK h : IsSum(h, w, {}) /\ SumOf(w, {}) = h[{}]
  BY <1>1, SumsExist
<1> QED BY <1>2 DEF IsSum

LEMMA SumFirst ==
  ASSUME NEW S, IsFiniteSet(S), S # {}, NEW w, \A x \in S : w[x] \in Nat
  PROVE  SumOf(w, S) = w[Some(S)] + SumOf(w, S \ {Some(S)})
<1> DEFINE T == S \ {Some(S)}
<1>1. IsFiniteSet(T) /\ T \in SUBSET S
  BY FS_Subset
<1>2. PICK g : IsSum(g, w, S) /\ SumOf(w, S) = g[S]
  BY SumsExist
<1>3. PICK h : IsSum(h, w, T) /\ SumOf(w, T) = h[T]
  BY <1>1, SumsExist
<1>4. \A s \in SUBSET T : g[s] \in Nat /\ h[s] = g[s]
  <2>1. \A x \in T : w[x] \in Nat /\ w[x] = w[x]
    OBVIOUS
  <2> HIDE DEF T
  <2> QED BY <1>1, <1>2, <1>3, <2>1, SumsAgree
<1>5. g[S] = w[Some(S)] + g[T]
  BY <1>2 DEF IsSum
<1> QED BY <1>2, <1>3, <1>4, <1>5

\* Any member can be taken out of the sum.
LEMMA SumMember ==
  ASSUME NEW S, IsFiniteSet(S), NEW w, \A x \in S : w[x] \in Nat
  PROVE  \A x \in S : SumOf(w, S) = w[x] + SumOf(w, S \ {x})
<1> DEFINE I == {s \in SUBSET S : \A x \in s : SumOf(w, s) = w[x] + SumOf(w, s \ {x})}
<1>1. {} \in I
  OBVIOUS
<1>2. ASSUME NEW s \in SUBSET S, s # {}, \A x \in s : s \ {x} \in I PROVE s \in I
  <2> DEFINE f == Some(s)
  <2>1. IsFiniteSet(s) /\ f \in s
    BY <1>2, FS_Subset DEF Some
  <2>2. SumOf(w, s) = w[f] + SumOf(w, s \ {f})
    BY <1>2, <2>1, SumFirst
  <2>3. ASSUME NEW x \in s PROVE SumOf(w, s) = w[x] + SumOf(w, s \ {x})
    <3>1. CASE x = f
      BY <2>2, <3>1
    <3>2. CASE x # f
      <4> HIDE DEF f
      <4>1. SumOf(w, s \ {f}) = w[x] + SumOf(w, (s \ {f}) \ {x})
        BY <1>2, <2>1, <3>2
      <4>2. SumOf(w, s \ {x}) = w[f] + SumOf(w, (s \ {x}) \ {f})
        BY <1>2, <2>1, <3>2
      <4>3. (s \ {f}) \ {x} = (s \ {x}) \ {f}
        OBVIOUS
      <4>4. IsFiniteSet((s \ {x}) \ {f}) /\ w[x] \in Nat /\ w[f] \in Nat
        BY <2>1, FS_Subset
      <4>5. SumOf(w, (s \ {x}) \ {f}) \in Nat
        BY <4>4, SumCongruence
      <4>6. SumOf(w, s) = w[f] + (w[x] + SumOf(w, (s \ {x}) \ {f}))
        BY <2>2, <4>1, <4>3
      <4> QED BY <4>2, <4>4, <4>5, <4>6
    <3> QED BY <3>1, <3>2
  <2> QED BY <2>3
<1>3. SUBSET S \subseteq I
  <2> HIDE DEF I
  <2> QED BY <1>1, <1>2, SubsetInduction
<1> QED BY <1>3

\* A member joins.
LEMMA SumAdd ==
  ASSUME NEW S, IsFiniteSet(S), NEW x, x \notin S, NEW w, \A y \in S \cup {x} : w[y] \in Nat
  PROVE  SumOf(w, S \cup {x}) = w[x] + SumOf(w, S)
<1>1. IsFiniteSet(S \cup {x}) /\ (S \cup {x}) \ {x} = S
  BY FS_AddElement
<1> QED BY <1>1, SumMember

\* One weight is changed.
LEMMA SumUpdate ==
  ASSUME NEW S, IsFiniteSet(S), NEW x \in S, NEW w, NEW v,
         \A y \in S : w[y] \in Nat /\ v[y] \in Nat,
         \A y \in S \ {x} : v[y] = w[y]
  PROVE  SumOf(v, S) = SumOf(w, S) + v[x] - w[x]
<1>1. IsFiniteSet(S \ {x})
  BY FS_Subset
<1>2. SumOf(w, S) = w[x] + SumOf(w, S \ {x})
  BY SumMember
<1>3. SumOf(v, S) = v[x] + SumOf(v, S \ {x})
  BY SumMember
<1>4. SumOf(w, S \ {x}) \in Nat /\ SumOf(v, S \ {x}) = SumOf(w, S \ {x})
  BY <1>1, SumCongruence
<1> QED BY <1>2, <1>3, <1>4

LEMMA SumZero ==
  ASSUME NEW S, IsFiniteSet(S), NEW w, \A x \in S : w[x] = 0
  PROVE  SumOf(w, S) = 0
<1> DEFINE I == {s \in SUBSET S : SumOf(w, s) = 0}
<1>1. {} \in I
  BY SumEmpty
<1>2. ASSUME NEW s \in SUBSET S, s # {}, \A x \in s : s \ {x} \in I PROVE s \in I
  <2>1. IsFiniteSet(s)
    BY FS_Subset
  <2>2. PICK x \in s : TRUE
    BY <1>2
  <2>3. SumOf(w, s) = w[x] + SumOf(w, s \ {x})
    BY <2>1, SumMember
  <2> QED BY <1>2, <2>2, <2>3
<1>3. SUBSET S \subseteq I
  <2> HIDE DEF I
  <2> QED BY <1>1, <1>2, SubsetInduction
<1> QED BY <1>3

\* The indices up to n.
LEMMA UpTo ==
  ASSUME NEW n \in Nat
  PROVE  IsFiniteSet(1..n) /\ Cardinality(1..n) = n
<1>1. 1 \in Int /\ n \in Int /\ n = (IF 1 > n THEN 0 ELSE n - 1 + 1)
  OBVIOUS
<1>2. IsFiniteSet(1..n) /\ Cardinality(1..n) = (IF 1 > n THEN 0 ELSE n - 1 + 1)
  BY <1>1, FS_Interval, Zenon
<1> QED BY <1>1, <1>2

-----------------------------------------------------------------------------
(* Sorting by counting what is before *)

\* R puts the members of I in a row.
InRow(I, R) ==
  /\ \A i \in I : <<i, i>> \notin R
  /\ \A i, j \in I : i # j => <<i, j>> \in R \/ <<j, i>> \in R
  /\ \A i, j, k \in I : <<i, j>> \in R /\ <<j, k>> \in R => <<i, k>> \in R

At(I, R, n) == CHOOSE i \in I : Cardinality({j \in I : <<j, i>> \in R}) + 1 = n

IsOrder(I, R) ==
  /\ \A n \in 1..Cardinality(I) : At(I, R, n) \in I
  /\ \A m, n \in 1..Cardinality(I) : m < n => <<At(I, R, m), At(I, R, n)>> \in R
  /\ \A i \in I : \E n \in 1..Cardinality(I) : At(I, R, n) = i

\* The number of members before one is its place: the places are taken, each
\* once, by cardinality.
LEMMA PlacesAreTaken ==
  ASSUME NEW I, IsFiniteSet(I), NEW R, InRow(I, R)
  PROVE  IsOrder(I, R)
<1> DEFINE Before(i) == {j \in I : <<j, i>> \in R}
           c == Cardinality(I)
           rank == [i \in I |-> Cardinality(Before(i)) + 1]
<1>1. c \in Nat
  BY FS_CardinalityType
<1>2. ASSUME NEW i \in I PROVE IsFiniteSet(Before(i)) /\ Cardinality(Before(i)) \in Nat /\ rank[i] \in 1..c
  <2>1. Before(i) \in SUBSET I /\ i \notin Before(i)
    BY DEF InRow
  <2>2. IsFiniteSet(Before(i)) /\ Cardinality(Before(i)) <= c
    BY <2>1, FS_Subset
  <2>3. Cardinality(Before(i)) # c
    BY <2>1, FS_Subset
  <2>4. Cardinality(Before(i)) \in Nat
    BY <2>2, FS_CardinalityType
  <2> HIDE DEF Before, c
  <2> QED BY <1>1, <2>2, <2>3, <2>4
<1>3. ASSUME NEW i \in I, NEW j \in I, <<j, i>> \in R PROVE rank[j] < rank[i]
  <2>1. Before(j) \in SUBSET Before(i) /\ j \in Before(i) /\ j \notin Before(j)
    BY <1>3 DEF InRow
  <2>2. Cardinality(Before(j)) <= Cardinality(Before(i)) /\ Cardinality(Before(j)) # Cardinality(Before(i))
    BY <2>1, <1>2, FS_Subset
  <2>3. Cardinality(Before(i)) \in Nat /\ Cardinality(Before(j)) \in Nat
    BY <1>2
  <2> HIDE DEF Before
  <2> QED BY <2>2, <2>3
<1>4. \A i, j \in I : i # j => rank[i] # rank[j]
  <2> SUFFICES ASSUME NEW i \in I, NEW j \in I, i # j PROVE rank[i] # rank[j]
    OBVIOUS
  <2>1. <<i, j>> \in R \/ <<j, i>> \in R
    BY DEF InRow
  <2>2. rank[i] < rank[j] \/ rank[j] < rank[i]
    BY <1>3, <2>1
  <2>3. rank[i] \in 1..c /\ rank[j] \in 1..c
    BY <1>2
  <2> HIDE DEF rank
  <2> QED BY <1>1, <2>2, <2>3
<1>5. rank \in [I -> 1..c]
  BY <1>2
<1>6. \A n \in 1..c : \E i \in I : rank[i] = n
  <2> HIDE DEF rank
  <2>1. rank \in Injection(I, 1..c)
    BY <1>4, <1>5 DEF Injection, IsInjective
  <2>2. IsFiniteSet(1..c) /\ Cardinality(1..c) = c
    BY <1>1, UpTo
  <2>3. rank \in Surjection(I, 1..c)
    BY <2>1, <2>2, FS_Injection
  <2> QED BY <2>3 DEF Surjection
<1>7. \A n \in 1..c : At(I, R, n) \in I /\ rank[At(I, R, n)] = n
  <2> SUFFICES ASSUME NEW n \in 1..c PROVE At(I, R, n) \in I /\ rank[At(I, R, n)] = n
    OBVIOUS
  <2>1. PICK i \in I : Cardinality(Before(i)) + 1 = n
    BY <1>6
  <2>2. At(I, R, n) = CHOOSE k \in I : Cardinality(Before(k)) + 1 = n
    BY DEF At
  <2>3. At(I, R, n) \in I /\ Cardinality(Before(At(I, R, n))) + 1 = n
    <3> HIDE DEF Before
    <3> QED BY <2>1, <2>2
  <2> QED BY <2>3
<1>8. ASSUME NEW m \in 1..c, NEW n \in 1..c, m < n PROVE <<At(I, R, m), At(I, R, n)>> \in R
  <2> DEFINE a == At(I, R, m)
             b == At(I, R, n)
  <2>1. a \in I /\ b \in I /\ rank[a] = m /\ rank[b] = n
    BY <1>7
  <2> HIDE DEF a, b, rank
  <2>2. a # b
    BY <1>1, <1>8, <2>1
  <2>3. CASE <<b, a>> \in R
    BY <1>1, <1>3, <1>8, <2>1, <2>3
  <2>4. CASE <<a, b>> \in R
    BY <2>4 DEF a, b
  <2> QED BY <2>1, <2>2, <2>3, <2>4 DEF InRow
<1>9. ASSUME NEW i \in I PROVE \E n \in 1..c : At(I, R, n) = i
  <2>1. rank[i] \in 1..c
    BY <1>2
  <2>2. At(I, R, rank[i]) \in I /\ rank[At(I, R, rank[i])] = rank[i]
    BY <1>7, <2>1
  <2>3. At(I, R, rank[i]) = i
    <3> HIDE DEF rank
    <3> QED BY <1>4, <2>2
  <2> QED BY <2>1, <2>3
<1> QED BY <1>7, <1>8, <1>9 DEF IsOrder

-----------------------------------------------------------------------------
(* The ledger of the calls *)

Fields == {"calls", "failed", "retries", "tokens"}

\* What the call of t adds to the ledger.
Share(t) == [calls |-> 1, failed |-> IF at[t] = "bookFailure" THEN 1 ELSE 0,
             retries |-> retries[t], tokens |-> IF at[t] = "book" THEN 1 ELSE 0]

\* The scenes hold what the overall bucket holds, but for the call that is
\* being written.
BucketsAgree ==
  /\ lock = Nobody => \A f \in Fields : overall[f] = Total(f)
  /\ lock # Nobody => \A f \in Fields : overall[f] = Total(f) + Share(lock)[f]

OverallCounts ==
  /\ overall.calls = Cardinality(booked)
  /\ overall.retries = SumOf(retries, booked)
  /\ overall.calls = overall.failed + overall.tokens

\* Who is written, and where he is.
BookedOnce ==
  /\ lock # Nobody => at[lock] \in {"book", "bookFailure"} /\ lock \in booked
  /\ \A t \in booked : t = lock \/ at[t] \in {"returned", "raised"}

AttemptsBounded ==
  \A t \in Callers : /\ attempts[t] <= MaxAttempts
                     /\ at[t] \in {"check", "sleep"} => attempts[t] < MaxAttempts

StreamsOnce ==
  \A t \in Streamers : /\ forwarded[t] > 0 => attempts[t] = 1
                       /\ at[t] = "check" => attempts[t] = 0
                       /\ at[t] # "sleep"

LedgerInv ==
  GovernTypeOK /\ BucketsAgree /\ OverallCounts /\ BookedOnce /\ AttemptsBounded /\ StreamsOnce

LEMMA GovernTyping == GovernSpec => []GovernTypeOK
<1>1. GovernInit => GovernTypeOK
  BY GovernanceAssumption DEF GovernInit, GovernTypeOK, Threads, NoUsage, Usage
<1>2. GovernTypeOK /\ [GovernNext]_governVars => GovernTypeOK'
  <2> SUFFICES ASSUME GovernTypeOK, [GovernNext]_governVars PROVE GovernTypeOK'
    OBVIOUS
  <2> USE GovernanceAssumption DEF GovernTypeOK, Threads, ledgerVars, Move
  <2>1. ASSUME NEW t \in Threads, RunStops(t) PROVE GovernTypeOK'
    BY <2>1 DEF RunStops
  <2>2. ASSUME NEW t \in Threads, Check(t) PROVE GovernTypeOK'
    BY <2>2 DEF Check
  <2>3. ASSUME NEW t \in Callers, Succeeds(t) \/ FailsForGood(t) \/ Retries(t) \/ Wakes(t)
        PROVE GovernTypeOK'
    BY <2>3 DEF Succeeds, FailsForGood, Retries, Wakes
  <2>4. ASSUME NEW t \in Callers, NEW u \in Usage PROVE Booked(u, t) \in Usage
    BY DEF Booked, Usage
  <2>5. ASSUME NEW t \in Callers, BookOverall(t) PROVE GovernTypeOK'
    BY <2>4, <2>5 DEF BookOverall
  <2>6. ASSUME NEW t \in Callers, BookScene(t) PROVE GovernTypeOK'
    <3>1. byScene' \in [Scenes -> Usage]
      BY <2>4, <2>6 DEF BookScene
    <3> QED BY <2>6, <3>1 DEF BookScene
  <2>7. ASSUME NEW t \in Streamers, Chunk(t) \/ StreamFails(t) \/ StreamIsStopped(t) \/ StreamEnds(t)
        PROVE GovernTypeOK'
    BY <2>7 DEF Chunk, StreamFails, StreamIsStopped, StreamEnds
  <2>8. CASE ResetUsage
    BY <2>8 DEF ResetUsage, NoUsage, Usage
  <2>9. CASE UNCHANGED governVars
    BY <2>9 DEF governVars
  <2> QED BY <2>1, <2>2, <2>3, <2>5, <2>6, <2>7, <2>8, <2>9 DEF GovernNext
<1> QED BY <1>1, <1>2, PTL DEF GovernSpec

-----------------------------------------------------------------------------
LEMMA LedgerInit == GovernInit => LedgerInv
<1> SUFFICES ASSUME GovernInit PROVE LedgerInv
  OBVIOUS
<1> USE GovernanceAssumption
<1>1. GovernTypeOK
  BY DEF GovernInit, GovernTypeOK, Threads, NoUsage, Usage
<1>2. ASSUME NEW f \in Fields PROVE overall[f] = Total(f)
  <2>1. overall[f] = 0 /\ \A s \in Scenes : byScene[s][f] = 0
    BY DEF GovernInit, NoUsage, Fields
  <2> DEFINE w == [s \in Scenes |-> byScene[s][f]]
  <2>2. \A s \in Scenes : w[s] = 0
    BY <2>1
  <2>3. SumOf(w, Scenes) = 0
    <3> HIDE DEF w
    <3> QED BY <2>2, SumZero
  <2> QED BY <2>1, <2>3 DEF Total
<1>3. BucketsAgree
  BY <1>2 DEF BucketsAgree, GovernInit
<1>4. OverallCounts
  BY FS_EmptySet, SumEmpty DEF OverallCounts, GovernInit, NoUsage
<1>5. BookedOnce /\ AttemptsBounded /\ StreamsOnce
  BY DEF BookedOnce, AttemptsBounded, StreamsOnce, GovernInit, Threads, Nobody
<1> QED BY <1>1, <1>3, <1>4, <1>5 DEF LedgerInv

\* Who is booked are finitely many, with numbers of retries.
LEMMA BookedFinite ==
  ASSUME GovernTypeOK
  PROVE  /\ IsFiniteSet(booked) /\ Cardinality(booked) \in Nat
         /\ \A t \in booked : retries[t] \in Nat
BY GovernanceAssumption, FS_Subset, FS_CardinalityType DEF GovernTypeOK, Threads

\* A step that leaves the ledger, and who is in it, alone.
LEMMA LedgerFrame ==
  ASSUME LedgerInv, UNCHANGED ledgerVars,
         \A u \in booked : at'[u] = at[u] /\ retries'[u] = retries[u]
  PROVE  BucketsAgree' /\ OverallCounts' /\ BookedOnce'
<1> USE DEF LedgerInv, ledgerVars
<1>1. \A f \in Fields : Total(f)' = Total(f)
  BY DEF Total
<1>2. lock # Nobody => Share(lock)' = Share(lock)
  BY DEF Share, BookedOnce
<1>3. BucketsAgree'
  BY <1>1, <1>2 DEF BucketsAgree
<1>4. SumOf(retries', booked) = SumOf(retries, booked)
  BY BookedFinite, SumCongruence
<1>5. OverallCounts'
  BY <1>4 DEF OverallCounts
<1>6. BookedOnce'
  BY DEF BookedOnce
<1> QED BY <1>3, <1>5, <1>6

\* The steps of a call that are not its booking.
LEMMA MovesKeepLedger ==
  ASSUME LedgerInv, GovernTypeOK',
         \/ \E t \in Threads : RunStops(t) \/ Check(t)
         \/ \E t \in Callers : Succeeds(t) \/ FailsForGood(t) \/ Retries(t) \/ Wakes(t)
         \/ \E t \in Streamers :
              Chunk(t) \/ StreamFails(t) \/ StreamIsStopped(t) \/ StreamEnds(t)
         \/ UNCHANGED governVars
  PROVE  LedgerInv'
<1> USE GovernanceAssumption
<1>1. UNCHANGED ledgerVars /\ \A u \in booked : at'[u] = at[u] /\ retries'[u] = retries[u]
  <2> USE DEF LedgerInv, GovernTypeOK, BookedOnce, Move, Threads, ledgerVars
  <2>1. CASE \E t \in Threads : RunStops(t) \/ Check(t)
    BY <2>1 DEF RunStops, Check
  <2>2. CASE \E t \in Callers : Succeeds(t) \/ FailsForGood(t) \/ Retries(t) \/ Wakes(t)
    BY <2>2 DEF Succeeds, FailsForGood, Retries, Wakes
  <2>3. CASE \E t \in Streamers :
               Chunk(t) \/ StreamFails(t) \/ StreamIsStopped(t) \/ StreamEnds(t)
    BY <2>3 DEF Chunk, StreamFails, StreamIsStopped, StreamEnds
  <2>4. CASE UNCHANGED governVars
    BY <2>4 DEF governVars
  <2> QED BY <2>1, <2>2, <2>3, <2>4
<1>2. BucketsAgree' /\ OverallCounts' /\ BookedOnce'
  BY <1>1, LedgerFrame
<1>3. AttemptsBounded' /\ StreamsOnce'
  <2> USE DEF LedgerInv, GovernTypeOK, AttemptsBounded, StreamsOnce, Move, Threads
  <2>1. ASSUME NEW t \in Threads, RunStops(t) PROVE AttemptsBounded' /\ StreamsOnce'
    BY <2>1 DEF RunStops
  <2>2. ASSUME NEW t \in Threads, Check(t) PROVE AttemptsBounded' /\ StreamsOnce'
    BY <2>2 DEF Check
  <2>3. ASSUME NEW t \in Callers, Succeeds(t) \/ FailsForGood(t) \/ Retries(t) \/ Wakes(t)
        PROVE  AttemptsBounded' /\ StreamsOnce'
    BY <2>3 DEF Succeeds, FailsForGood, Retries, Wakes
  <2>4. ASSUME NEW t \in Streamers, Chunk(t) PROVE AttemptsBounded' /\ StreamsOnce'
    BY <2>4 DEF Chunk
  <2>5. ASSUME NEW t \in Streamers, StreamFails(t) \/ StreamIsStopped(t)
        PROVE  AttemptsBounded' /\ StreamsOnce'
    BY <2>5 DEF StreamFails, StreamIsStopped
  <2>6. ASSUME NEW t \in Streamers, StreamEnds(t) PROVE AttemptsBounded' /\ StreamsOnce'
    BY <2>6 DEF StreamEnds
  <2>7. CASE UNCHANGED governVars
    BY <2>7 DEF governVars
  <2> QED BY <2>1, <2>2, <2>3, <2>4, <2>5, <2>6, <2>7
<1> QED BY <1>2, <1>3 DEF LedgerInv

\* What booking a call adds is its share, in every field.
LEMMA BookedIsShare ==
  ASSUME NEW t \in Callers, at[t] \in {"book", "bookFailure"}, retries[t] \in Nat,
         NEW u \in Usage
  PROVE  \A f \in Fields : /\ Booked(u, t)[f] = u[f] + Share(t)[f]
                           /\ u[f] \in Nat /\ Share(t)[f] \in Nat
BY DEF Booked, Share, Usage, Fields

\* The overall bucket is written first, under the lock.
LEMMA BookOverallKeepsLedger ==
  ASSUME LedgerInv, GovernTypeOK', NEW t \in Callers, BookOverall(t)
  PROVE  LedgerInv'
<1> USE GovernanceAssumption DEF LedgerInv
<1>1. /\ at[t] \in {"book", "bookFailure"} /\ lock = Nobody /\ lock' = t
      /\ overall' = Booked(overall, t) /\ booked' = booked \cup {t}
      /\ UNCHANGED <<at, attempts, retries, forwarded, byScene>>
  BY DEF BookOverall, LedgerIsFree
<1>2. retries[t] \in Nat /\ overall \in Usage /\ t # Nobody
  BY DEF GovernTypeOK, Threads
<1>3. t \notin booked
  BY <1>1, <1>2 DEF BookedOnce
<1>4. BucketsAgree'
  <2>1. \A f \in Fields : Total(f)' = Total(f)
    BY <1>1 DEF Total
  <2>2. Share(t)' = Share(t)
    BY <1>1 DEF Share
  <2> QED BY <1>1, <1>2, <2>1, <2>2, BookedIsShare DEF BucketsAgree
<1>5. OverallCounts'
  <2>1. Cardinality(booked') = Cardinality(booked) + 1
    BY <1>1, <1>3, BookedFinite, FS_AddElement
  <2>2. SumOf(retries, booked') = retries[t] + SumOf(retries, booked)
    BY <1>1, <1>2, <1>3, BookedFinite, SumAdd
  <2>3. SumOf(retries, booked) \in Nat
    BY BookedFinite, SumCongruence
  <2> QED BY <1>1, <1>2, <2>1, <2>2, <2>3, BookedFinite DEF OverallCounts, Booked, Usage
<1>6. BookedOnce'
  BY <1>1, <1>2 DEF BookedOnce, GovernTypeOK
<1>7. AttemptsBounded' /\ StreamsOnce'
  BY <1>1 DEF AttemptsBounded, StreamsOnce
<1> QED BY <1>4, <1>5, <1>6, <1>7

\* Then the scene's, and the lock is given back.
LEMMA BookSceneKeepsLedger ==
  ASSUME LedgerInv, GovernTypeOK', NEW t \in Callers, BookScene(t)
  PROVE  LedgerInv'
<1> USE GovernanceAssumption DEF LedgerInv
<1>1. /\ lock = t /\ lock' = Nobody
      /\ byScene' = [byScene EXCEPT ![SceneOf[t]] = Booked(byScene[SceneOf[t]], t)]
      /\ at' = [at EXCEPT ![t] = IF at[t] = "book" THEN "returned" ELSE "raised"]
      /\ UNCHANGED <<attempts, retries, forwarded, overall, booked>>
  BY DEF BookScene, Move
<1>2. /\ retries[t] \in Nat /\ t # Nobody /\ at[t] \in {"book", "bookFailure"} /\ t \in booked
      /\ SceneOf[t] \in Scenes /\ \A s \in Scenes : byScene[s] \in Usage
  BY <1>1 DEF GovernTypeOK, Threads, BookedOnce
<1>3. BucketsAgree'
  <2> SUFFICES ASSUME NEW f \in Fields PROVE overall[f] = Total(f)'
    BY <1>1 DEF BucketsAgree
  <2> DEFINE w == [s \in Scenes |-> byScene[s][f]]
             v == [s \in Scenes |-> byScene'[s][f]]
             home == SceneOf[t]
  <2>1. \A s \in Scenes : byScene'[s] \in Usage
    BY DEF GovernTypeOK
  <2>2. \A s \in Scenes : w[s] \in Nat /\ v[s] \in Nat
    BY <1>2, <2>1 DEF Usage, Fields
  <2>3. \A s \in Scenes \ {home} : v[s] = w[s]
    BY <1>1, <1>2 DEF GovernTypeOK
  <2>4. v[home] = w[home] + Share(t)[f]
    BY <1>1, <1>2, BookedIsShare DEF GovernTypeOK
  <2>5. Share(t)[f] \in Nat
    BY <1>2, BookedIsShare
  <2>6. Total(f) = SumOf(w, Scenes) /\ Total(f)' = SumOf(v, Scenes)
    BY DEF Total
  <2>7. home \in Scenes
    BY <1>2
  <2> HIDE DEF w, v, home
  <2>8. SumOf(v, Scenes) = SumOf(w, Scenes) + v[home] - w[home]
    BY <2>2, <2>3, <2>7, SumUpdate
  <2>9. SumOf(w, Scenes) \in Nat
    BY <2>2, SumCongruence
  <2>10. overall[f] = Total(f) + Share(t)[f]
    BY <1>1, <1>2 DEF BucketsAgree
  <2> QED BY <2>2, <2>4, <2>5, <2>6, <2>7, <2>8, <2>9, <2>10
<1>4. OverallCounts'
  BY <1>1 DEF OverallCounts
<1>5. BookedOnce'
  BY <1>1, <1>2 DEF BookedOnce, GovernTypeOK, Threads
<1>6. AttemptsBounded' /\ StreamsOnce'
  BY <1>1 DEF AttemptsBounded, StreamsOnce, GovernTypeOK, Threads
<1> QED BY <1>3, <1>4, <1>5, <1>6

LEMMA ResetKeepsLedger ==
  ASSUME LedgerInv, GovernTypeOK', ResetUsage
  PROVE  LedgerInv'
<1> USE GovernanceAssumption DEF LedgerInv
<1>1. /\ lock = Nobody /\ lock' = Nobody
      /\ overall' = NoUsage /\ byScene' = [s \in Scenes |-> NoUsage] /\ booked' = {}
      /\ UNCHANGED <<at, attempts, retries, forwarded>>
  BY DEF ResetUsage, LedgerIsFree
<1>2. ASSUME NEW f \in Fields PROVE overall'[f] = Total(f)'
  <2> DEFINE w == [s \in Scenes |-> byScene'[s][f]]
  <2>1. overall'[f] = 0 /\ \A s \in Scenes : w[s] = 0
    BY <1>1 DEF NoUsage, Fields
  <2>2. Total(f)' = SumOf(w, Scenes)
    BY DEF Total
  <2>3. SumOf(w, Scenes) = 0
    <3> HIDE DEF w
    <3> QED BY <2>1, SumZero
  <2> QED BY <2>1, <2>2, <2>3
<1>3. BucketsAgree'
  BY <1>1, <1>2 DEF BucketsAgree
<1>4. OverallCounts'
  BY <1>1, FS_EmptySet, SumEmpty DEF OverallCounts, NoUsage
<1>5. BookedOnce' /\ AttemptsBounded' /\ StreamsOnce'
  BY <1>1 DEF BookedOnce, AttemptsBounded, StreamsOnce
<1> QED BY <1>3, <1>4, <1>5

\* Every call is in the ledger once, with all its retries, and no stream is
\* asked for again: record_usage, governed_chat_completion.
THEOREM LedgerIsExact == GovernSpec => []CallsAreAccounted
<1>1. LedgerInv /\ GovernTypeOK' /\ [GovernNext]_governVars => LedgerInv'
  BY MovesKeepLedger, BookOverallKeepsLedger, BookSceneKeepsLedger, ResetKeepsLedger DEF GovernNext
<1>2. LedgerInv => CallsAreAccounted
  BY DEF LedgerInv, CallsAreAccounted, BucketsAgree, OverallCounts, AttemptsBounded, StreamsOnce,
         Fields, NoUsage
<1> QED BY <1>1, <1>2, LedgerInit, GovernTyping, PTL DEF GovernSpec

-----------------------------------------------------------------------------
(* The fan-out of the sub-questions *)

\* The maximum of indices, by induction over their bound.
LEMMA MaxIsGreatest ==
  ASSUME NEW n \in Nat, NEW T \in SUBSET (1..n), T # {}
  PROVE  Max(T) \in T /\ \A y \in T : Max(T) >= y
<1> DEFINE N == {k \in Nat : \A U \in SUBSET (1..k) : U # {} => \E x \in U : \A y \in U : x >= y}
<1>1. 0 \in N
  <2>1. 1..0 = {}
    OBVIOUS
  <2> QED BY <2>1
<1>2. ASSUME NEW k \in Nat, k \in N PROVE k + 1 \in N
  <2> SUFFICES ASSUME NEW U \in SUBSET (1..k + 1), U # {} PROVE \E x \in U : \A y \in U : x >= y
    OBVIOUS
  <2>1. CASE k + 1 \in U
    BY <2>1
  <2>2. CASE k + 1 \notin U
    <3>1. U \in SUBSET (1..k)
      BY <2>2
    <3> QED BY <1>2, <3>1
  <2> QED BY <2>1, <2>2
<1>3. Nat \subseteq N
  <2> HIDE DEF N
  <2> QED BY <1>1, <1>2, NatSetInduction
<1>4. \E x \in T : \A y \in T : x >= y
  BY <1>3
<1> QED BY <1>4 DEF Max

\* A fold over a sequence of length n, as a function of how much is folded.
LEMMA PrefixRecursion ==
  ASSUME NEW n \in Nat, NEW V, NEW b \in V, NEW st, \A x \in 1..n, v \in V : st[<<x, v>>] \in V
  PROVE  \E it : Computes(it, 1..n, V, b, [s \in SUBSET (1..n) |-> Max(s)], st)
<1> DEFINE ch == [s \in SUBSET (1..n) |-> Max(s)]
<1>1. IsFiniteSet(1..n)
  BY UpTo
<1>2. \A s \in SUBSET (1..n) : s # {} => ch[s] \in s
  BY MaxIsGreatest
<1> HIDE DEF ch
<1>3. \E it : Computes(it, 1..n, V, b, ch, st)
  BY <1>1, <1>2, SubsetRecursion
<1> QED BY <1>3 DEF ch

LEMMA PrefixMax ==
  ASSUME NEW n \in Nat, NEW i \in 1..n
  PROVE  Max(1..i) = i /\ (1..i) \ {i} = 1..i - 1 /\ 1..i \in SUBSET (1..n) /\ 1..i # {}
<1>1. 1..i \in SUBSET (1..n) /\ i \in 1..i
  OBVIOUS
<1>2. Max(1..i) \in 1..i /\ Max(1..i) >= i
  BY <1>1, MaxIsGreatest
<1>3. (1..i) \ {i} = 1..i - 1
  OBVIOUS
<1> QED BY <1>1, <1>2, <1>3

Keep(kept, d) == IF Contains(kept, d) THEN kept ELSE Append(kept, d)

\* One more document is appended unless it is there.
LEMMA UniqueUnfolds ==
  ASSUME NEW D, NEW s \in Seq(D)
  PROVE  \E F : /\ F[0] = <<>> /\ UniqueDocs(s) = F[Len(s)]
                /\ \A i \in 1..Len(s) : F[i] = Keep(F[i - 1], s[i])
<1> DEFINE n == Len(s)
           st == [p \in (1..n) \X Seq(D) |-> Keep(p[2], s[p[1]])]
           ch == [t \in SUBSET (1..n) |-> Max(t)]
<1>1. n \in Nat /\ DOMAIN s = 1..n /\ \A i \in 1..n : s[i] \in D
  OBVIOUS
<1>2. \A x \in 1..n, v \in Seq(D) : st[<<x, v>>] = Keep(v, s[x]) /\ st[<<x, v>>] \in Seq(D)
  BY <1>1 DEF Keep
<1>3. \A x \in 1..n, v \in Seq(D) : st[<<x, v>>] \in Seq(D)
  BY <1>2
<1>4. <<>> \in Seq(D)
  OBVIOUS
<1>5. \E it : Computes(it, 1..n, Seq(D), <<>>, ch, st)
  <2> HIDE DEF st, n
  <2> QED BY <1>1, <1>3, <1>4, PrefixRecursion
<1>6. PICK it : Computes(it, 1..n, Seq(D), <<>>, ch, st)
  BY <1>5
<1>7. it = [t \in SUBSET (1..n) |-> IF t = {} THEN <<>> ELSE Keep(it[t \ {Max(t)}], s[Max(t)])]
  <2>1. ASSUME NEW t \in SUBSET (1..n), t # {} PROVE it[t] = Keep(it[t \ {Max(t)}], s[Max(t)])
    <3>1. Max(t) \in 1..n
      BY <1>1, <2>1, MaxIsGreatest
    <3>2. it[t \ {Max(t)}] \in Seq(D) /\ it[t] = st[<<Max(t), it[t \ {Max(t)}]>>]
      BY <1>6, <2>1 DEF Computes
    <3> HIDE DEF st
    <3> QED BY <1>2, <3>1, <3>2
  <2>2. it[{}] = <<>> /\ it = [t \in SUBSET (1..n) |-> it[t]]
    BY <1>6 DEF Computes
  <2> QED BY <2>1, <2>2
<1>8. \E h : /\ h = [t \in SUBSET (1..n) |-> IF t = {} THEN <<>> ELSE Keep(h[t \ {Max(t)}], s[Max(t)])]
             /\ UniqueDocs(s) = h[1..n]
  BY <1>1, <1>7 DEF UniqueDocs, FoldLeft, MapThenFoldSet, Keep
<1>9. PICK h : /\ h = [t \in SUBSET (1..n) |-> IF t = {} THEN <<>> ELSE Keep(h[t \ {Max(t)}], s[Max(t)])]
               /\ UniqueDocs(s) = h[1..n]
  BY <1>8
<1> DEFINE F == [i \in 0..n |-> h[1..i]]
<1>10. ASSUME NEW i \in 1..n PROVE F[i] = Keep(F[i - 1], s[i])
  <2>1. Max(1..i) = i /\ (1..i) \ {i} = 1..i - 1 /\ 1..i \in SUBSET (1..n) /\ 1..i # {}
    BY <1>1, PrefixMax
  <2>2. h[1..i] = Keep(h[(1..i) \ {Max(1..i)}], s[Max(1..i)])
    BY <1>9, <2>1
  <2>3. F[i] = h[1..i] /\ F[i - 1] = h[1..i - 1]
    BY <1>1
  <2> QED BY <2>1, <2>2, <2>3
<1>11. F[0] = <<>>
  <2>1. 1..0 = {}
    OBVIOUS
  <2> QED BY <1>1, <1>9, <2>1
<1>12. UniqueDocs(s) = F[n]
  BY <1>1, <1>9
<1> HIDE DEF F
<1> QED BY <1>10, <1>11, <1>12

LEMMA AppendSet ==
  ASSUME NEW D, NEW s \in Seq(D), NEW x
  PROVE  ToSet(Append(s, x)) = ToSet(s) \cup {x}
<1> DEFINE a == Append(s, x)
<1>1. /\ Len(s) \in Nat /\ DOMAIN s = 1..Len(s) /\ DOMAIN a = 1..Len(s) + 1
      /\ a[Len(s) + 1] = x /\ \A i \in 1..Len(s) : a[i] = s[i]
  OBVIOUS
<1> HIDE DEF a
<1>2. ASSUME NEW y \in ToSet(a) PROVE y \in ToSet(s) \cup {x}
  <2>1. PICK i \in 1..Len(s) + 1 : y = a[i]
    BY <1>1 DEF ToSet
  <2> QED BY <1>1, <2>1 DEF ToSet
<1>3. ASSUME NEW y \in ToSet(s) PROVE y \in ToSet(a)
  <2>1. PICK i \in 1..Len(s) : y = s[i]
    BY <1>1 DEF ToSet
  <2>2. i \in DOMAIN a /\ a[i] = y
    BY <1>1, <2>1
  <2> QED BY <2>2 DEF ToSet
<1>4. x \in ToSet(a)
  <2>1. Len(s) + 1 \in DOMAIN a
    BY <1>1
  <2> QED BY <1>1, <2>1 DEF ToSet
<1> QED BY <1>2, <1>3, <1>4 DEF a

LEMMA ConcatSet ==
  ASSUME NEW D, NEW s \in Seq(D), NEW t \in Seq(D)
  PROVE  ToSet(s \o t) = ToSet(s) \cup ToSet(t)
<1> DEFINE a == s \o t
<1>1. /\ Len(s) \in Nat /\ DOMAIN s = 1..Len(s) /\ Len(t) \in Nat /\ DOMAIN t = 1..Len(t)
      /\ DOMAIN a = 1..Len(s) + Len(t)
      /\ \A i \in 1..Len(s) : a[i] = s[i]
      /\ \A i \in Len(s) + 1..Len(s) + Len(t) : a[i] = t[i - Len(s)]
  OBVIOUS
<1> HIDE DEF a
<1>2. ASSUME NEW y \in ToSet(a) PROVE y \in ToSet(s) \cup ToSet(t)
  <2>1. PICK i \in 1..Len(s) + Len(t) : y = a[i]
    BY <1>1 DEF ToSet
  <2>2. CASE i \in 1..Len(s)
    BY <1>1, <2>1, <2>2 DEF ToSet
  <2>3. CASE i \in Len(s) + 1..Len(s) + Len(t)
    <3>1. i - Len(s) \in DOMAIN t /\ y = t[i - Len(s)]
      BY <1>1, <2>1, <2>3
    <3> QED BY <3>1 DEF ToSet
  <2> QED BY <1>1, <2>1, <2>2, <2>3
<1>3. ASSUME NEW y \in ToSet(s) PROVE y \in ToSet(a)
  <2>1. PICK i \in 1..Len(s) : y = s[i]
    BY <1>1 DEF ToSet
  <2>2. i \in DOMAIN a /\ a[i] = y
    BY <1>1, <2>1
  <2> QED BY <2>2 DEF ToSet
<1>4. ASSUME NEW y \in ToSet(t) PROVE y \in ToSet(a)
  <2>1. PICK i \in 1..Len(t) : y = t[i]
    BY <1>1 DEF ToSet
  <2>2. i + Len(s) \in DOMAIN a /\ a[i + Len(s)] = y
    BY <1>1, <2>1
  <2> QED BY <2>2 DEF ToSet
<1> QED BY <1>2, <1>3, <1>4 DEF a

\* The documents of a list, each once.
LEMMA UniqueKeepsDocs ==
  ASSUME NEW D, NEW s \in Seq(D)
  PROVE  UniqueDocs(s) \in Seq(D) /\ ToSet(UniqueDocs(s)) = ToSet(s)
<1>1. PICK F : /\ F[0] = <<>> /\ UniqueDocs(s) = F[Len(s)]
               /\ \A i \in 1..Len(s) : F[i] = Keep(F[i - 1], s[i])
  BY UniqueUnfolds
<1>2. Len(s) \in Nat /\ DOMAIN s = 1..Len(s) /\ \A i \in 1..Len(s) : s[i] \in D
  OBVIOUS
<1> DEFINE N == {i \in Nat : i <= Len(s) => F[i] \in Seq(D) /\ ToSet(F[i]) = {s[k] : k \in 1..i}}
<1>3. 0 \in N
  <2>1. F[0] = <<>> /\ ToSet(<<>>) = {} /\ {s[k] : k \in 1..0} = {}
    BY <1>1 DEF ToSet
  <2>2. <<>> \in Seq(D)
    OBVIOUS
  <2>3. F[0] \in Seq(D) /\ ToSet(F[0]) = {s[k] : k \in 1..0}
    BY <2>1, <2>2, Zenon
  <2> QED BY <2>3
<1>4. ASSUME NEW i \in Nat, i \in N PROVE i + 1 \in N
  <2> SUFFICES ASSUME i + 1 <= Len(s)
               PROVE  F[i + 1] \in Seq(D) /\ ToSet(F[i + 1]) = {s[k] : k \in 1..i + 1}
    OBVIOUS
  <2>1. F[i] \in Seq(D) /\ ToSet(F[i]) = {s[k] : k \in 1..i}
    BY <1>2, <1>4
  <2>2. i + 1 \in 1..Len(s) /\ F[i + 1] = Keep(F[i], s[i + 1]) /\ s[i + 1] \in D
    BY <1>1, <1>2
  <2>3. {s[k] : k \in 1..i + 1} = {s[k] : k \in 1..i} \cup {s[i + 1]}
    OBVIOUS
  <2>4. CASE Contains(F[i], s[i + 1])
    <3>1. s[i + 1] \in ToSet(F[i])
      BY <2>1, <2>4 DEF Contains, ToSet
    <3> QED BY <2>1, <2>2, <2>3, <2>4, <3>1 DEF Keep
  <2>5. CASE ~Contains(F[i], s[i + 1])
    <3> DEFINE a == Append(F[i], s[i + 1])
    <3>1. F[i + 1] = a
      BY <2>2, <2>5 DEF Keep
    <3>2. a \in Seq(D)
      BY <2>1, <2>2
    <3>3. ToSet(a) = ToSet(F[i]) \cup {s[i + 1]}
      BY <2>1, AppendSet
    <3> QED BY <2>1, <2>3, <3>1, <3>2, <3>3
  <2> QED BY <2>4, <2>5
<1>5. Nat \subseteq N
  <2> HIDE DEF N
  <2> QED BY <1>3, <1>4, NatSetInduction
<1>6. UniqueDocs(s) \in Seq(D) /\ ToSet(UniqueDocs(s)) = {s[k] : k \in 1..Len(s)}
  <2>1. Len(s) \in N
    BY <1>2, <1>5
  <2> QED BY <1>1, <2>1
<1> QED BY <1>2, <1>6 DEF ToSet

LEMMA MinOfTwo ==
  ASSUME NEW a \in Int, NEW b \in Int
  PROVE  Min({a, b}) = IF a <= b THEN a ELSE b
BY DEF Min

LEMMA MaxOfTwo ==
  ASSUME NEW a \in Int, NEW b \in Int
  PROVE  Max({a, b}) = IF a >= b THEN a ELSE b
BY DEF Max

-----------------------------------------------------------------------------
AnyDoc == UNION {ToSet(docs) : docs \in Found}
Outcome == [docs : Found \cup {<<>>}, strategy : {"none", "agent_loop", "static"}]
RecordOf(q) == [question |-> q, docs |-> ToSet(outcome[q].docs), strategy |-> outcome[q].strategy]

FanoutTyping ==
  /\ FanoutTypeOK
  /\ records \in Seq([question : Asks, docs : SUBSET AnyDoc,
                      strategy : {"none", "agent_loop", "static"}])
  /\ allDocs \in Seq(AnyDoc)

\* Where the node is in its batches.
BatchInv ==
  /\ submitted <= Len(records) + Concurrency
  /\ node \in {"wait", "expired"} => Len(records) < submitted
  /\ node \in {"batch", "done"} => Len(records) = submitted
  /\ node = "done" => submitted = Questions
  /\ \A q \in Asks : search[q] # "none" <=> q <= submitted
  /\ \A q \in Collected : search[q] = "returned"

\* What is collected is what the searches of the first questions gave.
CollectedInv ==
  /\ \A q \in Collected : records[q] = RecordOf(q)
  /\ ToSet(allDocs) = UNION {records[q].docs : q \in Collected}

EvidenceInv ==
  node = "done" =>
    /\ ToSet(evidence) \subseteq ToSet(allDocs) /\ IsInjective(evidence)
    /\ Len(evidence) = Min({MaxEvidence, Cardinality(ToSet(allDocs))})

FanoutInv == FanoutTyping /\ BatchInv /\ CollectedInv /\ EvidenceInv

\* What a search may find is a sequence of documents.
LEMMA FoundDocs ==
  ASSUME NEW docs \in Found \cup {<<>>}
  PROVE  docs \in Seq(AnyDoc) /\ ToSet(docs) \subseteq AnyDoc
<1>1. CASE docs \in Found
  <2>1. docs \in Seq(ToSet(docs)) /\ ToSet(docs) \subseteq AnyDoc
    BY <1>1, FanoutAssumption DEF AnyDoc
  <2> QED BY <2>1
<1>2. CASE docs = <<>>
  BY <1>2 DEF ToSet
<1> QED BY <1>1, <1>2

LEMMA FanoutBegins == FanoutInit => FanoutInv
<1> SUFFICES ASSUME FanoutInit PROVE FanoutInv
  OBVIOUS
<1> USE FanoutAssumption DEF FanoutInit, Asks, NoOutcome
<1>1. FanoutTyping
  <2>1. records = <<>> /\ allDocs = <<>> /\ Len(records) = 0
    OBVIOUS
  <2>3. NoOutcome \in [docs : Found \cup {<<>>}, strategy : {"none", "agent_loop", "static"}]
    OBVIOUS
  <2>4. search \in [Asks -> {"none", "submitted", "running", "returned", "raised", "cancelled"}]
    OBVIOUS
  <2>5. outcome \in [Asks -> [docs : Found \cup {<<>>}, strategy : {"none", "agent_loop", "static"}]]
    <3> HIDE DEF NoOutcome
    <3> QED BY <2>3
  <2>6. submitted = 0 /\ submitted \in 0..Questions /\ node = "batch"
    OBVIOUS
  <2>7. halted \in BOOLEAN
    BY Zenon
  <2>2. FanoutTypeOK
    BY <2>1, <2>4, <2>5, <2>6, <2>7 DEF FanoutTypeOK
  <2> QED BY <2>1, <2>2 DEF FanoutTyping
<1>2. BatchInv
  BY DEF BatchInv, Collected
<1>3. Collected = {} /\ ToSet(allDocs) = {}
  BY DEF Collected, ToSet
<1>4. CollectedInv
  BY <1>3 DEF CollectedInv
<1> QED BY <1>1, <1>2, <1>4 DEF FanoutInv, EvidenceInv

\* A step of a task: another task's place and outcome stay, and the node too.
LEMMA TaskKeepsFanout ==
  ASSUME FanoutInv, NEW q \in Asks, TaskBegins(q) \/ TaskReturns(q) \/ TaskRaises(q)
  PROVE  FanoutInv'
<1> USE FanoutAssumption DEF FanoutInv
<1>1. /\ search[q] \in {"submitted", "running"}
      /\ UNCHANGED <<submitted, records, allDocs, evidence, node>>
      /\ search' \in {[search EXCEPT ![q] = to] : to \in {"running", "returned", "raised"}}
      /\ \A p \in Asks \ {q} : outcome'[p] = outcome[p]
      /\ outcome' \in [Asks -> Outcome] /\ halted' \in BOOLEAN
  <2>1. /\ search \in [Asks -> {"none", "submitted", "running", "returned", "raised", "cancelled"}]
        /\ outcome \in [Asks -> Outcome] /\ halted \in BOOLEAN
    BY DEF FanoutTyping, FanoutTypeOK, Outcome
  <2>2. CASE TaskBegins(q)
    BY <2>1, <2>2 DEF TaskBegins
  <2>3. CASE TaskRaises(q)
    BY <2>1, <2>3 DEF TaskRaises
  <2>4. CASE TaskReturns(q)
    <3>1. PICK docs \in Found : \E strategy \in Strategies(docs) :
            outcome' = [outcome EXCEPT ![q] = [docs |-> docs, strategy |-> strategy]]
      BY <2>4 DEF TaskReturns
    <3>0. PICK strategy \in Strategies(docs) :
            outcome' = [outcome EXCEPT ![q] = [docs |-> docs, strategy |-> strategy]]
      BY <3>1
    <3>2. [docs |-> docs, strategy |-> strategy] \in Outcome
      BY DEF Strategies, Outcome
    <3> QED BY <2>1, <2>4, <3>0, <3>2 DEF TaskReturns
  <2> QED BY <2>2, <2>3, <2>4
<1>2. q \notin Collected /\ Collected' = Collected
  BY <1>1 DEF Collected, BatchInv
<1>3. FanoutTyping'
  BY <1>1 DEF FanoutTyping, FanoutTypeOK, Outcome
<1>4. BatchInv'
  BY <1>1, <1>2 DEF BatchInv, Collected, FanoutTyping, FanoutTypeOK
<1>5. CollectedInv'
  <2>1. \A p \in Collected : RecordOf(p)' = RecordOf(p)
    BY <1>1, <1>2 DEF RecordOf, Collected
  <2> QED BY <1>1, <1>2, <2>1 DEF CollectedInv
<1>6. EvidenceInv'
  BY <1>1 DEF EvidenceInv
<1> QED BY <1>3, <1>4, <1>5, <1>6

LEMMA SameRecords ==
  ASSUME UNCHANGED <<outcome, records, allDocs>>, CollectedInv
  PROVE  CollectedInv' /\ Collected' = Collected
BY DEF CollectedInv, Collected, RecordOf

\* A question that is abandoned, refused or through.
LEMMA LeaveKeepsFanout ==
  ASSUME FanoutInv, NEW how \in {"stopped", "failed"}, Leave(how)
  PROVE  FanoutInv'
<1> USE FanoutAssumption DEF FanoutInv
<1>1. /\ node' = how
      /\ search' = [q \in Asks |-> IF search[q] = "submitted" THEN "cancelled" ELSE search[q]]
      /\ UNCHANGED <<submitted, outcome, records, allDocs, evidence, halted>>
  BY DEF Leave, Cancelled
<1>2. CollectedInv' /\ Collected' = Collected
  BY <1>1, SameRecords
<1>3. FanoutTyping'
  BY <1>1 DEF FanoutTyping, FanoutTypeOK
<1>4. BatchInv'
  BY <1>1, <1>2 DEF BatchInv, Collected, FanoutTyping, FanoutTypeOK
<1>5. EvidenceInv'
  BY <1>1 DEF EvidenceInv
<1> QED BY <1>2, <1>3, <1>4, <1>5

LEMMA BatchKeepsFanout ==
  ASSUME FanoutInv, StartBatch
  PROVE  FanoutInv'
<1> USE FanoutAssumption DEF FanoutInv
<1>1. /\ node = "batch" /\ node' = "wait" /\ submitted < Questions
      /\ submitted' = Min({submitted + Concurrency, Questions})
      /\ search' = [q \in Asks |-> IF q \in submitted + 1..submitted' THEN "submitted" ELSE search[q]]
      /\ UNCHANGED <<outcome, records, allDocs, evidence, halted>>
  BY DEF StartBatch
<1>2. submitted \in 0..Questions /\ Len(records) \in Nat /\ Len(records) = submitted
  BY <1>1 DEF FanoutTyping, FanoutTypeOK, BatchInv
<1>3. submitted' \in submitted + 1..submitted + Concurrency /\ submitted' \in 0..Questions
  BY <1>1, <1>2, MinOfTwo
<1>4. CollectedInv' /\ Collected' = Collected
  BY <1>1, SameRecords
<1>5. FanoutTyping'
  BY <1>1, <1>2, <1>3 DEF FanoutTyping, FanoutTypeOK
<1>6. BatchInv'
  <2>1. \A q \in Asks : search'[q] # "none" <=> q <= submitted'
    BY <1>1, <1>2, <1>3 DEF BatchInv, Asks
  <2>2. \A q \in Collected : search'[q] = "returned"
    BY <1>1, <1>2, <1>3 DEF BatchInv, Asks, Collected
  <2>3. submitted' <= Len(records') + Concurrency /\ Len(records') < submitted'
    BY <1>1, <1>2, <1>3
  <2>4. \A q \in Collected' : search'[q] = "returned"
    BY <1>4, <2>2
  <2> QED BY <1>1, <2>1, <2>3, <2>4 DEF BatchInv, Asks
<1>7. EvidenceInv'
  BY <1>1 DEF EvidenceInv
<1> QED BY <1>4, <1>5, <1>6, <1>7

\* A finished search is taken, in whatever order the searches finish.
LEMMA TakeKeepsFanout ==
  ASSUME FanoutInv, Take
  PROVE  FanoutInv'
<1> USE FanoutAssumption DEF FanoutInv
<1> DEFINE n == Len(records)
           docs == outcome[n + 1].docs
<1>1. /\ node = "wait" /\ search[n + 1] = "returned"
      /\ allDocs' = allDocs \o docs /\ records' = Append(records, RecordOf(n + 1))
      /\ node' = IF n + 1 = submitted THEN "batch" ELSE "wait"
      /\ UNCHANGED <<submitted, search, outcome, evidence, halted>>
  BY DEF Take, NextQuestion, RecordOf
<1>2. n \in Nat /\ n < submitted /\ submitted \in 0..Questions /\ n + 1 \in Asks
  BY <1>1 DEF FanoutTyping, FanoutTypeOK, BatchInv, Asks
<1>3. outcome[n + 1] \in Outcome /\ docs \in Seq(AnyDoc) /\ ToSet(docs) \subseteq AnyDoc
  BY <1>2, FoundDocs DEF FanoutTyping, FanoutTypeOK, Outcome
<1>4. /\ records' \in Seq([question : Asks, docs : SUBSET AnyDoc,
                           strategy : {"none", "agent_loop", "static"}])
      /\ Len(records') = n + 1 /\ records'[n + 1] = RecordOf(n + 1)
      /\ \A q \in 1..n : records'[q] = records[q]
  <2>1. RecordOf(n + 1) \in [question : Asks, docs : SUBSET AnyDoc,
                             strategy : {"none", "agent_loop", "static"}]
    BY <1>2, <1>3 DEF RecordOf, Outcome
  <2> HIDE DEF docs
  <2> QED BY <1>1, <1>2, <2>1 DEF FanoutTyping
<1>5. allDocs' \in Seq(AnyDoc) /\ ToSet(allDocs') = ToSet(allDocs) \cup ToSet(docs)
  <2>1. allDocs \in Seq(AnyDoc)
    BY DEF FanoutTyping
  <2> HIDE DEF docs, n
  <2> QED BY <1>1, <1>3, <2>1, ConcatSet
<1>6. Collected = 1..n /\ Collected' = 1..n + 1
  BY <1>2, <1>4 DEF Collected, Asks
<1>7. FanoutTyping'
  BY <1>1, <1>2, <1>4, <1>5 DEF FanoutTyping, FanoutTypeOK
<1>8. BatchInv'
  BY <1>1, <1>2, <1>4, <1>6 DEF BatchInv
<1>9. CollectedInv'
  <2>1. \A q \in 1..n + 1 : RecordOf(q)' = RecordOf(q)
    BY <1>1 DEF RecordOf
  <2>2. \A q \in 1..n + 1 : records'[q] = RecordOf(q)
    BY <1>4, <1>6 DEF CollectedInv
  <2>3. RecordOf(n + 1).docs = ToSet(docs)
    BY DEF RecordOf
  <2> DEFINE before == UNION {records[q].docs : q \in 1..n}
             after == UNION {records'[q].docs : q \in 1..n + 1}
  <2>4. after = before \cup ToSet(docs)
    <3>1. records'[n + 1].docs = ToSet(docs) /\ n + 1 \in 1..n + 1
      BY <1>2, <1>4, <2>3
    <3>2. ASSUME NEW q \in 1..n PROVE records'[q].docs = records[q].docs /\ q \in 1..n + 1
      BY <1>2, <1>4
    <3>3. ASSUME NEW q \in 1..n + 1, q # n + 1 PROVE q \in 1..n
      BY <1>2, <3>3
    <3> HIDE DEF docs, n
    <3>4. ASSUME NEW d \in after PROVE d \in before \/ d \in ToSet(docs)
      <4>1. PICK q \in 1..n + 1 : d \in records'[q].docs
        BY <3>4
      <4>2. CASE q = n + 1
        BY <3>1, <4>1, <4>2
      <4>3. CASE q # n + 1
        BY <3>2, <3>3, <4>1, <4>3
      <4> QED BY <4>2, <4>3
    <3>5. before \subseteq after
      BY <3>2
    <3>6. ToSet(docs) \subseteq after
      BY <3>1
    <3> HIDE DEF before, after
    <3> QED BY <3>4, <3>5, <3>6
  <2>5. ToSet(allDocs) = before
    BY <1>6 DEF CollectedInv
  <2>6. ToSet(allDocs') = after
    <3> HIDE DEF before, after, docs
    <3> QED BY <1>5, <2>4, <2>5
  <2> QED BY <1>6, <2>1, <2>2, <2>6 DEF CollectedInv
<1>10. EvidenceInv'
  BY <1>1 DEF EvidenceInv
<1> QED BY <1>7, <1>8, <1>9, <1>10

\* The order that is cut twice is cut once.
IsCut(e, s, k, D) ==
  /\ e \in Seq(D) /\ Len(e) = Min({k, Len(s)})
  /\ \A i \in 1..Len(e) : i \in 1..Len(s) /\ e[i] = s[i]

\* The first k of a list are a cut of it.
LEMMA FirstOfIsCut ==
  ASSUME NEW D, NEW s \in Seq(D), NEW k \in Nat
  PROVE  IsCut(FirstOf(s, k), s, k, D)
<1> DEFINE m == Min({k, Len(s)})
<1>1. m \in 0..Len(s) /\ Len(s) \in Nat
  <2>1. Len(s) \in Nat
    OBVIOUS
  <2>2. m = IF k <= Len(s) THEN k ELSE Len(s)
    BY <2>1, MinOfTwo
  <2> QED BY <2>1, <2>2
<1> HIDE DEF m
<1>2. 1 \in 1..Len(s) + 1 /\ m \in 1 - 1..Len(s)
  BY <1>1
<1>3. /\ SubSeq(s, 1, m) \in Seq(D) /\ Len(SubSeq(s, 1, m)) = m
      /\ \A i \in 1..m : SubSeq(s, 1, m)[i] = s[i]
  BY <1>1, <1>2, SubSeqProperties
<1>4. FirstOf(s, k) = SubSeq(s, 1, m)
  BY DEF FirstOf, m
<1>5. \A i \in 1..m : i \in 1..Len(s)
  BY <1>1
<1> DEFINE e == SubSeq(s, 1, m)
<1> HIDE DEF e
<1>6. e \in Seq(D) /\ Len(e) = m /\ \A i \in 1..m : i \in 1..Len(s) /\ e[i] = s[i]
  BY <1>3, <1>5 DEF e
<1> QED BY <1>4, <1>6 DEF IsCut, m, e

\* The order that is cut twice is cut once.
LEMMA FirstOfFirst ==
  ASSUME NEW D, NEW s \in Seq(D), NEW a \in Nat, NEW k \in Nat, k <= a
  PROVE  IsCut(FirstOf(FirstOf(s, a), k), s, k, D)
<1> DEFINE f == FirstOf(s, a)
           g == FirstOf(f, k)
<1>1. IsCut(f, s, a, D)
  BY FirstOfIsCut
<1>2. f \in Seq(D)
  BY <1>1 DEF IsCut
<1>3. IsCut(g, f, k, D)
  BY <1>2, FirstOfIsCut
<1> HIDE DEF f, g
<1>4. Len(s) \in Nat /\ Len(f) \in Nat
  BY <1>2
<1>5. Min({a, Len(s)}) = IF a <= Len(s) THEN a ELSE Len(s)
  BY <1>4, MinOfTwo
<1>6. Min({k, Len(f)}) = IF k <= Len(f) THEN k ELSE Len(f)
  BY <1>4, MinOfTwo
<1>7. Min({k, Len(s)}) = IF k <= Len(s) THEN k ELSE Len(s)
  BY <1>4, MinOfTwo
<1>8. Len(g) = Min({k, Len(s)})
  BY <1>1, <1>3, <1>4, <1>5, <1>6, <1>7 DEF IsCut
<1>9. \A i \in 1..Len(g) : i \in 1..Len(s) /\ g[i] = s[i]
  BY <1>1, <1>3 DEF IsCut
<1>10. IsCut(g, s, k, D)
  BY <1>3, <1>8, <1>9 DEF IsCut
<1> QED BY <1>10 DEF f, g

\* The records are put in the order of the questions.
LEMMA GatherKeepsFanout ==
  ASSUME FanoutInv, Gather
  PROVE  FanoutInv'
<1> USE FanoutAssumption DEF FanoutInv
<1> DEFINE unique == UniqueDocs(allDocs)
           top == Max({MaxEvidence, Min({Len(unique), FullLimit})})
<1>1. /\ node = "batch" /\ submitted = Questions /\ node' = "done"
      /\ UNCHANGED <<submitted, search, outcome, records, allDocs, halted>>
  BY DEF Gather
<1>2. unique \in Seq(AnyDoc) /\ ToSet(unique) = ToSet(allDocs)
  BY UniqueKeepsDocs DEF FanoutTyping
<1> HIDE DEF unique
<1>3. top \in Nat /\ MaxEvidence <= top
  <2>1. Min({Len(unique), FullLimit}) \in Nat
    <3>1. Len(unique) \in Nat
      BY <1>2
    <3> QED BY <3>1, MinOfTwo
  <2> DEFINE shown == Min({Len(unique), FullLimit})
  <2>2. shown \in Int /\ MaxEvidence \in Int
    BY <2>1
  <2>3. top = Max({MaxEvidence, shown})
    OBVIOUS
  <2> HIDE DEF top, shown
  <2>4. Max({MaxEvidence, shown}) = IF MaxEvidence >= shown THEN MaxEvidence ELSE shown
    BY <2>2, MaxOfTwo
  <2>5. shown \in Nat
    BY <2>1 DEF shown
  <2> QED BY <2>3, <2>4, <2>5
<1> HIDE DEF top
<1>4. PICK order \in SetToSeqs(ToSet(allDocs)) :
        evidence' = FirstOf(FirstOf(order, top), MaxEvidence)
  BY <1>2 DEF Gather, top, unique
<1>5. /\ Cardinality(ToSet(allDocs)) \in Nat
      /\ order \in [1..Cardinality(ToSet(allDocs)) -> ToSet(allDocs)]
      /\ \A i, j \in 1..Cardinality(ToSet(allDocs)) : i # j => order[i] # order[j]
  <2>1. IsFiniteSet(ToSet(allDocs))
    <3>1. IsFiniteSet(1..Len(allDocs)) /\ DOMAIN allDocs = 1..Len(allDocs)
      BY UpTo DEF FanoutTyping
    <3>2. allDocs \in Surjection(1..Len(allDocs), ToSet(allDocs))
      BY <3>1 DEF Surjection, ToSet, FanoutTyping
    <3> QED BY <3>1, <3>2, FS_Surjection
  <2> QED BY <2>1, FS_CardinalityType DEF SetToSeqs
<1>6. order \in Seq(ToSet(allDocs)) /\ Len(order) = Cardinality(ToSet(allDocs))
  BY <1>5
<1>7. IsCut(evidence', order, MaxEvidence, ToSet(allDocs))
  BY <1>3, <1>4, <1>6, FirstOfFirst
<1>8. EvidenceInv'
  <2>1. ToSet(evidence') \subseteq ToSet(allDocs) /\ DOMAIN evidence' = 1..Len(evidence')
    BY <1>7 DEF ToSet, IsCut
  <2>2. IsInjective(evidence')
    BY <1>5, <1>6, <1>7, <2>1 DEF IsInjective, IsCut
  <2> QED BY <1>1, <1>6, <1>7, <2>1, <2>2 DEF EvidenceInv, IsCut
<1>9. CollectedInv' /\ Collected' = Collected
  BY <1>1, SameRecords
<1>10. FanoutTyping' /\ BatchInv'
  BY <1>1, <1>9 DEF FanoutTyping, FanoutTypeOK, BatchInv, Asks, Collected
<1> QED BY <1>8, <1>9, <1>10

LEMMA WaitKeepsFanout ==
  ASSUME FanoutInv,
         UNCHANGED <<submitted, search, outcome, records, allDocs, evidence>>,
         halted' \in BOOLEAN,
         \/ node' = node
         \/ node \in {"wait", "expired"} /\ node' \in {"wait", "expired"}
  PROVE  FanoutInv'
<1> USE FanoutAssumption DEF FanoutInv
<1>1. CollectedInv' /\ Collected' = Collected
  BY SameRecords
<1>2. FanoutTyping' /\ BatchInv'
  BY <1>1 DEF FanoutTyping, FanoutTypeOK, BatchInv, Collected
<1>3. EvidenceInv'
  BY DEF EvidenceInv
<1> QED BY <1>1, <1>2, <1>3

LEMMA FanoutStep == FanoutInv /\ [FanoutNext]_fanoutVars => FanoutInv'
<1> SUFFICES ASSUME FanoutInv, [FanoutNext]_fanoutVars PROVE FanoutInv'
  OBVIOUS
<1>1. halted \in BOOLEAN
  BY DEF FanoutInv, FanoutTyping, FanoutTypeOK
<1>2. CASE RunIsStopped
  BY <1>2, WaitKeepsFanout DEF RunIsStopped
<1>3. CASE WaitExpires
  BY <1>1, <1>3, WaitKeepsFanout DEF WaitExpires
<1>4. CASE AskDone
  BY <1>1, <1>4, WaitKeepsFanout, LeaveKeepsFanout DEF AskDone
<1>5. CASE NodeStops
  BY <1>5, LeaveKeepsFanout DEF NodeStops
<1>6. CASE TakeRaises
  BY <1>6, LeaveKeepsFanout DEF TakeRaises
<1>7. CASE UNCHANGED fanoutVars
  BY <1>1, <1>7, WaitKeepsFanout DEF fanoutVars
<1> QED
  BY <1>2, <1>3, <1>4, <1>5, <1>6, <1>7, TaskKeepsFanout, BatchKeepsFanout, TakeKeepsFanout,
     GatherKeepsFanout DEF FanoutNext

\* However the tasks overtake each other, each record is that of its question,
\* and the evidence comes from what was collected: retrieve_node.
THEOREM RecordsAreInOrder == FanoutSpec => []RecordsMatchQuestions
<1>1. FanoutInv => RecordsMatchQuestions
  <2> SUFFICES ASSUME FanoutInv PROVE RecordsMatchQuestions
    OBVIOUS
  <2> USE FanoutAssumption DEF FanoutInv
  <2>1. Cardinality({q \in Asks : search[q] # "none"}) <= Len(records) + Concurrency
    <3>1. submitted \in 0..Questions
      BY DEF FanoutTyping, FanoutTypeOK
    <3>2. {q \in Asks : search[q] # "none"} = 1..submitted
      BY <3>1 DEF BatchInv, Asks
    <3>3. Cardinality(1..submitted) = submitted
      BY <3>1, UpTo
    <3> QED BY <3>2, <3>3 DEF BatchInv
  <2>2. ASSUME node = "done" PROVE Len(records) = Questions /\ Collected = Asks
    BY <2>2 DEF BatchInv, Collected, Asks
  <2>3. FanoutTypeOK /\ \A q \in Collected : records[q] = RecordOf(q)
    BY DEF FanoutTyping, CollectedInv
  <2>4. ASSUME node = "done" PROVE ToSet(allDocs) = UNION {records[q].docs : q \in Asks}
    BY <2>2, <2>4 DEF CollectedInv
  <2> QED BY <2>1, <2>2, <2>3, <2>4 DEF RecordsMatchQuestions, RecordOf, EvidenceInv
<1> QED BY <1>1, FanoutBegins, FanoutStep, PTL DEF FanoutSpec

-----------------------------------------------------------------------------
(* The loop of tool calls *)

\* What a fold over a sequence of length n has after each of its steps.
IsFold(F, n, V, b, st) ==
  F \in [0..n -> V] /\ F[0] = b /\ \A i \in 1..n : F[i] = st[<<i, F[i - 1]>>]

\* A function may be defined along a sequence.
LEMMA SequenceRecursion ==
  ASSUME NEW n \in Nat, NEW V, NEW b \in V, NEW st, \A x \in 1..n, v \in V : st[<<x, v>>] \in V
  PROVE  \E F : IsFold(F, n, V, b, st)
<1> DEFINE ch == [s \in SUBSET (1..n) |-> Max(s)]
<1>1. PICK it : Computes(it, 1..n, V, b, ch, st)
  BY PrefixRecursion
<1> DEFINE F == [i \in 0..n |-> it[1..i]]
<1>2. F \in [0..n -> V]
  <2>1. \A i \in 0..n : 1..i \in SUBSET (1..n)
    OBVIOUS
  <2>2. it \in [SUBSET (1..n) -> V]
    BY <1>1 DEF Computes
  <2>3. \A i \in 0..n : it[1..i] \in V
    BY <2>1, <2>2
  <2> QED BY <2>3
<1>3. F[0] = b
  <2>1. 1..0 = {}
    OBVIOUS
  <2>2. it[{}] = b
    BY <1>1 DEF Computes
  <2> QED BY <2>1, <2>2
<1>4. ASSUME NEW i \in 1..n PROVE F[i] = st[<<i, F[i - 1]>>]
  <2>1. Max(1..i) = i /\ (1..i) \ {i} = 1..i - 1 /\ 1..i \in SUBSET (1..n) /\ 1..i # {}
    BY PrefixMax
  <2>2. it[1..i] = st[<<i, it[1..i - 1]>>]
    BY <1>1, <2>1 DEF Computes
  <2>3. F[i] = it[1..i] /\ F[i - 1] = it[1..i - 1]
    OBVIOUS
  <2> QED BY <2>2, <2>3
<1> HIDE DEF F
<1> QED BY <1>2, <1>3, <1>4 DEF IsFold

IsFlat(F, s, D) ==
  F \in [0..Len(s) -> Seq(D)] /\ F[0] = <<>> /\ \A i \in 1..Len(s) : F[i] = F[i - 1] \o s[i]

\* FlattenSeq is the last value of such a function.
LEMMA FlatExists ==
  ASSUME NEW D, NEW s \in Seq(Seq(D))
  PROVE  \E F : IsFlat(F, s, D) /\ FlattenSeq(s) = F[Len(s)]
<1> DEFINE n == Len(s)
           st == [p \in (1..n) \X Seq(D) |-> p[2] \o s[p[1]]]
<1>1. n \in Nat /\ DOMAIN s = 1..n /\ \A i \in 1..n : s[i] \in Seq(D)
  OBVIOUS
<1>2. ASSUME NEW x \in 1..n, NEW v \in Seq(D)
      PROVE  st[<<x, v>>] = v \o s[x] /\ st[<<x, v>>] \in Seq(D)
  <2>1. s[x] \in Seq(D)
    BY <1>1
  <2>2. v \o s[x] \in Seq(D)
    BY <2>1, ConcatProperties
  <2>3. st[<<x, v>>] = v \o s[x]
    OBVIOUS
  <2> QED BY <2>2, <2>3
<1>3. <<>> \in Seq(D)
  OBVIOUS
<1>4. \E F : IsFold(F, n, Seq(D), <<>>, st)
  <2>1. \A x \in 1..n, v \in Seq(D) : st[<<x, v>>] \in Seq(D)
    BY <1>2
  <2> HIDE DEF st, n
  <2> QED BY <1>1, <1>3, <2>1, SequenceRecursion
<1>5. PICK F : IsFold(F, n, Seq(D), <<>>, st)
  BY <1>4
<1>6. F \in [0..n -> Seq(D)] /\ F[0] = <<>>
  BY <1>5 DEF IsFold
<1>7. ASSUME NEW i \in 1..n PROVE F[i] = F[i - 1] \o s[i]
  <2>1. i - 1 \in 0..n
    BY <1>1
  <2>2. F[i - 1] \in Seq(D)
    BY <1>6, <2>1
  <2>3. F[i] = st[<<i, F[i - 1]>>]
    BY <1>5 DEF IsFold
  <2> HIDE DEF st
  <2> QED BY <1>2, <2>2, <2>3
<1>8. IsFlat(F, s, D)
  BY <1>6, <1>7 DEF IsFlat
<1>9. CASE n = 0
  <2>1. s = <<>>
    BY <1>9
  <2>2. FlattenSeq(s) = <<>>
    BY <2>1 DEF FlattenSeq
  <2> QED BY <1>6, <1>8, <1>9, <2>2
<1>10. CASE n # 0
  <2> DEFINE G == [i \in 1..n |-> F[i]]
  <2>1. ASSUME NEW i \in 1..n PROVE G[i] = IF i = 1 THEN s[i] ELSE G[i - 1] \o s[i]
    <3>1. CASE i = 1
      <4>1. F[1] = F[0] \o s[1] /\ s[1] \in Seq(D)
        BY <1>1, <1>7, <3>1
      <4>2. <<>> \o s[1] = s[1]
        BY <4>1, ConcatEmptySeq
      <4> QED BY <1>6, <3>1, <4>1, <4>2
    <3>2. CASE i # 1
      <4>1. i - 1 \in 1..n
        BY <1>1, <3>2
      <4> QED BY <1>7, <3>2, <4>1
    <3> QED BY <3>1, <3>2
  <2>2. G = [i \in 1..n |-> IF i = 1 THEN s[i] ELSE G[i - 1] \o s[i]]
    BY <2>1
  <2>3. \E g : g = [i \in 1..n |-> IF i = 1 THEN s[i] ELSE g[i - 1] \o s[i]] /\ FlattenSeq(s) = g[n]
    <3>1. s # <<>>
      BY <1>10
    <3> HIDE DEF G
    <3> QED BY <1>10, <2>2, <3>1 DEF FlattenSeq
  <2>4. PICK g : g = [i \in 1..n |-> IF i = 1 THEN s[i] ELSE g[i - 1] \o s[i]] /\ FlattenSeq(s) = g[n]
    BY <2>3
  <2> DEFINE N == {i \in Nat : i + 1 <= n => g[i + 1] = F[i + 1]}
  <2>5. 0 \in N
    <3> SUFFICES ASSUME n >= 1 PROVE g[1] = F[1]
      OBVIOUS
    <3>1. 1 \in 1..n
      BY <1>1
    <3>2. g[1] = s[1]
      BY <2>4, <3>1
    <3>3. G[1] = s[1] /\ G[1] = F[1]
      BY <2>1, <3>1
    <3> QED BY <3>2, <3>3
  <2>6. ASSUME NEW i \in Nat, i \in N PROVE i + 1 \in N
    <3> SUFFICES ASSUME (i + 1) + 1 <= n PROVE g[(i + 1) + 1] = F[(i + 1) + 1]
      OBVIOUS
    <3> DEFINE j == (i + 1) + 1
    <3>1. j \in 1..n /\ j # 1 /\ j - 1 = i + 1 /\ i + 1 <= n
      BY <1>1
    <3>2. g[i + 1] = F[i + 1]
      BY <2>6, <3>1
    <3> HIDE DEF j
    <3>3. g[j] = g[j - 1] \o s[j]
      BY <2>4, <3>1
    <3>4. F[j] = F[j - 1] \o s[j]
      BY <1>7, <3>1
    <3>5. g[j] = F[j]
      BY <3>1, <3>2, <3>3, <3>4
    <3> QED BY <3>5 DEF j
  <2>7. Nat \subseteq N
    <3> HIDE DEF N
    <3> QED BY <2>5, <2>6, NatSetInduction
  <2>8. g[n] = F[n]
    <3>1. n - 1 \in Nat /\ (n - 1) + 1 = n
      BY <1>1, <1>10
    <3>2. n - 1 \in N
      BY <2>7, <3>1
    <3> QED BY <1>1, <3>1, <3>2
  <2> QED BY <1>8, <2>4, <2>8
<1> QED BY <1>9, <1>10

LEMMA FlattenEmpty == FlattenSeq(<<>>) = <<>>
BY DEF FlattenSeq

\* Flattening one sequence more appends it.
LEMMA FlattenAppend ==
  ASSUME NEW D, NEW s \in Seq(Seq(D)), NEW p \in Seq(D)
  PROVE  FlattenSeq(Append(s, p)) = FlattenSeq(s) \o p /\ FlattenSeq(s) \in Seq(D)
<1> DEFINE a == Append(s, p)
           n == Len(s)
<1>1. /\ n \in Nat /\ a \in Seq(Seq(D)) /\ Len(a) = n + 1 /\ a[n + 1] = p
      /\ \A i \in 1..n : a[i] = s[i]
  OBVIOUS
<1>2. PICK F : IsFlat(F, s, D) /\ FlattenSeq(s) = F[n]
  BY FlatExists
<1> HIDE DEF a
<1>3. PICK G : IsFlat(G, a, D) /\ FlattenSeq(a) = G[n + 1]
  <2>1. PICK G : IsFlat(G, a, D) /\ FlattenSeq(a) = G[Len(a)]
    BY <1>1, FlatExists
  <2> QED BY <1>1, <2>1
<1> HIDE DEF n
<1> DEFINE N == {i \in Nat : i <= n => G[i] = F[i]}
<1>4. 0 \in N
  BY <1>2, <1>3 DEF IsFlat
<1>5. ASSUME NEW i \in Nat, i \in N PROVE i + 1 \in N
  <2> SUFFICES ASSUME i + 1 <= n PROVE G[i + 1] = F[i + 1]
    OBVIOUS
  <2>1. i + 1 \in 1..n /\ i + 1 \in 1..Len(a) /\ (i + 1) - 1 = i /\ i <= n
    BY <1>1
  <2>2. G[i] = F[i]
    BY <1>5, <2>1
  <2>3. G[i + 1] = G[i] \o a[i + 1]
    BY <1>3, <2>1 DEF IsFlat
  <2>4. F[i + 1] = F[i] \o s[i + 1]
    BY <1>2, <2>1 DEF IsFlat, n
  <2>5. a[i + 1] = s[i + 1]
    BY <1>1, <2>1
  <2> QED BY <2>2, <2>3, <2>4, <2>5
<1>6. Nat \subseteq N
  <2> HIDE DEF N
  <2> QED BY <1>4, <1>5, NatSetInduction
<1>7. G[n] = F[n]
  <2>1. n \in N
    BY <1>1, <1>6
  <2> QED BY <1>1, <2>1
<1>8. G[n + 1] = G[n] \o p
  <2>1. n + 1 \in 1..Len(a) /\ (n + 1) - 1 = n
    BY <1>1
  <2>2. G[n + 1] = G[(n + 1) - 1] \o a[n + 1]
    BY <1>3, <2>1 DEF IsFlat
  <2> QED BY <1>1, <2>1, <2>2
<1>9. F[n] \in Seq(D)
  <2>1. F \in [0..n -> Seq(D)]
    BY <1>2 DEF IsFlat, n
  <2>2. n \in 0..n
    BY <1>1
  <2> QED BY <2>1, <2>2
<1> QED BY <1>2, <1>3, <1>7, <1>8, <1>9 DEF a

-----------------------------------------------------------------------------

\* The parts of the transcript that the properties read.
Message == [role : {"assistant"}, calls : Seq(Call)]
           \cup [role : {"tool"}, call : Call, verdict : Verdicts]

LoopInv ==
  /\ LoopTypeOK
  /\ transcript \in Seq(Message)
  /\ loop = "ask" => waiting = <<>>
  /\ ToSet(Ran) = executed /\ Ran \in Seq(Call) /\ Replies \in Seq(Call)
  /\ IsInjective(Ran) /\ Len(Ran) = totalCalls
  /\ Replies \o waiting = Asked

Parts(s, f) == [i \in DOMAIN s |-> f[s[i]]]

\* A map over one element more appends its image.
LEMMA AppendMap ==
  ASSUME NEW s, NEW M, s \in Seq(M), NEW m \in M, NEW f, NEW V, \A x \in M : f[x] \in V
  PROVE  Parts(s, f) \in Seq(V) /\ Parts(Append(s, m), f) = Append(Parts(s, f), f[m])
<1> DEFINE a == Append(s, m)
           p == Parts(s, f)
           q == Parts(a, f)
           n == Len(s)
<1>1. /\ n \in Nat /\ DOMAIN s = 1..n /\ DOMAIN a = 1..n + 1 /\ a[n + 1] = m
      /\ \A i \in 1..n : a[i] = s[i] /\ s[i] \in M
  OBVIOUS
<1> HIDE DEF a, n
<1>2. p \in Seq(V) /\ Len(p) = n /\ \A i \in 1..n : p[i] = f[s[i]]
  BY <1>1 DEF Parts
<1>3. DOMAIN q = 1..n + 1 /\ \A i \in 1..n + 1 : q[i] = f[a[i]]
  BY <1>1 DEF Parts
<1>4. \A i \in 1..n + 1 : f[a[i]] \in V
  BY <1>1
<1>5. q \in Seq(V) /\ Len(q) = n + 1
  BY <1>1, <1>3, <1>4 DEF Parts
<1>6. f[m] \in V
  OBVIOUS
<1> HIDE DEF p, q
<1>7. Append(p, f[m]) \in Seq(V) /\ Len(Append(p, f[m])) = n + 1 /\ Append(p, f[m])[n + 1] = f[m]
      /\ \A i \in 1..n : Append(p, f[m])[i] = p[i]
  BY <1>1, <1>2, <1>6
<1>8. \A i \in 1..n + 1 : q[i] = Append(p, f[m])[i]
  BY <1>1, <1>2, <1>3, <1>7
<1>9. q = Append(p, f[m])
  BY <1>5, <1>7, <1>8, SeqEqual
<1> QED BY <1>2, <1>9 DEF a, p, q

\* The messages of a loop are what it has asked and what it was told.
LEMMA MessageParts ==
  ASSUME NEW m \in Message
  PROVE  CallsOf(m) \in Seq(Call) /\ ReplyOf(m) \in Seq(Call) /\ RunOf(m) \in Seq(Call)
<1>1. <<>> \in Seq(Call)
  OBVIOUS
<1>2. CASE m \in [role : {"assistant"}, calls : Seq(Call)]
  <2>1. m.role = "assistant" /\ m.calls \in Seq(Call)
    BY <1>2
  <2> QED BY <1>1, <2>1 DEF CallsOf, ReplyOf, RunOf
<1>3. CASE m \in [role : {"tool"}, call : Call, verdict : Verdicts]
  <2>1. m.role = "tool" /\ m.call \in Call
    BY <1>3
  <2>2. <<m.call>> \in Seq(Call)
    BY <2>1
  <2> QED BY <1>1, <2>1, <2>2 DEF CallsOf, ReplyOf, RunOf
<1> QED BY <1>2, <1>3 DEF Message

\* A message adds its part at the end.
LEMMA Told ==
  ASSUME transcript \in Seq(Message), NEW m \in Message, transcript' = Append(transcript, m)
  PROVE  /\ transcript' \in Seq(Message)
         /\ Asked' = Asked \o CallsOf(m) /\ Asked \in Seq(Call)
         /\ Replies' = Replies \o ReplyOf(m) /\ Replies \in Seq(Call)
         /\ Ran' = Ran \o RunOf(m) /\ Ran \in Seq(Call)
<1>1. /\ transcript' \in Seq(Message) /\ DOMAIN transcript = 1..Len(transcript)
      /\ \A i \in DOMAIN transcript : transcript[i] \in Message
      /\ \A i \in DOMAIN transcript' : transcript'[i] \in Message
  OBVIOUS
<1>2. Asked' = Asked \o CallsOf(m) /\ Asked \in Seq(Call)
  <2> DEFINE f == [x \in Message |-> CallsOf(x)]
             p == Parts(transcript, f)
             q == Parts(transcript', f)
  <2>1. \A x \in Message : f[x] \in Seq(Call)
    BY MessageParts
  <2>2. FlattenSeq(p) = Asked
    <3>1. p = [i \in DOMAIN transcript |-> CallsOf(transcript[i])]
      BY <1>1 DEF Parts
    <3> HIDE DEF p
    <3> QED BY <3>1 DEF Asked
  <2>3. FlattenSeq(q) = Asked'
    <3>1. q = [i \in DOMAIN transcript' |-> CallsOf(transcript'[i])]
      BY <1>1 DEF Parts
    <3> HIDE DEF q
    <3> QED BY <3>1 DEF Asked, CallsOf
  <2>4. f[m] = CallsOf(m) /\ f[m] \in Seq(Call)
    BY <2>1
  <2>5. p \in Seq(Seq(Call)) /\ q = Append(p, f[m])
    <3> HIDE DEF f
    <3> QED BY <2>1, AppendMap
  <2> HIDE DEF p, q, f
  <2> QED BY <2>2, <2>3, <2>4, <2>5, FlattenAppend
<1>3. Replies' = Replies \o ReplyOf(m) /\ Replies \in Seq(Call)
  <2> DEFINE f == [x \in Message |-> ReplyOf(x)]
             p == Parts(transcript, f)
             q == Parts(transcript', f)
  <2>1. \A x \in Message : f[x] \in Seq(Call)
    BY MessageParts
  <2>2. FlattenSeq(p) = Replies
    <3>1. p = [i \in DOMAIN transcript |-> ReplyOf(transcript[i])]
      BY <1>1 DEF Parts
    <3> HIDE DEF p
    <3> QED BY <3>1 DEF Replies
  <2>3. FlattenSeq(q) = Replies'
    <3>1. q = [i \in DOMAIN transcript' |-> ReplyOf(transcript'[i])]
      BY <1>1 DEF Parts
    <3> HIDE DEF q
    <3> QED BY <3>1 DEF Replies, ReplyOf
  <2>4. f[m] = ReplyOf(m) /\ f[m] \in Seq(Call)
    BY <2>1
  <2>5. p \in Seq(Seq(Call)) /\ q = Append(p, f[m])
    <3> HIDE DEF f
    <3> QED BY <2>1, AppendMap
  <2> HIDE DEF p, q, f
  <2> QED BY <2>2, <2>3, <2>4, <2>5, FlattenAppend
<1>4. Ran' = Ran \o RunOf(m) /\ Ran \in Seq(Call)
  <2> DEFINE f == [x \in Message |-> RunOf(x)]
             p == Parts(transcript, f)
             q == Parts(transcript', f)
  <2>1. \A x \in Message : f[x] \in Seq(Call)
    BY MessageParts
  <2>2. FlattenSeq(p) = Ran
    <3>1. p = [i \in DOMAIN transcript |-> RunOf(transcript[i])]
      BY <1>1 DEF Parts
    <3> HIDE DEF p
    <3> QED BY <3>1 DEF Ran
  <2>3. FlattenSeq(q) = Ran'
    <3>1. q = [i \in DOMAIN transcript' |-> RunOf(transcript'[i])]
      BY <1>1 DEF Parts
    <3> HIDE DEF q
    <3> QED BY <3>1 DEF Ran, RunOf
  <2>4. f[m] = RunOf(m) /\ f[m] \in Seq(Call)
    BY <2>1
  <2>5. p \in Seq(Seq(Call)) /\ q = Append(p, f[m])
    <3> HIDE DEF f
    <3> QED BY <2>1, AppendMap
  <2> HIDE DEF p, q, f
  <2> QED BY <2>2, <2>3, <2>4, <2>5, FlattenAppend
<1> QED BY <1>1, <1>2, <1>3, <1>4

\* What a tool returns is kept as documents.
LEMMA FreshDocs ==
  ASSUME collected \in Seq(Items), NEW docs \in Seq(Items)
  PROVE  Fresh(docs) \in Seq(Items)
<1> DEFINE n == Len(docs)
           add(new, d) == IF \/ d \in ToSet(collected) \cup ToSet(new)
                             \/ new # <<>> /\ Len(collected) + Len(new) >= MaxDocs
                          THEN new ELSE Append(new, d)
           st == [p \in (1..n) \X Seq(Items) |-> add(p[2], docs[p[1]])]
           ch == [t \in SUBSET (1..n) |-> Max(t)]
<1>1. n \in Nat /\ DOMAIN docs = 1..n /\ \A i \in 1..n : docs[i] \in Items
  OBVIOUS
<1>2. \A x \in 1..n, v \in Seq(Items) : st[<<x, v>>] = add(v, docs[x]) /\ st[<<x, v>>] \in Seq(Items)
  BY <1>1
<1>3. \A x \in 1..n, v \in Seq(Items) : st[<<x, v>>] \in Seq(Items)
  BY <1>2
<1>4. <<>> \in Seq(Items)
  OBVIOUS
<1>5. \E it : Computes(it, 1..n, Seq(Items), <<>>, ch, st)
  <2> HIDE DEF st, n
  <2> QED BY <1>1, <1>3, <1>4, PrefixRecursion
<1>6. PICK it : Computes(it, 1..n, Seq(Items), <<>>, ch, st)
  BY <1>5
<1>7. it = [t \in SUBSET (1..n) |-> IF t = {} THEN <<>> ELSE add(it[t \ {Max(t)}], docs[Max(t)])]
  <2>1. ASSUME NEW t \in SUBSET (1..n), t # {} PROVE it[t] = add(it[t \ {Max(t)}], docs[Max(t)])
    <3>1. Max(t) \in 1..n
      BY <1>1, <2>1, MaxIsGreatest
    <3>2. it[t \ {Max(t)}] \in Seq(Items) /\ it[t] = st[<<Max(t), it[t \ {Max(t)}]>>]
      BY <1>6, <2>1 DEF Computes
    <3> HIDE DEF st
    <3> QED BY <1>2, <3>1, <3>2
  <2>2. it[{}] = <<>> /\ it = [t \in SUBSET (1..n) |-> it[t]]
    BY <1>6 DEF Computes
  <2> HIDE DEF add
  <2> QED BY <2>1, <2>2
<1>8. \E h : /\ h = [t \in SUBSET (1..n) |-> IF t = {} THEN <<>> ELSE add(h[t \ {Max(t)}], docs[Max(t)])]
             /\ Fresh(docs) = h[1..n]
  BY <1>1, <1>7 DEF Fresh, FoldLeft, MapThenFoldSet
<1>9. PICK h : /\ h = [t \in SUBSET (1..n) |-> IF t = {} THEN <<>> ELSE add(h[t \ {Max(t)}], docs[Max(t)])]
               /\ Fresh(docs) = h[1..n]
  BY <1>8
<1> DEFINE I == {t \in SUBSET (1..n) : h[t] \in Seq(Items)}
<1>10. {} \in I
  BY <1>4, <1>9
<1>11. ASSUME NEW t \in SUBSET (1..n), t # {}, \A x \in t : t \ {x} \in I PROVE t \in I
  <2>1. Max(t) \in t
    BY <1>1, <1>11, MaxIsGreatest
  <2>2. h[t \ {Max(t)}] \in Seq(Items) /\ docs[Max(t)] \in Items
    BY <1>1, <1>11, <2>1
  <2>3. h[t] = add(h[t \ {Max(t)}], docs[Max(t)])
    BY <1>9, <1>11
  <2>4. \A w \in Seq(Items), d \in Items : add(w, d) \in Seq(Items)
    OBVIOUS
  <2> HIDE DEF add
  <2> QED BY <2>2, <2>3, <2>4
<1>12. SUBSET (1..n) \subseteq I
  <2> DEFINE T == 1..n
  <2>1. IsFiniteSet(T)
    BY <1>1, UpTo
  <2>2. \A t \in SUBSET T : t # {} /\ (\A x \in t : t \ {x} \in I) => t \in I
    BY <1>11
  <2> HIDE DEF I, T
  <2>3. SUBSET T \subseteq I
    BY <1>10, <2>1, <2>2, SubsetInduction
  <2> QED BY <2>3 DEF T
<1> QED BY <1>9, <1>12, ZenonT(30)

\* A tool returns documents.
LEMMA ReturnedDocs ==
  ASSUME NEW docs \in SetToAllKPermutations(Items)
  PROVE  docs \in Seq(Items)
<1>1. PICK s \in SUBSET Items : docs \in SetToSeqs(s)
  BY DEF SetToAllKPermutations
<1>2. IsFiniteSet(s) /\ Cardinality(s) \in Nat
  BY LoopAssumption, FS_Subset, FS_CardinalityType
<1>3. docs \in [1..Cardinality(s) -> s]
  BY <1>1, <1>2 DEF SetToSeqs
<1>4. docs \in Seq(s)
  BY <1>2, <1>3
<1> QED BY <1>4

LEMMA OneMore ==
  ASSUME NEW D, NEW s \in Seq(D), NEW c \in D
  PROVE  /\ s \o <<c>> \in Seq(D) /\ Len(s \o <<c>>) = Len(s) + 1
         /\ ToSet(s \o <<c>>) = ToSet(s) \cup {c}
         /\ IsInjective(s) /\ c \notin ToSet(s) => IsInjective(s \o <<c>>)
<1>1. s \o <<c>> = Append(s, c)
  BY AppendIsConcat
<1>2. ToSet(Append(s, c)) = ToSet(s) \cup {c}
  BY AppendSet
<1>3. Append(s, c) \in Seq(D) /\ Len(Append(s, c)) = Len(s) + 1
  OBVIOUS
<1>4. ASSUME IsInjective(s), c \notin ToSet(s) PROVE IsInjective(Append(s, c))
  <2> DEFINE a == Append(s, c)
  <2>1. /\ Len(s) \in Nat /\ DOMAIN s = 1..Len(s) /\ DOMAIN a = 1..Len(s) + 1
        /\ a[Len(s) + 1] = c /\ \A i \in 1..Len(s) : a[i] = s[i]
    OBVIOUS
  <2> HIDE DEF a
  <2>2. \A i \in 1..Len(s) : a[i] # c
    BY <1>4, <2>1 DEF ToSet
  <2>3. \A i, j \in 1..Len(s) : a[i] = a[j] => i = j
    BY <1>4, <2>1 DEF IsInjective
  <2>4. IsInjective(a)
    BY <2>1, <2>2, <2>3 DEF IsInjective
  <2> QED BY <2>4 DEF a
<1> QED BY <1>1, <1>2, <1>3, <1>4

LEMMA SameTold ==
  ASSUME UNCHANGED transcript
  PROVE  Asked' = Asked /\ Replies' = Replies /\ Ran' = Ran
BY DEF Asked, Replies, Ran

\* The first of the waiting calls is answered.
LEMMA HeadAnswered ==
  ASSUME LoopInv, Handling, NEW v \in Verdicts, Reply(v)
  PROVE  /\ Head(waiting) \in Call /\ waiting' \in Seq(Call) /\ transcript' \in Seq(Message)
         /\ Replies' \in Seq(Call) /\ Replies' \o waiting' = Asked'
         /\ v \in {"budget", "invalid", "duplicate"} => Ran' = Ran
         /\ v \notin {"budget", "invalid", "duplicate"} => Ran' = Ran \o <<Head(waiting)>>
<1> DEFINE c == Head(waiting)
<1>1. waiting \in Seq(Call) /\ waiting # <<>> /\ Replies \in Seq(Call) /\ Ran \in Seq(Call)
  BY DEF LoopInv, LoopTypeOK, Handling
<1>2. c \in Call /\ Tail(waiting) \in Seq(Call) /\ <<c>> \in Seq(Call)
  BY <1>1
<1>3. waiting = <<c>> \o Tail(waiting)
  BY <1>1, <1>2
<1>4. waiting' = Tail(waiting) /\ transcript' = Append(transcript, Answer(v))
  BY DEF Reply
<1>5. Answer(v) \in Message /\ Answer(v).role = "tool" /\ Answer(v).call = c /\ Answer(v).verdict = v
  BY <1>2 DEF Message, Answer
<1>6. CallsOf(Answer(v)) = <<>> /\ ReplyOf(Answer(v)) = <<c>>
  BY <1>5 DEF CallsOf, ReplyOf
<1>7. /\ transcript' \in Seq(Message)
      /\ Asked' = Asked \o <<>> /\ Asked \in Seq(Call)
      /\ Replies' = Replies \o <<c>>
      /\ Ran' = Ran \o RunOf(Answer(v))
  BY <1>4, <1>5, <1>6, Told DEF LoopInv
<1>8. Asked' = Asked
  BY <1>7, ConcatEmptySeq
<1>9. (Replies \o <<c>>) \o Tail(waiting) = Replies \o (<<c>> \o Tail(waiting))
  BY <1>1, <1>2, ConcatAssociative
<1>10. Replies' \o waiting' = Asked'
  BY <1>3, <1>4, <1>7, <1>8, <1>9 DEF LoopInv
<1>11. Replies' \in Seq(Call)
  BY <1>1, <1>2, <1>7, ConcatProperties
<1>12. ASSUME v \in {"budget", "invalid", "duplicate"} PROVE Ran' = Ran
  <2>1. RunOf(Answer(v)) = <<>>
    BY <1>5, <1>12 DEF RunOf
  <2> QED BY <1>1, <1>7, <2>1, ConcatEmptySeq
<1>13. ASSUME v \notin {"budget", "invalid", "duplicate"} PROVE Ran' = Ran \o <<c>>
  <2>1. RunOf(Answer(v)) = <<c>>
    BY <1>5, <1>13 DEF RunOf
  <2> QED BY <1>7, <2>1
<1> QED BY <1>2, <1>4, <1>7, <1>10, <1>11, <1>12, <1>13

LEMMA RefusalKeepsLoop ==
  ASSUME LoopInv, Handling, NEW v \in {"budget", "invalid", "duplicate"}, Reply(v),
         UNCHANGED <<step, executed, totalCalls, collected, loop>>
  PROVE  LoopInv'
<1>1. v \in Verdicts
  BY DEF Verdicts
<1>2. /\ waiting' \in Seq(Call) /\ transcript' \in Seq(Message)
      /\ Replies' \in Seq(Call) /\ Replies' \o waiting' = Asked' /\ Ran' = Ran
  BY <1>1, HeadAnswered
<1>3. loop' # "ask"
  BY DEF Handling
<1>4. LoopTypeOK'
  BY <1>2 DEF LoopInv, LoopTypeOK
<1> QED BY <1>2, <1>3, <1>4 DEF LoopInv, IsInjective

\* A call is executed, and its reply joins the messages.
LEMMA ExecuteKeepsLoop ==
  ASSUME LoopInv, Execute
  PROVE  LoopInv'
<1> USE LoopAssumption
<1> DEFINE c == Head(waiting)
<1>1. PICK v \in Outcomes(c) :
        /\ Reply(v)
        /\ \/ v = "documents" /\ \E docs \in SetToAllKPermutations(Items) :
                                   collected' = collected \o Fresh(docs)
           \/ v # "documents" /\ UNCHANGED collected
  BY DEF Execute
<1>2. v \in Verdicts /\ v \notin {"budget", "invalid", "duplicate"}
  BY DEF Outcomes, Verdicts
<1>3. Handling /\ totalCalls < MaxToolCalls /\ c \notin executed
      /\ executed' = executed \cup {c} /\ totalCalls' = totalCalls + 1 /\ step' = step /\ loop' = loop
  BY DEF Execute
<1>4. /\ c \in Call /\ waiting' \in Seq(Call) /\ transcript' \in Seq(Message)
      /\ Replies' \in Seq(Call) /\ Replies' \o waiting' = Asked' /\ Ran' = Ran \o <<c>>
  BY <1>1, <1>2, <1>3, HeadAnswered
<1>5. collected' \in Seq(Items)
  <2>1. collected \in Seq(Items)
    BY DEF LoopInv, LoopTypeOK
  <2>2. CASE UNCHANGED collected
    BY <2>1, <2>2
  <2>3. ASSUME NEW docs \in SetToAllKPermutations(Items), collected' = collected \o Fresh(docs)
        PROVE  collected' \in Seq(Items)
    <3>1. Fresh(docs) \in Seq(Items)
      BY <2>1, ReturnedDocs, FreshDocs
    <3> QED BY <2>1, <2>3, <3>1, ConcatProperties
  <2> QED BY <1>1, <2>2, <2>3
<1>6. Ran \in Seq(Call) /\ ToSet(Ran) = executed /\ IsInjective(Ran) /\ Len(Ran) = totalCalls
  BY DEF LoopInv
<1>7. /\ Ran' \in Seq(Call) /\ Len(Ran') = totalCalls' /\ ToSet(Ran') = executed'
      /\ IsInjective(Ran')
  BY <1>3, <1>4, <1>6, OneMore
<1>8. LoopTypeOK'
  <2>1. executed' \subseteq Call /\ totalCalls' \in 0..MaxToolCalls
    BY <1>3, <1>4 DEF LoopInv, LoopTypeOK
  <2> QED BY <1>3, <1>4, <1>5, <2>1 DEF LoopInv, LoopTypeOK
<1>9. loop' # "ask"
  BY <1>3 DEF Handling
<1> QED BY <1>4, <1>7, <1>8, <1>9 DEF LoopInv

\* The model asks for a batch of calls.
LEMMA ModelCallsKeepsLoop ==
  ASSUME LoopInv, ModelCalls
  PROVE  LoopInv'
<1>1. PICK n \in 1..Batch : \E calls \in [1..n -> Call] :
        /\ waiting' = calls
        /\ transcript' = Append(transcript, [role |-> "assistant", calls |-> calls])
  BY DEF ModelCalls
<1>2. PICK calls \in [1..n -> Call] :
        /\ waiting' = calls
        /\ transcript' = Append(transcript, [role |-> "assistant", calls |-> calls])
  BY <1>1
<1> DEFINE m == [role |-> "assistant", calls |-> calls]
<1>3. calls \in Seq(Call)
  BY LoopAssumption
<1>4. m \in Message /\ CallsOf(m) = calls /\ ReplyOf(m) = <<>> /\ RunOf(m) = <<>>
  BY <1>3 DEF Message, CallsOf, ReplyOf, RunOf
<1> HIDE DEF m
<1>5. /\ transcript' \in Seq(Message) /\ Asked' = Asked \o calls
      /\ Replies' = Replies \o <<>> /\ Ran' = Ran \o <<>>
  BY <1>2, <1>4, Told DEF LoopInv, m
<1>6. Replies \in Seq(Call) /\ Ran \in Seq(Call) /\ waiting = <<>>
  BY DEF LoopInv, ModelCalls
<1>7. Replies' = Replies /\ Ran' = Ran /\ Asked = Replies
  BY <1>5, <1>6, ConcatEmptySeq DEF LoopInv
<1>8. Replies' \o waiting' = Asked'
  BY <1>2, <1>5, <1>7
<1>9. LoopTypeOK' /\ loop' # "ask"
  BY <1>2, <1>3 DEF LoopInv, LoopTypeOK, ModelCalls
<1> QED BY <1>5, <1>6, <1>7, <1>8, <1>9 DEF LoopInv, IsInjective, ModelCalls

LEMMA LoopStep == LoopInv /\ [LoopNext]_loopVars => LoopInv'
<1> SUFFICES ASSUME LoopInv, [LoopNext]_loopVars PROVE LoopInv'
  OBVIOUS
<1>1. ASSUME UNCHANGED <<transcript, waiting, executed, totalCalls, collected>>,
             step' \in 1..MaxSteps, loop' \in {"ask", "calls", "finished", "stopped"},
             loop' = "ask" => waiting = <<>>
      PROVE  LoopInv'
  <2>1. Asked' = Asked /\ Replies' = Replies /\ Ran' = Ran
    BY <1>1, SameTold
  <2>2. LoopTypeOK'
    BY <1>1 DEF LoopInv, LoopTypeOK
  <2> QED BY <1>1, <2>1, <2>2 DEF LoopInv, IsInjective
<1>2. /\ step \in 1..MaxSteps /\ loop \in {"ask", "calls", "finished", "stopped"}
      /\ loop = "ask" => waiting = <<>>
  BY DEF LoopInv, LoopTypeOK
<1>3. CASE ModelStops
  BY <1>1, <1>2, <1>3 DEF ModelStops
<1>4. CASE LoopIsStopped
  BY <1>1, <1>2, <1>4 DEF LoopIsStopped
<1>5. CASE StepEnds
  BY <1>1, <1>2, <1>5, LoopAssumption DEF StepEnds
<1>6. CASE RefuseForBudget
  BY <1>6, RefusalKeepsLoop DEF RefuseForBudget
<1>7. CASE RefuseForArguments
  BY <1>7, RefusalKeepsLoop DEF RefuseForArguments
<1>8. CASE RefuseDuplicate
  BY <1>8, RefusalKeepsLoop DEF RefuseDuplicate
<1>9. CASE UNCHANGED loopVars
  BY <1>1, <1>2, <1>9 DEF loopVars
<1> QED
  BY <1>3, <1>4, <1>5, <1>6, <1>7, <1>8, <1>9, ExecuteKeepsLoop, ModelCallsKeepsLoop DEF LoopNext

\* However the model's answers are shaped, each call it makes has one reply in
\* its order, and no tool runs twice or beyond the budget: run_agent_loop.
THEOREM CallsAreAnswered == LoopSpec => []EveryCallAnswered
<1>1. LoopInit => LoopInv
  <2> SUFFICES ASSUME LoopInit PROVE LoopInv
    OBVIOUS
  <2>1. transcript = <<>> /\ waiting = <<>> /\ executed = {} /\ totalCalls = 0 /\ collected = <<>>
        /\ step = 1 /\ loop = "ask"
    BY DEF LoopInit
  <2>2. Asked = <<>> /\ Replies = <<>> /\ Ran = <<>>
    <3>1. /\ [i \in DOMAIN transcript |-> CallsOf(transcript[i])] = <<>>
          /\ [i \in DOMAIN transcript |-> ReplyOf(transcript[i])] = <<>>
          /\ [i \in DOMAIN transcript |-> RunOf(transcript[i])] = <<>>
      BY <2>1
    <3> QED BY <3>1, FlattenEmpty DEF Asked, Replies, Ran
  <2>3. LoopTypeOK
    BY <2>1, LoopAssumption DEF LoopTypeOK
  <2>4. Len(<<>>) = 0 /\ <<>> \o <<>> = <<>> /\ ToSet(<<>>) = {} /\ IsInjective(<<>>)
        /\ <<>> \in Seq(Call) /\ <<>> \in Seq(Message)
    BY DEF ToSet, IsInjective
  <2> QED BY <2>1, <2>2, <2>3, <2>4 DEF LoopInv
<1>2. LoopInv => EveryCallAnswered
  BY LoopAssumption DEF LoopInv, EveryCallAnswered, LoopTypeOK
<1> QED BY <1>1, <1>2, LoopStep, PTL DEF LoopSpec

=============================================================================
