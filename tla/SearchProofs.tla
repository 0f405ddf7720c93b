---------------------------- MODULE SearchProofs ----------------------------
(***************************************************************************)
(* Proofs about one search (Retrieval) and about the decisions that lead to it*)
(* and judge what it finds (ModelDecisions), for any stores, limits, models'*)
(* answers and clients.                                                    *)
(***************************************************************************)
EXTENDS CallProofs, Retrieval, ModelDecisions

-----------------------------------------------------------------------------
(* Lists that are arranged *)

IsArranged(a, s, I, D) ==
  /\ a \in Seq(D) /\ Len(a) = Cardinality(I) /\ DOMAIN a = 1..Cardinality(I)
  /\ \A n \in 1..Cardinality(I) : \E i \in I : a[n] = s[i]
  /\ \A i \in I : \E n \in 1..Cardinality(I) : a[n] = s[i]

\* An arrangement keeps what stands at the indices, all of it.
LEMMA Arrangement ==
  ASSUME NEW s, NEW I, IsFiniteSet(I), NEW R, InRow(I, R), NEW D, \A i \in I : s[i] \in D
  PROVE  IsArranged(Arranged(s, I, R), s, I, D)
<1> DEFINE c == Cardinality(I)
           a == Arranged(s, I, R)
<1>1. c \in Nat
  BY FS_CardinalityType
<1>2. IsOrder(I, R)
  BY PlacesAreTaken
<1>3. a = [n \in 1..c |-> s[At(I, R, n)]]
  BY DEF Arranged, At
<1>4. \A n \in 1..c : At(I, R, n) \in I
  BY <1>2 DEF IsOrder
<1>5. \A i \in I : \E n \in 1..c : At(I, R, n) = i
  BY <1>2 DEF IsOrder
<1> HIDE DEF a, c
<1>6. a \in Seq(D) /\ Len(a) = c /\ DOMAIN a = 1..c /\ \A n \in 1..c : a[n] = s[At(I, R, n)]
  BY <1>1, <1>3, <1>4
<1>7. \A n \in 1..c : \E i \in I : a[n] = s[i]
  BY <1>4, <1>6
<1>8. \A i \in I : \E n \in 1..c : a[n] = s[i]
  BY <1>5, <1>6
<1> QED BY <1>6, <1>7, <1>8 DEF a, c, IsArranged

-----------------------------------------------------------------------------
(* Documents, sorted and cut *)

IdsOfLists(lists) == UNION {ToSet(list) : list \in ToSet(lists)}
TextIds ==
  UNION {{hit.id : hit \in ToSet(hits)} :
           hits \in UNION {Raw[ch] : ch \in {"vector", "web", "keyword", "memory"}}}
SearchIds == TextIds \cup UNION {IdsOfLists(lists) : lists \in Raw["image_vector"]}

DocsOf(ch) == [id : SearchIds, from : {ch}, score : Nat, via : {{ch}}]

LEMMA IdOfHit ==
  ASSUME NEW ch \in {"vector", "web", "keyword", "memory"}, NEW hits \in Raw[ch],
         NEW i \in DOMAIN hits
  PROVE  hits[i].id \in SearchIds
<1>1. hits[i] \in ToSet(hits)
  BY DEF ToSet
<1>2. hits \in UNION {Raw[c] : c \in {"vector", "web", "keyword", "memory"}}
  OBVIOUS
<1>3. hits[i].id \in {hit.id : hit \in ToSet(hits)}
  BY <1>1
<1> DEFINE all == UNION {Raw[c] : c \in {"vector", "web", "keyword", "memory"}}
<1>4. hits \in all
  BY <1>2
<1> HIDE DEF all
<1>5. hits[i].id \in UNION {{hit.id : hit \in ToSet(h)} : h \in all}
  BY <1>3, <1>4
<1> QED BY <1>5 DEF SearchIds, TextIds, all

LEMMA FirstDocs ==
  ASSUME NEW D, NEW s \in Seq(D), NEW k \in Nat
  PROVE  First(s, k) \in Seq(D) /\ IsCut(First(s, k), s, k, D)
<1>1. First(s, k) = FirstOf(s, k)
  BY DEF First, FirstOf
<1>2. IsCut(FirstOf(s, k), s, k, D)
  BY FirstOfIsCut
<1>3. IsCut(First(s, k), s, k, D)
  BY <1>1, <1>2
<1> QED BY <1>3 DEF IsCut

LEMMA ClippedIsScore ==
  ASSUME NEW n \in Int
  PROVE  Clipped(n) \in Nat
<1> DEFINE m == Min({n, Full})
<1>1. Full \in Int
  BY DEF Full
<1>2. m \in Int
  BY <1>1, MinOfTwo
<1> HIDE DEF m
<1>3. Max({0, m}) = IF 0 >= m THEN 0 ELSE m
  BY <1>2, MaxOfTwo
<1> QED BY <1>2, <1>3 DEF Clipped, m

LEMMA ArrangedSet ==
  ASSUME NEW s, NEW a, NEW D, IsArranged(a, s, DOMAIN s, D)
  PROVE  ToSet(a) = ToSet(s)
<1>1. ASSUME NEW x \in ToSet(a) PROVE x \in ToSet(s)
  <2>1. PICK n \in DOMAIN a : x = a[n]
    BY DEF ToSet
  <2>2. PICK i \in DOMAIN s : a[n] = s[i]
    BY <2>1 DEF IsArranged
  <2> QED BY <2>1, <2>2 DEF ToSet
<1>2. ASSUME NEW x \in ToSet(s) PROVE x \in ToSet(a)
  <2>1. PICK i \in DOMAIN s : x = s[i]
    BY DEF ToSet
  <2>2. PICK n \in DOMAIN a : a[n] = s[i]
    BY <2>1 DEF IsArranged
  <2> QED BY <2>1, <2>2 DEF ToSet
<1> QED BY <1>1, <1>2

\* Sorting by score keeps the documents.
LEMMA ByScoreKeeps ==
  ASSUME NEW D, \A d \in D : d.score \in Int, NEW docs \in Seq(D)
  PROVE  ByScore(docs) \in Seq(D) /\ Len(ByScore(docs)) = Len(docs)
         /\ ToSet(ByScore(docs)) = ToSet(docs)
<1> DEFINE I == DOMAIN docs
           R == {p \in I \X I : \/ docs[p[1]].score > docs[p[2]].score
                                \/ docs[p[1]].score = docs[p[2]].score /\ p[1] < p[2]}
           a == ByScore(docs)
<1>1. a = Arranged(docs, I, R)
  BY DEF ByScore
<1>2. I = 1..Len(docs) /\ Len(docs) \in Nat /\ \A i \in I : docs[i] \in D /\ docs[i].score \in Int
  OBVIOUS
<1>3. IsFiniteSet(I) /\ Cardinality(I) = Len(docs)
  <2>1. IsFiniteSet(1..Len(docs)) /\ Cardinality(1..Len(docs)) = Len(docs)
    BY <1>2, UpTo
  <2> QED BY <1>2, <2>1
<1>4. \A i, j \in I : <<i, j>> \in R <=> \/ docs[i].score > docs[j].score
                                         \/ docs[i].score = docs[j].score /\ i < j
  <2> SUFFICES ASSUME NEW i \in I, NEW j \in I
               PROVE  <<i, j>> \in R <=> \/ docs[i].score > docs[j].score
                                         \/ docs[i].score = docs[j].score /\ i < j
    OBVIOUS
  <2> DEFINE q == <<i, j>>
  <2>1. q \in I \X I /\ q[1] = i /\ q[2] = j
    OBVIOUS
  <2>2. q \in R <=> \/ docs[q[1]].score > docs[q[2]].score
                    \/ docs[q[1]].score = docs[q[2]].score /\ q[1] < q[2]
    <3> HIDE DEF q, I
    <3> QED BY <2>1
  <2>3. q \in R <=> \/ docs[i].score > docs[j].score
                    \/ docs[i].score = docs[j].score /\ i < j
    <3> HIDE DEF q, R, I
    <3> QED BY <2>1, <2>2
  <2> HIDE DEF R, I
  <2> QED BY <2>3
<1>5. InRow(I, R)
  <2>1. \A i \in I : i \in Int
    BY <1>2
  <2>2. \A i, j \in I : <<i, j>> \in R => i \in I /\ j \in I
    OBVIOUS
  <2> HIDE DEF I, R
  <2>3. \A i \in I : <<i, i>> \notin R
    BY <1>2, <1>4, <2>1
  <2>4. \A i, j \in I : i # j => <<i, j>> \in R \/ <<j, i>> \in R
    BY <1>2, <1>4, <2>1
  <2>5. ASSUME NEW i \in I, NEW j \in I, NEW k \in I, <<i, j>> \in R, <<j, k>> \in R
        PROVE  <<i, k>> \in R
    <3>1. docs[i].score \in Int /\ docs[j].score \in Int /\ docs[k].score \in Int
      BY <1>2
    <3>2. /\ docs[i].score > docs[j].score \/ (docs[i].score = docs[j].score /\ i < j)
          /\ docs[j].score > docs[k].score \/ (docs[j].score = docs[k].score /\ j < k)
      BY <1>4, <2>5
    <3>3. docs[i].score > docs[k].score \/ (docs[i].score = docs[k].score /\ i < k)
      BY <2>1, <3>1, <3>2
    <3> QED BY <1>4, <3>3
  <2> QED BY <2>3, <2>4, <2>5 DEF InRow
<1>6. \A i \in I : docs[i] \in D
  BY <1>2
<1> HIDE DEF I, R, a
<1>7. IsArranged(a, docs, I, D)
  BY <1>1, <1>3, <1>5, <1>6, Arrangement
<1>8. ToSet(a) = ToSet(docs)
  BY <1>7, ArrangedSet DEF I
<1> QED BY <1>3, <1>7, <1>8 DEF a, IsArranged

\* Where a document of a list can be found in it.
LEMMA Listed ==
  ASSUME NEW S, IsFiniteSet(S)
  PROVE  SetToSeq(S) \in Seq(S) /\ Len(SetToSeq(S)) = Cardinality(S) /\ Cardinality(S) \in Nat
         /\ ToSet(SetToSeq(S)) = S /\ IsInjective(SetToSeq(S))
<1> DEFINE c == Cardinality(S)
           f == SetToSeq(S)
<1>1. c \in Nat /\ ExistsBijection(1..c, S)
  BY FS_CardinalityType
<1>2. \E g \in [1..c -> S] : IsInjective(g)
  BY <1>1 DEF ExistsBijection, Bijection, Injection
<1>3. f \in [1..c -> S] /\ IsInjective(f)
  <2>1. f = CHOOSE g \in [1..c -> S] : IsInjective(g)
    BY DEF SetToSeq
  <2> HIDE DEF c, f
  <2> QED BY <1>2, <2>1
<1> HIDE DEF f
<1>4. f \in Surjection(1..c, S)
  <2>1. f \in Injection(1..c, S)
    BY <1>3 DEF Injection
  <2>2. IsFiniteSet(1..c) /\ Cardinality(1..c) = c
    BY <1>1, UpTo
  <2> QED BY <2>1, <2>2, FS_Injection
<1> HIDE DEF c
<1>5. f \in Seq(S) /\ Len(f) = c /\ DOMAIN f = 1..c
  BY <1>1, <1>3
<1>6. ToSet(f) = S
  BY <1>3, <1>4, <1>5 DEF ToSet, Surjection
<1> QED BY <1>1, <1>3, <1>5, <1>6 DEF f, c

LEMMA PointsAreNat ==
  ASSUME NEW r \in Nat
  PROVE  Points(r) \in Nat
<1>1. RrfK + r \in Nat /\ RrfK + r > 0
  BY DEF RrfK
<1> QED BY <1>1 DEF Points

\* The sum of the points of the places in T.
LEMMA PointsSum ==
  ASSUME NEW T, IsFiniteSet(T), \A p \in T : p[2] \in Nat
  PROVE  PointsOf(T) \in Nat
<1> DEFINE w == [p \in T |-> Points(p[2])]
<1>1. \A p \in T : w[p] \in Nat /\ w[p] = Points(p[2])
  BY PointsAreNat
<1>2. PICK h : IsSum(h, w, T)
  <2>1. \A p \in T : w[p] \in Nat
    BY <1>1
  <2> HIDE DEF w
  <2> QED BY <2>1, SumsExist
<1> HIDE DEF w
<1>3. h = [s \in SUBSET T |-> IF s = {} THEN 0 ELSE Points(Some(s)[2]) + h[s \ {Some(s)}]]
  <2>1. \A s \in SUBSET T : s # {} => Some(s) \in T
    BY DEF Some
  <2> QED BY <1>1, <1>2, <2>1 DEF IsSum
<1>4. \E g : /\ g = [s \in SUBSET T |-> IF s = {} THEN 0 ELSE Points(Some(s)[2]) + g[s \ {Some(s)}]]
             /\ PointsOf(T) = g[T]
  BY <1>3 DEF PointsOf, MapThenSumSet, MapThenFoldSet, Some
<1>5. PICK g : /\ g = [s \in SUBSET T |-> IF s = {} THEN 0 ELSE Points(Some(s)[2]) + g[s \ {Some(s)}]]
               /\ PointsOf(T) = g[T]
  BY <1>4
<1> DEFINE N == {s \in SUBSET T : g[s] \in Nat}
<1>6. {} \in N
  BY <1>5
<1>7. \A s \in SUBSET T : s # {} /\ (\A x \in s : s \ {x} \in N) => s \in N
  <2> SUFFICES ASSUME NEW s \in SUBSET T, s # {}, \A x \in s : s \ {x} \in N PROVE g[s] \in Nat
    OBVIOUS
  <2>1. Some(s) \in s
    BY DEF Some
  <2>2. Points(Some(s)[2]) \in Nat
    BY <2>1, PointsAreNat
  <2>3. g[s \ {Some(s)}] \in Nat
    BY <2>1
  <2>4. g[s] = Points(Some(s)[2]) + g[s \ {Some(s)}]
    BY <1>5
  <2> QED BY <2>2, <2>3, <2>4
<1>8. SUBSET T \subseteq N
  <2> HIDE DEF N
  <2> QED BY <1>6, <1>7, SubsetInduction
<1> QED BY <1>5, <1>8

-----------------------------------------------------------------------------
(* The channels *)

LEMMA HitsTyped ==
  ASSUME NEW ch \in {"vector", "web", "keyword", "memory"}, NEW hits \in Raw[ch]
  PROVE  /\ Len(hits) \in Nat /\ DOMAIN hits = 1..Len(hits) /\ hits \in Seq(ToSet(hits))
         /\ \A i \in DOMAIN hits : hits[i].id \in SearchIds /\ hits[i].score \in Nat
<1>1. hits \in Seq(ToSet(hits)) /\ \A hit \in ToSet(hits) : hit.score \in Nat
  BY SearchAssumption
<1>2. \A i \in DOMAIN hits : hits[i] \in ToSet(hits)
  BY DEF ToSet
<1>3. \A i \in DOMAIN hits : hits[i].id \in SearchIds
  BY IdOfHit
<1> QED BY <1>1, <1>2, <1>3

\* The channels return documents of their own, each once: the lemma of each.
LEMMA VectorDocs ==
  ASSUME NEW hits \in Raw["vector"]
  PROVE  RecallVector(hits) \in Seq(DocsOf("vector"))
<1> DEFINE I == DOMAIN hits
           before == {p \in I \X I : \/ hits[p[1]].score < hits[p[2]].score
                                     \/ hits[p[1]].score = hits[p[2]].score /\ p[1] < p[2]}
           kept == {i \in I : \/ hits[i].parent = "none"
                              \/ \A j \in I \ {i} : hits[j].parent = hits[i].parent => <<i, j>> \in before}
           near == Arranged(hits, kept, before)
           docs == [n \in DOMAIN near |-> Doc(near[n].id, "vector", near[n].score)]
           H == {hits[i] : i \in I}
<1>1. Len(hits) \in Nat /\ I = 1..Len(hits) /\ \A i \in I : hits[i].id \in SearchIds /\ hits[i].score \in Nat
  BY HitsTyped
<1>2. IsFiniteSet(I)
  <2>1. IsFiniteSet(1..Len(hits))
    BY <1>1, UpTo
  <2> QED BY <1>1, <2>1
<1>3. IsFiniteSet(kept) /\ kept \in SUBSET I
  BY <1>2, FS_Subset
<1>4. \A i, j \in I : <<i, j>> \in before <=> \/ hits[i].score < hits[j].score
                                              \/ hits[i].score = hits[j].score /\ i < j
  OBVIOUS
<1>5. InRow(kept, before)
  <2>1. \A i \in kept : i \in I /\ i \in Int /\ hits[i].score \in Int
    BY <1>1, <1>3
  <2> HIDE DEF I, before, kept
  <2>2. \A i \in kept : <<i, i>> \notin before
    BY <1>4, <2>1
  <2>3. \A i, j \in kept : i # j => <<i, j>> \in before \/ <<j, i>> \in before
    BY <1>4, <2>1
  <2>4. ASSUME NEW i \in kept, NEW j \in kept, NEW k \in kept, <<i, j>> \in before, <<j, k>> \in before
        PROVE  <<i, k>> \in before
    <3>1. /\ hits[i].score < hits[j].score \/ (hits[i].score = hits[j].score /\ i < j)
          /\ hits[j].score < hits[k].score \/ (hits[j].score = hits[k].score /\ j < k)
      BY <1>4, <2>1, <2>4
    <3>2. hits[i].score < hits[k].score \/ (hits[i].score = hits[k].score /\ i < k)
      BY <2>1, <3>1
    <3> QED BY <1>4, <2>1, <3>2
  <2> QED BY <2>2, <2>3, <2>4 DEF InRow
<1>6. IsArranged(near, hits, kept, H)
  <2>1. \A i \in kept : hits[i] \in H
    BY <1>3
  <2> HIDE DEF I, before, kept, H
  <2> QED BY <1>3, <1>5, <2>1, Arrangement
<1>7. \A n \in DOMAIN near : near[n].id \in SearchIds /\ near[n].score \in Nat
  <2> SUFFICES ASSUME NEW n \in DOMAIN near PROVE near[n].id \in SearchIds /\ near[n].score \in Nat
    OBVIOUS
  <2> HIDE DEF near, kept
  <2>1. PICK i \in kept : near[n] = hits[i]
    BY <1>6 DEF IsArranged
  <2> QED BY <1>1, <1>3, <2>1
<1>8. near \in Seq(H)
  BY <1>6 DEF IsArranged
<1>9. docs \in Seq(DocsOf("vector"))
  <2> HIDE DEF near, H
  <2>1. \A n \in DOMAIN near : docs[n] \in DocsOf("vector")
    BY <1>7 DEF Doc, DocsOf
  <2> QED BY <1>8, <2>1
<1>10. RecallVector(hits) = First(docs, TopK)
  BY DEF RecallVector
<1> HIDE DEF docs
<1> QED BY <1>9, <1>10, FirstDocs, SearchAssumption

LEMMA WebDocs ==
  ASSUME NEW hits \in Raw["web"]
  PROVE  RecallWeb(hits) \in Seq(DocsOf("web"))
<1> DEFINE docs == [n \in DOMAIN hits |-> Doc(hits[n].id, "web", hits[n].score)]
<1>1. docs \in Seq(DocsOf("web"))
  <2>1. Len(hits) \in Nat /\ DOMAIN hits = 1..Len(hits)
        /\ \A i \in DOMAIN hits : hits[i].id \in SearchIds /\ hits[i].score \in Nat
    BY HitsTyped
  <2>2. \A n \in DOMAIN hits : docs[n] \in DocsOf("web")
    BY <2>1 DEF Doc, DocsOf
  <2> QED BY <2>1, <2>2
<1>2. Min({TavilyMaxResults, TopK}) \in Nat
  <2>1. TavilyMaxResults \in Nat /\ TopK \in Nat
    BY SearchAssumption DEF TavilyMaxResults
  <2> QED BY <2>1, MinOfTwo
<1>3. RecallWeb(hits) = First(docs, Min({TavilyMaxResults, TopK}))
  BY DEF RecallWeb
<1> HIDE DEF docs
<1> QED BY <1>1, <1>2, <1>3, FirstDocs

LEMMA KeywordDocs ==
  ASSUME NEW hits \in Raw["keyword"]
  PROVE  RecallKeyword(hits) \in Seq(DocsOf("keyword"))
<1> DEFINE docs == [n \in DOMAIN hits |-> Doc(hits[n].id, "keyword", hits[n].score)]
<1>1. docs \in Seq(DocsOf("keyword"))
  <2>1. Len(hits) \in Nat /\ DOMAIN hits = 1..Len(hits)
        /\ \A i \in DOMAIN hits : hits[i].id \in SearchIds /\ hits[i].score \in Nat
    BY HitsTyped
  <2>2. \A n \in DOMAIN hits : docs[n] \in DocsOf("keyword")
    BY <2>1 DEF Doc, DocsOf
  <2> QED BY <2>1, <2>2
<1>3. RecallKeyword(hits) = First(docs, TopK)
  BY DEF RecallKeyword
<1> HIDE DEF docs
<1> QED BY <1>1, <1>3, FirstDocs, SearchAssumption

LEMMA MemoryDocs ==
  ASSUME NEW hits \in Raw["memory"]
  PROVE  RecallMemory(hits) \in Seq(DocsOf("memory"))
<1> DEFINE docs == [n \in DOMAIN hits |-> Doc(hits[n].id, "memory", Clipped(hits[n].score))]
<1>1. docs \in Seq(DocsOf("memory"))
  <2>1. Len(hits) \in Nat /\ DOMAIN hits = 1..Len(hits)
        /\ \A i \in DOMAIN hits : hits[i].id \in SearchIds /\ hits[i].score \in Nat
    BY HitsTyped
  <2>2. ASSUME NEW i \in DOMAIN hits PROVE Clipped(hits[i].score) \in Nat
    <3>1. hits[i].score \in Int
      BY <2>1
    <3> QED BY <3>1, ClippedIsScore
  <2>3. \A n \in DOMAIN hits : docs[n] \in DocsOf("memory")
    BY <2>1, <2>2 DEF Doc, DocsOf
  <2> QED BY <2>1, <2>3
<1>2. ByScore(docs) \in Seq(DocsOf("memory"))
  <2>1. \A d \in DocsOf("memory") : d.score \in Int
    BY DEF DocsOf
  <2> HIDE DEF docs
  <2> QED BY <1>1, <2>1, ByScoreKeeps
<1>3. RecallMemory(hits) = First(ByScore(docs), TopK)
  BY DEF RecallMemory
<1> HIDE DEF docs
<1> QED BY <1>2, <1>3, FirstDocs, SearchAssumption

\* The places of all lists are finitely many.
LEMMA FinitePlaces ==
  ASSUME NEW lists, NEW n \in Nat, DOMAIN lists = 1..n,
         \A i \in DOMAIN lists : \E m \in Nat : DOMAIN lists[i] = 1..m
  PROVE  IsFiniteSet(UNION {{i} \X DOMAIN lists[i] : i \in DOMAIN lists})
<1> DEFINE f == [i \in 1..n |-> {i} \X DOMAIN lists[i]]
           T == {{i} \X DOMAIN lists[i] : i \in DOMAIN lists}
<1>1. f \in Surjection(1..n, T)
  BY DEF Surjection
<1>2. IsFiniteSet(1..n)
  BY UpTo
<1>3. IsFiniteSet(T)
  <2> HIDE DEF f, T
  <2> QED BY <1>1, <1>2, FS_Surjection
<1>4. ASSUME NEW t \in T PROVE IsFiniteSet(t)
  <2>1. PICK i \in DOMAIN lists : t = {i} \X DOMAIN lists[i]
    OBVIOUS
  <2>2. PICK m \in Nat : DOMAIN lists[i] = 1..m
    OBVIOUS
  <2>3. IsFiniteSet(1..m)
    BY UpTo
  <2>4. IsFiniteSet({i})
    BY FS_Singleton
  <2>5. IsFiniteSet({i} \X (1..m))
    BY <2>3, <2>4, FS_Product
  <2> QED BY <2>1, <2>2, <2>5
<1> HIDE DEF T
<1>5. IsFiniteSet(UNION T)
  BY <1>3, <1>4, FS_UNION
<1> QED BY <1>5 DEF T

LEMMA SetOfImage ==
  ASSUME NEW S, IsFiniteSet(S), NEW f
  PROVE  IsFiniteSet({f[x] : x \in S})
<1> DEFINE T == {f[x] : x \in S}
           g == [x \in S |-> f[x]]
<1>1. g \in Surjection(S, T)
  BY DEF Surjection
<1> HIDE DEF g, T
<1>2. IsFiniteSet(T)
  BY <1>1, FS_Surjection
<1> QED BY <1>2 DEF T

LEMMA FiniteElements ==
  ASSUME NEW D, NEW s \in Seq(D)
  PROVE  IsFiniteSet(ToSet(s))
<1>1. Len(s) \in Nat /\ DOMAIN s = 1..Len(s)
  OBVIOUS
<1>2. IsFiniteSet(DOMAIN s)
  BY <1>1, UpTo
<1>3. IsFiniteSet({s[x] : x \in DOMAIN s})
  BY <1>2, SetOfImage
<1> QED BY <1>3 DEF ToSet

LEMMA ImageDocs ==
  ASSUME NEW lists \in Raw["image_vector"]
  PROVE  RecallImageVector(lists) \in Seq(DocsOf("image_vector"))
<1> DEFINE ids == UNION {ToSet(lists[i]) : i \in DOMAIN lists}
           places == UNION {{i} \X DOMAIN lists[i] : i \in DOMAIN lists}
           spots(d) == {a \in places : lists[a[1]][a[2]] = d}
           sum(d) == PointsOf(spots(d))
           score(d) == Clipped((Full * sum(d)) \div (Len(lists) * Points(1)))
           all == {Doc(d, "image_vector", score(d)) : d \in ids}
<1>1. lists \in Seq(ToSet(lists)) /\ \A list \in ToSet(lists) : list \in Seq(ToSet(list))
  BY SearchAssumption
<1>2. /\ Len(lists) \in Nat /\ DOMAIN lists = 1..Len(lists)
      /\ \A i \in DOMAIN lists : lists[i] \in ToSet(lists) /\ lists[i] \in Seq(ToSet(lists[i]))
  BY <1>1 DEF ToSet
<1>3. \A i \in DOMAIN lists : Len(lists[i]) \in Nat /\ DOMAIN lists[i] = 1..Len(lists[i])
  BY <1>2
<1>4. IsFiniteSet(places)
  <2>1. \A i \in DOMAIN lists : \E m \in Nat : DOMAIN lists[i] = 1..m
    BY <1>3
  <2> QED BY <1>2, <2>1, FinitePlaces
<1>5. \A a \in places : a[2] \in Nat
  BY <1>3
<1>6. \A d : sum(d) \in Nat
  <2> SUFFICES ASSUME NEW d PROVE sum(d) \in Nat
    OBVIOUS
  <2>1. spots(d) \in SUBSET places
    OBVIOUS
  <2>2. IsFiniteSet(spots(d)) /\ \A a \in spots(d) : a[2] \in Nat
    BY <1>4, <1>5, <2>1, FS_Subset
  <2> HIDE DEF spots
  <2> QED BY <2>2, PointsSum
<1>7. \A d \in ids : score(d) \in Nat
  <2> SUFFICES ASSUME NEW d \in ids PROVE score(d) \in Nat
    OBVIOUS
  <2>1. Len(lists) > 0
    BY <1>2
  <2>2. Points(1) \in Nat /\ Points(1) > 0
    BY DEF Points, RrfK
  <2>3. Len(lists) * Points(1) \in Nat /\ Len(lists) * Points(1) > 0
    <3>1. \A a, b \in Nat : a > 0 /\ b > 0 => a * b \in Nat /\ a * b > 0
      OBVIOUS
    <3> QED BY <1>2, <2>1, <2>2, <3>1
  <2>4. sum(d) \in Nat
    BY <1>6
  <2> HIDE DEF sum
  <2>5. Full * sum(d) \in Nat
    BY <2>4 DEF Full
  <2>6. (Full * sum(d)) \div (Len(lists) * Points(1)) \in Int
    <3>1. \A a, b \in Nat : b > 0 => a \div b \in Int
      OBVIOUS
    <3> QED BY <2>3, <2>5, <3>1
  <2> QED BY <2>6, ClippedIsScore
<1>8. ids \subseteq SearchIds
  <2> SUFFICES ASSUME NEW x \in ids PROVE x \in SearchIds
    OBVIOUS
  <2>1. PICK i \in DOMAIN lists : x \in ToSet(lists[i])
    OBVIOUS
  <2>2. lists[i] \in ToSet(lists)
    BY <1>2
  <2>3. x \in IdsOfLists(lists)
    BY <2>1, <2>2 DEF IdsOfLists
  <2> QED BY <2>3 DEF SearchIds
<1>9. IsFiniteSet(ids)
  <2> DEFINE f == [i \in DOMAIN lists |-> ToSet(lists[i])]
             T == {f[i] : i \in DOMAIN lists}
  <2>1. IsFiniteSet(DOMAIN lists)
    BY <1>2, UpTo
  <2>2. IsFiniteSet(T)
    <3> HIDE DEF f
    <3> QED BY <2>1, SetOfImage
  <2>3. ASSUME NEW t \in T PROVE IsFiniteSet(t)
    <3>1. PICK i \in DOMAIN lists : t = ToSet(lists[i])
      OBVIOUS
    <3>2. lists[i] \in Seq(ToSet(lists[i]))
      BY <1>2
    <3> QED BY <3>1, <3>2, FiniteElements
  <2>4. UNION T = ids
    OBVIOUS
  <2> HIDE DEF T, f, ids
  <2>5. IsFiniteSet(UNION T)
    BY <2>2, <2>3, FS_UNION
  <2> QED BY <2>4, <2>5
<1>10. IsFiniteSet(all) /\ all \subseteq DocsOf("image_vector")
  <2> DEFINE f == [d \in ids |-> Doc(d, "image_vector", score(d))]
  <2>1. IsFiniteSet({f[d] : d \in ids})
    <3> HIDE DEF f, ids
    <3> QED BY <1>9, SetOfImage
  <2>2. all = {f[d] : d \in ids}
    <3> HIDE DEF ids, score
    <3> QED OBVIOUS
  <2>3. all \subseteq DocsOf("image_vector")
    <3> HIDE DEF ids, score
    <3> QED BY <1>7, <1>8 DEF Doc, DocsOf
  <2> QED BY <2>1, <2>2, <2>3
<1>11. SetToSeq(all) \in Seq(DocsOf("image_vector"))
  <2> HIDE DEF all
  <2>1. SetToSeq(all) \in Seq(all)
    BY <1>10, Listed
  <2> QED BY <1>10, <2>1
<1>12. ByScore(SetToSeq(all)) \in Seq(DocsOf("image_vector"))
  <2>1. \A d \in DocsOf("image_vector") : d.score \in Int
    BY DEF DocsOf
  <2> HIDE DEF all
  <2> QED BY <1>11, <2>1, ByScoreKeeps
<1>13. RecallImageVector(lists) = First(ByScore(SetToSeq(all)), TopK)
  BY DEF RecallImageVector
<1> HIDE DEF all
<1> QED BY <1>12, <1>13, FirstDocs, SearchAssumption

\* Whatever a store holds, its channel returns documents of its own.
LEMMA RecalledDocs ==
  ASSUME NEW ch \in Channels, NEW raw \in Raw[ch]
  PROVE  Recalled(ch, raw) \in Seq(DocsOf(ch))
<1>1. CASE ch = "vector"
  BY <1>1, VectorDocs DEF Recalled
<1>2. CASE ch = "image_vector"
  BY <1>2, ImageDocs DEF Recalled
<1>3. CASE ch = "web"
  BY <1>3, WebDocs DEF Recalled
<1>4. CASE ch = "keyword"
  BY <1>4, KeywordDocs DEF Recalled
<1>5. CASE ch = "memory"
  BY <1>5, MemoryDocs DEF Recalled
<1> QED BY <1>1, <1>2, <1>3, <1>4, <1>5 DEF Channels

-----------------------------------------------------------------------------
(* Each document once *)

\* The minimum of indices, by induction over their bound.
LEMMA MinIsLeast ==
  ASSUME NEW n \in Nat, NEW T \in SUBSET (1..n), T # {}
  PROVE  Min(T) \in T /\ \A y \in T : Min(T) <= y
<1> DEFINE N == {k \in Nat : \A U \in SUBSET (1..k) : U # {} => \E x \in U : \A y \in U : x <= y}
<1>1. 0 \in N
  <2>1. 1..0 = {}
    OBVIOUS
  <2> QED BY <2>1
<1>2. ASSUME NEW k \in Nat, k \in N PROVE k + 1 \in N
  <2> SUFFICES ASSUME NEW U \in SUBSET (1..k + 1), U # {} PROVE \E x \in U : \A y \in U : x <= y
    OBVIOUS
  <2> DEFINE W == U \cap (1..k)
  <2>1. CASE W = {}
    <3>1. \A y \in U : y = k + 1
      BY <2>1
    <3>2. PICK u \in U : TRUE
      OBVIOUS
    <3>3. u = k + 1 /\ u \in Int
      BY <3>1, <3>2
    <3>4. \A y \in U : u <= y
      BY <3>1, <3>3
    <3> QED BY <3>2, <3>4
  <2>2. CASE W # {}
    <3>1. PICK x \in W : \A y \in W : x <= y
      BY <1>2, <2>2
    <3>2. \A y \in U : y \in W \/ y = k + 1
      OBVIOUS
    <3> QED BY <3>1, <3>2
  <2> QED BY <2>1, <2>2
<1>3. Nat \subseteq N
  <2> HIDE DEF N
  <2> QED BY <1>1, <1>2, NatSetInduction
<1>4. \E x \in T : \A y \in T : x <= y
  BY <1>3
<1> QED BY <1>4 DEF Min

\* Place is the first index that holds the document, or 0.
LEMMA PlaceOf ==
  ASSUME NEW D, NEW docs \in Seq(D), NEW id
  PROVE  /\ Place(docs, id) \in 0..Len(docs)
         /\ Place(docs, id) # 0 <=> \E i \in 1..Len(docs) : docs[i].id = id
         /\ Place(docs, id) # 0 => docs[Place(docs, id)].id = id
<1> DEFINE I == {i \in 1..Len(docs) : docs[i].id = id}
<1>1. Place(docs, id) = IF I # {} THEN Min(I) ELSE 0
  BY DEF Place, SelectInSeq
<1>2. Len(docs) \in Nat
  OBVIOUS
<1>3. CASE I = {}
  BY <1>1, <1>2, <1>3
<1>4. CASE I # {}
  <2>1. Min(I) \in I
    BY <1>2, <1>4, MinIsLeast
  <2> QED BY <1>1, <1>2, <1>4, <2>1
<1> QED BY <1>3, <1>4

\* A document in any form, with who has found it.
AnyForm == [id : SearchIds, from : Channels \cup {"multimodal_vector"}, score : Nat,
            via : (SUBSET Channels) \ {{}}]

\* Of two forms of a document one stays, with the channels of both.
LEMMA JoinedDoc ==
  ASSUME NEW c \in AnyForm, NEW d \in AnyForm, c.id = d.id
  PROVE  Joined(c, d) \in AnyForm /\ Joined(c, d).id = c.id /\ Joined(c, d).via = c.via \cup d.via
<1> DEFINE better == IF Relevance(d) > Relevance(c) THEN d ELSE c
           via == c.via \cup d.via
<1>1. better \in AnyForm /\ better.id = c.id
  OBVIOUS
<1>2. Joined(c, d) = [better EXCEPT !.via = via]
  BY DEF Joined
<1>3. via \in (SUBSET Channels) \ {{}}
  BY DEF AnyForm
<1> HIDE DEF better, via
<1>4. [better EXCEPT !.via = via] \in AnyForm /\ [better EXCEPT !.via = via].id = c.id
      /\ [better EXCEPT !.via = via].via = via
  BY <1>1, <1>3 DEF AnyForm
<1> QED BY <1>2, <1>4 DEF via

Keeping(kept, doc) ==
  LET place == Place(kept, doc.id)
  IN IF place = 0 THEN Append(kept, doc) ELSE [kept EXCEPT ![place] = Joined(@, doc)]

LEMMA KeepingTyped ==
  ASSUME NEW kept \in Seq(AnyForm), NEW doc \in AnyForm
  PROVE  Keeping(kept, doc) \in Seq(AnyForm)
<1> DEFINE p == Place(kept, doc.id)
<1>1. p \in 0..Len(kept) /\ Len(kept) \in Nat /\ (p # 0 => kept[p].id = doc.id)
  BY PlaceOf
<1>2. CASE p = 0
  BY <1>2 DEF Keeping
<1>3. CASE p # 0
  <2>1. p \in 1..Len(kept) /\ kept[p] \in AnyForm
    BY <1>1, <1>3
  <2>2. Joined(kept[p], doc) \in AnyForm
    BY <1>1, <1>3, <2>1, JoinedDoc
  <2>3. Keeping(kept, doc) = [kept EXCEPT ![p] = Joined(kept[p], doc)]
    BY <1>3 DEF Keeping
  <2> HIDE DEF p
  <2> QED BY <2>1, <2>2, <2>3
<1> QED BY <1>2, <1>3

\* Deduplicated is the last value of a function along the list.
LEMMA DedupUnfolds ==
  ASSUME NEW s \in Seq(AnyForm)
  PROVE  \E F : /\ F[0] = <<>> /\ Deduplicated(s) = F[Len(s)]
                /\ \A i \in 1..Len(s) : F[i] = Keeping(F[i - 1], s[i])
<1> DEFINE n == Len(s)
           V == Seq(AnyForm)
           st == [p \in (1..n) \X V |-> Keeping(p[2], s[p[1]])]
           ch == [t \in SUBSET (1..n) |-> Max(t)]
<1>1. n \in Nat /\ DOMAIN s = 1..n /\ \A i \in 1..n : s[i] \in AnyForm
  OBVIOUS
<1>2. ASSUME NEW x \in 1..n, NEW v \in V PROVE st[<<x, v>>] = Keeping(v, s[x]) /\ st[<<x, v>>] \in V
  <2>1. s[x] \in AnyForm
    BY <1>1
  <2>2. Keeping(v, s[x]) \in V
    BY <2>1, KeepingTyped
  <2> QED BY <2>2
<1>3. \A x \in 1..n, v \in V : st[<<x, v>>] \in V
  BY <1>2
<1>4. <<>> \in V
  OBVIOUS
<1>5. \E it : Computes(it, 1..n, V, <<>>, ch, st)
  <2> HIDE DEF st, n, V
  <2> QED BY <1>1, <1>3, <1>4, PrefixRecursion
<1>6. PICK it : Computes(it, 1..n, V, <<>>, ch, st)
  BY <1>5
<1>7. it = [t \in SUBSET (1..n) |-> IF t = {} THEN <<>> ELSE Keeping(it[t \ {Max(t)}], s[Max(t)])]
  <2>1. ASSUME NEW t \in SUBSET (1..n), t # {} PROVE it[t] = Keeping(it[t \ {Max(t)}], s[Max(t)])
    <3>1. Max(t) \in 1..n
      BY <1>1, <2>1, MaxIsGreatest
    <3>2. it[t \ {Max(t)}] \in V /\ it[t] = st[<<Max(t), it[t \ {Max(t)}]>>]
      BY <1>6, <2>1 DEF Computes
    <3> HIDE DEF st, V
    <3> QED BY <1>2, <3>1, <3>2
  <2>2. it[{}] = <<>> /\ it = [t \in SUBSET (1..n) |-> it[t]]
    BY <1>6 DEF Computes
  <2> QED BY <2>1, <2>2
<1>8. \E h : /\ h = [t \in SUBSET (1..n) |-> IF t = {} THEN <<>> ELSE Keeping(h[t \ {Max(t)}], s[Max(t)])]
             /\ Deduplicated(s) = h[1..n]
  BY <1>1, <1>7, ZenonT(30) DEF Deduplicated, FoldLeft, MapThenFoldSet, Keeping
<1>9. PICK h : /\ h = [t \in SUBSET (1..n) |-> IF t = {} THEN <<>> ELSE Keeping(h[t \ {Max(t)}], s[Max(t)])]
               /\ Deduplicated(s) = h[1..n]
  BY <1>8
<1> DEFINE F == [i \in 0..n |-> h[1..i]]
<1>10. ASSUME NEW i \in 1..n PROVE F[i] = Keeping(F[i - 1], s[i])
  <2>1. Max(1..i) = i /\ (1..i) \ {i} = 1..i - 1 /\ 1..i \in SUBSET (1..n) /\ 1..i # {}
    BY <1>1, PrefixMax
  <2>2. h[1..i] = Keeping(h[(1..i) \ {Max(1..i)}], s[Max(1..i)])
    BY <1>9, <2>1
  <2>3. F[i] = h[1..i] /\ F[i - 1] = h[1..i - 1]
    BY <1>1
  <2> QED BY <2>1, <2>2, <2>3
<1>11. F[0] = <<>>
  <2>1. 1..0 = {}
    OBVIOUS
  <2> QED BY <1>1, <1>9, <2>1
<1>12. Deduplicated(s) = F[n]
  BY <1>1, <1>9
<1> HIDE DEF F
<1> QED BY <1>10, <1>11, <1>12

\* What is kept of the first n documents: each once, with all who found it.
IsKept(r, s, n) ==
  /\ r \in Seq(AnyForm)
  /\ \A i, j \in 1..Len(r) : r[i].id = r[j].id => i = j
  /\ \A i \in 1..Len(r), ch \in Channels :
       ch \in r[i].via <=> \E k \in 1..n : s[k].id = r[i].id /\ ch \in s[k].via
  /\ \A k \in 1..n : \E i \in 1..Len(r) : r[i].id = s[k].id

\* One step of it keeps what it has kept.
LEMMA KeepingKeeps ==
  ASSUME NEW s \in Seq(AnyForm), NEW n \in Nat, n + 1 <= Len(s), NEW r, IsKept(r, s, n)
  PROVE  IsKept(Keeping(r, s[n + 1]), s, n + 1)
<1> DEFINE d == s[n + 1]
           p == Place(r, d.id)
           q == Keeping(r, d)
<1>1. r \in Seq(AnyForm) /\ Len(r) \in Nat /\ d \in AnyForm /\ \A i \in 1..Len(r) : r[i] \in AnyForm
  BY DEF IsKept
<1>2. \A k \in 1..n : s[k] \in AnyForm
  OBVIOUS
<1>3. q \in Seq(AnyForm)
  BY <1>1, KeepingTyped
<1>4. /\ p \in 0..Len(r)
      /\ p # 0 <=> \E i \in 1..Len(r) : r[i].id = d.id
      /\ p # 0 => r[p].id = d.id
  BY <1>1, PlaceOf
<1>5. \A k : k \in 1..n + 1 <=> k \in 1..n \/ k = n + 1
  OBVIOUS
<1>6. d.via \subseteq Channels
  BY <1>1 DEF AnyForm
<1>7. CASE p = 0
  <2>1. q = Append(r, d)
    BY <1>7 DEF Keeping
  <2>2. /\ Len(q) = Len(r) + 1 /\ q[Len(r) + 1] = d
        /\ \A i \in 1..Len(r) : q[i] = r[i]
    BY <1>1, <2>1
  <2>3. \A i : i \in 1..Len(q) <=> i \in 1..Len(r) \/ i = Len(r) + 1
    BY <1>1, <2>2
  <2>4. \A i \in 1..Len(r) : r[i].id # d.id
    BY <1>4, <1>7
  <2>5. \A k \in 1..n : s[k].id # d.id
    BY <2>4 DEF IsKept
  <2> HIDE DEF q, p, d
  <2>6. ASSUME NEW i \in 1..Len(q), NEW j \in 1..Len(q), q[i].id = q[j].id PROVE i = j
    <3>1. \A k, l \in 1..Len(r) : r[k].id = r[l].id => k = l
      BY DEF IsKept
    <3>2. CASE i \in 1..Len(r) /\ j \in 1..Len(r)
      BY <2>2, <2>6, <3>1, <3>2
    <3>3. CASE i = Len(r) + 1 \/ j = Len(r) + 1
      BY <2>2, <2>3, <2>4, <2>6, <3>3
    <3> QED BY <2>3, <3>2, <3>3
  <2>7. ASSUME NEW k \in 1..n + 1 PROVE \E i \in 1..Len(q) : q[i].id = s[k].id
    <3>1. CASE k = n + 1
      BY <2>2, <2>3, <3>1 DEF d
    <3>2. CASE k \in 1..n
      <4>1. PICK i \in 1..Len(r) : r[i].id = s[k].id
        BY <3>2 DEF IsKept
      <4> QED BY <2>2, <2>3, <4>1
    <3> QED BY <1>5, <3>1, <3>2
  <2>8. ASSUME NEW i \in 1..Len(q), NEW ch \in Channels
        PROVE  ch \in q[i].via <=> \E k \in 1..n + 1 : s[k].id = q[i].id /\ ch \in s[k].via
    <3>1. CASE i \in 1..Len(r)
      <4>1. s[n + 1].id # q[i].id /\ q[i] = r[i]
        BY <2>2, <2>4, <3>1 DEF d
      <4> QED BY <1>5, <3>1, <4>1 DEF IsKept
    <3>2. CASE i = Len(r) + 1
      <4>1. q[i] = s[n + 1]
        BY <2>2, <3>2 DEF d
      <4>2. \A k \in 1..n : s[k].id # q[i].id
        BY <2>5, <4>1 DEF d
      <4> QED BY <1>5, <4>1, <4>2
    <3> QED BY <2>3, <3>1, <3>2
  <2> QED BY <1>3, <2>6, <2>7, <2>8 DEF IsKept, q, d
<1>8. CASE p # 0
  <2>1. p \in 1..Len(r) /\ r[p].id = d.id /\ r[p] \in AnyForm
    BY <1>1, <1>4, <1>8
  <2>2. q = [r EXCEPT ![p] = Joined(r[p], d)]
    BY <1>8 DEF Keeping
  <2>3. Joined(r[p], d).id = d.id /\ Joined(r[p], d).via = r[p].via \cup d.via
    BY <1>1, <2>1, JoinedDoc
  <2> HIDE DEF q, p, d
  <2>4. /\ Len(q) = Len(r) /\ q[p] = Joined(r[p], d)
        /\ \A i \in 1..Len(r) : i # p => q[i] = r[i]
    BY <1>1, <2>1, <2>2
  <2>5. \A i \in 1..Len(r) : q[i].id = r[i].id
    BY <2>1, <2>3, <2>4
  <2>6. \A i, j \in 1..Len(q) : q[i].id = q[j].id => i = j
    BY <2>4, <2>5 DEF IsKept
  <2>7. \A k \in 1..n + 1 : \E i \in 1..Len(q) : q[i].id = s[k].id
    BY <1>5, <2>1, <2>4, <2>5 DEF IsKept, d
  <2>8. ASSUME NEW i \in 1..Len(q), NEW ch \in Channels
        PROVE  ch \in q[i].via <=> \E k \in 1..n + 1 : s[k].id = q[i].id /\ ch \in s[k].via
    <3>1. CASE i # p
      <4>1. q[i] = r[i] /\ i \in 1..Len(r)
        BY <2>4, <3>1
      <4>2. s[n + 1].id # q[i].id
        BY <2>1, <3>1, <4>1 DEF IsKept, d
      <4>3. ch \in r[i].via <=> \E k \in 1..n : s[k].id = r[i].id /\ ch \in s[k].via
        BY <4>1 DEF IsKept
      <4> QED BY <1>5, <4>1, <4>2, <4>3
    <3>2. CASE i = p
      <4>1. q[i].via = r[i].via \cup d.via /\ q[i].id = r[i].id /\ q[i].id = d.id /\ i \in 1..Len(r)
        BY <2>1, <2>3, <2>4, <3>2
      <4>2. ch \in r[i].via <=> \E k \in 1..n : s[k].id = r[i].id /\ ch \in s[k].via
        BY <4>1 DEF IsKept
      <4> QED BY <1>5, <4>1, <4>2 DEF d
    <3> QED BY <3>1, <3>2
  <2> QED BY <1>3, <2>6, <2>7, <2>8 DEF IsKept, q, d
<1> QED BY <1>7, <1>8

\* What Deduplicated keeps: each document of the list, once, with its finders.
LEMMA DedupKeeps ==
  ASSUME NEW s \in Seq(AnyForm)
  PROVE  IsKept(Deduplicated(s), s, Len(s))
<1>1. PICK F : /\ F[0] = <<>> /\ Deduplicated(s) = F[Len(s)]
               /\ \A i \in 1..Len(s) : F[i] = Keeping(F[i - 1], s[i])
  BY DedupUnfolds
<1> DEFINE N == {n \in Nat : n <= Len(s) => IsKept(F[n], s, n)}
<1>2. Len(s) \in Nat
  OBVIOUS
<1>3. 0 \in N
  <2>1. <<>> \in Seq(AnyForm) /\ Len(<<>>) = 0 /\ 1..0 = {}
    OBVIOUS
  <2> QED BY <1>1, <2>1 DEF IsKept
<1>4. ASSUME NEW n \in Nat, n \in N PROVE n + 1 \in N
  <2> SUFFICES ASSUME n + 1 <= Len(s) PROVE IsKept(F[n + 1], s, n + 1)
    OBVIOUS
  <2>1. n + 1 \in 1..Len(s) /\ (n + 1) - 1 = n /\ n <= Len(s)
    BY <1>2
  <2>2. IsKept(F[n], s, n)
    BY <1>4, <2>1
  <2>3. F[n + 1] = Keeping(F[n], s[n + 1])
    BY <1>1, <2>1
  <2> QED BY <2>2, <2>3, KeepingKeeps
<1>5. Nat \subseteq N
  <2> HIDE DEF N
  <2> QED BY <1>3, <1>4, NatSetInduction
<1>6. Len(s) \in N
  BY <1>2, <1>5
<1> QED BY <1>1, <1>2, <1>6

-----------------------------------------------------------------------------
(* Fusing *)

\* Who has found a document, by a list of documents in any form.
Finds(s, id, ch) == \E k \in 1..Len(s) : s[k].id = id /\ ch \in s[k].via

Lists(s, id) == \E k \in 1..Len(s) : s[k].id = id

\* Two lists that are joined find what either finds.
LEMMA FindsInBoth ==
  ASSUME NEW s \in Seq(AnyForm), NEW t \in Seq(AnyForm)
  PROVE  /\ s \o t \in Seq(AnyForm)
         /\ \A id, ch : Finds(s \o t, id, ch) <=> Finds(s, id, ch) \/ Finds(t, id, ch)
<1> DEFINE a == s \o t
<1>1. /\ Len(s) \in Nat /\ Len(t) \in Nat /\ Len(a) = Len(s) + Len(t) /\ a \in Seq(AnyForm)
      /\ \A i \in 1..Len(s) : a[i] = s[i]
      /\ \A i \in Len(s) + 1..Len(s) + Len(t) : a[i] = t[i - Len(s)]
  OBVIOUS
<1> HIDE DEF a
<1>2. ASSUME NEW id, NEW ch, Finds(a, id, ch) PROVE Finds(s, id, ch) \/ Finds(t, id, ch)
  <2>1. PICK k \in 1..Len(a) : a[k].id = id /\ ch \in a[k].via
    BY <1>2 DEF Finds
  <2>2. CASE k \in 1..Len(s)
    BY <1>1, <2>1, <2>2 DEF Finds
  <2>3. CASE k \in Len(s) + 1..Len(s) + Len(t)
    <3>1. k - Len(s) \in 1..Len(t) /\ a[k] = t[k - Len(s)]
      BY <1>1, <2>3
    <3> QED BY <2>1, <3>1 DEF Finds
  <2> QED BY <1>1, <2>1, <2>2, <2>3
<1>3. ASSUME NEW id, NEW ch, Finds(s, id, ch) PROVE Finds(a, id, ch)
  <2>1. PICK k \in 1..Len(s) : s[k].id = id /\ ch \in s[k].via
    BY <1>3 DEF Finds
  <2>2. k \in 1..Len(a) /\ a[k] = s[k]
    BY <1>1, <2>1
  <2> QED BY <2>1, <2>2 DEF Finds
<1>4. ASSUME NEW id, NEW ch, Finds(t, id, ch) PROVE Finds(a, id, ch)
  <2>1. PICK k \in 1..Len(t) : t[k].id = id /\ ch \in t[k].via
    BY <1>4 DEF Finds
  <2>2. k + Len(s) \in 1..Len(a) /\ a[k + Len(s)] = t[k]
    <3>1. k + Len(s) \in Len(s) + 1..Len(s) + Len(t) /\ (k + Len(s)) - Len(s) = k
      BY <1>1, <2>1
    <3>2. a[k + Len(s)] = t[(k + Len(s)) - Len(s)]
      BY <1>1, <3>1
    <3>3. k + Len(s) \in 1..Len(a)
      BY <1>1, <2>1
    <3> QED BY <3>1, <3>2, <3>3
  <2> QED BY <2>1, <2>2 DEF Finds
<1> QED BY <1>1, <1>2, <1>3, <1>4 DEF a

LEMMA DocsAreForms ==
  ASSUME NEW ch \in Channels, NEW s \in Seq(DocsOf(ch))
  PROVE  /\ s \in Seq(AnyForm)
         /\ \A id, c : Finds(s, id, c) <=> c = ch /\ Lists(s, id)
<1>1. \A d \in DocsOf(ch) : d \in AnyForm /\ d.via = {ch}
  BY DEF DocsOf, AnyForm
<1>2. \A k \in 1..Len(s) : s[k] \in DocsOf(ch)
  OBVIOUS
<1>3. s \in Seq(AnyForm)
  BY <1>1
<1>4. \A id, c : Finds(s, id, c) <=> c = ch /\ Lists(s, id)
  BY <1>1, <1>2 DEF Finds, Lists
<1> QED BY <1>3, <1>4

\* The fusion of the two rankings finds what either finds.
LEMMA FusedDocs ==
  ASSUME NEW texts \in Seq(DocsOf("vector")), NEW images \in Seq(DocsOf("image_vector"))
  PROVE  /\ FuseLocal(texts, images) \in Seq(AnyForm)
         /\ \A id, ch : Finds(FuseLocal(texts, images), id, ch)
                          <=> Finds(texts, id, ch) \/ Finds(images, id, ch)
<1> DEFINE lists == [vector |-> texts, image_vector |-> images]
           finders(id) == {ch \in DOMAIN lists : Place(lists[ch], id) # 0}
           places(id) == {<<ch, Place(lists[ch], id)>> : ch \in finders(id)}
           score(id) == (Full * PointsOf(places(id))) \div (2 * Points(1))
           form(id) == [id |-> id, from |-> "multimodal_vector", score |-> Clipped(score(id)),
                        via |-> finders(id)]
           ids == {d.id : d \in ToSet(texts \o images)}
           fused == {form(id) : id \in ids}
<1>1. /\ texts \in Seq(AnyForm) /\ images \in Seq(AnyForm)
      /\ \A id, c : Finds(texts, id, c) <=> c = "vector" /\ Lists(texts, id)
      /\ \A id, c : Finds(images, id, c) <=> c = "image_vector" /\ Lists(images, id)
  BY DocsAreForms DEF Channels
<1>2. CASE texts = <<>> \/ images = <<>>
  <2>1. FuseLocal(texts, images) = texts \o images
    BY <1>2 DEF FuseLocal
  <2> QED BY <1>1, <2>1, FindsInBoth
<1>3. CASE ~(texts = <<>> \/ images = <<>>)
  <2>1. FuseLocal(texts, images) = ByScore(SetToSeq(fused))
    BY <1>3 DEF FuseLocal
  <2>2. DOMAIN lists = {"vector", "image_vector"} /\ lists["vector"] = texts
        /\ lists["image_vector"] = images
    OBVIOUS
  <2>3. ASSUME NEW id, NEW ch
        PROVE  ch \in finders(id) <=> Finds(texts, id, ch) \/ Finds(images, id, ch)
    <3>1. /\ Place(texts, id) # 0 <=> Lists(texts, id)
          /\ Place(images, id) # 0 <=> Lists(images, id)
      BY PlaceOf DEF Lists
    <3> HIDE DEF lists
    <3> QED BY <1>1, <2>2, <3>1
  <2>4. ASSUME NEW id PROVE Clipped(score(id)) \in Nat
    <3>1. /\ Place(texts, id) \in 0..Len(texts) /\ Len(texts) \in Nat
          /\ Place(images, id) \in 0..Len(images) /\ Len(images) \in Nat
      BY PlaceOf
    <3>2. \A ch \in finders(id) : Place(lists[ch], id) \in Nat
      <4> HIDE DEF lists
      <4> QED BY <2>2, <3>1
    <3>3. \A p \in places(id) : p[2] \in Nat
      <4> HIDE DEF finders, lists
      <4> QED BY <3>2
    <3>4. IsFiniteSet(places(id))
      <4> DEFINE f == [ch \in finders(id) |-> <<ch, Place(lists[ch], id)>>]
      <4>1. IsFiniteSet({"vector", "image_vector"})
        <5>1. IsFiniteSet({"vector"}) /\ IsFiniteSet({"image_vector"})
          BY FS_Singleton
        <5>2. IsFiniteSet({"vector"} \cup {"image_vector"})
          BY <5>1, FS_Union
        <5>3. {"vector"} \cup {"image_vector"} = {"vector", "image_vector"}
          OBVIOUS
        <5> QED BY <5>2, <5>3
      <4>2. IsFiniteSet(finders(id))
        <5>1. finders(id) \in SUBSET {"vector", "image_vector"}
          BY <2>2
        <5> QED BY <4>1, <5>1, FS_Subset
      <4>3. IsFiniteSet({f[ch] : ch \in finders(id)})
        <5> HIDE DEF f, finders
        <5> QED BY <4>2, SetOfImage
      <4>4. places(id) = {f[ch] : ch \in finders(id)}
        <5> HIDE DEF finders, lists
        <5> QED OBVIOUS
      <4> QED BY <4>3, <4>4
    <3>5. PointsOf(places(id)) \in Nat
      <4> HIDE DEF places
      <4> QED BY <3>3, <3>4, PointsSum
    <3>6. Points(1) \in Nat /\ Points(1) > 0 /\ Full \in Nat
      BY DEF Points, RrfK, Full
    <3>7. score(id) \in Int
      <4> HIDE DEF places
      <4> DEFINE x == Full * PointsOf(places(id))
                 y == 2 * Points(1)
      <4>1. x \in Nat
        BY <3>5, <3>6 DEF Full
      <4>2. y \in Nat /\ y > 0
        BY <3>6
      <4> HIDE DEF x, y
      <4>3. x \div y \in Int
        BY <4>1, <4>2
      <4> QED BY <4>3 DEF x, y
    <3> HIDE DEF score
    <3> QED BY <3>7, ClippedIsScore
  <2>5. ids \subseteq SearchIds /\ IsFiniteSet(ids)
        /\ \A id : id \in ids <=> \E ch : Finds(texts, id, ch) \/ Finds(images, id, ch)
    <3> DEFINE all == texts \o images
    <3>1. all \in Seq(AnyForm) /\ \A id, ch : Finds(all, id, ch)
                                     <=> Finds(texts, id, ch) \/ Finds(images, id, ch)
      BY <1>1, FindsInBoth
    <3> HIDE DEF all
    <3>2. \A k \in 1..Len(all) : all[k].id \in SearchIds /\ \E ch : ch \in all[k].via
      <4> SUFFICES ASSUME NEW k \in 1..Len(all) PROVE all[k].id \in SearchIds /\ \E ch : ch \in all[k].via
        OBVIOUS
      <4>1. all[k] \in AnyForm
        BY <3>1
      <4> QED BY <4>1 DEF AnyForm
    <3>3. \A d : d \in ToSet(all) <=> \E k \in 1..Len(all) : d = all[k]
      <4>1. DOMAIN all = 1..Len(all)
        BY <3>1
      <4> QED BY <4>1 DEF ToSet
    <3> DEFINE f == [d \in ToSet(all) |-> d.id]
    <3>4. IsFiniteSet(ToSet(all))
      BY <3>1, FiniteElements
    <3>5. IsFiniteSet({f[d] : d \in ToSet(all)})
      <4> HIDE DEF f
      <4> QED BY <3>4, SetOfImage
    <3>6. ids = {f[d] : d \in ToSet(all)}
      BY DEF all
    <3>9. ids = {d.id : d \in ToSet(all)}
      BY DEF all
    <3>7. \A id : id \in ids <=> \E k \in 1..Len(all) : id = all[k].id
      <4> HIDE DEF f, ids
      <4>1. \A id : id \in ids <=> \E d \in ToSet(all) : id = d.id
        BY <3>9
      <4> QED BY <3>3, <4>1
    <3>8. \A id : id \in ids <=> \E ch : Finds(all, id, ch)
      <4> HIDE DEF f, ids
      <4> QED BY <3>2, <3>7 DEF Finds
    <3> HIDE DEF ids, f
    <3> QED BY <3>1, <3>2, <3>5, <3>6, <3>7, <3>8
  <2> HIDE DEF ids, finders, score
  <2>6. \A id \in ids : form(id) \in AnyForm /\ form(id).id = id /\ form(id).via = finders(id)
    <3> SUFFICES ASSUME NEW id \in ids
                 PROVE  form(id) \in AnyForm /\ form(id).id = id /\ form(id).via = finders(id)
      OBVIOUS
    <3>1. PICK ch : ch \in finders(id)
      BY <2>3, <2>5
    <3>2. finders(id) \in SUBSET Channels
      <4>1. \A c \in finders(id) : c \in {"vector", "image_vector"}
        BY <1>1, <2>3
      <4> QED BY <4>1 DEF Channels
    <3>3. finders(id) \in (SUBSET Channels) \ {{}}
      BY <3>1, <3>2
    <3>4. id \in SearchIds /\ Clipped(score(id)) \in Nat
      BY <2>4, <2>5
    <3> QED BY <3>3, <3>4 DEF AnyForm
  <2>7. IsFiniteSet(fused) /\ fused \subseteq AnyForm
    <3> DEFINE f == [id \in ids |-> form(id)]
    <3>1. IsFiniteSet({f[id] : id \in ids})
      <4> HIDE DEF f
      <4> QED BY <2>5, SetOfImage
    <3>2. fused = {f[id] : id \in ids}
      <4> HIDE DEF form
      <4> QED OBVIOUS
    <3> HIDE DEF form
    <3> QED BY <2>6, <3>1, <3>2
  <2> DEFINE q == SetToSeq(fused)
             b == ByScore(q)
  <2>8. q \in Seq(AnyForm) /\ ToSet(q) = fused
    <3> HIDE DEF fused
    <3>1. q \in Seq(fused) /\ ToSet(q) = fused
      BY <2>7, Listed
    <3> QED BY <2>7, <3>1
  <2>9. b \in Seq(AnyForm) /\ ToSet(b) = fused
    <3>1. \A d \in AnyForm : d.score \in Int
      BY DEF AnyForm
    <3> HIDE DEF fused, q
    <3> QED BY <2>8, <3>1, ByScoreKeeps
  <2> HIDE DEF q, b
  <2>10. ASSUME NEW id, NEW ch
         PROVE  Finds(b, id, ch) <=> id \in ids /\ ch \in finders(id)
    <3>1. \A d : d \in fused <=> \E k \in 1..Len(b) : d = b[k]
      <4>1. DOMAIN b = 1..Len(b)
        BY <2>9
      <4> HIDE DEF fused
      <4> QED BY <2>9, <4>1 DEF ToSet
    <3>2. Finds(b, id, ch) <=> \E d \in fused : d.id = id /\ ch \in d.via
      <4> HIDE DEF fused
      <4> QED BY <3>1 DEF Finds
    <3>3. \A d : d \in fused <=> \E i \in ids : d = form(i)
      <4> HIDE DEF form
      <4> QED OBVIOUS
    <3> HIDE DEF form, fused
    <3> QED BY <2>6, <3>2, <3>3
  <2>11. \A id, ch : Finds(b, id, ch) <=> Finds(texts, id, ch) \/ Finds(images, id, ch)
    BY <2>3, <2>5, <2>10
  <2> QED BY <2>1, <2>9, <2>11 DEF b, q
<1> QED BY <1>2, <1>3

-----------------------------------------------------------------------------
(* The search *)

\* The outcome of the fusing, and which documents were found at all.
IsMerged(r) ==
  /\ r \in Seq(AnyForm)
  /\ \A i, j \in 1..Len(r) : r[i].id = r[j].id => i = j
  /\ \A i \in 1..Len(r), ch \in Channels : ch \in r[i].via <=> Lists(found[ch], r[i].id)
  /\ \A id : (\E ch \in Channels : Lists(found[ch], id)) => \E i \in 1..Len(r) : r[i].id = id

FoundTyping == \A ch \in Channels : found[ch] \in Seq(DocsOf(ch))

IdsFound == {d.id : d \in UNION {ToSet(found[ch]) : ch \in Channels}}

\* What Merged lists is what was found, each document once, with its finders.
LEMMA MergedDocs ==
  ASSUME FoundTyping
  PROVE  IsMerged(Merged)
<1> DEFINE fused == FuseLocal(found["vector"], found["image_vector"])
           two == fused \o found["web"]
           three == two \o found["keyword"]
           four == three \o found["memory"]
           r == Deduplicated(four)
<1>1. Merged = r
  BY DEF Merged
<1>2. /\ found["vector"] \in Seq(DocsOf("vector")) /\ found["image_vector"] \in Seq(DocsOf("image_vector"))
      /\ found["web"] \in Seq(DocsOf("web")) /\ found["keyword"] \in Seq(DocsOf("keyword"))
      /\ found["memory"] \in Seq(DocsOf("memory"))
  BY DEF FoundTyping, Channels
<1>3. \A ch \in Channels : /\ found[ch] \in Seq(AnyForm)
                           /\ \A id, c : Finds(found[ch], id, c) <=> c = ch /\ Lists(found[ch], id)
  BY DocsAreForms DEF FoundTyping
<1>4. /\ fused \in Seq(AnyForm)
      /\ \A id, ch : Finds(fused, id, ch)
                       <=> Finds(found["vector"], id, ch) \/ Finds(found["image_vector"], id, ch)
  BY <1>2, FusedDocs
<1>5. /\ found["web"] \in Seq(AnyForm) /\ found["keyword"] \in Seq(AnyForm)
      /\ found["memory"] \in Seq(AnyForm)
  BY <1>3 DEF Channels
<1> HIDE DEF fused
<1>6. /\ two \in Seq(AnyForm)
      /\ \A id, ch : Finds(two, id, ch) <=> Finds(fused, id, ch) \/ Finds(found["web"], id, ch)
  BY <1>4, <1>5, FindsInBoth
<1> HIDE DEF two
<1>7. /\ three \in Seq(AnyForm)
      /\ \A id, ch : Finds(three, id, ch) <=> Finds(two, id, ch) \/ Finds(found["keyword"], id, ch)
  BY <1>5, <1>6, FindsInBoth
<1> HIDE DEF three
<1>8. /\ four \in Seq(AnyForm)
      /\ \A id, ch : Finds(four, id, ch) <=> Finds(three, id, ch) \/ Finds(found["memory"], id, ch)
  BY <1>5, <1>7, FindsInBoth
<1> HIDE DEF four
<1>9. \A id, ch : Finds(four, id, ch) <=> \E c \in Channels : Finds(found[c], id, ch)
  BY <1>4, <1>6, <1>7, <1>8 DEF Channels
<1>10. \A id, ch : Finds(four, id, ch) <=> ch \in Channels /\ Lists(found[ch], id)
  <2> SUFFICES ASSUME NEW id, NEW ch
               PROVE  Finds(four, id, ch) <=> ch \in Channels /\ Lists(found[ch], id)
    OBVIOUS
  <2>1. Finds(four, id, ch) <=> \E c \in Channels : Finds(found[c], id, ch)
    BY <1>9
  <2>2. \A c \in Channels : Finds(found[c], id, ch) <=> ch = c /\ Lists(found[c], id)
    BY <1>3
  <2> QED BY <2>1, <2>2
<1>11. IsKept(r, four, Len(four))
  BY <1>8, DedupKeeps
<1> HIDE DEF r
<1>12. \A i \in 1..Len(r), ch \in Channels : ch \in r[i].via <=> Lists(found[ch], r[i].id)
  <2> SUFFICES ASSUME NEW i \in 1..Len(r), NEW ch \in Channels
               PROVE  ch \in r[i].via <=> Lists(found[ch], r[i].id)
    OBVIOUS
  <2>1. ch \in r[i].via <=> Finds(four, r[i].id, ch)
    BY <1>11 DEF IsKept, Finds
  <2> QED BY <1>10, <2>1
<1>13. ASSUME NEW id, NEW ch \in Channels, Lists(found[ch], id) PROVE \E i \in 1..Len(r) : r[i].id = id
  <2>1. Finds(four, id, ch)
    BY <1>10, <1>13
  <2>2. PICK k \in 1..Len(four) : four[k].id = id
    BY <2>1 DEF Finds
  <2> QED BY <1>11, <2>2 DEF IsKept
<1>14. IsMerged(r)
  BY <1>11, <1>12, <1>13 DEF IsMerged, IsKept
<1> QED BY <1>1, <1>14

\* So that there are as many as there are identifiers.
LEMMA MergedIds ==
  ASSUME FoundTyping, NEW r, IsMerged(r)
  PROVE  Len(r) = Cardinality(IdsFound) /\ Len(r) \in Nat
<1> DEFINE f == [i \in 1..Len(r) |-> r[i].id]
<1>1. Len(r) \in Nat /\ \A i \in 1..Len(r) : r[i] \in AnyForm
  BY DEF IsMerged
<1>2. \A id : id \in IdsFound <=> \E ch \in Channels : Lists(found[ch], id)
  <2> SUFFICES ASSUME NEW id PROVE id \in IdsFound <=> \E ch \in Channels : Lists(found[ch], id)
    OBVIOUS
  <2>1. \A ch \in Channels : Lists(found[ch], id) <=> \E d \in ToSet(found[ch]) : d.id = id
    <3> SUFFICES ASSUME NEW ch \in Channels
                 PROVE  Lists(found[ch], id) <=> \E d \in ToSet(found[ch]) : d.id = id
      OBVIOUS
    <3>1. DOMAIN found[ch] = 1..Len(found[ch])
      BY DEF FoundTyping
    <3>2. \A d : d \in ToSet(found[ch]) <=> \E k \in 1..Len(found[ch]) : d = found[ch][k]
      BY <3>1 DEF ToSet
    <3> QED BY <3>2 DEF Lists
  <2> QED BY <2>1 DEF IdsFound
<1>3. \A i \in 1..Len(r) : r[i].id \in IdsFound
  <2> SUFFICES ASSUME NEW i \in 1..Len(r) PROVE r[i].id \in IdsFound
    OBVIOUS
  <2>1. PICK ch \in Channels : ch \in r[i].via
    BY <1>1 DEF AnyForm
  <2> QED BY <1>2, <2>1 DEF IsMerged
<1>4. \A id \in IdsFound : \E i \in 1..Len(r) : r[i].id = id
  BY <1>2 DEF IsMerged
<1>5. f \in Bijection(1..Len(r), IdsFound)
  <2>1. f \in [1..Len(r) -> IdsFound]
    BY <1>3
  <2>2. IsInjective(f)
    BY DEF IsInjective, IsMerged
  <2>3. f \in Surjection(1..Len(r), IdsFound)
    BY <1>4, <2>1 DEF Surjection
  <2> QED BY <2>1, <2>2, <2>3 DEF Bijection, Injection
<1>6. ExistsBijection(1..Len(r), IdsFound)
  BY <1>5 DEF ExistsBijection
<1>7. IsFiniteSet(1..Len(r)) /\ Cardinality(1..Len(r)) = Len(r)
  BY <1>1, UpTo
<1>8. Cardinality(IdsFound) = Cardinality(1..Len(r))
  BY <1>6, <1>7, FS_Bijection
<1> QED BY <1>1, <1>7, <1>8

\* A reranking keeps some of what was merged, each once.
LEMMA RerankedDocs ==
  ASSUME NEW r, IsMerged(r), NEW e \in Reranked(r)
  PROVE  /\ e \in Seq(AnyForm) /\ Len(e) = Min({FinalTopN, Len(r)})
         /\ \A i \in 1..Len(e) : \E k \in 1..Len(r) : e[i] = r[k]
         /\ \A i, j \in 1..Len(e) : e[i].id = e[j].id => i = j
<1>1. PICK order \in SetToSeqs(ToSet(r)) : e = First(order, FinalTopN)
  BY DEF Reranked
<1>2. r \in Seq(AnyForm) /\ Len(r) \in Nat /\ DOMAIN r = 1..Len(r)
  BY DEF IsMerged
<1>3. Cardinality(ToSet(r)) = Len(r)
  <2>1. r \in Bijection(1..Len(r), ToSet(r))
    <3>1. r \in [1..Len(r) -> ToSet(r)]
      BY <1>2 DEF ToSet
    <3>2. IsInjective(r)
      BY <1>2 DEF IsInjective, IsMerged
    <3>3. r \in Surjection(1..Len(r), ToSet(r))
      BY <1>2, <3>1 DEF Surjection, ToSet
    <3> QED BY <3>1, <3>2, <3>3 DEF Bijection, Injection
  <2>2. IsFiniteSet(1..Len(r)) /\ Cardinality(1..Len(r)) = Len(r)
    BY <1>2, UpTo
  <2> QED BY <2>1, <2>2, FS_Bijection DEF ExistsBijection
<1>4. /\ order \in [1..Len(r) -> ToSet(r)]
      /\ \A i, j \in 1..Len(r) : i # j => order[i] # order[j]
  BY <1>1, <1>3 DEF SetToSeqs
<1>5. order \in Seq(ToSet(r)) /\ Len(order) = Len(r)
  BY <1>2, <1>4
<1>6. e \in Seq(ToSet(r)) /\ IsCut(e, order, FinalTopN, ToSet(r))
  BY <1>1, <1>5, FirstDocs, SearchAssumption
<1>7. \A x \in ToSet(r) : \E k \in 1..Len(r) : x = r[k]
  BY <1>2 DEF ToSet
<1>8. \A i \in 1..Len(e) : e[i] \in ToSet(r)
  BY <1>6
<1>9. \A i \in 1..Len(e) : \E k \in 1..Len(r) : e[i] = r[k]
  BY <1>7, <1>8
<1>10. ASSUME NEW i \in 1..Len(e), NEW j \in 1..Len(e), e[i].id = e[j].id PROVE i = j
  <2>1. PICK k \in 1..Len(r) : e[i] = r[k]
    BY <1>9
  <2>2. PICK l \in 1..Len(r) : e[j] = r[l]
    BY <1>9
  <2>3. e[i] = e[j]
    BY <1>10, <2>1, <2>2 DEF IsMerged
  <2>4. i \in 1..Len(r) /\ j \in 1..Len(r) /\ e[i] = order[i] /\ e[j] = order[j]
    BY <1>5, <1>6 DEF IsCut
  <2> QED BY <1>4, <2>3, <2>4
<1>11. e \in Seq(AnyForm)
  <2>1. ToSet(r) \subseteq AnyForm
    BY <1>2 DEF ToSet
  <2> QED BY <1>6, <2>1
<1>12. Len(e) = Min({FinalTopN, Len(r)})
  BY <1>5, <1>6 DEF IsCut
<1> QED BY <1>9, <1>10, <1>11, <1>12

-----------------------------------------------------------------------------

Tasks == {"idle", "running", "ready", "answered", "abandoned"}

\* The reasons a search may begin with.
FirstReasons == {"user_opt_out", "disabled", "always", "external_information", "local_first"}

SearchInv ==
  /\ reason \in Reasons
  /\ budget \in Budgets /\ limit = budget /\ spent \in Nat
  /\ budget # 0 => spent <= budget
  /\ stage \in {"local", "web", "merge", "done", "stopped"}
  /\ task \in [Channels -> Tasks]
  /\ found \in [Channels -> Seq(AnyForm)] /\ FoundTyping
  /\ \A ch \in Channels : task[ch] \in {"idle", "running", "abandoned"} => found[ch] = <<>>
  /\ stage = "local" => reason \in FirstReasons
  /\ stage = "local" /\ reason = "local_first" => task["web"] = "idle"
  /\ stage \in {"merge", "done"} => Pending = {}
  /\ stage = "done" => results \in {Merged} \cup Reranked(Merged)

LEMMA NothingFound ==
  <<>> \in Seq(AnyForm) /\ \A ch : <<>> \in Seq(DocsOf(ch))
OBVIOUS

LEMMA SearchBegins == SearchInit => SearchInv
<1> SUFFICES ASSUME SearchInit PROVE SearchInv
  OBVIOUS
<1>1. reason \in Reasons /\ reason \in FirstReasons
  <2>1. PICK policy \in Policies, wording \in Wordings : reason = WebReason(policy, wording)
    BY DEF SearchInit
  <2>2. policy \in {"never", "auto", "always"} /\ wording \in {"opt_out", "external", "plain"}
    BY SearchAssumption
  <2> QED BY <2>1, <2>2 DEF WebReason, Reasons, FirstReasons
<1>2. task \in [Channels -> Tasks] /\ \A ch \in Channels : task[ch] \in {"idle", "running"}
  BY DEF SearchInit, Tasks
<1>3. reason = "local_first" => task["web"] = "idle"
  BY DEF SearchInit, AskedAtOnce, Channels
<1>4. found \in [Channels -> Seq(AnyForm)] /\ FoundTyping /\ \A ch \in Channels : found[ch] = <<>>
  BY NothingFound DEF SearchInit, FoundTyping
<1>5. budget \in Nat /\ budget \in Budgets /\ limit = budget /\ spent = 0 /\ stage = "local"
  BY SearchAssumption DEF SearchInit
<1> QED BY <1>1, <1>2, <1>3, <1>4, <1>5 DEF SearchInv

\* The step lemmas: a channel finishes with what it has recalled, is collected,
LEMMA FinishKeeps ==
  ASSUME SearchInv, NEW ch \in Channels, Finish(ch)
  PROVE  SearchInv'
<1>1. PICK docs \in {<<>>} \cup {Recalled(ch, raw) : raw \in Raw[ch]} : found' = [found EXCEPT ![ch] = docs]
  BY DEF Finish
<1>2. docs \in Seq(DocsOf(ch)) /\ docs \in Seq(AnyForm)
  <2>1. docs \in Seq(DocsOf(ch))
    BY RecalledDocs, NothingFound
  <2> QED BY <2>1, DocsAreForms
<1>3. /\ task[ch] = "running" /\ task' = [task EXCEPT ![ch] = "ready"]
      /\ UNCHANGED <<reason, budget, limit, spent, stage, results>>
  BY DEF Finish
<1>4. ch \in Pending /\ stage \notin {"merge", "done"}
  BY <1>3 DEF SearchInv, Pending
<1>5. found' \in [Channels -> Seq(AnyForm)] /\ \A c \in Channels : found'[c] = IF c = ch THEN docs ELSE found[c]
  BY <1>1, <1>2 DEF SearchInv
<1>6. FoundTyping'
  BY <1>2, <1>5 DEF SearchInv, FoundTyping
<1>7. task' \in [Channels -> Tasks] /\ \A c \in Channels : task'[c] = IF c = ch THEN "ready" ELSE task[c]
  BY <1>3 DEF SearchInv, Tasks
<1>8. stage = "local" /\ reason = "local_first" => task'["web"] = "idle"
  BY <1>3, <1>7 DEF SearchInv, Channels
<1>9. \A c \in Channels : task'[c] \in {"idle", "running", "abandoned"} => found'[c] = <<>>
  BY <1>5, <1>7 DEF SearchInv
<1> QED BY <1>3, <1>4, <1>5, <1>6, <1>7, <1>8, <1>9 DEF SearchInv

LEMMA SameMerged == UNCHANGED found => Merged' = Merged /\ Reranked(Merged)' = Reranked(Merged)
BY DEF Merged, Reranked

\* is taken in time,
LEMMA CollectKeeps ==
  ASSUME SearchInv, NEW ch \in Channels, Collect(ch)
  PROVE  SearchInv'
<1>1. /\ task[ch] = "ready" /\ task' = [task EXCEPT ![ch] = "answered"]
      /\ UNCHANGED <<reason, budget, limit, spent, stage, found, results>>
  BY DEF Collect
<1>2. ch \in Pending /\ stage \notin {"merge", "done"}
  BY <1>1 DEF SearchInv, Pending
<1>3. task' \in [Channels -> Tasks] /\ \A c \in Channels : task'[c] = IF c = ch THEN "answered" ELSE task[c]
  BY <1>1 DEF SearchInv, Tasks
<1>4. stage = "local" /\ reason = "local_first" => task'["web"] = "idle"
  BY <1>1, <1>3 DEF SearchInv, Channels
<1> QED BY <1>1, <1>2, <1>3, <1>4 DEF SearchInv, FoundTyping

\* or is abandoned, and what it has found is lost;
LEMMA TimeUpKeeps ==
  ASSUME SearchInv, TimeUp
  PROVE  SearchInv'
<1>1. /\ Pending # {}
      /\ task' = [ch \in Channels |-> IF ch \in Pending THEN "abandoned" ELSE task[ch]]
      /\ found' = [ch \in Channels |-> IF ch \in Pending THEN <<>> ELSE found[ch]]
      /\ UNCHANGED <<reason, budget, limit, spent, stage, results>>
  BY DEF TimeUp
<1>2. stage \notin {"merge", "done"}
  BY <1>1 DEF SearchInv
<1>3. task' \in [Channels -> Tasks]
  BY <1>1 DEF SearchInv, Tasks
<1>4. found' \in [Channels -> Seq(AnyForm)] /\ FoundTyping'
  BY <1>1, NothingFound DEF SearchInv, FoundTyping
<1>5. stage = "local" /\ reason = "local_first" => task'["web"] = "idle"
  BY <1>1 DEF SearchInv, Pending, Channels
<1>6. \A c \in Channels : task'[c] \in {"idle", "running", "abandoned"} => found'[c] = <<>>
  BY <1>1 DEF SearchInv
<1> QED BY <1>1, <1>2, <1>3, <1>4, <1>5, <1>6 DEF SearchInv

\* the web is asked once, and only with what is left of the time.
LEMMA DecideWebKeeps ==
  ASSUME SearchInv, DecideWeb
  PROVE  SearchInv'
<1>1. /\ stage = "local" /\ Pending = {} /\ reason' \in Reasons
      /\ \/ stage' = "merge" /\ UNCHANGED <<task, limit>>
         \/ /\ stage' = "web" /\ reason = "local_first" /\ task' = [task EXCEPT !["web"] = "running"]
            /\ limit' = spent + RemainingTime
      /\ UNCHANGED <<budget, spent, found, results>>
  <2>1. CASE reason # "local_first"
    <3>1. reason # "insufficient_local_evidence"
      <4>1. stage = "local"
        BY DEF DecideWeb
      <4> QED BY <4>1 DEF SearchInv, FirstReasons
    <3> QED BY <2>1, <3>1 DEF DecideWeb, SearchInv
  <2>2. CASE reason = "local_first" /\ LocalEvidenceSufficient
    BY <2>2 DEF DecideWeb, Reasons
  <2>3. CASE reason = "local_first" /\ ~LocalEvidenceSufficient
    BY <2>3 DEF DecideWeb, Reasons
  <2> QED BY <2>1, <2>2, <2>3
<1>2. budget \in Nat /\ spent \in Nat /\ limit = budget
  BY SearchAssumption DEF SearchInv
<1>3. limit' = budget'
  BY <1>1, <1>2 DEF RemainingTime
<1>4. CASE stage' = "merge"
  <2>1. Pending' = {}
    BY <1>1, <1>4 DEF Pending
  <2> QED BY <1>1, <1>3, <1>4, <2>1 DEF SearchInv, FoundTyping
<1>5. CASE stage' = "web"
  <2>1. task' = [task EXCEPT !["web"] = "running"] /\ task["web"] = "idle"
    BY <1>1, <1>5 DEF SearchInv
  <2>2. task' \in [Channels -> Tasks] /\ \A c \in Channels : task'[c] = IF c = "web" THEN "running" ELSE task[c]
    BY <2>1 DEF SearchInv, Tasks, Channels
  <2>3. \A c \in Channels : task'[c] \in {"idle", "running", "abandoned"} => found'[c] = <<>>
    BY <1>1, <2>1, <2>2 DEF SearchInv
  <2> QED BY <1>1, <1>3, <1>5, <2>2, <2>3 DEF SearchInv, FoundTyping
<1> QED BY <1>1, <1>4, <1>5

LEMMA SearchStep == SearchInv /\ [SearchNext]_searchVars => SearchInv'
<1> SUFFICES ASSUME SearchInv, [SearchNext]_searchVars PROVE SearchInv'
  OBVIOUS
<1>1. CASE Tick
  <2>1. /\ Pending # {} /\ budget # 0 /\ spent < limit /\ spent' = spent + 1
        /\ UNCHANGED <<reason, budget, limit, stage, task, found, results>>
    BY <1>1 DEF Tick
  <2>2. spent' \in Nat /\ spent' <= budget
    BY <2>1, SearchAssumption DEF SearchInv
  <2> QED BY <2>1, <2>2, SameMerged DEF SearchInv, FoundTyping, Pending
<1>2. CASE SearchStops
  BY <1>2 DEF SearchStops, SearchInv, FoundTyping
<1>3. CASE WebStageEnds
  BY <1>3 DEF WebStageEnds, SearchInv, FoundTyping, Pending
<1>4. CASE Merge
  <2>1. /\ stage = "merge" /\ stage' = "done" /\ results' \in {Merged} \cup Reranked(Merged)
        /\ UNCHANGED <<reason, budget, limit, spent, task, found>>
    BY <1>4 DEF Merge
  <2>2. results' \in ({Merged} \cup Reranked(Merged))' /\ Pending' = Pending
    BY <2>1, SameMerged DEF Pending
  <2> QED BY <2>1, <2>2 DEF SearchInv, FoundTyping
<1>5. CASE UNCHANGED searchVars
  BY <1>5, SameMerged DEF searchVars, SearchInv, FoundTyping, Pending
<1> QED
  BY <1>1, <1>2, <1>3, <1>4, <1>5, FinishKeeps, CollectKeeps, TimeUpKeeps, DecideWebKeeps DEF SearchNext

\* What the outcome says, from what the channels have answered.
LEMMA FaithfulWhenDone ==
  ASSUME SearchInv, stage = "done"
  PROVE  /\ \A i, j \in DOMAIN results : results[i].id = results[j].id => i = j
         /\ \A i \in DOMAIN results : results[i].via = Finders(results[i].id) /\ results[i].via # {}
         /\ Len(results) \in {Cardinality(IdsFound), Min({FinalTopN, Cardinality(IdsFound)})}
<1>1. FoundTyping /\ Pending = {} /\ results \in {Merged} \cup Reranked(Merged) /\ task \in [Channels -> Tasks]
  BY DEF SearchInv
<1>2. IsMerged(Merged)
  BY <1>1, MergedDocs
<1> DEFINE r == Merged
<1> HIDE DEF r
<1>3. IsMerged(r) /\ results \in {r} \cup Reranked(r)
  BY <1>1, <1>2 DEF r
<1>4. /\ results \in Seq(AnyForm)
      /\ Len(results) = Len(r) \/ Len(results) = Min({FinalTopN, Len(r)})
      /\ \A i \in 1..Len(results) : \E k \in 1..Len(r) : results[i] = r[k]
      /\ \A i, j \in 1..Len(results) : results[i].id = results[j].id => i = j
  <2>1. CASE results = r
    BY <1>3, <2>1 DEF IsMerged
  <2>2. CASE results \in Reranked(r)
    BY <1>3, <2>2, RerankedDocs
  <2> QED BY <1>3, <2>1, <2>2
<1>5. DOMAIN results = 1..Len(results)
  BY <1>4
<1>6. Len(r) = Cardinality(IdsFound)
  BY <1>1, <1>3, MergedIds
<1>7. ASSUME NEW i \in DOMAIN results
      PROVE  results[i].via = Finders(results[i].id) /\ results[i].via # {}
  <2> DEFINE id == results[i].id
  <2>1. results[i] \in AnyForm
    BY <1>4, <1>5
  <2>2. results[i].via \in SUBSET Channels /\ results[i].via # {}
    BY <2>1 DEF AnyForm
  <2>3. PICK k \in 1..Len(r) : results[i] = r[k]
    BY <1>4, <1>5
  <2>4. \A ch \in Channels : ch \in results[i].via <=> Lists(found[ch], id)
    BY <1>3, <2>3 DEF IsMerged
  <2>5. ASSUME NEW ch \in Channels
        PROVE  Lists(found[ch], id) <=> task[ch] = "answered" /\ Place(found[ch], id) # 0
    <3>1. found[ch] \in Seq(DocsOf(ch))
      BY <1>1 DEF FoundTyping
    <3>2. Lists(found[ch], id) <=> Place(found[ch], id) # 0
      BY <3>1, PlaceOf DEF Lists
    <3>3. Lists(found[ch], id) => task[ch] = "answered"
      <4>1. Lists(found[ch], id) => found[ch] # <<>>
        BY DEF Lists
      <4> QED BY <1>1, <4>1 DEF SearchInv, Pending, Tasks
    <3> QED BY <3>2, <3>3
  <2>6. results[i].via = Finders(id)
    BY <2>2, <2>4, <2>5 DEF Finders
  <2> QED BY <2>2, <2>6
<1> QED BY <1>4, <1>5, <1>6, <1>7

\* Whoever answers, fails or comes late, and whatever a store returns, the
\* outcome is what was answered in time, each document once with its finders.
THEOREM SearchesAreFaithful == SearchSpec => []SearchIsFaithful
<1>1. SearchInv => SearchIsFaithful
  <2> SUFFICES ASSUME SearchInv PROVE SearchIsFaithful
    OBVIOUS
  <2>1. SearchTypeOK
    <3>1. ASSUME NEW ch \in Channels, NEW d \in ToSet(found[ch]) PROVE d.from = ch /\ d.score \in Nat
      <4>1. found[ch] \in Seq(DocsOf(ch))
        BY DEF SearchInv, FoundTyping
      <4>2. d \in DocsOf(ch)
        BY <3>1, <4>1 DEF ToSet
      <4> QED BY <4>2 DEF DocsOf
    <3>2. limit \in Nat
      BY SearchAssumption DEF SearchInv
    <3> QED BY <3>1, <3>2 DEF SearchInv, SearchTypeOK, Tasks
  <2> QED BY <2>1, FaithfulWhenDone DEF SearchIsFaithful, SearchInv, IdsFound
<1> QED BY <1>1, SearchBegins, SearchStep, PTL DEF SearchSpec

-----------------------------------------------------------------------------
(* The rule of the skills *)

LEMMA GreatestOfSet ==
  ASSUME NEW T \in SUBSET Int, NEW m \in T, \A y \in T : m >= y
  PROVE  Max(T) = m
<1>1. Max(T) \in T /\ \A y \in T : Max(T) >= y
  <2>1. \E x \in T : \A y \in T : x >= y
    OBVIOUS
  <2> QED BY <2>1, Zenon DEF Max
<1>2. Max(T) \in Int /\ m \in Int
  BY <1>1
<1>3. Max(T) >= m /\ m >= Max(T)
  BY <1>1
<1> QED BY <1>2, <1>3

\* What a change of one place leaves.
LEMMA OneChanges ==
  ASSUME NEW C, NEW f, f = [o \in C |-> f[o]], NEW c \in C, NEW v, NEW g, g = [f EXCEPT ![c] = v]
  PROVE  g = [o \in C |-> g[o]] /\ \A o \in C : g[o] = IF o = c THEN v ELSE f[o]
OBVIOUS

ScoresOf(q) == {RuleScore(q, n) : n \in 1..4}

\* The scores of a rule, and what a question adds to that of a fact.
LEMMA RuleScoreType ==
  ASSUME NEW q \in Inquiries, NEW n \in 1..4
  PROVE  /\ RuleScore(q, n) \in Nat
         /\ q.question /\ n = 4 => RuleScore(q, n) >= FactBoost
<1> DEFINE hits == q.triggers[n]
           share == (1000 * hits) \div Triggers[n]
           some == (800 * Min({hits, 3})) \div 3
           match == Max({share, some})
<1>1. hits \in Nat /\ q.question \in BOOLEAN /\ FactBoost \in Nat
  BY DecisionAssumption
<1>2. Triggers[n] \in {11, 10, 6}
  BY DEF Triggers
<1> HIDE DEF hits
<1>3. share \in Nat
  <2>1. 1000 * hits \in Nat
    BY <1>1
  <2> DEFINE m == 1000 * hits
  <2> HIDE DEF m
  <2>2. m \in Nat => m \div 11 \in Nat /\ m \div 10 \in Nat /\ m \div 6 \in Nat
    OBVIOUS
  <2> QED BY <1>2, <2>1, <2>2 DEF m
<1>4. some \in Nat
  <2>1. Min({hits, 3}) \in Nat
    <3>1. hits \in Int /\ 3 \in Int
      BY <1>1
    <3> QED BY <1>1, <3>1, MinOfTwo
  <2> DEFINE m == Min({hits, 3})
  <2> HIDE DEF m
  <2> QED BY <2>1 DEF m
<1> HIDE DEF share, some
<1>5. match \in Nat
  BY <1>3, <1>4, MaxOfTwo
<1>6. RuleScore(q, n) = IF q.question /\ SKILLS[n] = "quick_fact_qa" THEN Max({match, FactBoost}) ELSE match
  BY DEF RuleScore, match, share, some, hits
<1> HIDE DEF match
<1>7. Max({match, FactBoost}) = IF match >= FactBoost THEN match ELSE FactBoost
  <2>1. match \in Int /\ FactBoost \in Int
    BY <1>1, <1>5
  <2> QED BY <2>1, MaxOfTwo
<1>8. Max({match, FactBoost}) \in Nat /\ Max({match, FactBoost}) >= FactBoost
  BY <1>1, <1>5, <1>7
<1>9. SKILLS[4] = "quick_fact_qa"
  BY DEF SKILLS
<1> QED BY <1>1, <1>5, <1>6, <1>8, <1>9

\* What the rule decides: the best score, a skill that it shows, and whether
\* it trusts itself.
IsRuled(r, q) ==
  /\ r = [skill |-> r.skill, confidence |-> r.confidence, candidates |-> r.candidates, why |-> r.why]
  /\ r.confidence = Max(ScoresOf(q)) /\ r.confidence \in Nat
  /\ q.question => r.confidence >= FactBoost
  /\ r.skill \in ToSet(SKILLS)
  /\ r.candidates \in Seq(ToSet(SKILLS)) /\ Contains(r.candidates, r.skill) /\ Len(r.candidates) <= 5
  /\ r.why \in {"rule", "rule_fallback"}
  /\ r.why = "rule" <=> r.confidence >= RuleThreshold
  /\ r.why = "rule" => RuleScore(q, SkillNo(r.skill)) = r.confidence

\* The skills are different.
LEMMA SkillNumbers ==
  ASSUME NEW n \in 1..4
  PROVE  SKILLS[n] \in ToSet(SKILLS) /\ SkillNo(SKILLS[n]) = n
<1>1. DOMAIN SKILLS = 1..5
  BY DEF SKILLS
<1>2. \A m \in 1..5 : SKILLS[m] = SKILLS[n] => m = n
  <2>1. n \in {1, 2, 3, 4} /\ 1..5 = {1, 2, 3, 4, 5}
    OBVIOUS
  <2> QED BY <2>1 DEF SKILLS, DefaultSkill
<1>3. n \in 1..5
  OBVIOUS
<1>4. SKILLS[n] \in ToSet(SKILLS)
  BY <1>1, <1>3 DEF ToSet
<1>5. SkillNo(SKILLS[n]) = n
  BY <1>1, <1>2, <1>3 DEF SkillNo
<1> QED BY <1>4, <1>5

\* The rule's choice is among those it shows, and a sure one has the best score.
LEMMA RuleRoutes ==
  ASSUME NEW q \in Inquiries
  PROVE  IsRuled(RuleRoute(q), q)
<1> DEFINE I == 1..4
           R == {p \in (1..4) \X (1..4) :
                   \/ RuleScore(q, p[1]) > RuleScore(q, p[2])
                   \/ RuleScore(q, p[1]) = RuleScore(q, p[2]) /\ p[1] < p[2]}
           ranked == [k \in 1..4 |-> CHOOSE n \in 1..4 : Cardinality({m \in 1..4 : <<m, n>> \in R}) + 1 = k]
           best == RuleScore(q, ranked[1])
           ids == [n \in DOMAIN ranked |-> SKILLS[ranked[n]]]
           skill == IF best >= RuleThreshold THEN ids[1] ELSE GetSkill(FallbackSkill)
           shown == IF Contains(ids, skill) THEN ids ELSE Append(ids, skill)
           r == [skill |-> skill, confidence |-> best, candidates |-> shown,
                 why |-> IF best >= RuleThreshold THEN "rule" ELSE "rule_fallback"]
<1>1. RuleRoute(q) = r
  BY DEF RuleRoute
<1>2. \A n \in I : RuleScore(q, n) \in Nat
  BY RuleScoreType
<1>3. \A i, j : <<i, j>> \in R <=> /\ i \in I /\ j \in I
                                   /\ \/ RuleScore(q, i) > RuleScore(q, j)
                                      \/ RuleScore(q, i) = RuleScore(q, j) /\ i < j
  OBVIOUS
<1>4. IsFiniteSet(I) /\ Cardinality(I) = 4
  BY UpTo
<1>5. \A k \in I : ranked[k] = At(I, R, k)
  BY DEF At
<1>6. DOMAIN ranked = I
  OBVIOUS
<1> HIDE DEF R, ranked
<1>7. InRow(I, R)
  <2>1. ASSUME NEW i \in I PROVE <<i, i>> \notin R
    BY <1>2, <1>3
  <2>2. ASSUME NEW i \in I, NEW j \in I, i # j PROVE <<i, j>> \in R \/ <<j, i>> \in R
    <3>1. RuleScore(q, i) \in Nat /\ RuleScore(q, j) \in Nat
      BY <1>2
    <3> QED BY <1>3, <2>2, <3>1
  <2>3. ASSUME NEW i \in I, NEW j \in I, NEW k \in I, <<i, j>> \in R, <<j, k>> \in R
        PROVE  <<i, k>> \in R
    <3>1. RuleScore(q, i) \in Nat /\ RuleScore(q, j) \in Nat /\ RuleScore(q, k) \in Nat
      BY <1>2
    <3> QED BY <1>3, <2>3, <3>1
  <2> QED BY <2>1, <2>2, <2>3 DEF InRow
<1>8. IsOrder(I, R)
  BY <1>4, <1>7, PlacesAreTaken
<1>9. \A k \in I : ranked[k] \in I
  BY <1>4, <1>5, <1>8 DEF IsOrder
<1>10. ASSUME NEW n \in I PROVE best >= RuleScore(q, n)
  <2>1. PICK k \in I : ranked[k] = n
    BY <1>4, <1>5, <1>8 DEF IsOrder
  <2>2. best \in Nat /\ RuleScore(q, n) \in Nat
    BY <1>2, <1>9
  <2>3. CASE k = 1
    BY <2>1, <2>2, <2>3
  <2>4. CASE k # 1
    <3>1. <<ranked[1], ranked[k]>> \in R
      BY <1>4, <1>5, <1>8, <2>1, <2>4 DEF IsOrder
    <3> QED BY <1>3, <2>1, <2>2, <3>1
  <2> QED BY <2>3, <2>4
<1>11. best \in ScoresOf(q) /\ ScoresOf(q) \in SUBSET Int /\ best \in Nat
  BY <1>2, <1>9 DEF ScoresOf
<1>12. best = Max(ScoresOf(q))
  <2>1. \A y \in ScoresOf(q) : best >= y
    BY <1>10 DEF ScoresOf
  <2> HIDE DEF best
  <2> QED BY <1>11, <2>1, GreatestOfSet
<1>13. q.question => best >= FactBoost
  <2>1. q.question => RuleScore(q, 4) >= FactBoost
    BY RuleScoreType
  <2>2. best >= RuleScore(q, 4) /\ RuleScore(q, 4) \in Nat
    BY <1>2, <1>10
  <2>3. FactBoost \in Nat
    BY DecisionAssumption
  <2> HIDE DEF best
  <2> QED BY <1>11, <2>1, <2>2, <2>3
<1>14. ids \in Seq(ToSet(SKILLS)) /\ Len(ids) = 4 /\ ids[1] = SKILLS[ranked[1]]
  BY <1>6, <1>9, SkillNumbers
<1> HIDE DEF ids
<1>15. GetSkill(FallbackSkill) \in ToSet(SKILLS)
  BY DEF GetSkill, ToSet, SKILLS, DefaultSkill
<1>16. skill \in ToSet(SKILLS)
  <2>1. ids[1] \in ToSet(SKILLS)
    BY <1>9, <1>14, SkillNumbers
  <2> QED BY <1>15, <2>1
<1>17. best >= RuleThreshold => RuleScore(q, SkillNo(skill)) = best
  BY <1>9, <1>14, SkillNumbers
<1> HIDE DEF skill, best
<1>18. shown \in Seq(ToSet(SKILLS)) /\ Contains(shown, skill) /\ Len(shown) <= 5
  <2>1. CASE Contains(ids, skill)
    BY <1>14, <2>1
  <2>2. CASE ~Contains(ids, skill)
    <3>1. shown = Append(ids, skill)
      BY <2>2
    <3> HIDE DEF skill
    <3>2. shown \in Seq(ToSet(SKILLS)) /\ Len(shown) = 5 /\ shown[5] = skill
      <4> DEFINE T == ToSet(SKILLS)
      <4> HIDE DEF T
      <4>1. ids \in Seq(T) /\ skill \in T
        BY <1>14, <1>16 DEF T
      <4> HIDE DEF shown
      <4>2. Append(ids, skill) \in Seq(T) /\ Len(Append(ids, skill)) = Len(ids) + 1
            /\ Append(ids, skill)[Len(ids) + 1] = skill
        BY <4>1, AppendProperties
      <4>3. Len(ids) + 1 = 5
        BY <1>14
      <4>4. shown \in Seq(T) /\ Len(shown) = 5 /\ shown[5] = skill
        BY <3>1, <4>2, <4>3
      <4> QED BY <4>4 DEF T
    <3> QED BY <3>2 DEF Contains
  <2> QED BY <2>1, <2>2
<1> HIDE DEF shown
<1> QED BY <1>1, <1>11, <1>12, <1>13, <1>16, <1>17, <1>18 DEF IsRuled

-----------------------------------------------------------------------------
(* The decisions *)

States == {"new", "asking", "completing", "routed", "weighing", "chosen", "planned", "stopped", "failed"}

Undecided == {"new", "asking", "completing"}

AreByClient ==
  /\ inquiry \in [Clients -> Inquiries] /\ progress \in [Clients -> States]
  /\ decision = [c \in Clients |-> decision[c]]
  /\ said = [c \in Clients |-> said[c]]
  /\ choice = [c \in Clients |-> choice[c]]
  /\ plan = [c \in Clients |-> plan[c]]

\* What SkillIsGrounded says of a skill that is chosen.
SkillFits(q, ch, sd) ==
  /\ Contains(ch.candidates, ch.skill) /\ Len(ch.candidates) <= 5
  /\ ch.why = "model" =>
       sd = [of |-> ch.skill, confidence |-> ch.confidence]
       /\ ch.confidence >= SkillThreshold /\ Max(ScoresOf(q)) < SkillThreshold
  /\ ch.why = "rule" =>
       RuleScore(q, SkillNo(ch.skill)) = Max(ScoresOf(q)) /\ Max(ScoresOf(q)) >= RuleThreshold
  /\ q.question /\ FactBoost >= RuleThreshold /\ FactBoost >= SkillThreshold => ch.why = "rule"

SkillInv(c) ==
  /\ progress[c] = "weighing" =>
       choice[c] = RuleRoute(inquiry[c]) /\ choice[c].confidence < SkillThreshold
  /\ progress[c] \in {"chosen", "planned"} => SkillFits(inquiry[c], choice[c], said[c])
  /\ progress[c] = "planned" => plan[c].steps \in 1..PlanSteps

RouteInv(c) ==
  /\ decision[c].mode \in Modes \cup {"none"}
  /\ progress[c] \in Undecided => decision[c] = NoDecision
  /\ RouteIsGrounded(c)

DecideInv ==
  /\ AreByClient
  /\ circuit \in 0..CircuitSeconds
  /\ circuit > 0 => \E o \in Clients : decision[o].why = "lost"
  /\ \A c \in Clients : RouteInv(c) /\ SkillInv(c)

LEMMA DecidingBegins == DecideInit => DecideInv
<1> SUFFICES ASSUME DecideInit PROVE DecideInv
  OBVIOUS
<1>1. AreByClient
  BY DEF DecideInit, AreByClient, States
<1>2. circuit \in 0..CircuitSeconds /\ ~(circuit > 0)
  BY DecisionAssumption DEF DecideInit
<1>3. ASSUME NEW c \in Clients PROVE RouteInv(c) /\ SkillInv(c)
  <2>1. decision[c] = NoDecision /\ progress[c] = "new"
    BY DEF DecideInit
  <2> QED BY <2>1 DEF RouteInv, SkillInv, RouteIsGrounded, NoDecision
<1> QED BY <1>1, <1>2, <1>3 DEF DecideInv

\* A client that is undecided gets its route; nobody else's route or skill
\* is touched by it.
LEMMA RouteKeeps ==
  ASSUME DecideInv, NEW c \in Clients, NEW mode \in Modes, NEW why, Route(c, mode, why),
         progress[c] \in Undecided,
         circuit' \in 0..CircuitSeconds, circuit' > 0 => circuit > 0 \/ why = "lost",
         said' = [o \in Clients |-> said'[o]],
         \A o \in Clients \ {c} : said'[o] = said[o],
         why # "none",
         why # "model" => mode = FallbackMode,
         why = "model" => said'[c].of = mode /\ said'[c].confidence >= RouterThreshold,
         why = "circuit_open" => circuit > 0
  PROVE  DecideInv'
<1>1. /\ decision' = [decision EXCEPT ![c] = [mode |-> mode, why |-> why]]
      /\ progress' = [progress EXCEPT ![c] = "routed"]
      /\ UNCHANGED <<inquiry, choice, plan>>
  BY DEF Route
<1>2. AreByClient
  BY DEF DecideInv
<1>3. /\ decision' = [o \in Clients |-> decision'[o]]
      /\ \A o \in Clients : decision'[o] = IF o = c THEN [mode |-> mode, why |-> why] ELSE decision[o]
  BY <1>1, <1>2, OneChanges DEF AreByClient
<1>4. progress' \in [Clients -> States] /\ \A o \in Clients : progress'[o] = IF o = c THEN "routed" ELSE progress[o]
  BY <1>1, <1>2 DEF AreByClient, States
<1>5. AreByClient'
  BY <1>1, <1>2, <1>3, <1>4 DEF AreByClient
<1>6. decision[c] = NoDecision
  BY DEF DecideInv, RouteInv
<1>7. \A o \in Clients : decision[o].why = "lost" => o # c /\ decision'[o] = decision[o]
  BY <1>3, <1>6 DEF NoDecision
<1>8. circuit > 0 => \E o \in Clients \ {c} : decision[o].why = "lost" /\ decision'[o].why = "lost"
  BY <1>7 DEF DecideInv
<1>9. circuit' > 0 => \E o \in Clients : decision'[o].why = "lost"
  BY <1>3, <1>8
<1>10. ASSUME NEW o \in Clients PROVE RouteInv(o)'
  <2>1. CASE o = c
    <3>1. decision'[c] = [mode |-> mode, why |-> why] /\ progress'[c] = "routed"
      BY <1>3, <1>4
    <3>2. why = "circuit_open" => \E a \in Clients \ {c} : decision'[a].why = "lost"
      BY <1>8
    <3>3. RouteIsGrounded(c)'
      BY <3>1, <3>2 DEF RouteIsGrounded
    <3> QED BY <2>1, <3>1, <3>3 DEF RouteInv, Undecided
  <2>2. CASE o # c
    <3>1. decision'[o] = decision[o] /\ progress'[o] = progress[o] /\ said'[o] = said[o]
      BY <1>3, <1>4, <2>2
    <3>2. RouteInv(o)
      BY DEF DecideInv
    <3>3. (\E a \in Clients \ {o} : decision[a].why = "lost") => \E a \in Clients \ {o} : decision'[a].why = "lost"
      BY <1>7
    <3>4. RouteIsGrounded(o)'
      BY <3>1, <3>2, <3>3 DEF RouteIsGrounded, RouteInv
    <3> QED BY <3>1, <3>2, <3>4 DEF RouteInv
  <2> QED BY <2>1, <2>2
<1>11. ASSUME NEW o \in Clients PROVE SkillInv(o)'
  <2>1. CASE o = c
    BY <1>4, <2>1 DEF SkillInv
  <2>2. CASE o # c
    BY <1>1, <1>4, <2>2 DEF SkillInv, DecideInv
  <2> QED BY <2>1, <2>2
<1> QED BY <1>5, <1>9, <1>10, <1>11 DEF DecideInv

\* Once decided, what remains is one client's own.
LEMMA SkillKeeps ==
  ASSUME DecideInv, NEW c \in Clients, NEW next \in States \ {"new", "asking", "completing", "routed"},
         progress' = [progress EXCEPT ![c] = next],
         UNCHANGED <<inquiry, circuit, decision>>,
         said' = [o \in Clients |-> said'[o]], choice' = [o \in Clients |-> choice'[o]],
         plan' = [o \in Clients |-> plan'[o]],
         \A o \in Clients \ {c} : said'[o] = said[o] /\ choice'[o] = choice[o] /\ plan'[o] = plan[o],
         SkillInv(c)'
  PROVE  DecideInv'
<1>1. AreByClient
  BY DEF DecideInv
<1>2. progress' \in [Clients -> States] /\ \A o \in Clients : progress'[o] = IF o = c THEN next ELSE progress[o]
  BY <1>1 DEF AreByClient
<1>3. AreByClient'
  BY <1>1, <1>2 DEF AreByClient
<1>4. ASSUME NEW o \in Clients PROVE RouteInv(o)'
  <2>1. RouteInv(o)
    BY DEF DecideInv
  <2>2. CASE o = c
    <3>1. progress'[o] = next
      BY <1>2, <2>2
    <3> QED BY <2>1, <3>1 DEF RouteInv, RouteIsGrounded, Undecided
  <2>3. CASE o # c
    <3>1. progress'[o] = progress[o] /\ said'[o] = said[o]
      BY <1>2, <2>3
    <3> QED BY <2>1, <3>1 DEF RouteInv, RouteIsGrounded
  <2> QED BY <2>2, <2>3
<1>5. ASSUME NEW o \in Clients PROVE SkillInv(o)'
  <2>1. CASE o # c
    BY <1>2, <2>1 DEF SkillInv, DecideInv
  <2> QED BY <2>1
<1> QED BY <1>3, <1>4, <1>5 DEF DecideInv

\* The model is asked for a route, or asked again.
LEMMA AskKeeps ==
  ASSUME DecideInv, NEW c \in Clients, NEW next \in Undecided, progress[c] \in Undecided,
         progress' = [progress EXCEPT ![c] = next],
         UNCHANGED <<inquiry, circuit, decision, said, choice, plan>>
  PROVE  DecideInv'
<1>1. progress' \in [Clients -> States] /\ \A o \in Clients : progress'[o] = IF o = c THEN next ELSE progress[o]
  BY DEF DecideInv, AreByClient, States, Undecided
<1>2. AreByClient'
  BY <1>1 DEF DecideInv, AreByClient
<1>3. ASSUME NEW o \in Clients PROVE RouteInv(o)' /\ SkillInv(o)'
  <2>1. RouteInv(o) /\ SkillInv(o)
    BY DEF DecideInv
  <2>2. CASE o = c
    <3>1. decision[c] = NoDecision
      BY <2>1, <2>2 DEF RouteInv
    <3>2. progress'[c] \in Undecided
      BY <1>1
    <3> QED BY <2>1, <2>2, <3>1, <3>2 DEF RouteInv, RouteIsGrounded, NoDecision, SkillInv, Undecided
  <2>3. CASE o # c
    <3>1. progress'[o] = progress[o]
      BY <1>1, <2>3
    <3> QED BY <2>1, <3>1 DEF RouteInv, RouteIsGrounded, SkillInv
  <2> QED BY <2>2, <2>3
<1> QED BY <1>2, <1>3 DEF DecideInv

\* The rule's choice fits as its own, and for want of a usable answer.
LEMMA RuleFits ==
  ASSUME NEW q \in Inquiries, NEW sd, NEW r, IsRuled(r, q)
  PROVE  SkillFits(q, r, sd)
<1>1. FactBoost \in Nat /\ RuleThreshold \in Nat /\ SkillThreshold \in Nat /\ r.confidence \in Nat
  BY DecisionAssumption DEF IsRuled
<1> QED BY <1>1 DEF IsRuled, SkillFits

LEMMA FallbackFits ==
  ASSUME NEW q \in Inquiries, NEW sd, NEW r, IsRuled(r, q), r.confidence < SkillThreshold
  PROVE  SkillFits(q, [r EXCEPT !.why = "llm_fallback"], sd)
<1> DEFINE ch == [r EXCEPT !.why = "llm_fallback"]
<1>1. FactBoost \in Nat /\ SkillThreshold \in Nat /\ r.confidence \in Nat
  BY DecisionAssumption DEF IsRuled
<1>2. ch.why = "llm_fallback" /\ ch.candidates = r.candidates /\ ch.skill = r.skill
  BY DEF IsRuled
<1>3. ~(q.question /\ FactBoost >= SkillThreshold)
  BY <1>1 DEF IsRuled
<1> HIDE DEF ch
<1>4. SkillFits(q, ch, sd)
  BY <1>2, <1>3 DEF IsRuled, SkillFits
<1> QED BY <1>4 DEF ch

\* The rule chooses,
LEMMA SelectKeeps ==
  ASSUME DecideInv, NEW c \in Clients, SelectSkill(c)
  PROVE  DecideInv'
<1>1. AreByClient
  BY DEF DecideInv
<1>2. inquiry[c] \in Inquiries
  BY <1>1 DEF AreByClient
<1>3. IsRuled(RuleRoute(inquiry[c]), inquiry[c])
  BY <1>2, RuleRoutes
<1>4. /\ choice' = [choice EXCEPT ![c] = RuleRoute(inquiry[c])] /\ said' = [said EXCEPT ![c] = Nothing]
      /\ UNCHANGED <<inquiry, circuit, decision, plan>>
  BY DEF SelectSkill
<1>5. choice' = [o \in Clients |-> choice'[o]]
      /\ \A o \in Clients : choice'[o] = IF o = c THEN RuleRoute(inquiry[c]) ELSE choice[o]
  BY <1>1, <1>4, OneChanges DEF AreByClient
<1>6. said' = [o \in Clients |-> said'[o]] /\ \A o \in Clients : said'[o] = IF o = c THEN Nothing ELSE said[o]
  BY <1>1, <1>4, OneChanges DEF AreByClient
<1> DEFINE next == IF UseLlm /\ choice'[c].confidence < SkillThreshold THEN "weighing" ELSE "chosen"
<1>7. progress' = [progress EXCEPT ![c] = next]
  BY DEF SelectSkill
<1>8. progress'[c] = next
  BY <1>1, <1>7 DEF AreByClient
<1>9. SkillFits(inquiry'[c], choice'[c], said'[c])
  <2> DEFINE q == inquiry[c]
             r == RuleRoute(q)
  <2>1. SkillFits(q, r, said'[c])
    <3>1. q \in Inquiries /\ IsRuled(r, q)
      BY <1>2, <1>3
    <3> HIDE DEF q, r
    <3> QED BY <3>1, RuleFits
  <2>2. inquiry'[c] = inquiry[c] /\ choice'[c] = RuleRoute(inquiry[c])
    BY <1>4, <1>5
  <2> QED BY <2>1, <2>2
<1>10. next \in {"weighing", "chosen"} /\ (next = "weighing" => choice'[c].confidence < SkillThreshold)
  OBVIOUS
<1> HIDE DEF next
<1>11. SkillInv(c)'
  BY <1>4, <1>5, <1>8, <1>9, <1>10 DEF SkillInv
<1>12. next \in States \ {"new", "asking", "completing", "routed"}
  BY <1>10 DEF States
<1>13. plan' = [o \in Clients |-> plan'[o]]
  BY <1>1, <1>4 DEF AreByClient
<1>14. \A o \in Clients \ {c} : said'[o] = said[o] /\ choice'[o] = choice[o] /\ plan'[o] = plan[o]
  BY <1>4, <1>5, <1>6
<1>15. UNCHANGED <<inquiry, circuit, decision>>
  BY <1>4
<1> QED BY <1>5, <1>6, <1>7, <1>11, <1>12, <1>13, <1>14, <1>15, SkillKeeps

\* A skill of the model's is shown, though at most five are.
LEMMA ShownWithSkill ==
  ASSUME NEW T, NEW cands \in Seq(T), Len(cands) <= 5, NEW skill \in T, NEW shown,
         shown = IF Contains(cands, skill) THEN cands ELSE <<skill>> \o cands
  PROVE  LET cut == SubSeq(shown, 1, Min({5, Len(shown)})) IN Contains(cut, skill) /\ Len(cut) <= 5
<1> DEFINE cut == SubSeq(shown, 1, Min({5, Len(shown)}))
<1>1. CASE Contains(cands, skill)
  <2>1. shown = cands /\ Len(shown) \in Nat /\ Len(shown) \in Int /\ 5 \in Int
    BY <1>1
  <2>2. Min({5, Len(shown)}) = Len(shown)
    <3>1. Min({5, Len(shown)}) = IF 5 <= Len(shown) THEN 5 ELSE Len(shown)
      BY <2>1, MinOfTwo
    <3> QED BY <2>1, <3>1
  <2>3. cut = cands
    BY <2>1, <2>2
  <2> QED BY <1>1, <2>3
<1>2. CASE ~Contains(cands, skill)
  <2>1. shown \in Seq(T) /\ Len(shown) = Len(cands) + 1 /\ shown[1] = skill /\ Len(cands) \in Nat
    BY <1>2
  <2>2. Min({5, Len(shown)}) = IF 5 <= Len(shown) THEN 5 ELSE Len(shown)
    <3>1. 5 \in Int /\ Len(shown) \in Int
      BY <2>1
    <3> QED BY <3>1, MinOfTwo
  <2> DEFINE m == Min({5, Len(shown)})
  <2>3. m \in 1..Len(shown) /\ m <= 5
    BY <2>1, <2>2
  <2> HIDE DEF m
  <2>4. SubSeq(shown, 1, m) \in Seq(T) /\ Len(SubSeq(shown, 1, m)) = m /\ SubSeq(shown, 1, m)[1] = skill
    BY <2>1, <2>3
  <2>5. Contains(SubSeq(shown, 1, m), skill) /\ Len(SubSeq(shown, 1, m)) <= 5
    <3> DEFINE a == SubSeq(shown, 1, m)
    <3>1. Len(a) = m /\ a[1] = skill /\ m \in Nat /\ m >= 1
      BY <2>1, <2>3, <2>4
    <3> HIDE DEF a
    <3>2. Contains(a, skill) /\ Len(a) <= 5
      BY <2>3, <3>1 DEF Contains
    <3> QED BY <3>2 DEF a
  <2> QED BY <2>5 DEF m
<1> QED BY <1>1, <1>2

\* the model chooses, or has no usable opinion,
LEMMA AnsweredKeeps ==
  ASSUME DecideInv, NEW c \in Clients, NEW skill \in ToSet(SKILLS) \cup {"unknown"},
         NEW confidence \in Opinions, SkillAnswered(c, skill, confidence)
  PROVE  DecideInv'
<1> DEFINE q == inquiry[c]
           rule == RuleRoute(q)
           shown == IF Contains(rule.candidates, skill) THEN rule.candidates ELSE <<skill>> \o rule.candidates
           opinion == [of |-> skill, confidence |-> confidence]
           usable == skill \in ToSet(SKILLS) /\ confidence >= SkillThreshold
           taken == [skill |-> skill, confidence |-> confidence,
                     candidates |-> SubSeq(shown, 1, Min({5, Len(shown)})), why |-> "model"]
           kept == [rule EXCEPT !.why = "llm_fallback"]
           ch == IF usable THEN taken ELSE kept
<1>1. AreByClient
  BY DEF DecideInv
<1>2. q \in Inquiries
  BY <1>1 DEF AreByClient
<1>3. choice[c] = rule /\ rule.confidence < SkillThreshold /\ IsRuled(rule, q)
  BY <1>2, RuleRoutes DEF SkillAnswered, DecideInv, SkillInv
<1>4. /\ said' = [said EXCEPT ![c] = opinion] /\ choice' = [choice EXCEPT ![c] = ch]
      /\ progress' = [progress EXCEPT ![c] = "chosen"]
      /\ UNCHANGED <<inquiry, circuit, decision, plan>>
  <2> HIDE DEF rule
  <2> QED BY <1>3 DEF SkillAnswered
<1>5. ASSUME usable PROVE SkillFits(q, ch, opinion)
  <2>1. rule.candidates \in Seq(ToSet(SKILLS)) /\ Len(rule.candidates) <= 5
    BY <1>3 DEF IsRuled
  <2>2. Contains(taken.candidates, skill) /\ Len(taken.candidates) <= 5
    BY <1>5, <2>1, ShownWithSkill
  <2>3. Max(ScoresOf(q)) < SkillThreshold /\ (q.question => Max(ScoresOf(q)) >= FactBoost) /\ Max(ScoresOf(q)) \in Nat
    BY <1>3 DEF IsRuled
  <2>4. ~(q.question /\ FactBoost >= SkillThreshold)
    <3>1. FactBoost \in Nat /\ SkillThreshold \in Nat
      BY DecisionAssumption
    <3> QED BY <2>3, <3>1
  <2>5. ch = taken /\ taken.skill = skill /\ taken.confidence = confidence /\ taken.why = "model"
    BY <1>5
  <2> HIDE DEF taken, ch, q
  <2> QED BY <1>5, <2>2, <2>3, <2>4, <2>5 DEF SkillFits
<1>6. ASSUME ~usable PROVE SkillFits(q, ch, opinion)
  <2>1. SkillFits(q, kept, opinion)
    BY <1>2, <1>3, FallbackFits
  <2> QED BY <1>6, <2>1
<1>7. SkillFits(q, ch, opinion)
  BY <1>5, <1>6
<1> HIDE DEF ch, opinion
<1>8. choice' = [o \in Clients |-> choice'[o]] /\ \A o \in Clients : choice'[o] = IF o = c THEN ch ELSE choice[o]
  BY <1>1, <1>4, OneChanges DEF AreByClient
<1>9. said' = [o \in Clients |-> said'[o]] /\ \A o \in Clients : said'[o] = IF o = c THEN opinion ELSE said[o]
  BY <1>1, <1>4, OneChanges DEF AreByClient
<1>10. progress'[c] = "chosen"
  BY <1>1, <1>4 DEF AreByClient
<1>11. SkillInv(c)'
  BY <1>4, <1>7, <1>8, <1>9, <1>10 DEF SkillInv
<1>12. plan' = [o \in Clients |-> plan'[o]] /\ "chosen" \in States \ {"new", "asking", "completing", "routed"}
  BY <1>1, <1>4 DEF AreByClient, States
<1>13. \A o \in Clients \ {c} : said'[o] = said[o] /\ choice'[o] = choice[o] /\ plan'[o] = plan[o]
  BY <1>4, <1>8, <1>9
<1>14. UNCHANGED <<inquiry, circuit, decision>>
  BY <1>4
<1> QED BY <1>4, <1>8, <1>9, <1>11, <1>12, <1>13, <1>14, SkillKeeps

\* or does not answer;
LEMMA UnansweredKeeps ==
  ASSUME DecideInv, NEW c \in Clients, SkillUnanswered(c)
  PROVE  DecideInv'
<1> DEFINE q == inquiry[c]
           rule == RuleRoute(q)
           kept == [rule EXCEPT !.why = "llm_fallback"]
<1>1. AreByClient
  BY DEF DecideInv
<1>2. q \in Inquiries
  BY <1>1 DEF AreByClient
<1>3. choice[c] = rule /\ rule.confidence < SkillThreshold /\ IsRuled(rule, q)
  BY <1>2, RuleRoutes DEF SkillUnanswered, DecideInv, SkillInv
<1>4. /\ choice' = [choice EXCEPT ![c] = [choice[c] EXCEPT !.why = "llm_fallback"]]
      /\ progress' = [progress EXCEPT ![c] = "chosen"]
      /\ UNCHANGED <<inquiry, circuit, decision, said, plan>>
  BY <1>1 DEF SkillUnanswered, AreByClient
<1>5. SkillFits(q, kept, said[c])
  BY <1>2, <1>3, FallbackFits
<1>6. choice' = [choice EXCEPT ![c] = kept]
  BY <1>3, <1>4
<1> HIDE DEF kept
<1>7. choice' = [o \in Clients |-> choice'[o]] /\ \A o \in Clients : choice'[o] = IF o = c THEN kept ELSE choice[o]
  BY <1>1, <1>6, OneChanges DEF AreByClient
<1>8. progress'[c] = "chosen"
  BY <1>1, <1>4 DEF AreByClient
<1>9. SkillInv(c)'
  BY <1>4, <1>5, <1>7, <1>8 DEF SkillInv
<1>10. /\ said' = [o \in Clients |-> said'[o]] /\ plan' = [o \in Clients |-> plan'[o]]
       /\ "chosen" \in States \ {"new", "asking", "completing", "routed"}
  BY <1>1, <1>4 DEF AreByClient, States
<1>11. \A o \in Clients \ {c} : said'[o] = said[o] /\ choice'[o] = choice[o] /\ plan'[o] = plan[o]
  BY <1>4, <1>7
<1>12. UNCHANGED <<inquiry, circuit, decision>>
  BY <1>4
<1> QED BY <1>4, <1>7, <1>9, <1>10, <1>11, <1>12, SkillKeeps

\* A run that is stopped, or whose answer cannot be read, is left as it is.
LEMMA EndKeeps ==
  ASSUME DecideInv, NEW c \in Clients, AskerStops(c) \/ SkillUnreadable(c)
  PROVE  DecideInv'
<1>1. AreByClient
  BY DEF DecideInv
<1>2. PICK next \in {"stopped", "failed"} : progress' = [progress EXCEPT ![c] = next]
  BY DEF AskerStops, SkillUnreadable
<1>3. UNCHANGED <<inquiry, circuit, decision, said, choice, plan>>
  BY DEF AskerStops, SkillUnreadable
<1>4. progress'[c] = next
  BY <1>1, <1>2 DEF AreByClient
<1>5. SkillInv(c)'
  BY <1>4 DEF SkillInv
<1>6. /\ said' = [o \in Clients |-> said'[o]] /\ choice' = [o \in Clients |-> choice'[o]]
      /\ plan' = [o \in Clients |-> plan'[o]]
      /\ next \in States \ {"new", "asking", "completing", "routed"}
  BY <1>1, <1>3 DEF AreByClient, States
<1>7. \A o \in Clients \ {c} : said'[o] = said[o] /\ choice'[o] = choice[o] /\ plan'[o] = plan[o]
  BY <1>3
<1>8. UNCHANGED <<inquiry, circuit, decision>>
  BY <1>3
<1> QED BY <1>2, <1>5, <1>6, <1>7, <1>8, SkillKeeps

\* the plan has at least one step.
LEMMA PlanKeeps ==
  ASSUME DecideInv, NEW c \in Clients, BuildPlan(c)
  PROVE  DecideInv'
<1>1. AreByClient
  BY DEF DecideInv
<1>2. PICK template, profile :
        plan' = [plan EXCEPT ![c] = [template |-> template, profile |-> profile,
                                     steps |-> Min({TemplateSteps(template), PlanSteps})]]
  BY DEF BuildPlan
<1>3. /\ progress[c] = "chosen" /\ progress' = [progress EXCEPT ![c] = "planned"]
      /\ UNCHANGED <<inquiry, circuit, decision, said, choice>>
  BY DEF BuildPlan
<1> DEFINE made == [template |-> template, profile |-> profile,
                    steps |-> Min({TemplateSteps(template), PlanSteps})]
<1>4. made.steps \in 1..PlanSteps
  <2>1. TemplateSteps(template) \in 1..3
    BY DEF TemplateSteps
  <2>2. PlanSteps \in Nat \ {0}
    BY DecisionAssumption
  <2>3. TemplateSteps(template) \in Int /\ PlanSteps \in Int
    BY <2>1, <2>2
  <2>4. Min({TemplateSteps(template), PlanSteps})
          = IF TemplateSteps(template) <= PlanSteps THEN TemplateSteps(template) ELSE PlanSteps
    BY <2>3, MinOfTwo
  <2> QED BY <2>1, <2>2, <2>4
<1> HIDE DEF made
<1>5. plan' = [o \in Clients |-> plan'[o]] /\ \A o \in Clients : plan'[o] = IF o = c THEN made ELSE plan[o]
  <2>1. plan' = [plan EXCEPT ![c] = made]
    BY <1>2 DEF made
  <2> QED BY <1>1, <2>1, OneChanges DEF AreByClient
<1>6. progress'[c] = "planned"
  BY <1>1, <1>3 DEF AreByClient
<1>7. SkillFits(inquiry[c], choice[c], said[c])
  BY <1>3 DEF DecideInv, SkillInv
<1>8. SkillInv(c)'
  BY <1>3, <1>4, <1>5, <1>6, <1>7 DEF SkillInv
<1>9. /\ said' = [o \in Clients |-> said'[o]] /\ choice' = [o \in Clients |-> choice'[o]]
      /\ "planned" \in States \ {"new", "asking", "completing", "routed"}
  BY <1>1, <1>3 DEF AreByClient, States
<1>10. \A o \in Clients \ {c} : said'[o] = said[o] /\ choice'[o] = choice[o] /\ plan'[o] = plan[o]
  BY <1>3, <1>5
<1>11. UNCHANGED <<inquiry, circuit, decision>>
  BY <1>3
<1> QED BY <1>3, <1>5, <1>8, <1>9, <1>10, <1>11, SkillKeeps

\* Every step of the decisions keeps the invariant.
LEMMA DecideStep == DecideInv /\ [DecideNext]_decideVars => DecideInv'
<1> SUFFICES ASSUME DecideInv, [DecideNext]_decideVars PROVE DecideInv'
  OBVIOUS
<1>1. AreByClient /\ circuit \in 0..CircuitSeconds /\ CircuitSeconds \in Nat /\ FallbackMode \in Modes
  BY DecisionAssumption DEF DecideInv, Modes
<1>2. ASSUME NEW c \in Clients, RouteBlank(c) \/ RouteCircuitOpen(c) PROVE DecideInv'
  <2>1. PICK why \in {"empty_query", "circuit_open"} : Route(c, FallbackMode, why) /\ (why = "circuit_open" => circuit > 0)
    BY <1>2 DEF RouteBlank, RouteCircuitOpen
  <2>2. progress[c] \in Undecided /\ UNCHANGED <<circuit, said>>
    BY <1>2 DEF RouteBlank, RouteCircuitOpen, Undecided
  <2>3. said' = [o \in Clients |-> said'[o]] /\ \A o \in Clients \ {c} : said'[o] = said[o]
    BY <1>1, <2>2 DEF AreByClient
  <2>4. circuit' \in 0..CircuitSeconds /\ (circuit' > 0 => circuit > 0 \/ why = "lost")
    BY <1>1, <2>2
  <2> QED BY <1>1, <2>1, <2>2, <2>3, <2>4, RouteKeeps
<1>3. ASSUME NEW c \in Clients, RouteUnusable(c) \/ RouteLost(c) PROVE DecideInv'
  <2>1. PICK why \in {"unusable", "lost"} :
          Route(c, FallbackMode, why) /\ circuit' \in {circuit, CircuitSeconds} /\ (why = "unusable" => circuit' = circuit)
    BY <1>3 DEF RouteUnusable, RouteLost
  <2>2. progress[c] \in Undecided /\ UNCHANGED said
    BY <1>3 DEF RouteUnusable, RouteLost, Undecided
  <2>3. said' = [o \in Clients |-> said'[o]] /\ \A o \in Clients \ {c} : said'[o] = said[o]
    BY <1>1, <2>2 DEF AreByClient
  <2>4. circuit' \in 0..CircuitSeconds /\ (circuit' > 0 => circuit > 0 \/ why = "lost")
    BY <1>1, <2>1
  <2> QED BY <1>1, <2>1, <2>2, <2>3, <2>4, RouteKeeps
<1>4. ASSUME NEW c \in Clients, NEW mode \in Modes, NEW confidence \in Opinions,
             RouteAnswered(c, mode, confidence)
      PROVE  DecideInv'
  <2> DEFINE opinion == [of |-> mode, confidence |-> confidence]
  <2>1. progress[c] \in Undecided /\ said' = [said EXCEPT ![c] = opinion]
    BY <1>4 DEF RouteAnswered, Undecided
  <2>2. said' = [o \in Clients |-> said'[o]] /\ \A o \in Clients : said'[o] = IF o = c THEN opinion ELSE said[o]
    <3> HIDE DEF opinion
    <3> QED BY <1>1, <2>1, OneChanges DEF AreByClient
  <2>3. confidence \in Nat /\ RouterThreshold \in Nat
    BY DecisionAssumption
  <2>4. CASE confidence < RouterThreshold
    <3>1. Route(c, FallbackMode, "below_threshold") /\ circuit' = circuit
      BY <1>4, <2>4 DEF RouteAnswered
    <3>2. circuit' \in 0..CircuitSeconds /\ (circuit' > 0 => circuit > 0 \/ "below_threshold" = "lost")
      BY <1>1, <3>1
    <3> QED BY <1>1, <2>1, <2>2, <3>1, <3>2, RouteKeeps
  <2>5. CASE ~(confidence < RouterThreshold)
    <3>1. Route(c, mode, "model") /\ circuit' = 0
      BY <1>4, <2>5 DEF RouteAnswered
    <3>2. circuit' \in 0..CircuitSeconds /\ (circuit' > 0 => circuit > 0 \/ "model" = "lost")
      BY <1>1, <3>1
    <3>3. said'[c].of = mode /\ said'[c].confidence >= RouterThreshold
      BY <2>2, <2>3, <2>5
    <3> QED BY <1>1, <2>1, <2>2, <3>1, <3>2, <3>3, RouteKeeps
  <2> QED BY <2>4, <2>5
<1>5. ASSUME NEW c \in Clients, AskRoute(c) \/ AskCompletion(c) PROVE DecideInv'
  <2>1. PICK next \in Undecided : progress' = [progress EXCEPT ![c] = next]
    BY <1>5 DEF AskRoute, AskCompletion, Undecided
  <2>2. progress[c] \in Undecided /\ UNCHANGED <<inquiry, circuit, decision, said, choice, plan>>
    BY <1>5 DEF AskRoute, AskCompletion, Undecided
  <2> QED BY <2>1, <2>2, AskKeeps
<1>6. CASE CircuitTick
  <2>1. circuit > 0 /\ circuit' = circuit - 1 /\ UNCHANGED <<inquiry, progress, decision, said, choice, plan>>
    BY <1>6 DEF CircuitTick
  <2>2. circuit' \in 0..CircuitSeconds
    BY <1>1, <2>1
  <2> QED BY <2>1, <2>2 DEF DecideInv, AreByClient, RouteInv, SkillInv, RouteIsGrounded
<1>7. CASE UNCHANGED decideVars
  BY <1>7 DEF decideVars, DecideInv, AreByClient, RouteInv, SkillInv, RouteIsGrounded
<1> QED
  BY <1>2, <1>3, <1>4, <1>5, <1>6, <1>7, SelectKeeps, AnsweredKeeps, UnansweredKeeps, EndKeeps, PlanKeeps
     DEF DecideNext

-----------------------------------------------------------------------------

JudgeInv == scale \in {"none", "llm_judge", "heuristic"} /\ ScoresAreOneScale

\* The judge's scores are taken by the number of their item, or not at all.
LEMMA JudgeStep == JudgeInv /\ [JudgeNext]_judgeVars => JudgeInv'
<1> SUFFICES ASSUME JudgeInv, [JudgeNext]_judgeVars PROVE JudgeInv'
  OBVIOUS
<1>1. ASSUME NEW entries \in Answers, JudgeAnswers(entries) PROVE JudgeInv'
  <2>1. /\ WellFormed(entries) /\ verdicts' = entries /\ scores' = Judged(entries)
        /\ scale' = "llm_judge" /\ judged' = judged
    BY <1>1 DEF JudgeAnswers
  <2>2. ASSUME NEW i \in DOMAIN judged
        PROVE  \E n \in DOMAIN entries : entries[n].index = i /\ scores'[i] = Clamped(entries[n].support)
    <3> DEFINE e == CHOOSE e \in ToSet(entries) : e.index = i
    <3>1. \E n \in DOMAIN entries : entries[n].index = i
      BY <2>1 DEF WellFormed
    <3>2. \A d : d \in ToSet(entries) <=> \E n \in DOMAIN entries : d = entries[n]
      BY DEF ToSet
    <3>3. e \in ToSet(entries) /\ e.index = i
      <4>1. \E d \in ToSet(entries) : d.index = i
        BY <3>1, <3>2
      <4> QED BY <4>1, Zenon
    <3>4. scores'[i] = Clamped(e.support)
      BY <2>1 DEF Judged, SupportOf
    <3> HIDE DEF e
    <3> QED BY <3>2, <3>3, <3>4
  <2> QED BY <2>1, <2>2 DEF JudgeInv, ScoresAreOneScale
<1>2. ASSUME NEW entries \in Answers, ScoreByRule(entries) PROVE JudgeInv'
  <2>1. /\ scale' = "heuristic" /\ judged' = judged
        /\ scores' = [i \in DOMAIN judged |-> Heuristic(judged[i])]
    BY <1>2 DEF ScoreByRule
  <2>2. \A i \in DOMAIN judged' : scores'[i] = Heuristic(judged'[i])
    BY <2>1
  <2> QED BY <2>1, <2>2 DEF JudgeInv, ScoresAreOneScale
<1>3. CASE UNCHANGED judgeVars
  BY <1>3 DEF judgeVars, JudgeInv, ScoresAreOneScale
<1> QED BY <1>1, <1>2, <1>3 DEF JudgeNext

\* Whatever the models answer, or fail to answer, what is acted on is what a
\* model was sure of or the code's own rule.
THEOREM DecisionsHold == DecideSpec /\ JudgeSpec => []DecisionsAreGrounded
<1>1. JudgeInit => JudgeInv
  BY DEF JudgeInit, JudgeInv, ScoresAreOneScale
<1>2. DecideInv /\ JudgeInv => DecisionsAreGrounded
  <2> SUFFICES ASSUME DecideInv, JudgeInv PROVE DecisionsAreGrounded
    OBVIOUS
  <2>1. DecisionTypeOK
    BY DEF DecideInv, AreByClient, States, RouteInv, JudgeInv, DecisionTypeOK
  <2>2. ASSUME NEW c \in Clients PROVE RouteIsGrounded(c) /\ SkillIsGrounded(c)
    <3>1. RouteInv(c) /\ SkillInv(c)
      BY DEF DecideInv
    <3>2. SkillIsGrounded(c)
      BY <3>1 DEF SkillInv, SkillFits, SkillIsGrounded, ScoresOf
    <3> QED BY <3>1, <3>2 DEF RouteInv
  <2> QED BY <2>1, <2>2 DEF JudgeInv, DecisionsAreGrounded
<1> QED BY <1>1, <1>2, DecidingBegins, DecideStep, JudgeStep, PTL DEF DecideSpec, JudgeSpec

=============================================================================
