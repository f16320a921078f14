-------------------------- MODULE PodInformerProofs --------------------------
(***************************************************************************)
(* Proofs about the workflow informers of a cluster (module PodInformer):  *)
(* what the handlers of one informer publish of a pod never takes its      *)
(* outcome back, whatever other informers of the cluster do, and "pod      *)
(* deleted" is never said of a pod that stays.  What they publish of a     *)
(* failed pod is what the reference definition says of it, also after the  *)
(* sort of the shared copy.                                                *)
(***************************************************************************)
EXTENDS PodInformer, FiniteSetTheorems, WellFoundedInduction, TLAPS

-----------------------------------------------------------------------------
(* Lists of containers, and what is computed from them.                    *)

\* A set of naturals has a least element: what induction over a list rests on.
LEMMA Least ==
    ASSUME NEW S \in SUBSET Nat, S # {}
    PROVE  Min(S) \in S /\ \A i \in S : Min(S) <= i
<1>1. IsWellFoundedOn(OpToRel(<, Nat), Nat)
  BY NatLessThanWellFounded
<1>2. PICK x \in S : \A y \in S : ~ (<<y, x>> \in OpToRel(<, Nat))
  BY <1>1, WFMin
<1>3. \A y \in S : ~ (y < x)
  BY <1>2 DEF OpToRel
<1>4. \A y \in S : x <= y
  BY <1>3
<1> QED BY <1>4 DEF Min

\* The least element is known by what it is.
LEMMA LeastIs ==
    ASSUME NEW S \in SUBSET Nat, NEW i \in S, \A j \in S : i <= j
    PROVE  Min(S) = i
<1>1. Min(S) \in S /\ Min(S) <= i
  BY Least
<1>2. i <= Min(S) /\ Min(S) \in Nat /\ i \in Nat
  BY <1>1
<1> QED BY <1>1, <1>2

\* A list is a sequence of containers over 1..Len.
LEMMA ListIs ==
    ASSUME NEW c, IsList(c)
    PROVE  /\ Len(c) \in Nat /\ DOMAIN c = 1..Len(c)
           /\ IsFiniteSet(DOMAIN c) /\ Cardinality(DOMAIN c) = Len(c)
<1>0. PICK S : c \in Seq(S)
  BY Zenon DEF IsList
<1>1. Len(c) \in Nat /\ DOMAIN c = 1..Len(c)
  BY <1>0
<1>2. PICK n \in Nat : n = Len(c) /\ DOMAIN c = 1..n
  BY <1>1
<1>3. IsFiniteSet(1..n) /\ Cardinality(1..n) = IF 1 > n THEN 0 ELSE n - 1 + 1
  BY FS_Interval
<1>4. Cardinality(1..n) = n
  BY <1>3
<1> QED BY <1>2, <1>3, <1>4

\* Less is a strict total order of the places of a list.
LEMMA LessIs ==
    ASSUME NEW c, IsList(c)
    PROVE  /\ \A i, j \in DOMAIN c : i # j => Less(c, i, j) \/ Less(c, j, i)
           /\ \A i, j \in DOMAIN c : ~ (Less(c, i, j) /\ Less(c, j, i))
           /\ \A i, j, k \in DOMAIN c :
                Less(c, i, j) /\ Less(c, j, k) => Less(c, i, k)
<1>1. DOMAIN c \subseteq Nat
  BY ListIs
<1>2. \A i \in DOMAIN c : Order(c[i].name) \in Nat
  BY DEF Order
<1> QED BY <1>1, <1>2 DEF Less

\* Ahead(c, i) is what goes before the i-th container; Place counts it.
Ahead(c, i) == {j \in DOMAIN c : Less(c, j, i)}

\* Places follow the order, and each is taken once.
LEMMA PlaceIs ==
    ASSUME NEW c, IsList(c)
    PROVE  /\ \A i \in DOMAIN c : Place(c, i) \in DOMAIN c
           /\ \A i, j \in DOMAIN c : Less(c, i, j) <=> Place(c, i) < Place(c, j)
           /\ \A k \in DOMAIN c : \E i \in DOMAIN c : Place(c, i) = k
<1> DEFINE D == DOMAIN c
<1>0. Len(c) \in Nat /\ D = 1..Len(c) /\ IsFiniteSet(D) /\ Cardinality(D) = Len(c)
  BY ListIs
<1>1. \A i \in D : /\ IsFiniteSet(Ahead(c, i)) /\ Cardinality(Ahead(c, i)) \in Nat
                   /\ Place(c, i) = Cardinality(Ahead(c, i)) + 1
  <2> TAKE i \in D
  <2>1. Ahead(c, i) \in SUBSET D
    BY DEF Ahead
  <2>2. IsFiniteSet(Ahead(c, i))
    BY <1>0, <2>1, FS_Subset
  <2> QED BY <2>2, FS_CardinalityType DEF Place, Ahead
<1>2. ASSUME NEW i \in D, NEW j \in D, Less(c, i, j)
      PROVE  Place(c, i) < Place(c, j)
  <2>1. Ahead(c, i) \in SUBSET Ahead(c, j)
    BY <1>2, LessIs DEF Ahead
  <2>2. i \in Ahead(c, j) /\ i \notin Ahead(c, i)
    BY <1>2, LessIs DEF Ahead
  <2>3. Cardinality(Ahead(c, i)) <= Cardinality(Ahead(c, j))
    BY <1>1, <2>1, FS_Subset
  <2>4. Cardinality(Ahead(c, i)) # Cardinality(Ahead(c, j))
    BY <1>1, <2>1, <2>2, FS_Subset
  <2> QED BY <1>1, <2>3, <2>4
<1>3. ASSUME NEW i \in D
      PROVE  Place(c, i) \in D
  <2>1. Ahead(c, i) \in SUBSET D /\ i \notin Ahead(c, i)
    BY LessIs DEF Ahead
  <2>2. Cardinality(Ahead(c, i)) <= Cardinality(D)
    BY <1>0, <2>1, FS_Subset
  <2>3. Cardinality(Ahead(c, i)) # Cardinality(D)
    BY <1>0, <2>1, FS_Subset
  <2> QED BY <1>0, <1>1, <2>2, <2>3
<1>4. ASSUME NEW i \in D, NEW j \in D
      PROVE  Less(c, i, j) <=> Place(c, i) < Place(c, j)
  <2>1. Place(c, i) \in Nat /\ Place(c, j) \in Nat
    BY <1>0, <1>3
  <2>2. CASE i = j
    BY <2>1, <2>2, LessIs
  <2>3. CASE i # j
    <3>1. CASE Less(c, i, j)
      BY <1>2, <3>1
    <3>2. CASE Less(c, j, i)
      <4>1. Place(c, j) < Place(c, i) /\ ~ Less(c, i, j)
        BY <1>2, <3>2, LessIs
      <4> QED BY <2>1, <4>1
    <3> QED BY <2>3, <3>1, <3>2, LessIs
  <2> QED BY <2>2, <2>3
<1>5. ASSUME NEW k \in D
      PROVE  \E i \in D : Place(c, i) = k
  <2> DEFINE f == [i \in D |-> Place(c, i)]
  <2>1. f \in [D -> D]
    BY <1>3
  <2>2. \A i, j \in D : i # j => f[i] # f[j]
    <3> TAKE i \in D, j \in D
    <3> HAVE i # j
    <3>1. Place(c, i) < Place(c, j) \/ Place(c, j) < Place(c, i)
      BY <1>2, LessIs
    <3>2. Place(c, i) \in Nat /\ Place(c, j) \in Nat
      BY <1>0, <1>3
    <3> QED BY <3>1, <3>2
  <2> HIDE DEF f
  <2>3. f \in Injection(D, D)
    BY <2>1, <2>2 DEF Injection, IsInjective
  <2>4. f \in Surjection(D, D)
    BY <1>0, <2>3, FS_Injection
  <2>5. \E i \in D : f[i] = k
    BY <2>4 DEF Surjection
  <2> QED BY <2>5 DEF f
<1> QED BY <1>3, <1>4, <1>5

\* The container that is sorted to place k.
From(c, k) == CHOOSE i \in DOMAIN c : Place(c, i) = k

\* Sorting rearranges the list in the order of Less.
LEMMA SortedIs ==
    ASSUME NEW c, IsList(c)
    PROVE  /\ IsList(Sorted(c)) /\ Len(Sorted(c)) = Len(c)
           /\ DOMAIN Sorted(c) = DOMAIN c
           /\ \A k \in DOMAIN c : /\ From(c, k) \in DOMAIN c
                                  /\ Place(c, From(c, k)) = k
                                  /\ Sorted(c)[k] = c[From(c, k)]
           /\ \A i \in DOMAIN c : From(c, Place(c, i)) = i
           /\ \A i, j \in DOMAIN c :
                i < j <=> Less(c, From(c, i), From(c, j))
<1>0. Len(c) \in Nat /\ DOMAIN c = 1..Len(c)
  BY ListIs
<1>1. \A k \in DOMAIN c : From(c, k) \in DOMAIN c /\ Place(c, From(c, k)) = k
  BY PlaceIs DEF From
<1>2. Sorted(c) = [k \in DOMAIN c |-> c[From(c, k)]]
  BY DEF Sorted, From
<1> DEFINE T == {Sorted(c)[k] : k \in DOMAIN Sorted(c)}
<1>3. Sorted(c) \in Seq(T) /\ Len(Sorted(c)) = Len(c) /\ DOMAIN Sorted(c) = DOMAIN c
  <2>1. DOMAIN Sorted(c) = 1..Len(c)
    BY <1>0, <1>2
  <2>2. Sorted(c) \in [1..Len(c) -> T]
    BY <1>2, <2>1
  <2>3. Sorted(c) \in Seq(T)
    BY <1>0, <2>2
  <2> QED BY <1>0, <2>1, <2>3
<1>4. \A k \in DOMAIN c : IsContainer(Sorted(c)[k])
  BY <1>1, <1>2 DEF IsList
<1>5. IsList(Sorted(c))
  BY <1>3, <1>4 DEF IsList
<1>6. \A i \in DOMAIN c : From(c, Place(c, i)) = i
  <2> TAKE i \in DOMAIN c
  <2>1. PICK j : j = From(c, Place(c, i))
    OBVIOUS
  <2>2. Place(c, i) \in DOMAIN c /\ Place(c, i) \in Nat
    BY <1>0, PlaceIs
  <2>3. j \in DOMAIN c /\ Place(c, j) = Place(c, i)
    BY <1>1, <2>1, <2>2
  <2>4. ~ Less(c, i, j) /\ ~ Less(c, j, i)
    BY <2>2, <2>3, PlaceIs
  <2> QED BY <2>1, <2>3, <2>4, LessIs
<1>7. \A i, j \in DOMAIN c : i < j <=> Less(c, From(c, i), From(c, j))
  BY <1>1, PlaceIs
<1> QED BY <1>1, <1>2, <1>3, <1>5, <1>6, <1>7

\* Sorting a sorted list changes nothing.
LEMMA SortedTwice ==
    ASSUME NEW c, IsList(c)
    PROVE  Sorted(Sorted(c)) = Sorted(c)
<1> DEFINE D == DOMAIN c
<1>0. Len(c) \in Nat /\ D = 1..Len(c)
  BY ListIs
<1>1. PICK d : d = Sorted(c)
  OBVIOUS
<1>2. IsList(d) /\ DOMAIN d = D
  BY <1>1, SortedIs
<1>3. ASSUME NEW i \in D, NEW j \in D, i < j
      PROVE  Less(d, i, j)
  <2>1. Less(c, From(c, i), From(c, j))
    BY <1>3, SortedIs
  <2>2. d[i] = c[From(c, i)] /\ d[j] = c[From(c, j)]
    BY <1>1, SortedIs
  <2> QED BY <1>3, <2>1, <2>2 DEF Less
<1>4. ASSUME NEW i \in D
      PROVE  Place(d, i) = i
  <2>1. \A j \in D : Less(d, j, i) <=> j < i
    <3> TAKE j \in D
    <3>1. CASE j < i
      BY <1>3, <3>1
    <3>2. CASE j = i
      <4>1. ~ Less(d, i, i)
        BY <1>2, LessIs
      <4> QED BY <1>0, <3>2, <4>1
    <3>3. CASE i < j
      <4>1. Less(d, i, j)
        BY <1>3, <3>3
      <4>2. ~ Less(d, j, i)
        BY <1>2, <4>1, LessIs
      <4> QED BY <1>0, <3>3, <4>2
    <3> QED BY <1>0, <3>1, <3>2, <3>3
  <2>2. {j \in DOMAIN d : Less(d, j, i)} = 1..(i - 1)
    BY <1>0, <1>2, <2>1
  <2>3. i \in Nat /\ i >= 1
    BY <1>0
  <2>4. Cardinality(1..(i - 1)) = i - 1
    BY <2>3, FS_Interval
  <2>5. Place(d, i) = Cardinality(1..(i - 1)) + 1
    BY <2>2, Zenon DEF Place
  <2> QED BY <2>3, <2>4, <2>5
<1>5. \A k \in D : From(d, k) = k
  BY <1>2, <1>4, SortedIs
<1>6. Sorted(d) = [k \in D |-> d[k]]
  <2>1. Sorted(d) = [k \in D |-> d[From(d, k)]]
    BY <1>2, Zenon DEF Sorted, From
  <2> QED BY <1>5, <2>1
<1>7. d = [k \in D |-> d[k]]
  BY <1>2 DEF IsList
<1> QED BY <1>1, <1>6, <1>7

\* The pod as inferFailedReason leaves it: still a pod status, of the same
\* phase and message, and sorted once and for all.
LEMMA AfterAssessIs ==
    ASSUME NEW s, IsStatus(s)
    PROVE  /\ IsStatus(AfterAssess(s))
           /\ AfterAssess(s).phase = s.phase
           /\ AfterAssess(AfterAssess(s)) = AfterAssess(s)
<1>1. CASE ~ (s.phase = "Failed" /\ ~s.message)
  BY <1>1 DEF AfterAssess
<1>2. CASE s.phase = "Failed" /\ ~s.message
  <2>1. PICK t : t = AfterAssess(s)
    OBVIOUS
  <2>2. t = [phase |-> s.phase, message |-> s.message,
             unschedulable |-> s.unschedulable, inits |-> s.inits,
             ctrs |-> Sorted(s.ctrs)]
    BY <1>2, <2>1 DEF AfterAssess, IsStatus
  <2>3. IsStatus(t) /\ t.phase = s.phase /\ t.message = s.message
    BY <2>2, SortedIs DEF IsStatus
  <2>4. AfterAssess(t) = [phase |-> s.phase, message |-> s.message,
                          unschedulable |-> s.unschedulable, inits |-> s.inits,
                          ctrs |-> Sorted(Sorted(s.ctrs))]
    BY <1>2, <2>2 DEF AfterAssess
  <2>5. Sorted(Sorted(s.ctrs)) = Sorted(s.ctrs)
    BY SortedTwice DEF IsStatus
  <2> QED BY <2>1, <2>2, <2>3, <2>4, <2>5
<1> QED BY <1>1, <1>2

\* What a handler makes of a pod that was sorted is what it makes of the pod.
LEMMA AssessTwice ==
    ASSUME NEW s, IsStatus(s)
    PROVE  AssessNodeStatus(AfterAssess(s)) = AssessNodeStatus(s)
<1>1. CASE ~ (s.phase = "Failed" /\ ~s.message)
  BY <1>1 DEF AfterAssess
<1>2. CASE s.phase = "Failed" /\ ~s.message
  <2>1. PICK t : t = AfterAssess(s)
    OBVIOUS
  <2>2. t = [phase |-> s.phase, message |-> s.message,
             unschedulable |-> s.unschedulable, inits |-> s.inits,
             ctrs |-> Sorted(s.ctrs)]
    BY <1>2, <2>1 DEF AfterAssess, IsStatus
  <2>3. Sorted(t.ctrs) = Sorted(s.ctrs)
    BY <2>2, SortedTwice DEF IsStatus
  <2>4. t.phase = s.phase /\ t.message = s.message /\ t.inits = s.inits
    BY <2>2
  <2>5. InferFailedReason(t) = InferFailedReason(s)
    BY <2>3, <2>4, Zenon DEF InferFailedReason, InferFrom
  <2>6. AssessPhase(t) = AssessPhase(s)
    BY <1>2, <2>4, <2>5 DEF AssessPhase
  <2>7. AfterAssess(t) = t
    BY <2>1, AfterAssessIs
  <2>8. AssessNodeStatus(t) = AssessNodeStatus(s)
    BY <2>1, <2>6, <2>7, Zenon DEF AssessNodeStatus
  <2> QED BY <2>1, <2>8
<1> QED BY <1>1, <1>2

\* List e is the lists c and d in a row.
Joined(c, d, e) ==
    /\ IsList(e) /\ Len(e) = Len(c) + Len(d)
    /\ \A i \in DOMAIN c : i \in DOMAIN e /\ e[i] = c[i]
    /\ \A i \in DOMAIN d : Len(c) + i \in DOMAIN e /\ e[Len(c) + i] = d[i]
    /\ \A i \in DOMAIN e : i \in DOMAIN c \/ \E j \in DOMAIN d : i = Len(c) + j

\* Two lists are put in a row by \o.
LEMMA ConcatIs ==
    ASSUME NEW c, NEW d, IsList(c), IsList(d)
    PROVE  Joined(c, d, c \o d)
<1>1. PICK S : c \in Seq(S)
  BY Zenon DEF IsList
<1>2. PICK T : d \in Seq(T)
  BY Zenon DEF IsList
<1>3. c \in Seq(S \cup T) /\ d \in Seq(S \cup T)
  BY <1>1, <1>2
<1>4. PICK e : e = c \o d
  OBVIOUS
<1>5. /\ e \in Seq(S \cup T) /\ Len(e) = Len(c) + Len(d)
      /\ Len(c) \in Nat /\ Len(d) \in Nat
      /\ DOMAIN c = 1..Len(c) /\ DOMAIN d = 1..Len(d) /\ DOMAIN e = 1..Len(e)
  BY <1>3, <1>4
<1>6. \A i \in DOMAIN c : i \in DOMAIN e /\ e[i] = c[i]
  BY <1>3, <1>4, <1>5
<1>7. \A i \in DOMAIN d : Len(c) + i \in DOMAIN e /\ e[Len(c) + i] = d[i]
  BY <1>3, <1>4, <1>5
<1>8. \A i \in DOMAIN e : i \in DOMAIN c \/ \E j \in DOMAIN d : i = Len(c) + j
  <2> TAKE i \in DOMAIN e
  <2>1. CASE i <= Len(c)
    BY <1>5, <2>1
  <2>2. CASE i > Len(c)
    <3>1. i - Len(c) \in DOMAIN d /\ i = Len(c) + (i - Len(c))
      BY <1>5, <2>2
    <3> QED BY <3>1
  <2> QED BY <1>5, <2>1, <2>2
<1>9. \A i \in DOMAIN e : IsContainer(e[i])
  BY <1>6, <1>7, <1>8 DEF IsList
<1>10. e \in Seq({e[i] : i \in DOMAIN e})
  BY <1>5
<1>11. IsList(e)
  BY <1>9, <1>10 DEF IsList
<1>12. Joined(c, d, e)
  BY <1>5, <1>6, <1>7, <1>8, <1>11 DEF Joined
<1> QED BY <1>4, <1>12

\* Where the i-th container of the list that inferFailedReason goes through
\* comes from.
Origin(s, i) ==
    IF i \in DOMAIN s.inits THEN <<"inits", i>>
    ELSE <<"ctrs", From(s.ctrs, i - Len(s.inits))>>

\* The list is made of all containers of the pod, in the order of the ranks.
LEMMA OriginIs ==
    ASSUME NEW s, IsStatus(s)
    PROVE  LET list == s.inits \o Sorted(s.ctrs) IN
           /\ IsList(list)
           /\ \A i \in DOMAIN list : /\ Origin(s, i) \in Positions(s)
                                     /\ list[i] = At(s, Origin(s, i))
           /\ \A p \in Positions(s) : \E i \in DOMAIN list : Origin(s, i) = p
           /\ \A i, j \in DOMAIN list :
                i <= j => Ranked(s, Origin(s, i), Origin(s, j))
<1>0. PICK c, d, e : c = s.inits /\ d = s.ctrs /\ e = Sorted(d)
  OBVIOUS
<1>2. IsList(c) /\ IsList(d) /\ IsList(e) /\ DOMAIN e = DOMAIN d
  BY <1>0, SortedIs DEF IsStatus
<1>3. /\ Len(c) \in Nat /\ DOMAIN c = 1..Len(c)
      /\ Len(d) \in Nat /\ DOMAIN d = 1..Len(d)
  BY <1>2, ListIs
<1>1. PICK list : list = c \o e /\ Joined(c, e, list)
  BY <1>2, ConcatIs
<1>4. /\ IsList(list)
      /\ \A i \in DOMAIN c : i \in DOMAIN list /\ list[i] = c[i]
      /\ \A k \in DOMAIN d : Len(c) + k \in DOMAIN list /\ list[Len(c) + k] = e[k]
      /\ \A i \in DOMAIN list :
            i \in DOMAIN c \/ \E k \in DOMAIN d : i = Len(c) + k
  <2>1. Joined(c, e, list)
    BY <1>1
  <2> QED BY <1>2, <2>1, Zenon DEF Joined
<1>5. \A k \in DOMAIN d : From(d, k) \in DOMAIN d /\ e[k] = d[From(d, k)]
  BY <1>0, <1>2, SortedIs
<1>6. \A i \in DOMAIN c : Origin(s, i) = <<"inits", i>>
  BY <1>0 DEF Origin
<1>7. \A k \in DOMAIN d : Origin(s, Len(c) + k) = <<"ctrs", From(d, k)>>
  <2> TAKE k \in DOMAIN d
  <2>1. Len(c) + k \notin DOMAIN c /\ (Len(c) + k) - Len(c) = k
    BY <1>3
  <2> QED BY <1>0, <2>1 DEF Origin
<1>8. Positions(s) = {"inits"} \X DOMAIN c \cup {"ctrs"} \X DOMAIN d
  BY <1>0 DEF Positions
<1>9. /\ \A i \in DOMAIN c : At(s, <<"inits", i>>) = c[i]
      /\ \A k \in DOMAIN d : At(s, <<"ctrs", k>>) = d[k]
  BY <1>0 DEF At
<1>10. ASSUME NEW i \in DOMAIN list
       PROVE  Origin(s, i) \in Positions(s) /\ list[i] = At(s, Origin(s, i))
  <2>1. CASE i \in DOMAIN c
    BY <1>4, <1>6, <1>8, <1>9, <2>1
  <2>2. CASE \E k \in DOMAIN d : i = Len(c) + k
    BY <1>4, <1>5, <1>7, <1>8, <1>9, <2>2
  <2> QED BY <1>4, <2>1, <2>2
<1>11. ASSUME NEW p \in Positions(s)
       PROVE  \E i \in DOMAIN list : Origin(s, i) = p
  <2>1. CASE \E i \in DOMAIN c : p = <<"inits", i>>
    BY <1>4, <1>6, <2>1
  <2>2. CASE \E k \in DOMAIN d : p = <<"ctrs", k>>
    <3>1. PICK k \in DOMAIN d : p = <<"ctrs", k>>
      BY <2>2
    <3>2. Place(d, k) \in DOMAIN d /\ From(d, Place(d, k)) = k
      BY <1>2, PlaceIs, SortedIs
    <3> QED BY <1>4, <1>7, <3>1, <3>2
  <2> QED BY <1>8, <2>1, <2>2
<1>12. ASSUME NEW i \in DOMAIN c, NEW j \in DOMAIN c, i <= j
       PROVE  Ranked(s, Origin(s, i), Origin(s, j))
  BY <1>6, <1>12 DEF Ranked, Rank
<1>13. ASSUME NEW i \in DOMAIN c, NEW k \in DOMAIN d
       PROVE  Ranked(s, Origin(s, i), Origin(s, Len(c) + k))
  BY <1>6, <1>7 DEF Ranked, Rank
<1>14. ASSUME NEW k \in DOMAIN d, NEW l \in DOMAIN d, k <= l
       PROVE  Ranked(s, Origin(s, Len(c) + k), Origin(s, Len(c) + l))
  <2>1. \A m \in DOMAIN d : Rank("ctrs", At(s, <<"ctrs", m>>)) = Order(d[m].name)
    <3>1. \A ctr : Rank("ctrs", ctr) = Order(ctr.name)
      BY DEF Rank, Order
    <3> QED BY <1>9, <3>1, Zenon
  <2>2. k = l \/ Less(d, From(d, k), From(d, l))
    <3>1. \A i, j \in DOMAIN d : i < j <=> Less(d, From(d, i), From(d, j))
      BY <1>2, SortedIs
    <3> QED BY <1>3, <1>14, <3>1
  <2>3. From(d, k) \in DOMAIN d /\ From(d, l) \in DOMAIN d
    BY <1>5
  <2>4. \/ Order(d[From(d, k)].name) < Order(d[From(d, l)].name)
        \/ /\ Order(d[From(d, k)].name) = Order(d[From(d, l)].name)
           /\ From(d, k) <= From(d, l)
    BY <1>3, <2>2, <2>3 DEF Less
  <2> QED BY <1>7, <2>1, <2>3, <2>4 DEF Ranked
<1>15. ASSUME NEW i \in DOMAIN list, NEW j \in DOMAIN list, i <= j
       PROVE  Ranked(s, Origin(s, i), Origin(s, j))
  <2>1. CASE i \in DOMAIN c /\ j \in DOMAIN c
    BY <1>12, <1>15, <2>1
  <2>2. CASE i \in DOMAIN c /\ \E k \in DOMAIN d : j = Len(c) + k
    BY <1>13, <2>2
  <2>3. CASE (\E k \in DOMAIN d : i = Len(c) + k) /\ (\E k \in DOMAIN d : j = Len(c) + k)
    <3>1. PICK k \in DOMAIN d, l \in DOMAIN d : i = Len(c) + k /\ j = Len(c) + l
      BY <2>3
    <3>2. k <= l
      BY <1>3, <1>15, <3>1
    <3> QED BY <1>14, <3>1, <3>2
  <2>4. CASE (\E k \in DOMAIN d : i = Len(c) + k) /\ j \in DOMAIN c
    BY <1>3, <1>15, <2>4
  <2> QED BY <1>4, <2>1, <2>2, <2>3, <2>4
<1> QED BY <1>0, <1>1, <1>4, <1>10, <1>11, <1>15

\* No two containers have the same rank and position.
LEMMA RankedOnce ==
    ASSUME NEW s, IsStatus(s), NEW p \in Positions(s), NEW q \in Positions(s),
           Ranked(s, p, q), Ranked(s, q, p)
    PROVE  p = q
<1>1. /\ DOMAIN s.inits \subseteq Nat /\ DOMAIN s.ctrs \subseteq Nat
  BY ListIs DEF IsStatus
<1>2. /\ p = <<p[1], p[2]>> /\ p[1] \in {"inits", "ctrs"} /\ p[2] \in Nat
      /\ q = <<q[1], q[2]>> /\ q[1] \in {"inits", "ctrs"} /\ q[2] \in Nat
  BY <1>1 DEF Positions
<1>3. \A list, ctr : Rank(list, ctr) \in Nat /\ (Rank(list, ctr) = 0 <=> list = "inits")
  BY DEF Rank
<1>4. /\ Rank(p[1], At(s, p)) = Rank(q[1], At(s, q))
      /\ p[2] = q[2]
  BY <1>2, <1>3 DEF Ranked
<1>5. p[1] = q[1]
  BY <1>2, <1>3, <1>4
<1> QED BY <1>2, <1>4, <1>5

\* The loop goes past the containers that are harmless.
LEMMA IgnoredIs ==
    ASSUME NEW ctr, IsContainer(ctr)
    PROVE  Ignored(ctr) <=> Harmless(ctr)
BY DEF IsContainer, Ignored, Harmless

\* The sort, the early returns and the containers that are gone past find the
\* culprit that ranks first.
LEMMA PhaseIsReference ==
    ASSUME NEW s, IsStatus(s), ~s.message
    PROVE  InferFailedReason(s).phase = ReferencePhase(s)
<1>1. PICK list : list = s.inits \o Sorted(s.ctrs)
  OBVIOUS
<1>2. /\ IsList(list)
      /\ \A i \in DOMAIN list : /\ Origin(s, i) \in Positions(s)
                                /\ list[i] = At(s, Origin(s, i))
      /\ \A p \in Positions(s) : \E i \in DOMAIN list : Origin(s, i) = p
      /\ \A i, j \in DOMAIN list :
            i <= j => Ranked(s, Origin(s, i), Origin(s, j))
  BY <1>1, OriginIs
<1> DEFINE C == {i \in DOMAIN list : ~Ignored(list[i])}
           R == {p \in Positions(s) : ~Harmless(At(s, p))}
<1>3. \A i \in DOMAIN list : i \in C <=> Origin(s, i) \in R
  BY <1>2, IgnoredIs DEF IsList
<1>4. C = {} <=> R = {}
  BY <1>2, <1>3
<1>5. InferFailedReason(s) = IF C # {} THEN Verdict(First(list, C))
                             ELSE [phase |-> "Succeeded", message |-> NoMessage]
  BY <1>1 DEF InferFailedReason, InferFrom
<1>6. CASE C = {}
  BY <1>4, <1>5, <1>6 DEF ReferencePhase
<1>7. CASE C # {}
  <2>1. C \in SUBSET Nat
    BY <1>2, ListIs
  <2>2. PICK m : m = Min(C)
    OBVIOUS
  <2>3. m \in C /\ \A i \in C : m <= i
    BY <1>7, <2>1, <2>2, Least
  <2>4. PICK o : o = Origin(s, m)
    OBVIOUS
  <2>5. o \in R /\ \A q \in R : Ranked(s, o, q)
    <3>1. o \in R
      BY <1>3, <2>3, <2>4
    <3>2. ASSUME NEW q \in R
          PROVE  Ranked(s, o, q)
      <4>1. PICK i \in DOMAIN list : Origin(s, i) = q
        BY <1>2
      <4>2. i \in C
        BY <1>3, <4>1
      <4>3. m <= i
        BY <2>3, <4>2
      <4> QED BY <1>2, <2>3, <2>4, <4>1, <4>3
    <3> QED BY <3>1, <3>2
  <2> DEFINE p == CHOOSE p \in R : \A q \in R : Ranked(s, p, q)
  <2>6. p \in R /\ \A q \in R : Ranked(s, p, q)
    BY <2>5
  <2> HIDE DEF p
  <2>7. p = o
    BY <2>5, <2>6, RankedOnce
  <2>8. At(s, p) = list[m] /\ IsContainer(list[m])
    BY <1>2, <2>3, <2>4, <2>7 DEF IsList
  <2>9. ReferencePhase(s) =
            IF At(s, p).state = "waiting" \/ At(s, p).name \in {"init", "wait"}
            THEN "Error" ELSE "Failed"
    BY <1>4, <1>7 DEF ReferencePhase, p
  <2>10. InferFailedReason(s) = Verdict(list[m])
    BY <1>5, <1>7, <2>2 DEF First
  <2>11. \A ctr : Verdict(ctr).phase =
            IF ctr.state = "waiting" \/ ctr.name \in {"init", "wait"}
            THEN "Error" ELSE "Failed"
    BY DEF Verdict
  <2> QED BY <2>8, <2>9, <2>10, <2>11
<1> QED BY <1>6, <1>7

\* What the loop of getLatestFinishedAt does at the i-th container, given what
\* it has found before, f[i - 1].
Loop(all, f, i) ==
    IF i = 0 THEN Never
    ELSE IF all[i].state = "running" THEN Now
    ELSE IF all[i].state = "terminated" /\ all[i].finished > f[i - 1]
    THEN all[i].finished
    ELSE f[i - 1]

\* The loop is well defined: it can be run up to every position of the list.
LEMMA LoopExists ==
    ASSUME NEW all, NEW n \in Nat
    PROVE  \E f : f = [i \in 0..n |-> Loop(all, f, i)]
<1> DEFINE S == {m \in Nat : ~ \E f : f = [i \in 0..m |-> Loop(all, f, i)]}
<1>1. SUFFICES ASSUME S # {} PROVE FALSE
  OBVIOUS
<1>2. PICK m : m = Min(S)
  OBVIOUS
<1>3. m \in Nat /\ m \in S /\ \A k \in S : m <= k
  BY <1>1, <1>2, Least
<1>4. CASE m = 0
  <2> DEFINE f == [i \in 0..0 |-> Never]
  <2>1. \A i \in 0..0 : Loop(all, f, i) = Never
    BY DEF Loop
  <2>2. f = [i \in 0..0 |-> Loop(all, f, i)]
    BY <2>1
  <2> QED BY <1>3, <1>4, <2>2
<1>5. CASE m # 0
  <2>1. m - 1 \in Nat /\ m - 1 \notin S
    BY <1>3, <1>5
  <2>2. PICK g : g = [i \in 0..(m - 1) |-> Loop(all, g, i)]
    BY <2>1
  <2> DEFINE f == [i \in 0..m |-> IF i = m THEN Loop(all, g, m) ELSE g[i]]
  <2>3. \A i \in 0..m : i # 0 => f[i - 1] = g[i - 1]
    BY <1>3, <1>5
  <2>4. \A i \in 0..m : Loop(all, f, i) = Loop(all, g, i)
    <3> HIDE DEF f
    <3> QED BY <2>3 DEF Loop
  <2>5. \A i \in 0..m : i # m => g[i] = Loop(all, g, i)
    <3> TAKE i \in 0..m
    <3> HAVE i # m
    <3>1. i \in 0..(m - 1)
      BY <1>3
    <3> QED BY <2>2, <3>1
  <2>6. \A i \in 0..m : f[i] = Loop(all, f, i)
    BY <2>4, <2>5
  <2>7. f = [i \in 0..m |-> f[i]]
    OBVIOUS
  <2> HIDE DEF f
  <2>8. f = [i \in 0..m |-> Loop(all, f, i)]
    BY <2>6, <2>7
  <2> QED BY <1>3, <2>8
<1> QED BY <1>4, <1>5

\* The loop finds the latest of the times of the list's containers.
LEMMA LatestIs ==
    ASSUME NEW all, IsList(all)
    PROVE  LET times == Times({all[i] : i \in DOMAIN all}) IN
           Latest(all) = IF times = {} THEN Never ELSE Max(times)
<1> DEFINE n == Len(all)
           f == CHOOSE f : f = [i \in 0..n |-> Loop(all, f, i)]
           times == Times({all[i] : i \in DOMAIN all})
           Seen(i, t) == \E j \in 1..i :
                            \/ all[j].state = "terminated" /\ t = all[j].finished
                            \/ all[j].state = "running" /\ t = Now
           Right(i) == /\ f[i] \in 0..Now
                       /\ \A t : Seen(i, t) => t <= f[i]
                       /\ Seen(i, f[i]) \/ f[i] = Never
<1>1. n \in Nat /\ DOMAIN all = 1..n
  BY ListIs
<1>2. \A j \in 1..n : IsContainer(all[j])
  BY <1>1 DEF IsList
<1>3. f = [i \in 0..n |-> Loop(all, f, i)]
  BY <1>1, LoopExists
<1>4. Latest(all) = f[n]
  BY DEF Latest, Loop
<1> HIDE DEF f
<1>5. \A i \in 0..n : f[i] = Loop(all, f, i)
  BY <1>3
<1>6. Right(0)
  <2>1. f[0] = 0
    BY <1>1, <1>5 DEF Loop, Never
  <2>2. \A t : ~ Seen(0, t)
    OBVIOUS
  <2> QED BY <2>1, <2>2, NowAssumption DEF Never
<1>7. ASSUME NEW i \in 1..n, Right(i - 1)
      PROVE  Right(i)
  <2>0. i \in Nat /\ i # 0 /\ i - 1 \in 0..n
    BY <1>1
  <2>1. \A t : Seen(i, t) <=> \/ Seen(i - 1, t)
                              \/ all[i].state = "terminated" /\ t = all[i].finished
                              \/ all[i].state = "running" /\ t = Now
    BY <2>0
  <2>2. f[i] = IF all[i].state = "running" THEN Now
               ELSE IF all[i].state = "terminated" /\ all[i].finished > f[i - 1]
               THEN all[i].finished ELSE f[i - 1]
    BY <1>1, <1>5, <2>0 DEF Loop
  <2>3. all[i].state = "terminated" => all[i].finished \in 0..Now
    BY <1>2 DEF IsContainer
  <2>4. f[i - 1] \in 0..Now /\ Now \in Nat
    BY <1>7, NowAssumption
  <2>5. f[i] \in 0..Now
    BY <2>2, <2>3, <2>4
  <2>6. Seen(i, f[i]) \/ f[i] = Never
    BY <1>7, <2>1, <2>2
  <2>7. ASSUME NEW t, Seen(i, t) PROVE t <= f[i]
    <3> HIDE DEF Seen
    <3>1. f[i - 1] <= f[i]
      BY <2>2, <2>3, <2>4
    <3>2. CASE Seen(i - 1, t)
      <4>1. t <= f[i - 1] /\ t \in Nat
        <5>1. t \in Nat
          <6>1. PICK j \in 1..(i - 1) :
                    \/ all[j].state = "terminated" /\ t = all[j].finished
                    \/ all[j].state = "running" /\ t = Now
            BY <3>2 DEF Seen
          <6>2. j \in 1..n
            BY <1>1, <2>0
          <6> QED BY <1>2, <2>4, <6>1, <6>2 DEF IsContainer
        <5> QED BY <1>7, <3>2, <5>1
      <4> QED BY <2>4, <2>5, <3>1, <4>1
    <3>3. CASE all[i].state = "terminated" /\ t = all[i].finished
      BY <2>2, <2>3, <2>4, <3>3
    <3>4. CASE all[i].state = "running" /\ t = Now
      BY <2>2, <2>4, <3>4
    <3> QED BY <2>1, <2>7, <3>2, <3>3, <3>4
  <2> QED BY <2>5, <2>6, <2>7
<1> HIDE DEF Right
<1>8. Right(n)
  <2> DEFINE S == {i \in 0..n : ~ Right(i)}
  <2>1. SUFFICES ASSUME S # {} PROVE FALSE
    BY <1>1
  <2>2. S \in SUBSET Nat
    BY <1>1
  <2>3. PICK m : m = Min(S)
    OBVIOUS
  <2>4. m \in S /\ \A i \in S : m <= i
    BY <2>1, <2>2, <2>3, Least
  <2>5. m \in 1..n /\ m - 1 \in 0..n
    BY <1>1, <1>6, <2>4
  <2>6. m - 1 \notin S
    BY <2>4, <2>5
  <2> QED BY <1>7, <2>4, <2>5, <2>6
<1>9. \A t : Seen(n, t) <=> t \in times
  BY <1>1 DEF Times
<1> HIDE DEF Seen, times
<1>10. /\ f[n] \in Nat /\ (f[n] \in times \/ f[n] = 0)
       /\ \A t \in times : t <= f[n]
  BY <1>8, <1>9, NowAssumption DEF Right, Never
<1>11. times \subseteq Nat
  <2>1. \A t : Seen(n, t) => t \in Nat
    BY <1>2, NowAssumption DEF Seen, IsContainer
  <2> QED BY <1>9, <2>1
<1>12. CASE times = {}
  BY <1>4, <1>10, <1>12 DEF times, Never
<1>13. CASE times # {}
  <2>1. f[n] \in times
    <3>1. PICK t \in times : TRUE
      BY <1>13
    <3>2. t \in Nat /\ t <= f[n]
      BY <1>10, <1>11
    <3>3. CASE f[n] = 0
      BY <3>2, <3>3
    <3> QED BY <1>10, <3>3
  <2>2. Max(times) \in times /\ \A t \in times : Max(times) >= t
    BY <1>10, <1>11, <2>1 DEF Max
  <2>3. Max(times) = f[n]
    <3>1. Max(times) \in Nat /\ Max(times) >= f[n] /\ f[n] >= Max(times)
      BY <1>10, <1>11, <2>1, <2>2
    <3> QED BY <1>10, <3>1
  <2> QED BY <1>4, <1>13, <2>3 DEF times
<1> QED BY <1>12, <1>13

\* getLatestFinishedAt finds the latest time of the pod's containers, whether
\* the pod was sorted or not.
LEMMA FinishedIsReference ==
    ASSUME NEW s, IsStatus(s)
    PROVE  GetLatestFinishedAt(AfterAssess(s)) = ReferenceFinishedAt(s)
<1> DEFINE Ctrs == {At(s, p) : p \in Positions(s)}
<1>1. SUFFICES ASSUME NEW all, IsList(all), {all[i] : i \in DOMAIN all} = Ctrs,
                      GetLatestFinishedAt(AfterAssess(s)) = Latest(all)
               PROVE  GetLatestFinishedAt(AfterAssess(s)) = ReferenceFinishedAt(s)
  <2>1. CASE s.phase = "Failed" /\ ~s.message
    <3>1. PICK all : all = s.inits \o Sorted(s.ctrs)
      OBVIOUS
    <3>2. /\ IsList(all)
          /\ \A i \in DOMAIN all : /\ Origin(s, i) \in Positions(s)
                                   /\ all[i] = At(s, Origin(s, i))
          /\ \A p \in Positions(s) : \E i \in DOMAIN all : Origin(s, i) = p
      BY <3>1, OriginIs
    <3>3. {all[i] : i \in DOMAIN all} = Ctrs
      BY <3>2
    <3>4. AfterAssess(s).inits = s.inits /\ AfterAssess(s).ctrs = Sorted(s.ctrs)
      BY <2>1 DEF AfterAssess, IsStatus
    <3>5. GetLatestFinishedAt(AfterAssess(s)) = Latest(all)
      BY <3>1, <3>4 DEF GetLatestFinishedAt
    <3> QED BY <1>1, <3>2, <3>3, <3>5
  <2>2. CASE ~ (s.phase = "Failed" /\ ~s.message)
    <3>1. IsList(s.inits) /\ IsList(s.ctrs)
      BY DEF IsStatus
    <3>2. PICK all : all = s.inits \o s.ctrs /\ Joined(s.inits, s.ctrs, all)
      BY <3>1, ConcatIs
    <3>3. Joined(s.inits, s.ctrs, all)
      BY <3>2
    <3>4. {all[i] : i \in DOMAIN all} = Ctrs
      <4>1. ASSUME NEW i \in DOMAIN all PROVE all[i] \in Ctrs
        <5>1. CASE i \in DOMAIN s.inits
          <6>1. <<"inits", i>> \in Positions(s) /\ At(s, <<"inits", i>>) = all[i]
            BY <3>3, <5>1 DEF Joined, Positions, At
          <6> QED BY <6>1
        <5>2. CASE \E j \in DOMAIN s.ctrs : i = Len(s.inits) + j
          <6>1. PICK j \in DOMAIN s.ctrs : i = Len(s.inits) + j
            BY <5>2
          <6>2. <<"ctrs", j>> \in Positions(s) /\ At(s, <<"ctrs", j>>) = all[i]
            BY <3>3, <6>1 DEF Joined, Positions, At
          <6> QED BY <6>2
        <5> QED BY <3>3, <5>1, <5>2 DEF Joined
      <4>2. ASSUME NEW p \in Positions(s)
            PROVE  \E i \in DOMAIN all : all[i] = At(s, p)
        <5>1. CASE \E i \in DOMAIN s.inits : p = <<"inits", i>>
          <6>1. PICK i \in DOMAIN s.inits : p = <<"inits", i>>
            BY <5>1
          <6>2. i \in DOMAIN all /\ all[i] = s.inits[i]
            BY <3>3 DEF Joined
          <6>3. At(s, p) = s.inits[i]
            BY <6>1 DEF At
          <6> QED BY <6>2, <6>3
        <5>2. CASE \E j \in DOMAIN s.ctrs : p = <<"ctrs", j>>
          <6>1. PICK j \in DOMAIN s.ctrs : p = <<"ctrs", j>>
            BY <5>2
          <6>2. /\ Len(s.inits) + j \in DOMAIN all
                /\ all[Len(s.inits) + j] = s.ctrs[j]
            BY <3>3 DEF Joined
          <6>3. At(s, p) = s.ctrs[j]
            BY <6>1 DEF At
          <6> QED BY <6>2, <6>3
        <5> QED BY <5>1, <5>2 DEF Positions
      <4> QED BY <4>1, <4>2
    <3>5. AfterAssess(s) = s
      BY <2>2 DEF AfterAssess
    <3>6. GetLatestFinishedAt(AfterAssess(s)) = Latest(all)
      BY <3>2, <3>5 DEF GetLatestFinishedAt
    <3>7. IsList(all)
      BY <3>3 DEF Joined
    <3> QED BY <1>1, <3>4, <3>6, <3>7
  <2> QED BY <2>1, <2>2
<1>2. Latest(all) = IF Times(Ctrs) = {} THEN Never ELSE Max(Times(Ctrs))
  BY <1>1, LatestIs
<1> QED BY <1>1, <1>2 DEF ReferenceFinishedAt

-----------------------------------------------------------------------------
(* One informer, as values: srv is the pod on the server after n changes, c *)
(* the copy of the informer, q its queue of notifications, h its call.      *)

\* A pod there can have been up to the n-th change.
IsPodAt(p, n) == p \in Pods /\ p.uid \in 0..n /\ p.rv \in p.uid..n

\* s is a sequence, whatever its elements are.
IsSeq(s) == \E S : s \in Seq(S)

\* A node status has its four fields.
IsNode(node) ==
    node = [phase |-> node.phase, message |-> node.message,
            exitCode |-> node.exitCode, finishedAt |-> node.finishedAt]

\* The pod has ended; its node says so, and does so for good.
Over(s) == s.phase \in {"Succeeded", "Failed"}
Concludes(node) ==
    Completed(node.phase) /\ node.message # <<"unexpected phase">>

\* What a pod on the way and a pod on the server with the same resource version
\* have in common: the status, up to the sort, and the label.
Same(p, srv) ==
    srv # None /\ srv.rv = p.rv =>
        srv.selected /\ p.status \in {srv.status, AfterAssess(srv.status)}

\* The server has moved on from pod p; p is being deleted, is gone or was
\* replaced.
MovedOn(p, srv) == srv # None => srv.rv # p.rv
Gone(p, srv) == srv = None \/ srv.uid # p.uid \/ srv.deleting

\* A pod on the way is one the server had.
OnWay(p, srv, n) == IsPodAt(p, n) /\ Same(p, srv)

\* A notification tells the update handler of any pod on the way, the delete
\* handler only of one the server has moved on from.
IsNotice(e, srv, n) ==
    /\ e = [kind |-> e.kind, pod |-> e.pod]
    /\ e.kind \in {"update", "delete", "tombstone"}
    /\ OnWay(e.pod, srv, n)
    /\ e.kind # "update" => MovedOn(e.pod, srv)

\* A call publishes the node status of its pod, if there is a topic for it, and
\* asks whether the pod was deleted only if the pod has ended.
Faithful(call) ==
    LET node == AssessNodeStatus(call.pod.status) IN
    /\ call.step \in {"get", "publish"}
    /\ IsNode(call.node)
    /\ call.node.phase = node.phase /\ call.node.finishedAt = node.finishedAt
    /\ Concludes(call.node) <=> Over(call.pod.status)
    /\ call.step = "get" => Concludes(call.node)
    /\ call.step = "publish" => GetTopic(call.pod.type) # None

\* Its message is another one only when the pod is gone, and says so only then.
IsCall(call, srv, n) ==
    /\ OnWay(call.pod, srv, n) /\ Faithful(call)
    /\ call.node = AssessNodeStatus(call.pod.status) \/ MovedOn(call.pod, srv)
    /\ call.step = "get" => MovedOn(call.pod, srv)
    /\ call.node.message = POD_DELETED_MESSAGE => Gone(call.pod, srv)

\* Copy, notifications and call of an informer are what the server had.
Shape(srv, n, c, q, h) ==
    /\ c # None => OnWay(c, srv, n)
    /\ IsSeq(q) /\ \A k \in 1..Len(q) : IsNotice(q[k], srv, n)
    /\ h # None => IsCall(h, srv, n)

\* How far a pod, or what was told of it, has come: its uid, and whether it
\* has ended.
Mark(p) == [uid |-> p.uid, ended |-> IF Over(p.status) THEN 1 ELSE 0]
Told(t) == [uid |-> t.uid, ended |-> IF Final(t) THEN 1 ELSE 0]
IsMark(m, n) == m.uid \in 0..n /\ m.ended \in {0, 1}

\* Mark m is no further than mark r; than pod p, if there is one.
Leq(m, r) == m.uid < r.uid \/ (m.uid = r.uid /\ m.ended <= r.ended)
UpTo(m, p) == p # None => Leq(m, Mark(p))

\* Mark m is no further than the k-th and later notifications, the copy and
\* the server; nor than the call.
Behind(m, k, srv, c, q) ==
    /\ UpTo(m, srv) /\ UpTo(m, c)
    /\ \A j \in k..Len(q) : Leq(m, Mark(q[j].pod))
Before(m, srv, c, q, h) ==
    Behind(m, 1, srv, c, q) /\ (h # None => Leq(m, Mark(h.pod)))

\* Call, notifications, copy and server follow each other in this order.
InOrder(srv, c, q, h) ==
    /\ c # None => UpTo(Mark(c), srv)
    /\ \A k \in 1..Len(q) : Behind(Mark(q[k].pod), k, srv, c, q)
    /\ h # None => Behind(Mark(h.pod), 1, srv, c, q)

\* One change of the server: a pod keeps its uid, its end and its deletion; a
\* new one has a new uid.
Moved(p, r, n) ==
    r # None =>
        /\ IsPodAt(r, n + 1) /\ r.rv = n + 1
        /\ \/ /\ p # None /\ Leq(Mark(p), Mark(r)) /\ r.uid = p.uid
              /\ p.deleting => r.deleting
           \/ p = None /\ r.uid = n + 1

-----------------------------------------------------------------------------
(* The inductive invariant.                                                *)

\* The counters are in their bounds, and everything is of its kind.
Kinds ==
    /\ changes \in 0..MaxChanges /\ lost \in 0..MaxLost
    /\ DOMAIN run = Informers /\ DOMAIN store = Informers
    /\ DOMAIN events = Informers /\ DOMAIN handler = Informers
    /\ \A i \in Informers : run[i] \in {"off", "on", "stopped"}
    /\ server # None => IsPodAt(server, changes)
    /\ topic # None => IsMessage(topic)

\* Every informer has what the server had, in the order of the server.
ShapeInv ==
    \A i \in Informers : Shape(server, changes, store[i], events[i], handler[i])
OrderInv ==
    \A i \in Informers : InOrder(server, store[i], events[i], handler[i])

\* The last message is no further than what the informer it is by has left;
\* another informer may be far behind it.
TopicInv ==
    topic # None =>
        LET i == topic.by IN
        Before(Told(topic), server, store[i], events[i], handler[i])

Inv == Kinds /\ ShapeInv /\ OrderInv /\ TopicInv

-----------------------------------------------------------------------------
(* What the operators return.                                              *)

\* What a pod's status can be is a pod status, and stays one when sorted.
LEMMA KeptIs ==
    ASSUME NEW s \in Kept
    PROVE  /\ IsStatus(s) /\ AfterAssess(s) \in Kept
           /\ Assessed[s] = AssessNodeStatus(s) /\ Left[s] = AfterAssess(s)
<1>1. PICK t \in Statuses : s = t \/ s = AfterAssess(t)
  BY DEF Kept
<1>2. IsStatus(t)
  BY StatusesAssumption
<1>3. IsStatus(s)
  BY <1>1, <1>2, AfterAssessIs
<1>4. AfterAssess(s) = AfterAssess(t)
  BY <1>1, <1>2, AfterAssessIs
<1>5. AfterAssess(s) \in Kept
  BY <1>4 DEF Kept
<1>6. Assessed[s] = AssessNodeStatus(s) /\ Left[s] = AfterAssess(s)
  BY DEF Assessed, Left
<1> QED BY <1>3, <1>5, <1>6

\* The node concludes exactly for a pod that has ended; it never says that
\* the pod was deleted, and says that it was killed only if it has ended.
LEMMA Assessment ==
    ASSUME NEW s
    PROVE  LET node == AssessNodeStatus(s) IN
           /\ IsNode(node)
           /\ Concludes(node) <=> Over(s)
           /\ node.message # POD_DELETED_MESSAGE
           /\ node.message = EXIT_CODE_143_ERROR => Over(s)
<1> DEFINE node == AssessNodeStatus(s)
           a == AssessPhase(s)
<1>1. node.phase = a.phase /\ node.message = a.message /\ IsNode(node)
  BY DEF AssessNodeStatus, IsNode
<1>2. a.message # POD_DELETED_MESSAGE
  BY DEF AssessPhase, POD_DELETED_MESSAGE, GetPendingReason, NoMessage,
         InferFailedReason, InferFrom, Verdict, ExitMessage
<1>3. ASSUME s.phase # "Failed", s.phase # "Succeeded"
      PROVE  /\ ~Completed(a.phase) \/ a.message = <<"unexpected phase">>
             /\ a.message # EXIT_CODE_143_ERROR
  BY <1>3 DEF AssessPhase, GetPendingReason, NoMessage, Completed,
              EXIT_CODE_143_ERROR
<1>4. ASSUME s.phase = "Succeeded"
      PROVE  Completed(a.phase) /\ a.message # <<"unexpected phase">>
  BY <1>4 DEF AssessPhase, NoMessage, Completed
<1>5. ASSUME s.phase = "Failed"
      PROVE  Completed(a.phase) /\ a.message # <<"unexpected phase">>
  BY <1>5 DEF AssessPhase, NoMessage, Completed, InferFailedReason, InferFrom,
              Verdict, ExitMessage
<1> HIDE DEF node, a
<1>6. Concludes(node) <=> Over(s)
  BY <1>1, <1>3, <1>4, <1>5 DEF Concludes, Over
<1>7. node.message = EXIT_CODE_143_ERROR => Over(s)
  BY <1>1, <1>3 DEF Over
<1> QED BY <1>1, <1>2, <1>6, <1>7 DEF node

\* The phases a node status can have.
LEMMA NodePhase ==
    ASSUME NEW s
    PROVE  AssessNodeStatus(s).phase
                \in {"Pending", "Running", "Succeeded", "Failed", "Error"}
<1>1. AssessNodeStatus(s).phase = AssessPhase(s).phase
  BY DEF AssessNodeStatus
<1>2. InferFailedReason(s).phase \in {"Succeeded", "Failed", "Error"}
  BY DEF InferFailedReason, InferFrom, Verdict
<1>3. AssessPhase(s).phase
            \in {"Pending", "Running", "Succeeded", "Failed", "Error"}
  BY <1>2 DEF AssessPhase
<1> QED BY <1>1, <1>3

\* A pod can get another status, resource version, deletion mark or label, and
\* is otherwise the same.
LEMMA PodsIs ==
    ASSUME NEW p \in Pods
    PROVE  /\ \A s \in Kept : LET r == [p EXCEPT !.status = s] IN
                /\ r \in Pods /\ r.uid = p.uid /\ r.rv = p.rv /\ r.status = s
                /\ r.deleting = p.deleting
           /\ \A n \in Nat : LET r == [p EXCEPT !.rv = n] IN
                /\ r \in Pods /\ r.uid = p.uid /\ r.rv = n
                /\ r.status = p.status /\ r.deleting = p.deleting
           /\ \A b \in BOOLEAN : LET r == [p EXCEPT !.deleting = b] IN
                /\ r \in Pods /\ r.uid = p.uid /\ r.status = p.status
                /\ r.deleting = b
           /\ \A b \in BOOLEAN : LET r == [p EXCEPT !.selected = b] IN
                /\ r \in Pods /\ r.uid = p.uid /\ r.status = p.status
                /\ r.deleting = p.deleting
<1>1. \A s \in Kept : LET r == [p EXCEPT !.status = s] IN
        /\ r \in Pods /\ r.uid = p.uid /\ r.rv = p.rv /\ r.status = s
        /\ r.deleting = p.deleting
  BY DEF Pods
<1>2. \A n \in Nat : LET r == [p EXCEPT !.rv = n] IN
        /\ r \in Pods /\ r.uid = p.uid /\ r.rv = n
        /\ r.status = p.status /\ r.deleting = p.deleting
  BY DEF Pods
<1>3. \A b \in BOOLEAN : LET r == [p EXCEPT !.deleting = b] IN
        /\ r \in Pods /\ r.uid = p.uid /\ r.status = p.status /\ r.deleting = b
  BY DEF Pods
<1>4. \A b \in BOOLEAN : LET r == [p EXCEPT !.selected = b] IN
        /\ r \in Pods /\ r.uid = p.uid /\ r.status = p.status
        /\ r.deleting = p.deleting
  BY DEF Pods
<1> QED BY <1>1, <1>2, <1>3, <1>4, Zenon

\* A new pod.
LEMMA PodIs ==
    ASSUME NEW n \in Nat, NEW type \in Types, NEW s \in Statuses
    PROVE  Pod(n, type, s) \in Pods /\ Pod(n, type, s).rv = n
           /\ Pod(n, type, s).uid = n
<1>1. s \in Kept
  BY DEF Kept
<1>2. \A b, c \in BOOLEAN : [uid |-> n, rv |-> n, type |-> type, status |-> s,
                             deleting |-> b, selected |-> c] \in Pods
  BY <1>1 DEF Pods
<1>3. TRUE \in BOOLEAN /\ FALSE \in BOOLEAN
  OBVIOUS
<1>4. Pod(n, type, s) = [uid |-> n, rv |-> n, type |-> type, status |-> s,
                         deleting |-> FALSE, selected |-> TRUE]
  BY Zenon DEF Pod
<1>5. Pod(n, type, s) \in Pods
  BY <1>2, <1>3, <1>4, Zenon
<1>6. Pod(n, type, s).rv = n /\ Pod(n, type, s).uid = n
  BY DEF Pod
<1> QED BY <1>5, <1>6

\* Sorting a pod on the way leaves it one, with its resource version and mark.
LEMMA TouchedIs ==
    ASSUME NEW srv, NEW n \in Nat, srv # None => IsPodAt(srv, n),
           NEW p, OnWay(p, srv, n), NEW x
    PROVE  /\ OnWay(Touched(p, x), srv, n) /\ Touched(p, x).rv = p.rv
           /\ Mark(Touched(p, x)) = Mark(p)
<1>1. CASE Touched(p, x) = p
  BY <1>1
<1>2. CASE Touched(p, x) # p
  <2>1. p \in Pods /\ p.uid \in 0..n /\ p.rv \in p.uid..n /\ Same(p, srv)
    BY DEF OnWay, IsPodAt
  <2>2. p.status \in Kept
    BY <2>1 DEF Pods
  <2>3. PICK t : t = AfterAssess(p.status)
    OBVIOUS
  <2>4. t \in Kept /\ IsStatus(p.status) /\ Left[p.status] = t
    BY <2>2, <2>3, KeptIs
  <2>5. PICK r : r = [p EXCEPT !.status = t]
    OBVIOUS
  <2>6. Touched(p, x) = r
    <3>1. Touched(p, x) = [p EXCEPT !.status = Left[p.status]]
      BY <1>2, <2>1 DEF Touched, Pods
    <3> QED BY <2>4, <2>5, <3>1
  <2>7. r \in Pods /\ r.uid = p.uid /\ r.rv = p.rv /\ r.status = t
    BY <2>1, <2>4, <2>5, PodsIs
  <2>8. IsPodAt(r, n)
    BY <2>1, <2>7 DEF IsPodAt
  <2>9. Same(r, srv)
    <3> SUFFICES ASSUME srv # None, srv.rv = p.rv
                 PROVE  /\ srv.selected
                        /\ t \in {srv.status, AfterAssess(srv.status)}
      BY <2>7 DEF Same
    <3>1. srv.selected /\ p.status \in {srv.status, AfterAssess(srv.status)}
      BY <2>1 DEF Same
    <3>2. IsStatus(srv.status)
      <4>1. srv.status \in Kept
        BY DEF IsPodAt, Pods
      <4> QED BY <4>1, KeptIs
    <3>3. t = AfterAssess(srv.status)
      BY <2>3, <3>1, <3>2, AfterAssessIs
    <3> QED BY <3>1, <3>3
  <2>10. t.phase = p.status.phase
    BY <2>3, <2>4, AfterAssessIs
  <2>11. Mark(r) = Mark(p)
    BY <2>7, <2>10 DEF Mark, Over
  <2> QED BY <2>6, <2>7, <2>8, <2>9, <2>11 DEF OnWay
<1> QED BY <1>1, <1>2

\* A function over 1..l is a sequence.
LEMMA SeqIs ==
    ASSUME NEW l \in Nat, NEW f, DOMAIN f = 1..l, f = [i \in 1..l |-> f[i]]
    PROVE  IsSeq(f) /\ Len(f) = l
<1> DEFINE S == {f[i] : i \in 1..l}
<1>1. f \in [1..l -> S]
  OBVIOUS
<1> HIDE DEF S
<1>2. f \in Seq(S)
  BY <1>1
<1> QED BY <1>2 DEF IsSeq

\* Appending and dropping, for sequences of anything.
LEMMA AppendIs ==
    ASSUME NEW s, IsSeq(s), NEW e
    PROVE  /\ IsSeq(Append(s, e)) /\ Len(s) \in Nat
           /\ Len(Append(s, e)) = Len(s) + 1
           /\ Append(s, e)[Len(s) + 1] = e
           /\ \A i \in 1..Len(s) : Append(s, e)[i] = s[i]
<1>1. PICK S : s \in Seq(S)
  BY DEF IsSeq
<1>2. s \in Seq(S \cup {e})
  BY <1>1
<1>3. Append(s, e) \in Seq(S \cup {e})
  BY <1>2
<1> QED BY <1>2, <1>3 DEF IsSeq

\* The next notification and the ones behind it.
LEMMA TailIs ==
    ASSUME NEW s, IsSeq(s), s # << >>
    PROVE  /\ Len(s) \in Nat /\ Len(s) > 0 /\ Head(s) = s[1]
           /\ DOMAIN Tail(s) = 1..(Len(s) - 1)
           /\ \A i \in 1..(Len(s) - 1) : Tail(s)[i] = s[i + 1]
<1>1. PICK S : s \in Seq(S)
  BY DEF IsSeq
<1> QED BY <1>1

\* The notifications a listener takes before it notices the stop.
LEMMA PrefixIs ==
    ASSUME NEW s, IsSeq(s), NEW n \in 0..Len(s)
    PROVE  /\ IsSeq(SubSeq(s, 1, n)) /\ Len(s) \in Nat
           /\ Len(SubSeq(s, 1, n)) = n
           /\ \A i \in 1..n : SubSeq(s, 1, n)[i] = s[i]
<1>1. PICK S : s \in Seq(S)
  BY DEF IsSeq
<1>2. Len(s) \in Nat /\ \A i \in 1..Len(s) : s[i] \in S
  BY <1>1
<1>3. SubSeq(s, 1, n) = [i \in 1..n |-> s[i]]
  BY <1>2, SMT
<1>4. SubSeq(s, 1, n) \in Seq(S) /\ Len(SubSeq(s, 1, n)) = n
  BY <1>2, <1>3
<1> QED BY <1>2, <1>3, <1>4 DEF IsSeq

-----------------------------------------------------------------------------
(* The order of marks.                                                     *)

\* A pod has a mark, of which it is no further.
LEMMA MarkIs ==
    ASSUME NEW n \in Nat, NEW p, IsPodAt(p, n)
    PROVE  /\ IsMark(Mark(p), n) /\ Leq(Mark(p), Mark(p))
           /\ Mark(p).uid = p.uid /\ p.uid \in Nat
  BY DEF IsPodAt, IsMark, Mark, Leq

\* The order is transitive.
LEMMA LeqTrans ==
    ASSUME NEW n \in Nat, NEW l, NEW m, NEW r,
           IsMark(l, n), IsMark(m, n), IsMark(r, n), Leq(l, m), Leq(m, r)
    PROVE  Leq(l, r)
  BY DEF IsMark, Leq

\* Everything an informer has is marked.
LEMMA Marks ==
    ASSUME NEW srv, NEW n \in Nat, NEW c, NEW q, NEW h, Shape(srv, n, c, q, h)
    PROVE  /\ Len(q) \in Nat
           /\ c # None => IsMark(Mark(c), n)
           /\ \A k \in 1..Len(q) : IsMark(Mark(q[k].pod), n)
           /\ h # None => IsMark(Mark(h.pod), n)
<1>1. Len(q) \in Nat
  BY DEF Shape, IsSeq
<1>2. \A p : OnWay(p, srv, n) => IsMark(Mark(p), n)
  BY MarkIs DEF OnWay
<1> QED BY <1>1, <1>2 DEF Shape, IsNotice, IsCall

-----------------------------------------------------------------------------
(* What a step leaves of one informer.                                     *)

\* A change of the server moves on from every pod on the way, and what is no
\* further than the old pod is no further than the new one.
LEMMA ServerMoves ==
    ASSUME NEW srv, NEW n \in Nat, srv # None => IsPodAt(srv, n),
           NEW s2, Moved(srv, s2, n),
           NEW c, NEW q, NEW h, Shape(srv, n, c, q, h), InOrder(srv, c, q, h)
    PROVE  /\ Shape(s2, n + 1, c, q, h) /\ InOrder(s2, c, q, h)
           /\ \A m : IsMark(m, n) /\ Before(m, srv, c, q, h)
                        => Before(m, s2, c, q, h)
<1>1. ASSUME NEW p, IsPodAt(p, n)
      PROVE  /\ IsPodAt(p, n + 1) /\ MovedOn(p, s2) /\ Same(p, s2)
             /\ Gone(p, srv) => Gone(p, s2)
  <2>1. p \in Pods /\ p.uid \in 0..n /\ p.rv \in p.uid..n
    BY <1>1 DEF IsPodAt
  <2>2. IsPodAt(p, n + 1)
    BY <2>1 DEF IsPodAt
  <2>3. s2 # None => s2.rv # p.rv
    BY <2>1 DEF Moved
  <2>4. Gone(p, srv) => Gone(p, s2)
    BY <2>1 DEF Gone, Moved
  <2> QED BY <2>2, <2>3, <2>4 DEF MovedOn, Same
<1>2. \A e : IsNotice(e, srv, n) => IsNotice(e, s2, n + 1)
  BY <1>1 DEF IsNotice, OnWay
<1>3. \A call : IsCall(call, srv, n) => IsCall(call, s2, n + 1)
  BY <1>1 DEF IsCall, OnWay
<1>4. Shape(s2, n + 1, c, q, h)
  BY <1>1, <1>2, <1>3 DEF Shape, OnWay
<1>5. ASSUME NEW m, IsMark(m, n), UpTo(m, srv)
      PROVE  UpTo(m, s2)
  <2> SUFFICES ASSUME s2 # None PROVE Leq(m, Mark(s2))
    BY DEF UpTo
  <2>1. IsMark(Mark(s2), n + 1) /\ Mark(s2).uid = s2.uid /\ n + 1 \in Nat
    BY MarkIs DEF Moved
  <2>2. IsMark(m, n + 1)
    BY <1>5 DEF IsMark
  <2>3. CASE srv # None
    <3>1. Leq(m, Mark(srv)) /\ Leq(Mark(srv), Mark(s2))
      BY <1>5, <2>3 DEF UpTo, Moved
    <3>2. IsMark(Mark(srv), n + 1)
      BY <2>3, MarkIs DEF IsMark
    <3> QED BY <2>1, <2>2, <3>1, <3>2, LeqTrans
  <2>4. CASE srv = None
    <3>1. s2.uid = n + 1
      BY <2>4 DEF Moved
    <3> QED BY <1>5, <2>1, <3>1 DEF IsMark, Leq
  <2> QED BY <2>3, <2>4
<1>6. \A m, k : IsMark(m, n) /\ Behind(m, k, srv, c, q) => Behind(m, k, s2, c, q)
  BY <1>5 DEF Behind
<1>7. InOrder(s2, c, q, h)
  BY <1>5, <1>6, Marks DEF InOrder
<1> QED BY <1>4, <1>6, <1>7 DEF Before

\* Copy c2 and queue q2 of an informer that had c and q: it takes the pod of the
\* server, or none, for its copy, or queues a notification of the server's pod
\* or of the copy.
Follows(srv, n, c, q, c2, q2) ==
    /\ c2 \in {None, srv, c} /\ (c2 # None => OnWay(c2, srv, n))
    /\ \/ q2 = q /\ c2 \in {None, srv}
       \/ \E e : /\ q2 = Append(q, e) /\ IsNotice(e, srv, n)
                 /\ \/ e.pod = srv /\ srv # None /\ c2 = srv
                    \/ e.pod = c /\ c # None /\ c2 \in {None, c}

\* The notification is queued behind everything else.
LEMMA Queued ==
    ASSUME NEW srv, NEW n \in Nat, srv # None => IsPodAt(srv, n),
           NEW c, NEW q, NEW h, Shape(srv, n, c, q, h), InOrder(srv, c, q, h),
           NEW c2, NEW q2, Follows(srv, n, c, q, c2, q2)
    PROVE  /\ Shape(srv, n, c2, q2, h) /\ InOrder(srv, c2, q2, h)
           /\ \A m : Before(m, srv, c, q, h) => Before(m, srv, c2, q2, h)
<1>1. \A m : UpTo(m, srv) /\ UpTo(m, c) => UpTo(m, c2)
  BY DEF UpTo, Follows
<1>2. c2 # None => UpTo(Mark(c2), srv)
  <2>1. CASE c2 = srv
    BY <2>1, MarkIs DEF UpTo
  <2>2. CASE c2 = c
    BY <2>2 DEF InOrder
  <2> QED BY <2>1, <2>2 DEF Follows
<1>3. CASE q2 = q
  <2>1. \A m, k : Behind(m, k, srv, c, q) => Behind(m, k, srv, c2, q2)
    BY <1>1, <1>3 DEF Behind
  <2>2. Shape(srv, n, c2, q2, h)
    BY <1>3 DEF Shape, Follows
  <2>3. InOrder(srv, c2, q2, h)
    BY <1>2, <1>3, <2>1 DEF InOrder
  <2> QED BY <2>1, <2>2, <2>3 DEF Before
<1>4. CASE q2 # q
  <2>1. PICK e : /\ q2 = Append(q, e) /\ IsNotice(e, srv, n)
                 /\ \/ e.pod = srv /\ srv # None /\ c2 = srv
                    \/ e.pod = c /\ c # None /\ c2 \in {None, c}
    BY <1>4 DEF Follows
  <2> DEFINE l == Len(q) + 1
  <2>2. /\ IsSeq(q2) /\ Len(q) \in Nat /\ Len(q2) = l /\ q2[l] = e
        /\ \A j \in 1..Len(q) : q2[j] = q[j]
    BY <2>1, AppendIs DEF Shape
  <2>3. \A k \in 1..Len(q2) : k \in 1..Len(q) \/ k = l
    BY <2>2
  <2>4. Shape(srv, n, c2, q2, h)
    BY <2>1, <2>2, <2>3 DEF Shape, Follows
  <2>5. ASSUME NEW m, NEW k \in Nat \ {0}, Behind(m, k, srv, c, q)
        PROVE  Behind(m, k, srv, c2, q2)
    <3>1. UpTo(m, srv) /\ UpTo(m, c2) /\ Leq(m, Mark(e.pod))
      BY <1>1, <2>1, <2>5 DEF Behind, UpTo
    <3>2. ASSUME NEW j \in k..Len(q2) PROVE Leq(m, Mark(q2[j].pod))
      <4>1. (j \in k..Len(q) /\ j \in 1..Len(q)) \/ j = l
        BY <2>2
      <4> QED BY <2>2, <2>5, <3>1, <4>1 DEF Behind
    <3> QED BY <3>1, <3>2 DEF Behind
  <2>6. ASSUME NEW k \in 1..Len(q2)
        PROVE  Behind(Mark(q2[k].pod), k, srv, c2, q2)
    <3>1. CASE k \in 1..Len(q)
      BY <2>2, <2>5, <3>1 DEF InOrder
    <3>2. CASE k = l
      <4>1. PICK m : m = Mark(e.pod)
        OBVIOUS
      <4>2. Leq(m, m)
        BY <2>1, <4>1, MarkIs DEF IsNotice, OnWay
      <4>3. UpTo(m, srv) /\ UpTo(m, c2)
        BY <2>1, <4>1, <4>2 DEF UpTo, InOrder
      <4>4. \A j \in k..Len(q2) : Leq(m, Mark(q2[j].pod))
        BY <2>2, <3>2, <4>1, <4>2
      <4> QED BY <2>2, <3>2, <4>1, <4>3, <4>4 DEF Behind
    <3> QED BY <2>3, <3>1, <3>2
  <2>7. \A m : Behind(m, 1, srv, c, q) => Behind(m, 1, srv, c2, q2)
    BY <2>5
  <2>8. InOrder(srv, c2, q2, h)
    BY <1>2, <2>6, <2>7 DEF InOrder
  <2> QED BY <2>4, <2>7, <2>8 DEF Before
<1> QED BY <1>3, <1>4

\* Of a stopped informer's notifications the first ones remain.
Prefix(q2, q) == \E l \in 0..Len(q) : q2 = SubSeq(q, 1, l)
LEMMA CutOff ==
    ASSUME NEW srv, NEW n \in Nat, NEW c, NEW q, NEW h,
           Shape(srv, n, c, q, h), InOrder(srv, c, q, h),
           NEW q2, Prefix(q2, q)
    PROVE  /\ Shape(srv, n, c, q2, h) /\ InOrder(srv, c, q2, h)
           /\ \A m : Before(m, srv, c, q, h) => Before(m, srv, c, q2, h)
<1>0. PICK l \in 0..Len(q) : q2 = SubSeq(q, 1, l)
  BY DEF Prefix
<1>1. /\ IsSeq(q2) /\ Len(q) \in Nat /\ Len(q2) = l
      /\ \A k \in 1..l : q2[k] = q[k]
  BY <1>0, PrefixIs DEF Shape
<1>2. \A k \in 1..Len(q2) : k \in 1..Len(q) /\ q2[k] = q[k]
  BY <1>1
<1>3. ASSUME NEW m, NEW k \in Nat \ {0}, Behind(m, k, srv, c, q)
      PROVE  Behind(m, k, srv, c, q2)
  <2>1. \A j \in k..Len(q2) : j \in k..Len(q) /\ q2[j] = q[j]
    BY <1>1
  <2> QED BY <1>3, <2>1 DEF Behind
<1>4. Shape(srv, n, c, q2, h)
  BY <1>1, <1>2 DEF Shape
<1>5. InOrder(srv, c, q2, h)
  BY <1>2, <1>3 DEF InOrder
<1> QED BY <1>3, <1>4, <1>5 DEF Before

\* The call a handler makes of a notification publishes what it has assessed;
\* the delete handler asks only about a pod the server has moved on from.
LEMMA FirstCall ==
    ASSUME NEW srv, NEW n \in Nat, NEW e, IsNotice(e, srv, n),
           NEW call, call # None,
           \/ call = UpdateFunc(e)
           \/ call = DeleteFunc(e) /\ e.kind # "update"
    PROVE  call.pod = e.pod /\ IsCall(call, srv, n)
<1>1. PICK node : node = AssessNodeStatus(e.pod.status)
  OBVIOUS
<1>2. Assessed[e.pod.status] = node
  <2>1. e.pod.status \in Kept
    BY DEF IsNotice, OnWay, IsPodAt, Pods
  <2> QED BY <1>1, <2>1, KeptIs
<1>3. /\ IsNode(node) /\ (Concludes(node) <=> Over(e.pod.status))
      /\ node.message # POD_DELETED_MESSAGE
      /\ node.message = EXIT_CODE_143_ERROR => Over(e.pod.status)
  BY <1>1, Assessment
<1>4. \/ call = Call("publish", e.pod, node) /\ GetTopic(e.pod.type) # None
      \/ /\ call = Call("get", e.pod, node) /\ MovedOn(e.pod, srv)
         /\ node.message = EXIT_CODE_143_ERROR
  BY <1>2 DEF UpdateFunc, DeleteFunc, IsNotice
<1>5. /\ call.pod = e.pod /\ call.node = node
      /\ \/ call.step = "publish" /\ GetTopic(e.pod.type) # None
         \/ /\ call.step = "get" /\ MovedOn(e.pod, srv)
            /\ node.message = EXIT_CODE_143_ERROR
  BY <1>4 DEF Call
<1>6. Faithful(call)
  BY <1>1, <1>3, <1>5 DEF Faithful
<1> QED BY <1>1, <1>3, <1>5, <1>6 DEF IsCall, IsNotice

\* The notifications behind the oldest, after the object x has been assessed.
Rest(q, x) ==
    [k \in DOMAIN Tail(q) |-> [Tail(q)[k] EXCEPT !.pod = Touched(@, x)]]

\* The handler takes the oldest notification, and the others move up; the
\* assessment sorts the copy and them, and moves no mark.
LEMMA Handled ==
    ASSUME NEW srv, NEW n \in Nat, srv # None => IsPodAt(srv, n),
           NEW c, NEW q, NEW h, Shape(srv, n, c, q, h), InOrder(srv, c, q, h),
           q # << >>, h = None, NEW x,
           NEW c2, c2 = Touched(c, x),
           NEW q2, q2 = Rest(q, x),
           NEW h2, h2 # None => \/ h2 = UpdateFunc(Head(q))
                                \/ /\ h2 = DeleteFunc(Head(q))
                                   /\ Head(q).kind # "update"
    PROVE  /\ Shape(srv, n, c2, q2, h2) /\ InOrder(srv, c2, q2, h2)
           /\ \A m : Before(m, srv, c, q, h) => Before(m, srv, c2, q2, h2)
<1> DEFINE l == Len(q) - 1
<1>1. /\ Len(q) \in Nat /\ Len(q) > 0 /\ Head(q) = q[1]
      /\ DOMAIN Tail(q) = 1..l /\ \A i \in 1..l : Tail(q)[i] = q[i + 1]
  BY TailIs DEF Shape
<1>0. q2 = [k \in 1..l |-> [Tail(q)[k] EXCEPT !.pod = Touched(@, x)]]
  BY <1>1 DEF Rest
<1>2. l \in Nat /\ 1 \in 1..Len(q) /\ \A i \in 1..l : i + 1 \in 1..Len(q)
  BY <1>1
<1>3. /\ c2 # None => c # None /\ OnWay(c2, srv, n) /\ Mark(c2) = Mark(c)
      /\ c2 = None => c = None
  <2>1. CASE c = None
    BY <2>1 DEF Touched
  <2>2. CASE c # None
    <3>1. OnWay(c, srv, n)
      BY <2>2 DEF Shape
    <3>2. OnWay(c2, srv, n) /\ Mark(c2) = Mark(c)
      BY <3>1, TouchedIs
    <3>3. c2 # None
      BY <3>2, NoneAssumption DEF OnWay, IsPodAt
    <3> QED BY <2>2, <3>2, <3>3
  <2> QED BY <2>1, <2>2
<1>4. ASSUME NEW k \in 1..l
      PROVE  IsNotice(q2[k], srv, n) /\ Mark(q2[k].pod) = Mark(q[k + 1].pod)
  <2>1. PICK d : d = q[k + 1]
    OBVIOUS
  <2>2. IsNotice(d, srv, n)
    BY <1>2, <2>1 DEF Shape
  <2>3. q2[k] = [d EXCEPT !.pod = Touched(@, x)]
    BY <1>0, <1>1, <2>1
  <2>4. q2[k] = [kind |-> d.kind, pod |-> Touched(d.pod, x)]
    BY <2>2, <2>3 DEF IsNotice
  <2>5. PICK r : r = Touched(d.pod, x)
    OBVIOUS
  <2>6. OnWay(r, srv, n) /\ r.rv = d.pod.rv /\ Mark(r) = Mark(d.pod)
    <3>1. PICK p : p = d.pod
      OBVIOUS
    <3>2. OnWay(p, srv, n)
      BY <2>2, <3>1 DEF IsNotice
    <3>3. /\ OnWay(Touched(p, x), srv, n) /\ Touched(p, x).rv = p.rv
          /\ Mark(Touched(p, x)) = Mark(p)
      BY <3>2, TouchedIs
    <3> QED BY <2>5, <3>1, <3>3
  <2>7. PICK f : f = q2[k]
    OBVIOUS
  <2>8. f.kind = d.kind /\ f.pod = r /\ f = [kind |-> f.kind, pod |-> f.pod]
    BY <2>4, <2>5, <2>7
  <2>9. MovedOn(d.pod, srv) => MovedOn(r, srv)
    BY <2>6 DEF MovedOn
  <2>10. IsNotice(f, srv, n)
    BY <2>2, <2>6, <2>8, <2>9 DEF IsNotice
  <2> QED BY <2>1, <2>6, <2>7, <2>8, <2>10
<1>5. Len(q2) = l /\ IsSeq(q2)
  <2>1. DOMAIN q2 = 1..l /\ q2 = [i \in 1..l |-> q2[i]]
    BY <1>0
  <2> QED BY <1>2, <2>1, SeqIs
<1>6. h2 # None => h2.pod = q[1].pod /\ IsCall(h2, srv, n)
  <2> SUFFICES ASSUME h2 # None
               PROVE  h2.pod = q[1].pod /\ IsCall(h2, srv, n)
    OBVIOUS
  <2>1. PICK e : e = q[1]
    OBVIOUS
  <2>2. IsNotice(e, srv, n)
    BY <1>2, <2>1 DEF Shape
  <2>3. h2 = UpdateFunc(e) \/ (h2 = DeleteFunc(e) /\ e.kind # "update")
    BY <1>1, <2>1
  <2>4. h2.pod = e.pod /\ IsCall(h2, srv, n)
    BY <2>2, <2>3, FirstCall
  <2> QED BY <2>1, <2>4
<1>7. Shape(srv, n, c2, q2, h2)
  BY <1>3, <1>4, <1>5, <1>6 DEF Shape
<1>8. \A m : UpTo(m, c) => UpTo(m, c2)
  BY <1>3 DEF UpTo
<1>9. ASSUME NEW m, NEW k \in Nat \ {0}, Behind(m, k + 1, srv, c, q)
      PROVE  Behind(m, k, srv, c2, q2)
  <2>1. ASSUME NEW j \in k..Len(q2) PROVE Leq(m, Mark(q2[j].pod))
    <3>1. j \in 1..l /\ j + 1 \in (k + 1)..Len(q)
      BY <1>1, <1>5
    <3> QED BY <1>4, <1>9, <3>1 DEF Behind
  <2> QED BY <1>8, <1>9, <2>1 DEF Behind
<1>10. 1 \in Nat \ {0} /\ \A k \in 1..l : k \in Nat \ {0}
  BY <1>2
<1>11. \A m : Behind(m, 1, srv, c, q) => Behind(m, 1 + 1, srv, c, q)
  BY <1>1 DEF Behind
<1>12. \A m : Behind(m, 1, srv, c, q) => Behind(m, 1, srv, c2, q2)
  BY <1>9, <1>10, <1>11
<1>13. InOrder(srv, c2, q2, h2)
  <2>1. c2 # None => UpTo(Mark(c2), srv)
    BY <1>3 DEF InOrder
  <2>2. \A k \in 1..Len(q2) : Behind(Mark(q2[k].pod), k, srv, c2, q2)
    BY <1>2, <1>4, <1>5, <1>9, <1>10 DEF InOrder
  <2>3. h2 # None => Behind(Mark(h2.pod), 1, srv, c2, q2)
    BY <1>2, <1>6, <1>12 DEF InOrder
  <2> QED BY <2>1, <2>2, <2>3 DEF InOrder
<1>14. \A m : Behind(m, 1, srv, c, q) /\ h2 # None => Leq(m, Mark(h2.pod))
  BY <1>2, <1>6 DEF Behind
<1> QED BY <1>7, <1>12, <1>13, <1>14 DEF Before

\* A call ends, or goes on about the same pod.
LEMMA Called ==
    ASSUME NEW srv, NEW n \in Nat, NEW c, NEW q, NEW h,
           Shape(srv, n, c, q, h), InOrder(srv, c, q, h), h # None,
           NEW h2, h2 # None => h2.pod = h.pod /\ IsCall(h2, srv, n)
    PROVE  /\ Shape(srv, n, c, q, h2) /\ InOrder(srv, c, q, h2)
           /\ \A m : Before(m, srv, c, q, h) => Before(m, srv, c, q, h2)
           /\ Before(Mark(h.pod), srv, c, q, None)
<1>1. Shape(srv, n, c, q, h2)
  BY DEF Shape
<1>2. InOrder(srv, c, q, h2) /\ Before(Mark(h.pod), srv, c, q, None)
  BY DEF InOrder, Before
<1>3. \A m : Before(m, srv, c, q, h) => Before(m, srv, c, q, h2)
  BY DEF Before
<1> QED BY <1>1, <1>2, <1>3

-----------------------------------------------------------------------------
(* The invariant is inductive.                                             *)

\* What is known of the numbers and of informer i.
LEMMA Known ==
    ASSUME Inv
    PROVE  /\ changes \in Nat /\ (server # None => IsPodAt(server, changes))
           /\ topic # None => topic.by \in Informers /\ IsMark(Told(topic), changes)
           /\ \A i \in Informers :
                /\ Shape(server, changes, store[i], events[i], handler[i])
                /\ InOrder(server, store[i], events[i], handler[i])
<1>1. changes \in Nat /\ (server # None => IsPodAt(server, changes))
  BY BoundsAssumption DEF Inv, Kinds
<1>2. topic # None => topic.by \in Informers /\ topic.uid \in 0..changes
  BY DEF Inv, Kinds, IsMessage
<1>3. topic # None => IsMark(Told(topic), changes)
  BY <1>2 DEF IsMark, Told
<1> QED BY <1>1, <1>2, <1>3 DEF Inv, ShapeInv, OrderInv

\* A step of informer i leaves the others alone: enough that i keeps its own
\* part and the last message, if it is by i, is still no further.
LEMMA OneStep ==
    ASSUME Inv, NEW i \in Informers,
           UNCHANGED <<server, changes>>, lost' \in 0..MaxLost,
           DOMAIN run' = Informers, DOMAIN store' = Informers,
           DOMAIN events' = Informers, DOMAIN handler' = Informers,
           run'[i] \in {"off", "on", "stopped"},
           \A j \in Informers \ {i} :
                /\ run'[j] = run[j] /\ store'[j] = store[j]
                /\ events'[j] = events[j] /\ handler'[j] = handler[j],
           Shape(server, changes, store'[i], events'[i], handler'[i]),
           InOrder(server, store'[i], events'[i], handler'[i]),
           \/ /\ topic' = topic
              /\ \A m : Before(m, server, store[i], events[i], handler[i])
                    => Before(m, server, store'[i], events'[i], handler'[i])
           \/ /\ IsMessage(topic') /\ topic'.by = i
              /\ Before(Told(topic'), server, store'[i], events'[i], handler'[i])
    PROVE  Inv'
<1>1. Kinds'
  <2>1. topic' # None => IsMessage(topic)'
    BY DEF Inv, Kinds, IsMessage
  <2>2. \A j \in Informers : run'[j] \in {"off", "on", "stopped"}
    BY DEF Inv, Kinds
  <2>3. changes' \in 0..MaxChanges /\ (server' # None => IsPodAt(server', changes'))
    BY DEF Inv, Kinds
  <2> QED BY <2>1, <2>2, <2>3 DEF Kinds
<1>2. ShapeInv' /\ OrderInv'
  <2> SUFFICES ASSUME NEW j \in Informers
               PROVE  /\ Shape(server', changes', store'[j], events'[j], handler'[j])
                      /\ InOrder(server', store'[j], events'[j], handler'[j])
    BY DEF ShapeInv, OrderInv
  <2>1. CASE j = i
    BY <2>1
  <2>2. CASE j # i
    BY <2>2 DEF Inv, ShapeInv, OrderInv
  <2> QED BY <2>1, <2>2
<1>3. TopicInv'
  <2> SUFFICES ASSUME topic' # None
               PROVE  Before(Told(topic'), server', store'[topic'.by],
                             events'[topic'.by], handler'[topic'.by])
    BY DEF TopicInv
  <2>1. CASE topic' = topic /\ topic.by = i
    BY <2>1 DEF Inv, TopicInv
  <2>2. CASE topic' = topic /\ topic.by # i
    <3>1. topic.by \in Informers \ {i}
      BY <2>2, Known
    <3> QED BY <2>2, <3>1 DEF Inv, TopicInv
  <2>3. CASE topic' # topic
    BY <2>3
  <2> QED BY <2>1, <2>2, <2>3
<1> QED BY <1>1, <1>2, <1>3 DEF Inv

\* A change of the pod on the server.
LEMMA ClusterEffect ==
    ASSUME changes \in Nat, server # None => IsPodAt(server, changes), Cluster
    PROVE  /\ changes < MaxChanges /\ changes' = changes + 1
           /\ UNCHANGED <<run, store, events, handler, topic, lost>>
           /\ Moved(server, server', changes)
<1> DEFINE Fine(pod) == /\ pod \in Pods /\ pod.uid \in 0..(changes + 1)
                        /\ \/ /\ server # None /\ Leq(Mark(server), Mark(pod))
                              /\ pod.uid = server.uid
                              /\ server.deleting => pod.deleting
                           \/ server = None /\ pod.uid = changes + 1
<1>1. server # None => server \in Pods /\ server.uid \in 0..(changes + 1)
  BY DEF IsPodAt
<1>2. ASSUME server # None, NEW pod, pod \in Pods, pod.uid = server.uid,
             Over(server.status) => Over(pod.status),
             server.deleting => pod.deleting
      PROVE  Fine(pod)
  <2>1. Leq(Mark(server), Mark(pod))
    BY <1>1, <1>2 DEF Leq, Mark
  <2> QED BY <1>1, <1>2, <2>1
<1>3. ASSUME NEW s \in Statuses, SetStatus(s)
      PROVE  Fine([server EXCEPT !.status = s])
  <2>1. server # None /\ ~Over(server.status) /\ s \in Kept
    BY <1>3 DEF SetStatus, Over, Kept
  <2>2. PICK pod : pod = [server EXCEPT !.status = s]
    OBVIOUS
  <2>3. pod \in Pods /\ pod.uid = server.uid /\ pod.deleting = server.deleting
    BY <1>1, <2>1, <2>2, PodsIs
  <2>4. Fine(pod)
    BY <1>2, <2>1, <2>3
  <2> QED BY <2>2, <2>4
<1>4. ASSUME server # None
      PROVE  /\ Fine([server EXCEPT !.deleting = TRUE])
             /\ Fine([server EXCEPT !.selected = FALSE])
  <2>1. TRUE \in BOOLEAN /\ FALSE \in BOOLEAN
    OBVIOUS
  <2>2. PICK pod : pod = [server EXCEPT !.deleting = TRUE]
    BY Zenon
  <2>3. /\ pod \in Pods /\ pod.uid = server.uid /\ pod.status = server.status
        /\ pod.deleting
    BY <1>1, <1>4, <2>1, <2>2, PodsIs, Zenon
  <2>4. Fine(pod)
    BY <1>2, <1>4, <2>3
  <2>5. PICK qod : qod = [server EXCEPT !.selected = FALSE]
    BY Zenon
  <2>6. /\ qod \in Pods /\ qod.uid = server.uid /\ qod.status = server.status
        /\ qod.deleting = server.deleting
    BY <1>1, <1>4, <2>1, <2>5, PodsIs, Zenon
  <2>7. Fine(qod)
    BY <1>2, <1>4, <2>6
  <2> HIDE DEF Fine
  <2> QED BY <2>2, <2>4, <2>5, <2>7, Zenon
<1>5. ASSUME NEW s \in Statuses, NEW type \in Types, server = None
      PROVE  Fine(Pod(changes + 1, type, s))
  <2>1. changes + 1 \in Nat
    OBVIOUS
  <2>2. PICK pod : pod = Pod(changes + 1, type, s)
    OBVIOUS
  <2>3. pod \in Pods /\ pod.uid = changes + 1
    BY <2>1, <2>2, PodIs
  <2>4. Fine(pod)
    BY <1>5, <2>3
  <2> QED BY <2>2, <2>4
<1> HIDE DEF Fine
<1>6. PICK pod : Change(pod) /\ (pod = None \/ Fine(pod))
  BY <1>3, <1>4, <1>5
     DEF Cluster, SetStatus, MarkDeleting, Remove, Unselect, Recreate
<1>7. /\ changes < MaxChanges /\ changes' = changes + 1
      /\ UNCHANGED <<run, store, events, handler, topic, lost>>
      /\ server' = IF pod = None THEN None ELSE [pod EXCEPT !.rv = changes + 1]
  BY <1>6 DEF Change
<1>8. Moved(server, server', changes)
  <2> SUFFICES ASSUME server' # None
               PROVE  /\ IsPodAt(server', changes + 1) /\ server'.rv = changes + 1
                      /\ \/ /\ server # None /\ Leq(Mark(server), Mark(server'))
                            /\ server'.uid = server.uid
                            /\ server.deleting => server'.deleting
                         \/ server = None /\ server'.uid = changes + 1
    BY DEF Moved
  <2>1. Fine(pod) /\ server' = [pod EXCEPT !.rv = changes + 1]
    BY <1>6, <1>7
  <2>2. pod \in Pods /\ changes + 1 \in Nat
    BY <2>1 DEF Fine
  <2>3. PICK r : r = [pod EXCEPT !.rv = changes + 1]
    OBVIOUS
  <2>4. /\ r \in Pods /\ r.uid = pod.uid /\ r.rv = changes + 1
        /\ r.status = pod.status /\ r.deleting = pod.deleting
    BY <2>2, <2>3, PodsIs
  <2>5. Mark(r) = Mark(pod)
    BY <2>4 DEF Mark
  <2>6. IsPodAt(r, changes + 1)
    BY <2>1, <2>4 DEF IsPodAt, Fine
  <2> QED BY <2>1, <2>3, <2>4, <2>5, <2>6 DEF Fine
<1> QED BY <1>7, <1>8

\* The cluster keeps the invariant.
LEMMA ClusterInv ==
    ASSUME Inv, Cluster
    PROVE  Inv'
<1>1. /\ changes \in Nat /\ changes' = changes + 1 /\ changes < MaxChanges
      /\ UNCHANGED <<run, store, events, handler, topic, lost>>
      /\ server # None => IsPodAt(server, changes)
      /\ Moved(server, server', changes)
  BY Known, ClusterEffect
<1>2. Kinds'
  <2>1. topic' # None => IsMessage(topic)'
    BY <1>1 DEF Inv, Kinds, IsMessage
  <2>2. changes' \in 0..MaxChanges
    BY <1>1, BoundsAssumption DEF Inv, Kinds
  <2>3. server' # None => IsPodAt(server', changes')
    BY <1>1 DEF Moved
  <2> QED BY <1>1, <2>1, <2>2, <2>3 DEF Inv, Kinds
<1>3. ASSUME NEW i \in Informers
      PROVE  /\ Shape(server', changes', store'[i], events'[i], handler'[i])
             /\ InOrder(server', store'[i], events'[i], handler'[i])
             /\ \A m : /\ IsMark(m, changes)
                       /\ Before(m, server, store[i], events[i], handler[i])
                    => Before(m, server', store'[i], events'[i], handler'[i])
  <2>1. /\ Shape(server, changes, store[i], events[i], handler[i])
        /\ InOrder(server, store[i], events[i], handler[i])
    BY Known
  <2> QED BY <1>1, <2>1, ServerMoves
<1>4. TopicInv'
  <2> SUFFICES ASSUME topic' # None
               PROVE  Before(Told(topic'), server', store'[topic'.by],
                             events'[topic'.by], handler'[topic'.by])
    BY DEF TopicInv
  <2>1. topic' = topic /\ topic.by \in Informers /\ IsMark(Told(topic), changes)
    BY <1>1, Known
  <2>2. Before(Told(topic), server, store[topic.by], events[topic.by],
               handler[topic.by])
    BY <2>1 DEF Inv, TopicInv
  <2> QED BY <1>3, <2>1, <2>2
<1> QED BY <1>2, <1>3, <1>4 DEF Inv, ShapeInv, OrderInv

\* A list or watch event takes the pod of the server into the copy; a change
\* or a deletion of the copy is queued, with the pod that is known last.  A
\* deletion is seen only of a pod the server has moved on from: a pod that lost
\* its label has a new resource version.
LEMMA ObserveInv ==
    ASSUME Inv, NEW i \in Informers, Observe(i)
    PROVE  Inv'
<1>1. PICK c : c = store[i]
  OBVIOUS
<1>2. PICK q : q = events[i]
  OBVIOUS
<1>3. /\ UNCHANGED <<server, changes, run, handler, topic, lost>>
      /\ store' = [store EXCEPT ![i] = Selected]
  BY DEF Observe
<1>4. /\ changes \in Nat /\ (server # None => IsPodAt(server, changes))
      /\ Shape(server, changes, c, q, handler[i]) /\ InOrder(server, c, q, handler[i])
  BY <1>1, <1>2, Known
<1>5. /\ Selected \in {None, server}
      /\ Selected # None => server # None /\ Selected = server /\ server.selected
  BY DEF Selected
<1>6. Selected # None => OnWay(Selected, server, changes)
  BY <1>4, <1>5 DEF OnWay, Same
<1>7. \/ events' = events
      \/ \E e : /\ events' = [events EXCEPT ![i] = Append(q, e)]
                /\ IsNotice(e, server, changes)
                /\ \/ e.pod = server /\ server # None /\ Selected = server
                   \/ e.pod = c /\ c # None /\ Selected = None
  <2>1. CASE c = None
    BY <1>1, <2>1 DEF Observe
  <2>2. CASE c # None
    <3>1. OnWay(c, server, changes)
      BY <1>4, <2>2 DEF Shape
    <3>2. PICK kind \in {"update", "delete", "tombstone"} :
            /\ Selected # None => kind = "update"
            /\ events' = [events EXCEPT ![i] = Append(q, [kind |-> kind,
                            pod |-> IF Selected # None THEN Selected ELSE c])]
      BY <1>1, <1>2, <2>2 DEF Observe
    <3>3. PICK e : e = [kind |-> kind,
                        pod |-> IF Selected # None THEN Selected ELSE c]
      OBVIOUS
    <3>4. /\ e.kind = kind /\ e = [kind |-> e.kind, pod |-> e.pod]
          /\ e.pod = IF Selected # None THEN Selected ELSE c
      BY <3>3
    <3>5. Selected = None => MovedOn(c, server)
      <4> SUFFICES ASSUME Selected = None, server # None, server.rv = c.rv
                   PROVE  FALSE
        BY DEF MovedOn
      <4>1. server.selected
        BY <3>1 DEF OnWay, Same
      <4> QED BY <4>1 DEF Selected
    <3>6. IsNotice(e, server, changes)
      BY <1>6, <3>1, <3>2, <3>4, <3>5 DEF IsNotice
    <3> QED BY <1>5, <2>2, <3>2, <3>3, <3>4, <3>6
  <2> QED BY <2>1, <2>2
<1>8. /\ DOMAIN store = Informers /\ DOMAIN events = Informers
      /\ DOMAIN run = Informers /\ DOMAIN handler = Informers
      /\ lost \in 0..MaxLost /\ run[i] \in {"off", "on", "stopped"}
  BY DEF Inv, Kinds
<1>9. PICK q2 : q2 = events'[i]
  OBVIOUS
<1>10. /\ store'[i] = Selected /\ DOMAIN store' = Informers
       /\ DOMAIN events' = Informers
       /\ \A j \in Informers \ {i} : store'[j] = store[j] /\ events'[j] = events[j]
       /\ \/ q2 = q
          \/ \E e : /\ q2 = Append(q, e) /\ IsNotice(e, server, changes)
                    /\ \/ e.pod = server /\ server # None /\ Selected = server
                       \/ e.pod = c /\ c # None /\ Selected = None
  BY <1>2, <1>3, <1>7, <1>8, <1>9
<1>11. /\ Shape(server, changes, Selected, q2, handler[i])
       /\ InOrder(server, Selected, q2, handler[i])
       /\ \A m : Before(m, server, c, q, handler[i])
                    => Before(m, server, Selected, q2, handler[i])
  <2>1. PICK c2 : c2 = Selected
    OBVIOUS
  <2>2. Follows(server, changes, c, q, c2, q2)
    BY <1>5, <1>6, <1>10, <2>1 DEF Follows
  <2>3. /\ Shape(server, changes, c2, q2, handler[i])
        /\ InOrder(server, c2, q2, handler[i])
        /\ \A m : Before(m, server, c, q, handler[i])
                    => Before(m, server, c2, q2, handler[i])
    BY <1>4, <2>2, Queued
  <2> QED BY <2>1, <2>3
<1> QED BY <1>1, <1>2, <1>3, <1>8, <1>9, <1>10, <1>11, OneStep

\* A resync queues the copy.
LEMMA ResyncInv ==
    ASSUME Inv, NEW i \in Informers, Resync(i)
    PROVE  Inv'
<1>1. PICK c : c = store[i]
  OBVIOUS
<1>2. PICK q : q = events[i]
  OBVIOUS
<1>3. PICK e : e = [kind |-> "update", pod |-> c]
  OBVIOUS
<1>4. /\ UNCHANGED <<server, changes, run, store, handler, topic, lost>>
      /\ c # None /\ events' = [events EXCEPT ![i] = Append(q, e)]
  BY <1>1, <1>2, <1>3 DEF Resync
<1>5. /\ changes \in Nat /\ (server # None => IsPodAt(server, changes))
      /\ Shape(server, changes, c, q, handler[i]) /\ InOrder(server, c, q, handler[i])
  BY <1>1, <1>2, Known
<1>6. OnWay(c, server, changes) /\ IsNotice(e, server, changes) /\ e.pod = c
  BY <1>3, <1>4, <1>5 DEF Shape, IsNotice
<1>7. /\ DOMAIN store = Informers /\ DOMAIN events = Informers
      /\ DOMAIN run = Informers /\ DOMAIN handler = Informers
      /\ lost \in 0..MaxLost /\ run[i] \in {"off", "on", "stopped"}
  BY DEF Inv, Kinds
<1>8. PICK q2 : q2 = Append(q, e)
  OBVIOUS
<1>9. /\ Shape(server, changes, c, q2, handler[i])
      /\ InOrder(server, c, q2, handler[i])
      /\ \A m : Before(m, server, c, q, handler[i])
                    => Before(m, server, c, q2, handler[i])
  <2>1. Follows(server, changes, c, q, c, q2)
    BY <1>4, <1>6, <1>8 DEF Follows
  <2> QED BY <1>5, <2>1, Queued
<1>10. /\ events'[i] = q2 /\ DOMAIN events' = Informers
       /\ \A j \in Informers \ {i} : events'[j] = events[j]
  BY <1>4, <1>7, <1>8
<1> QED BY <1>1, <1>2, <1>4, <1>7, <1>9, <1>10, OneStep

\* An informer starts, next to whatever others there are, or stops, with what
\* its listener still has.
LEMMA RegistryInv ==
    ASSUME Inv, NEW i \in Informers, Start(i) \/ Stop(i)
    PROVE  Inv'
<1>1. /\ DOMAIN store = Informers /\ DOMAIN events = Informers
      /\ DOMAIN run = Informers /\ DOMAIN handler = Informers
      /\ lost \in 0..MaxLost
  BY DEF Inv, Kinds
<1>2. /\ changes \in Nat
      /\ Shape(server, changes, store[i], events[i], handler[i])
      /\ InOrder(server, store[i], events[i], handler[i])
  BY Known
<1>3. UNCHANGED <<server, changes, store, handler, topic, lost>>
  BY DEF Start, Stop
<1>4. /\ DOMAIN run' = Informers /\ run'[i] \in {"on", "stopped"}
      /\ \A j \in Informers \ {i} : run'[j] = run[j]
  BY <1>1 DEF Start, Stop
<1>5. CASE Start(i)
  <2>1. events' = events
    BY <1>5 DEF Start
  <2> QED BY <1>1, <1>2, <1>3, <1>4, <2>1, OneStep
<1>6. CASE Stop(i)
  <2>1. PICK l \in 0..Len(events[i]) :
            events' = [events EXCEPT ![i] = SubSeq(events[i], 1, l)]
    BY <1>6 DEF Stop
  <2>2. PICK q2 : q2 = SubSeq(events[i], 1, l)
    OBVIOUS
  <2>3. /\ Shape(server, changes, store[i], q2, handler[i])
        /\ InOrder(server, store[i], q2, handler[i])
        /\ \A m : Before(m, server, store[i], events[i], handler[i])
                    => Before(m, server, store[i], q2, handler[i])
    <3>1. Prefix(q2, events[i])
      BY <2>2 DEF Prefix
    <3> QED BY <1>2, <3>1, CutOff
  <2>4. /\ DOMAIN events' = Informers /\ events'[i] = q2
        /\ \A j \in Informers \ {i} : events'[j] = events[j]
    BY <1>1, <2>1, <2>2
  <2> QED BY <1>1, <1>3, <1>4, <2>3, <2>4, OneStep
<1> QED BY <1>5, <1>6

\* A handler is given the oldest notification.
LEMMA HandleInv ==
    ASSUME Inv, NEW i \in Informers, Handle(i)
    PROVE  Inv'
<1>1. PICK c : c = store[i]
  OBVIOUS
<1>2. PICK q : q = events[i]
  OBVIOUS
<1>3. PICK x : x = IF Head(q).kind = "tombstone" THEN None ELSE Head(q).pod
  OBVIOUS
<1>4. PICK q2 : q2 = Rest(q, x)
  OBVIOUS
<1>5. PICK h2 : h2 = CASE Head(q).kind = "update" -> UpdateFunc(Head(q))
                       [] Head(q).kind = "delete" -> DeleteFunc(Head(q))
                       [] Head(q).kind = "tombstone" -> None
  OBVIOUS
<1>6. /\ UNCHANGED <<server, changes, run, topic, lost>>
      /\ q # << >> /\ handler[i] = None
      /\ events' = [events EXCEPT ![i] = q2]
      /\ store' = [store EXCEPT ![i] = Touched(c, x)]
      /\ handler' = [handler EXCEPT ![i] = h2]
  BY <1>1, <1>2, <1>3, <1>4, <1>5 DEF Handle, Rest
<1>7. /\ changes \in Nat /\ (server # None => IsPodAt(server, changes))
      /\ Shape(server, changes, c, q, handler[i]) /\ InOrder(server, c, q, handler[i])
  BY <1>1, <1>2, Known
<1>8. h2 # None => \/ h2 = UpdateFunc(Head(q))
                   \/ h2 = DeleteFunc(Head(q)) /\ Head(q).kind # "update"
  <2>1. Head(q).kind \in {"update", "delete", "tombstone"}
    <3>1. Head(q) = q[1] /\ 1 \in 1..Len(q)
      BY <1>6, <1>7, TailIs DEF Shape
    <3> QED BY <1>7, <3>1 DEF Shape, IsNotice
  <2> QED BY <1>5, <2>1
<1>9. PICK c2 : c2 = Touched(c, x)
  OBVIOUS
<1>10. /\ Shape(server, changes, c2, q2, h2)
       /\ InOrder(server, c2, q2, h2)
       /\ \A m : Before(m, server, c, q, handler[i]) => Before(m, server, c2, q2, h2)
  BY <1>4, <1>6, <1>7, <1>8, <1>9, Handled
<1>11. /\ DOMAIN store = Informers /\ DOMAIN events = Informers
       /\ DOMAIN run = Informers /\ DOMAIN handler = Informers
       /\ lost \in 0..MaxLost /\ run[i] \in {"off", "on", "stopped"}
  BY DEF Inv, Kinds
<1>12. /\ store'[i] = c2 /\ events'[i] = q2 /\ handler'[i] = h2
       /\ DOMAIN store' = Informers /\ DOMAIN events' = Informers
       /\ DOMAIN handler' = Informers
       /\ \A j \in Informers \ {i} : /\ store'[j] = store[j]
                                     /\ events'[j] = events[j]
                                     /\ handler'[j] = handler[j]
  BY <1>6, <1>9, <1>11
<1> QED BY <1>1, <1>2, <1>6, <1>10, <1>11, <1>12, OneStep

\* The Get finds the pod gone, being deleted, or another one of that name, and
\* changes the message of the call; or the call ends.
LEMMA CheckInv ==
    ASSUME Inv, NEW i \in Informers, CheckIfPodDeleted(i)
    PROVE  Inv'
<1>1. PICK call : call = handler[i]
  OBVIOUS
<1>2. PICK node : node = [call.node EXCEPT !.message = POD_DELETED_MESSAGE]
  OBVIOUS
<1>3. /\ call # None /\ call.step = "get"
      /\ UNCHANGED <<server, changes, run, store, events, topic>>
  BY <1>1 DEF CheckIfPodDeleted
<1>4. \/ /\ server # None => server.deleting
         /\ GetTopic(call.pod.type) # None
         /\ handler' = [handler EXCEPT ![i] = Call("publish", call.pod, node)]
      \/ handler' = [handler EXCEPT ![i] = None]
  BY <1>1, <1>2 DEF CheckIfPodDeleted
<1>5. /\ changes \in Nat
      /\ Shape(server, changes, store[i], events[i], call)
      /\ InOrder(server, store[i], events[i], call)
  BY <1>1, Known
<1>6. IsCall(call, server, changes)
  BY <1>3, <1>5 DEF Shape
<1>7. /\ DOMAIN store = Informers /\ DOMAIN events = Informers
      /\ DOMAIN run = Informers /\ DOMAIN handler = Informers
      /\ run[i] \in {"off", "on", "stopped"}
  BY DEF Inv, Kinds
<1>8. lost' \in 0..MaxLost
  <2>1. lost' = lost \/ (lost < MaxLost /\ lost' = lost + 1)
    BY DEF CheckIfPodDeleted, Fail
  <2> QED BY <2>1, BoundsAssumption DEF Inv, Kinds
<1>9. PICK h2 : h2 = handler'[i]
  OBVIOUS
<1>10. h2 # None => h2.pod = call.pod /\ IsCall(h2, server, changes)
  <2> SUFFICES ASSUME h2 # None
               PROVE  h2.pod = call.pod /\ IsCall(h2, server, changes)
    OBVIOUS
  <2>1. /\ server # None => server.deleting
        /\ GetTopic(call.pod.type) # None
        /\ h2 = Call("publish", call.pod, node)
    BY <1>4, <1>7, <1>9
  <2>2. h2.step = "publish" /\ h2.pod = call.pod /\ h2.node = node
    BY <2>1 DEF Call
  <2>3. node = [phase |-> call.node.phase, message |-> POD_DELETED_MESSAGE,
                exitCode |-> call.node.exitCode,
                finishedAt |-> call.node.finishedAt]
    BY <1>2, <1>6 DEF IsCall, Faithful, IsNode
  <2>4. /\ IsNode(node) /\ node.phase = call.node.phase
        /\ node.finishedAt = call.node.finishedAt
    BY <2>3 DEF IsNode
  <2>5. Concludes(call.node) /\ (Concludes(call.node) <=> Over(call.pod.status))
    BY <1>3, <1>6 DEF IsCall, Faithful
  <2>6. Concludes(node) /\ Over(call.pod.status)
    BY <2>3, <2>5 DEF Concludes, POD_DELETED_MESSAGE
  <2>7. Faithful(h2)
    BY <1>6, <2>1, <2>2, <2>4, <2>6 DEF IsCall, Faithful
  <2>8. OnWay(call.pod, server, changes) /\ MovedOn(call.pod, server)
    BY <1>3, <1>6 DEF IsCall
  <2>9. Gone(call.pod, server)
    BY <2>1 DEF Gone
  <2> QED BY <2>2, <2>7, <2>8, <2>9 DEF IsCall
<1>11. /\ Shape(server, changes, store[i], events[i], h2)
       /\ InOrder(server, store[i], events[i], h2)
       /\ \A m : Before(m, server, store[i], events[i], call)
                    => Before(m, server, store[i], events[i], h2)
  BY <1>3, <1>5, <1>10, Called
<1>12. DOMAIN handler' = Informers /\ \A j \in Informers \ {i} : handler'[j] = handler[j]
  BY <1>4, <1>7
<1> QED BY <1>1, <1>3, <1>7, <1>8, <1>9, <1>11, <1>12, OneStep

\* The status of the call becomes the last message, or is dropped.
LEMMA PublishEffect ==
    ASSUME Inv, NEW i \in Informers, Publish(i)
    PROVE  /\ UNCHANGED <<server, changes, run, store, events>>
           /\ handler[i] # None /\ handler' = [handler EXCEPT ![i] = None]
           /\ IsCall(handler[i], server, changes)
           /\ \/ topic' = topic
              \/ /\ topic'.by = i /\ topic'.uid = handler[i].pod.uid
                 /\ topic'.status.message = handler[i].node.message
                 /\ Final(topic') <=> Over(handler[i].pod.status)
                 /\ IsMessage(topic')
<1>1. PICK call : call = handler[i]
  OBVIOUS
<1>2. PICK status : status = GetWorkflowStatus(call.node)
  OBVIOUS
<1>3. /\ UNCHANGED <<server, changes, run, store, events>>
      /\ call # None /\ call.step = "publish"
      /\ handler' = [handler EXCEPT ![i] = None]
      /\ \/ topic' = topic
         \/ topic' = [topic |-> GetTopic(call.pod.type), uid |-> call.pod.uid,
                      status |-> status, by |-> i]
  BY <1>1, <1>2 DEF Publish, Message
<1>4. IsCall(call, server, changes) /\ changes \in Nat
  BY <1>1, <1>3, Known DEF Shape
<1>5. Faithful(call) /\ call.pod.uid \in 0..changes
  BY <1>4 DEF IsCall, OnWay, IsPodAt
<1>6. /\ Completed(status.phase) <=> Completed(call.node.phase)
      /\ status.message = call.node.message
  BY <1>2 DEF GetWorkflowStatus, Completed
<1>7. status.phase \in {"Running", "Succeeded", "Failed", "Error"}
  <2>1. call.node.phase \in {"Pending", "Running", "Succeeded", "Failed", "Error"}
    BY <1>5, NodePhase DEF Faithful
  <2> QED BY <1>2, <2>1 DEF GetWorkflowStatus
<1>8. GetTopic(call.pod.type) \in {"CD_WORKFLOW_STATUS_UPDATE",
                                   "WORKFLOW_STATUS_UPDATE_TOPIC"}
  BY <1>3, <1>5 DEF Faithful, GetTopic
<1>9. ASSUME topic' # topic
      PROVE  /\ topic'.by = i /\ topic'.uid = call.pod.uid
             /\ topic'.status.message = call.node.message
             /\ Final(topic') <=> Over(call.pod.status)
             /\ IsMessage(topic')
  <2>1. PICK t : t = topic'
    OBVIOUS
  <2>2. /\ t.topic = GetTopic(call.pod.type) /\ t.uid = call.pod.uid
        /\ t.status = status /\ t.by = i
    BY <1>3, <1>9, <2>1
  <2>3. Final(t) <=> Concludes(call.node)
    BY <1>6, <2>2 DEF Final, Concludes
  <2>4. Final(t) <=> Over(call.pod.status)
    BY <1>5, <2>3 DEF Faithful
  <2>5. IsMessage(t)
    BY <1>5, <1>7, <1>8, <2>2 DEF IsMessage
  <2> QED BY <1>6, <2>1, <2>2, <2>4, <2>5
<1> QED BY <1>1, <1>3, <1>4, <1>9

\* What a call publishes as it ends is about its pod, which is no further than
\* what its informer has left.
LEMMA PublishInv ==
    ASSUME Inv, NEW i \in Informers, Publish(i)
    PROVE  Inv'
<1>1. PICK call : call = handler[i]
  OBVIOUS
<1>2. /\ UNCHANGED <<server, changes, run, store, events>>
      /\ call # None /\ handler' = [handler EXCEPT ![i] = None]
      /\ \/ topic' = topic
         \/ /\ topic'.by = i /\ topic'.uid = call.pod.uid
            /\ Final(topic') <=> Over(call.pod.status)
            /\ IsMessage(topic')
  BY <1>1, PublishEffect
<1>3. /\ changes \in Nat
      /\ Shape(server, changes, store[i], events[i], call)
      /\ InOrder(server, store[i], events[i], call)
  BY <1>1, Known
<1>4. /\ DOMAIN store = Informers /\ DOMAIN events = Informers
      /\ DOMAIN run = Informers /\ DOMAIN handler = Informers
      /\ run[i] \in {"off", "on", "stopped"}
  BY DEF Inv, Kinds
<1>5. lost' \in 0..MaxLost
  <2>1. lost' = lost \/ (lost < MaxLost /\ lost' = lost + 1)
    BY DEF Publish, Fail
  <2> QED BY <2>1, BoundsAssumption DEF Inv, Kinds
<1>6. /\ Shape(server, changes, store[i], events[i], None)
      /\ InOrder(server, store[i], events[i], None)
      /\ \A m : Before(m, server, store[i], events[i], call)
                    => Before(m, server, store[i], events[i], None)
      /\ Before(Mark(call.pod), server, store[i], events[i], None)
  <2>1. PICK h2 : h2 = None
    OBVIOUS
  <2> QED BY <1>2, <1>3, <2>1, Called
<1>7. topic' # topic => Told(topic') = Mark(call.pod)
  BY <1>2 DEF Told, Mark
<1>8. /\ DOMAIN handler' = Informers /\ handler'[i] = None
      /\ \A j \in Informers \ {i} : handler'[j] = handler[j]
  BY <1>2, <1>4
<1> QED BY <1>1, <1>2, <1>4, <1>5, <1>6, <1>7, <1>8, OneStep

\* At first the pod is on the server and nowhere else.
LEMMA InitInv == Init => Inv
<1> SUFFICES ASSUME Init PROVE Inv
  OBVIOUS
<1>1. /\ changes = 0 /\ lost = 0 /\ topic = None
      /\ run = [i \in Informers |-> "off"] /\ store = [i \in Informers |-> None]
      /\ events = [i \in Informers |-> << >>]
      /\ handler = [i \in Informers |-> None]
  BY DEF Init
<1>2. PICK s \in Statuses, type \in Types, b \in BOOLEAN :
            server = [Pod(0, type, s) EXCEPT !.deleting = b]
  BY DEF Init
<1>3. Pod(0, type, s) \in Pods /\ Pod(0, type, s).uid = 0 /\ Pod(0, type, s).rv = 0
  BY PodIs
<1>4. PICK p : p = Pod(0, type, s)
  OBVIOUS
<1>5. \A d \in BOOLEAN : LET r == [p EXCEPT !.deleting = d] IN
        r \in Pods /\ r.uid = 0 /\ r.rv = 0
  BY <1>3, <1>4 DEF Pods
<1>6. server \in Pods /\ server.uid = 0 /\ server.rv = 0
  BY <1>2, <1>4, <1>5, Zenon
<1>7. IsPodAt(server, changes)
  BY <1>1, <1>6 DEF IsPodAt
<1>8. Kinds
  BY <1>1, <1>7, BoundsAssumption DEF Kinds
<1>9. Len(<< >>) = 0 /\ IsSeq(<< >>)
  BY DEF IsSeq
<1>10. ShapeInv
  BY <1>1, <1>9 DEF ShapeInv, Shape
<1>11. OrderInv /\ TopicInv
  BY <1>1, <1>9 DEF OrderInv, InOrder, TopicInv
<1> QED BY <1>8, <1>10, <1>11 DEF Inv

\* Every step keeps Inv.
LEMMA NextInv == Inv /\ [Next]_vars => Inv'
<1> SUFFICES ASSUME Inv, [Next]_vars PROVE Inv'
  OBVIOUS
<1>1. CASE UNCHANGED vars
  <2>1. /\ server' = server /\ changes' = changes /\ run' = run /\ store' = store
        /\ events' = events /\ handler' = handler /\ topic' = topic
        /\ lost' = lost
    BY <1>1 DEF vars
  <2>2. Kinds'
    BY <2>1 DEF Inv, Kinds, IsMessage
  <2>3. ShapeInv' /\ OrderInv'
    BY <2>1 DEF Inv, ShapeInv, OrderInv
  <2>4. TopicInv'
    BY <2>1 DEF Inv, TopicInv
  <2> QED BY <2>2, <2>3, <2>4 DEF Inv
<1>2. CASE Cluster
  BY <1>2, ClusterInv
<1>3. CASE Registry
  BY <1>3, RegistryInv DEF Registry
<1>4. CASE ClientGo
  BY <1>4, ObserveInv, ResyncInv DEF ClientGo
<1>5. CASE Handlers
  BY <1>5, HandleInv, CheckInv, PublishInv DEF Handlers
<1> QED BY <1>1, <1>2, <1>3, <1>4, <1>5 DEF Next

\* Inv holds throughout.
LEMMA Invariant == Spec => []Inv
<1> QED BY InitInv, NextInv, PTL DEF Spec

-----------------------------------------------------------------------------
(* What follows.                                                           *)

\* Only Publish changes what is on the topic.
LEMMA TopicChange ==
    ASSUME [Next]_vars, topic' # topic
    PROVE  \E i \in Informers : Publish(i)
<1>1. CASE UNCHANGED vars
  BY <1>1 DEF vars
<1>2. CASE Cluster
  BY <1>2 DEF Cluster, SetStatus, MarkDeleting, Remove, Unselect, Recreate, Change
<1>3. CASE Registry \/ ClientGo
  BY <1>3 DEF Registry, Start, Stop, ClientGo, Observe, Resync
<1>4. CASE Handlers
  BY <1>4 DEF Handlers, Handle, CheckIfPodDeleted
<1> QED BY <1>1, <1>2, <1>3, <1>4 DEF Next

\* "Pod deleted" is published only of a pod that is being deleted, is gone or
\* was replaced by another of that name: although the Get goes by name only,
\* is answered before the publish, and the delete handler also runs for a pod
\* that lost its label.  For any statuses, changes and failures, and any number
\* of informers of the cluster that come, go and overlap.
THEOREM DeletedIsGone == Spec => DeletedMeansGone
<1> DEFINE Right == topic' # topic /\ topic'.status.message = POD_DELETED_MESSAGE
                    => server = None \/ server.uid # topic'.uid \/ server.deleting
<1>1. Inv /\ [Next]_vars => [Right]_vars
  <2> SUFFICES ASSUME Inv, [Next]_vars, topic' # topic,
                      topic'.status.message = POD_DELETED_MESSAGE
               PROVE  server = None \/ server.uid # topic'.uid \/ server.deleting
    BY DEF vars
  <2>1. PICK i \in Informers : Publish(i)
    BY TopicChange
  <2>2. /\ IsCall(handler[i], server, changes)
        /\ topic'.uid = handler[i].pod.uid
        /\ handler[i].node.message = POD_DELETED_MESSAGE
    BY <2>1, PublishEffect
  <2>3. Gone(handler[i].pod, server)
    BY <2>2 DEF IsCall
  <2> QED BY <2>2, <2>3 DEF Gone
<1> QED BY <1>1, Invariant, PTL DEF Spec, DeletedMeansGone

\* A message that goes back to an earlier pod of that name, or takes the outcome
\* of a pod back, takes back a message of another informer of the cluster, on or
\* stopped: what one informer lists, watches, resyncs and hands over, also after
\* it was stopped, keeps the order of the server, whatever is lost on the way and
\* whatever the others do.
THEOREM NeverTakenBack == Spec => NoRegression
<1> DEFINE Onward == topic # None /\ topic' # topic =>
                        \/ topic'.uid > topic.uid
                        \/ topic'.uid = topic.uid /\ (Final(topic) => Final(topic'))
                        \/ topic'.by # topic.by
<1>1. Inv /\ [Next]_vars => [Onward]_vars
  <2> SUFFICES ASSUME Inv, [Next]_vars, topic # None, topic' # topic,
                      topic'.by = topic.by
               PROVE  \/ topic'.uid > topic.uid
                      \/ topic'.uid = topic.uid /\ (Final(topic) => Final(topic'))
    BY DEF vars
  <2>1. PICK i \in Informers : Publish(i)
    BY TopicChange
  <2>2. PICK p : p = handler[i].pod
    OBVIOUS
  <2>3. /\ topic.by = i /\ handler[i] # None /\ topic'.uid = p.uid
        /\ IsCall(handler[i], server, changes)
        /\ Final(topic') <=> Over(p.status)
    BY <2>1, <2>2, PublishEffect
  <2>4. Leq(Told(topic), Mark(p))
    BY <2>2, <2>3 DEF Inv, TopicInv, Before
  <2>5. topic.uid \in Nat /\ p.uid \in Nat
    BY <2>2, <2>3, Known DEF IsCall, OnWay, IsPodAt, Inv, Kinds, IsMessage
  <2> QED BY <2>3, <2>4, <2>5 DEF Leq, Told, Mark
<1> QED BY <1>1, Invariant, PTL DEF Spec, NoRegression

-----------------------------------------------------------------------------
(* The published status, and the type of every variable.                   *)

\* Every variable keeps its type: what is stored, queued and handled is a pod
\* the server had, with its fields, uid and resource version, and a message
\* goes to a topic getTopic knows, with a phase of a workflow.
THEOREM TypeCorrect == Spec => []TypeOK
<1>1. Inv => TypeOK
  <2> SUFFICES ASSUME Inv PROVE TypeOK
    OBVIOUS
  <2>1. \A p : IsPodAt(p, changes) => IsPod(p)
    BY DEF IsPodAt, IsPod
  <2>2. ASSUME NEW i \in Informers
        PROVE  /\ run[i] \in {"off", "on", "stopped"}
               /\ store[i] # None => IsPod(store[i])
               /\ \A k \in DOMAIN events[i] :
                    /\ events[i][k].kind \in {"update", "delete", "tombstone"}
                    /\ IsPod(events[i][k].pod)
               /\ handler[i] # None =>
                    handler[i].step \in {"get", "publish"} /\ IsPod(handler[i].pod)
    <3>1. Shape(server, changes, store[i], events[i], handler[i])
      BY Known
    <3>2. DOMAIN events[i] = 1..Len(events[i])
      BY <3>1 DEF Shape, IsSeq
    <3>3. \A k \in DOMAIN events[i] : IsNotice(events[i][k], server, changes)
      BY <3>1, <3>2 DEF Shape
    <3>4. run[i] \in {"off", "on", "stopped"}
      BY DEF Inv, Kinds
    <3> QED BY <2>1, <3>1, <3>3, <3>4
               DEF Shape, IsNotice, IsCall, OnWay, Faithful
  <2>3. /\ server # None => IsPod(server)
        /\ changes \in 0..MaxChanges /\ lost \in 0..MaxLost
        /\ topic # None => IsMessage(topic)
    BY <2>1 DEF Inv, Kinds
  <2> QED BY <2>2, <2>3 DEF TypeOK
<1> QED BY <1>1, Invariant, PTL

\* What a handler is about to publish is what the reference definition says of
\* its pod, for any list of up to MaxInsertion containers, in any order and
\* state, and any init containers: the sort, the early returns and the ignored
\* containers of inferFailedReason find the culprit that ranks first, and
\* getLatestFinishedAt the latest time.
THEOREM PublishedIsReference == Spec => []StatusMatchesReference
<1>1. Inv => StatusMatchesReference
  <2> SUFFICES ASSUME Inv, NEW i \in Informers, handler[i] # None
               PROVE  LET status == handler[i].pod.status
                          node == handler[i].node
                      IN  /\ status.phase = "Failed" /\ ~status.message =>
                              node.phase = ReferencePhase(status)
                          /\ Completed(node.phase) =>
                              node.finishedAt = ReferenceFinishedAt(status)
    BY DEF StatusMatchesReference
  <2>1. PICK s : s = handler[i].pod.status
    OBVIOUS
  <2>2. PICK node : node = AssessNodeStatus(s)
    OBVIOUS
  <2>3. IsCall(handler[i], server, changes)
    BY Known DEF Shape
  <2>4. /\ handler[i].node.phase = node.phase
        /\ handler[i].node.finishedAt = node.finishedAt
    BY <2>1, <2>2, <2>3 DEF IsCall, Faithful
  <2>5. IsStatus(s)
    <3>1. s \in Kept
      BY <2>1, <2>3 DEF IsCall, OnWay, IsPodAt, Pods
    <3> QED BY <3>1, KeptIs
  <2>6. /\ node.phase = AssessPhase(s).phase
        /\ node.finishedAt = IF Completed(AssessPhase(s).phase)
                             THEN GetLatestFinishedAt(AfterAssess(s)) ELSE Never
    BY <2>2 DEF AssessNodeStatus
  <2>7. s.phase = "Failed" /\ ~s.message => node.phase = ReferencePhase(s)
    <3>1. s.phase = "Failed" => AssessPhase(s) = InferFailedReason(s)
      BY DEF AssessPhase
    <3> QED BY <2>5, <2>6, <3>1, PhaseIsReference
  <2>8. Completed(node.phase) => node.finishedAt = ReferenceFinishedAt(s)
    BY <2>5, <2>6, FinishedIsReference
  <2> QED BY <2>1, <2>4, <2>7, <2>8
<1> QED BY <1>1, Invariant, PTL

\* What a handler makes of the informer's copy, however often it and earlier
\* handlers have sorted it, is what it would make of the pod on the server, as
\* long as that is the pod it has: sorting a sorted list changes nothing, and
\* the delete handler changes the message only of a pod that is not there.
THEOREM SortedOnceAndForAll == Spec => []ReassessStable
<1>1. Inv => ReassessStable
  <2> SUFFICES ASSUME Inv, NEW i \in Informers, handler[i] # None,
                      SameObject(handler[i].pod, server)
               PROVE  handler[i].node = Assessed[server.status]
    BY DEF ReassessStable
  <2>1. IsCall(handler[i], server, changes) /\ (server # None => IsPodAt(server, changes))
    BY Known DEF Shape
  <2>2. handler[i].pod # None
    BY <2>1, NoneAssumption DEF IsCall, OnWay, IsPodAt
  <2>3. server # None /\ server.rv = handler[i].pod.rv
    BY <2>2 DEF SameObject
  <2>4. handler[i].node = AssessNodeStatus(handler[i].pod.status)
    BY <2>1, <2>3 DEF IsCall, MovedOn
  <2>5. handler[i].pod.status \in {server.status, AfterAssess(server.status)}
    BY <2>1, <2>3 DEF IsCall, OnWay, Same
  <2>6. server.status \in Kept
    BY <2>1, <2>3 DEF IsPodAt, Pods
  <2>7. IsStatus(server.status) /\ Assessed[server.status] = AssessNodeStatus(server.status)
    BY <2>6, KeptIs
  <2>8. AssessNodeStatus(handler[i].pod.status) = AssessNodeStatus(server.status)
    BY <2>5, <2>7, AssessTwice
  <2> QED BY <2>4, <2>7, <2>8
<1> QED BY <1>1, Invariant, PTL
=============================================================================
