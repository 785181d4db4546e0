--------------------------- MODULE NodeTreeProofs ---------------------------
(***************************************************************************)
(* Lemmas about the dictionaries of NodeTree: what get_index returns, and  *)
(* that the two updates of a dictionary yield a dictionary.                *)
(***************************************************************************)
EXTENDS NodeTree, FiniteSetTheorems, TLAPS

\* A set of naturals that is not empty has a least element.
LEMMA LeastNatural ==
  ASSUME NEW T \in SUBSET Nat, T # {}
  PROVE  \E i \in T : \A j \in T : i <= j
<1> DEFINE Below == {0 .. j : j \in T}
<1>1. Below \subseteq FiniteSubsetsOf(Nat)
  <2>1. ASSUME NEW j \in T
        PROVE  IsFiniteSet(0 .. j) /\ 0 .. j \subseteq Nat
    BY FS_Interval
  <2> QED
    BY <2>1 DEF FiniteSubsetsOf
<1>2. PICK B \in Below :
        \A C \in Below : <<C, B>> \notin StrictSubsetOrdering(Nat)
  <2>1. Below # {}
    OBVIOUS
  <2> HIDE DEF Below
  <2> QED
    BY <1>1, <2>1, FS_StrictSubsetOrderingWellFounded, WFMin
<1>3. PICK i \in T : B = 0 .. i
  OBVIOUS
<1>4. ASSUME NEW j \in T, j < i
      PROVE  FALSE
  <2> DEFINE J == 0 .. j
             I == 0 .. i
  <2>1. J \subseteq I /\ i \in I /\ i \notin J
    BY <1>4
  <2>2. J \subseteq I /\ J # I /\ J \in SUBSET Nat /\ I \in SUBSET Nat
    BY <2>1
  <2>3. <<J, I>> \notin StrictSubsetOrdering(Nat)
    BY <1>2, <1>3
  <2> HIDE DEF I, J
  <2> QED
    BY <2>2, <2>3 DEF StrictSubsetOrdering
<1> QED
  BY <1>4

(***************************************************************************)
(* get_index always finds an index: its loop ends, at the latest after as  *)
(* many turns as the node has children, and the index it returns is the    *)
(* lowest that is free.  (managers.py:65-69)                               *)
(***************************************************************************)
LEMMA GetIndexFree ==
  ASSUME NEW S, NEW f, IsDict(f, S)
  PROVE  /\ GetIndex(f) \in Nat /\ GetIndex(f) \notin DOMAIN f
         /\ \A j \in 0 .. GetIndex(f) - 1 : j \in DOMAIN f
<1> DEFINE n == Cardinality(DOMAIN f)
           Free == (0 .. n) \ DOMAIN f
           Lowest(i) == /\ i \notin DOMAIN f
                        /\ \A j \in 0 .. i - 1 : j \in DOMAIN f
<1>1. n \in Nat
  BY FS_CardinalityType DEF IsDict
<1>2. Free # {}
  <2>1. SUFFICES ASSUME (0 .. n) \subseteq DOMAIN f
                 PROVE  FALSE
    OBVIOUS
  <2>2. Cardinality(0 .. n) <= n
    BY <2>1, FS_Subset DEF IsDict
  <2>3. Cardinality(0 .. n) = n + 1
    <3>1. Cardinality(0 .. n) = IF 0 > n THEN 0 ELSE n - 0 + 1
      BY <1>1, FS_Interval
    <3> QED
      BY <1>1, <3>1
  <2> QED
    BY <1>1, <2>2, <2>3
<1>3. PICK i \in Free : \A j \in Free : i <= j
  <2>1. Free \in SUBSET Nat
    BY <1>1
  <2> QED
    BY <1>2, <2>1, LeastNatural
<1>4. i \in 0 .. n /\ Lowest(i)
  BY <1>1, <1>3
<1>5. \E k \in 0 .. n : Lowest(k)
  BY <1>4
<1>6. GetIndex(f) = CHOOSE k \in 0 .. n : Lowest(k)
  BY DEF GetIndex
<1>7. GetIndex(f) \in 0 .. n /\ Lowest(GetIndex(f))
  <2> HIDE DEF n, Lowest
  <2> QED
    BY <1>5, <1>6
<1> QED
  BY <1>1, <1>7

\* Storing a node at a natural index yields a dictionary.
LEMMA AddChildDict ==
  ASSUME NEW S, NEW f, IsDict(f, S), NEW i \in Nat, NEW x \in S
  PROVE  IsDict(AddChild(f, i, x), S)
<1>1. IsFiniteSet(DOMAIN f \cup {i})
  BY FS_AddElement DEF IsDict
<1> QED
  BY <1>1 DEF IsDict, AddChild

\* Deleting an index yields a dictionary.
LEMMA RemoveChildDict ==
  ASSUME NEW S, NEW f, IsDict(f, S), NEW i
  PROVE  IsDict(RemoveChild(f, i), S)
<1>1. IsFiniteSet(DOMAIN f \ {i})
  BY FS_RemoveElement DEF IsDict
<1> QED
  BY <1>1 DEF IsDict, RemoveChild, Restrict

\* The empty dictionary is one.
LEMMA NoChildrenDict ==
  ASSUME NEW S
  PROVE  IsDict(NoChildren, S) /\ DOMAIN NoChildren = {}
BY FS_EmptySet DEF IsDict, NoChildren

(***************************************************************************)
(* The indices that successive calls of get_index hand out are finitely    *)
(* many naturals.                                                          *)
(***************************************************************************)
LEMMA LowestFreeIndices ==
  ASSUME NEW U \in SUBSET Nat, IsFiniteSet(U), NEW k \in Nat
  PROVE  /\ U \cup LowestFree(U, k) \subseteq Nat
         /\ IsFiniteSet(U \cup LowestFree(U, k))
<1> DEFINE top == Cardinality(U) + k - 1
<1>1. top \in Int
  BY FS_CardinalityType
<1>2. LowestFree(U, k) \subseteq 0 .. top
  BY DEF LowestFree
<1>3. IsFiniteSet(0 .. top)
  BY <1>1, FS_Interval
<1>4. IsFiniteSet(LowestFree(U, k))
  BY <1>2, <1>3, FS_Subset
<1>5. IsFiniteSet(U \cup LowestFree(U, k))
  BY <1>4, FS_Union
<1>6. LowestFree(U, k) \subseteq Nat
  BY <1>1, <1>2
<1> QED
  BY <1>5, <1>6

=============================================================================
