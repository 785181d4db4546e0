---------------------------- MODULE ApTreeProofs ----------------------------
(***************************************************************************)
(* Theorems about ApTree: the loop of add_hub hands out the lowest free    *)
(* indices and spares the APs that are there, for any number of APs.       *)
(***************************************************************************)
EXTENDS ApTree, NodeTreeProofs

\* f[k] is the dictionary c after k turns of the loop, for k up to n.
IsLoop(f, c, n, req) ==
  f = [k \in 0 .. n |-> IF k = 0 THEN c ELSE AddAp(f[k - 1], req)]

\* The function that AddAps defines by recursion exists: one more turn of the
\* loop extends what the turns before it computed.
LEMMA AddApsLoop ==
  ASSUME NEW c, NEW n \in Nat, NEW req
  PROVE  \E f : IsLoop(f, c, n, req) /\ AddAps(c, n, req) = f[n]
<1> DEFINE Turns(f, m) == IsLoop(f, c, m, req)
           Stuck == {m \in Nat : ~ \E f : Turns(f, m)}
<1>1. Stuck = {}
  <2>1. SUFFICES ASSUME NEW m \in Stuck, \A j \in Stuck : m <= j
                 PROVE  FALSE
    <3>1. Stuck \in SUBSET Nat
      OBVIOUS
    <3> HIDE DEF Stuck
    <3> QED
      BY <3>1, LeastNatural
  <2>2. CASE m = 0
    <3>1. Turns([k \in 0 .. 0 |-> c], 0)
      BY DEF IsLoop
    <3> QED
      BY <2>2, <3>1
  <2>3. CASE m # 0
    <3>1. m - 1 \in Nat /\ m - 1 \notin Stuck
      <4>1. m \in Nat
        OBVIOUS
      <4> HIDE DEF Stuck
      <4> QED
        BY <2>1, <2>3, <4>1
    <3>2. PICK f : Turns(f, m - 1)
      BY <3>1
    <3> DEFINE g == [k \in 0 .. m |->
                       IF k = m THEN AddAp(f[m - 1], req) ELSE f[k]]
    <3>3. ASSUME NEW k \in 0 .. m
          PROVE  g[k] = IF k = 0 THEN c ELSE AddAp(g[k - 1], req)
      BY <2>3, <3>1, <3>2 DEF IsLoop
    <3>4. Turns(g, m)
      BY <3>3 DEF IsLoop
    <3> QED
      BY <3>4
  <2> QED
    BY <2>2, <2>3
<1>2. \E f : Turns(f, n)
  BY <1>1
<1>3. AddAps(c, n, req) = (CHOOSE f : Turns(f, n))[n]
  BY DEF AddAps, IsLoop
<1>4. Turns(CHOOSE f : Turns(f, n), n)
  <2> HIDE DEF Turns
  <2> QED
    BY <1>2
<1> QED
  BY <1>3, <1>4

\* The free indices up to i: their number is the rank of i if i is free.
FreeUpTo(U, i) == (0 .. i) \ U

LEMMA RankType ==
  ASSUME NEW U, NEW i \in Nat
  PROVE  /\ IsFiniteSet(FreeUpTo(U, i))
         /\ Cardinality(FreeUpTo(U, i)) \in Nat
<1>1. IsFiniteSet(0 .. i)
  BY FS_Interval
<1>2. IsFiniteSet(FreeUpTo(U, i))
  BY <1>1, FS_Difference DEF FreeUpTo
<1> QED
  BY <1>2, FS_CardinalityType

\* LowestFree picks the free indices by rank: its bound excludes none.
LEMMA LowestFreeByRank ==
  ASSUME NEW U \in SUBSET Nat, IsFiniteSet(U), NEW k \in Nat, NEW i \in Nat
  PROVE  i \in LowestFree(U, k)
           <=> i \notin U /\ Cardinality(FreeUpTo(U, i)) <= k
<1>1. Cardinality(FreeUpTo(U, i)) <= k => i <= Cardinality(U) + k - 1
  <2>1. IsFiniteSet(0 .. i) /\ Cardinality(0 .. i) = i + 1
    <3>1. Cardinality(0 .. i) = IF 0 > i THEN 0 ELSE i - 0 + 1
      BY FS_Interval
    <3> QED
      BY <3>1, FS_Interval
  <2>2. Cardinality(FreeUpTo(U, i))
          = Cardinality(0 .. i) - Cardinality((0 .. i) \cap U)
    BY <2>1, FS_Difference DEF FreeUpTo
  <2>3. Cardinality((0 .. i) \cap U) <= Cardinality(U)
    BY FS_Subset
  <2>4. Cardinality(U) \in Nat /\ Cardinality((0 .. i) \cap U) \in Nat
    BY <2>1, FS_Intersection, FS_CardinalityType
  <2> QED
    BY <2>1, <2>2, <2>3, <2>4
<1>2. Cardinality(U) + k - 1 \in Int
  BY FS_CardinalityType
<1> QED
  BY <1>1, <1>2 DEF LowestFree, FreeUpTo

\* No index is among the lowest none.
LEMMA LowestNone ==
  ASSUME NEW U \in SUBSET Nat, IsFiniteSet(U)
  PROVE  LowestFree(U, 0) = {}
<1> SUFFICES ASSUME NEW i \in LowestFree(U, 0)
             PROVE  FALSE
  OBVIOUS
<1>1. i \in Nat
  BY DEF LowestFree
<1>2. i \notin U /\ Cardinality(FreeUpTo(U, i)) <= 0
  BY <1>1, LowestFreeByRank
<1>3. FreeUpTo(U, i) = {}
  BY <1>1, <1>2, RankType, FS_EmptySet
<1> QED
  BY <1>1, <1>2, <1>3 DEF FreeUpTo

(***************************************************************************)
(* The lowest index that is free once the k lowest are taken is what the   *)
(* next turn of the loop takes: its rank is k + 1.                         *)
(***************************************************************************)
LEMMA LowestNext ==
  ASSUME NEW U \in SUBSET Nat, IsFiniteSet(U), NEW k \in Nat, NEW g \in Nat,
         g \notin U \cup LowestFree(U, k),
         \A j \in 0 .. g - 1 : j \in U \cup LowestFree(U, k)
  PROVE  LowestFree(U, k + 1) = LowestFree(U, k) \cup {g}
<1> DEFINE Rank(i) == Cardinality(FreeUpTo(U, i))
<1>1. \A i \in Nat : Rank(i) \in Nat
  BY RankType
<1>2. Rank(g) > k
  BY <1>1, LowestFreeByRank
<1>3. Rank(g) <= k + 1
  <2> DEFINE F == FreeUpTo(U, g) \ {g}
  <2>1. IsFiniteSet(F) /\ Rank(g) = Cardinality(F) + 1
    <3>1. g \in FreeUpTo(U, g) /\ IsFiniteSet(FreeUpTo(U, g))
      BY RankType DEF FreeUpTo
    <3>2. IsFiniteSet(F) /\ Cardinality(F) = Rank(g) - 1
      BY <3>1, FS_RemoveElement
    <3> QED
      BY <1>1, <3>2
  <2>2. CASE F = {}
    BY <2>1, <2>2, FS_EmptySet
  <2>3. CASE F # {}
    <3> DEFINE T == {i \in Nat : FreeUpTo(U, i) = F}
    <3>1. g - 1 \in T
      BY <2>3 DEF FreeUpTo
    <3>2. PICK i \in T : \A j \in T : i <= j
      <4>1. T \in SUBSET Nat /\ T # {}
        BY <3>1
      <4> HIDE DEF T
      <4> QED
        BY <4>1, LeastNatural
    <3>3. i \in Nat /\ FreeUpTo(U, i) = F
      OBVIOUS
    <3>4. i \notin U
      <4>1. SUFFICES ASSUME i \in U
                     PROVE  FALSE
        OBVIOUS
      <4>2. i # 0
        BY <2>3, <3>3, <4>1 DEF FreeUpTo
      <4>3. FreeUpTo(U, i - 1) = FreeUpTo(U, i)
        BY <3>3, <4>1, <4>2 DEF FreeUpTo
      <4>4. i - 1 \in T
        BY <3>3, <4>2, <4>3
      <4> QED
        BY <3>2, <3>3, <4>4
    <3>5. i \in F
      BY <3>3, <3>4 DEF FreeUpTo
    <3>6. i \in 0 .. g - 1
      BY <3>3, <3>5 DEF FreeUpTo
    <3>7. i \in LowestFree(U, k)
      BY <3>4, <3>6
    <3>8. Rank(i) <= k
      BY <3>3, <3>7, LowestFreeByRank
    <3>9. Cardinality(F) = Rank(i)
      BY <3>3
    <3>10. Rank(i) \in Nat
      BY <1>1, <3>3
    <3> HIDE DEF F, T, Rank
    <3> QED
      BY <2>1, <3>8, <3>9, <3>10
  <2> QED
    BY <2>2, <2>3
<1>4. g \in LowestFree(U, k + 1)
  BY <1>3, LowestFreeByRank
<1>5. ASSUME NEW i \in Nat
      PROVE  i \in LowestFree(U, k + 1) <=> i \in LowestFree(U, k) \/ i = g
  <2>1. CASE i < g
    <3>1. i \in U \/ i \in LowestFree(U, k)
      BY <2>1
    <3>2. i \in LowestFree(U, k) <=> i \notin U /\ Rank(i) <= k
      BY LowestFreeByRank
    <3>3. i \in LowestFree(U, k + 1) <=> i \notin U /\ Rank(i) <= k + 1
      BY LowestFreeByRank
    <3> QED
      BY <1>1, <2>1, <3>1, <3>2, <3>3
  <2>2. CASE i = g
    BY <1>4, <2>2
  <2>3. CASE i > g
    <3>1. ASSUME i \notin U
          PROVE  Rank(i) > k + 1
      <4> DEFINE G == FreeUpTo(U, g) \cup {i}
      <4>1. Cardinality(G) = Rank(g) + 1
        <5>1. i \notin FreeUpTo(U, g) /\ IsFiniteSet(FreeUpTo(U, g))
          BY <2>3, RankType DEF FreeUpTo
        <5> QED
          BY <5>1, FS_AddElement
      <4>2. G \in SUBSET FreeUpTo(U, i)
        BY <2>3, <3>1 DEF FreeUpTo
      <4>3. Cardinality(G) <= Rank(i)
        BY <4>2, RankType, FS_Subset
      <4> QED
        BY <1>1, <1>2, <4>1, <4>3
    <3>2. i \notin LowestFree(U, k + 1) /\ i \notin LowestFree(U, k)
      BY <1>1, <3>1, LowestFreeByRank
    <3> QED
      BY <2>3, <3>2
  <2> QED
    BY <2>1, <2>2, <2>3
<1>6. LowestFree(U, k + 1) \subseteq Nat /\ LowestFree(U, k) \subseteq Nat
  BY DEF LowestFree
<1> QED
  BY <1>5, <1>6

-----------------------------------------------------------------------------
\* One turn: the AP gets the lowest free index, and no other AP is touched.
LEMMA AddApDict ==
  ASSUME NEW f, IsDict(f, APs), NEW req, NewAp(req) \in APs
  PROVE  /\ IsDict(AddAp(f, req), APs)
         /\ DOMAIN AddAp(f, req) = DOMAIN f \cup {GetIndex(f)}
         /\ \A i \in DOMAIN f : AddAp(f, req)[i] = f[i]
<1>1. GetIndex(f) \in Nat /\ GetIndex(f) \notin DOMAIN f
  BY GetIndexFree
<1>2. IsDict(AddAp(f, req), APs)
  BY <1>1, AddChildDict DEF AddAp
<1> QED
  BY <1>1, <1>2 DEF AddAp, AddChild

\* The loop: n turns take the n lowest free indices and touch no other AP.
LEMMA AddApsDict ==
  ASSUME NEW c, IsDict(c, APs), NEW n \in Nat, NEW req, NewAp(req) \in APs
  PROVE  /\ IsDict(AddAps(c, n, req), APs)
         /\ DOMAIN AddAps(c, n, req) = DOMAIN c \cup LowestFree(DOMAIN c, n)
         /\ \A i \in DOMAIN c : AddAps(c, n, req)[i] = c[i]
<1>1. PICK after : IsLoop(after, c, n, req) /\ AddAps(c, n, req) = after[n]
  BY AddApsLoop
<1>2. /\ after[0] = c
      /\ \A k \in 1 .. n : after[k] = AddAp(after[k - 1], req)
  BY <1>1 DEF IsLoop
<1> DEFINE U == DOMAIN c
           Good(k) == /\ IsDict(after[k], APs)
                      /\ DOMAIN after[k] = U \cup LowestFree(U, k)
                      /\ \A i \in U : after[k][i] = c[i]
           Bad == {k \in 0 .. n : ~Good(k)}
<1>3. U \in SUBSET Nat /\ IsFiniteSet(U)
  BY DEF IsDict
<1>4. Good(0)
  BY <1>2, <1>3, LowestNone
<1>5. ASSUME NEW k \in 1 .. n, Good(k - 1)
      PROVE  Good(k)
  <2> DEFINE f == after[k - 1]
             g == GetIndex(f)
  <2>1. k - 1 \in Nat /\ (k - 1) + 1 = k /\ after[k] = AddAp(f, req)
    BY <1>2
  <2>2. /\ IsDict(f, APs)
        /\ DOMAIN f = U \cup LowestFree(U, k - 1)
        /\ \A i \in U : f[i] = c[i]
    BY <1>5
  <2> HIDE DEF f, U
  <2>3. /\ IsDict(after[k], APs)
        /\ DOMAIN after[k] = DOMAIN f \cup {g}
        /\ \A i \in DOMAIN f : after[k][i] = f[i]
    BY <2>1, <2>2, AddApDict
  <2>4. /\ g \in Nat /\ g \notin DOMAIN f
        /\ \A j \in 0 .. g - 1 : j \in DOMAIN f
    BY <2>2, GetIndexFree
  <2> HIDE DEF g
  <2>5. LowestFree(U, (k - 1) + 1) = LowestFree(U, k - 1) \cup {g}
    BY <1>3, <2>1, <2>2, <2>4, LowestNext
  <2> QED
    BY <2>1, <2>2, <2>3, <2>5
<1>6. Bad = {}
  <2> HIDE DEF Good
  <2>1. SUFFICES ASSUME NEW k \in Bad, \A j \in Bad : k <= j
                 PROVE  FALSE
    <3>1. Bad \in SUBSET Nat
      OBVIOUS
    <3> HIDE DEF Bad
    <3> QED
      BY <3>1, LeastNatural
  <2>2. k \in 0 .. n /\ ~Good(k)
    OBVIOUS
  <2>3. k \in 1 .. n
    BY <1>4, <2>2
  <2>4. k - 1 \in 0 .. n /\ k - 1 \notin Bad
    <3>1. k - 1 \in 0 .. n /\ ~(k <= k - 1)
      BY <2>3
    <3> HIDE DEF Bad
    <3> QED
      BY <2>1, <3>1
  <2> QED
    BY <1>5, <2>2, <2>3, <2>4
<1>7. Good(n)
  BY <1>6
<1> QED
  BY <1>1, <1>7

\* Every AP request makes a well-typed AP, also the one that add_hub builds
\* from the request of a hub or of a network.
LEMMA RequestsMakeAPs ==
  /\ \A req \in ApRequests : NewAp(req) \in APs
  /\ \A req \in HubRequests :
       req.num_aps \in ApCounts /\ ApRequestOf(req) \in ApRequests
  /\ \A req \in NetworkRequests : HubRequestOf(req) \in HubRequests
<1>1. ASSUME NEW req \in ApRequests
      PROVE  NewAp(req) \in APs
  <2> DEFINE rts == [i \in 0 .. req.num_rts - 1 |-> req.heartbeat]
  <2>1. req.heartbeat \in Heartbeats /\ req.num_rts \in RtCounts
    BY DEF ApRequests
  <2>2. rts \in [0 .. req.num_rts - 1 -> Heartbeats]
    BY <2>1
  <2>3. rts \in UNION {[0 .. n - 1 -> Heartbeats] : n \in RtCounts}
    BY <2>1, <2>2
  <2>4. NewAp(req) = [heartbeat |-> req.heartbeat, rts |-> rts]
    BY DEF NewAp
  <2> HIDE DEF rts
  <2> QED
    BY <2>1, <2>3, <2>4 DEF APs
<1>2. ASSUME NEW req \in HubRequests
      PROVE  req.num_aps \in ApCounts /\ ApRequestOf(req) \in ApRequests
  BY DEF HubRequests, ApRequestOf, ApRequests
<1>3. ASSUME NEW req \in NetworkRequests
      PROVE  HubRequestOf(req) \in HubRequests
  BY ApAssumption DEF NetworkRequests, HubRequestOf, HubRequests
<1> QED
  BY <1>1, <1>2, <1>3

\* What the actions do to the dictionary, in terms of its indices.
LEMMA ApSteps ==
  ASSUME TypeOK, Next
  PROVE  /\ TypeOK'
         /\ Indices!Next
         /\ KeepsSlots(children, children')
<1> USE DEF TypeOK
<1>1. ASSUME NEW req \in HubRequests, HubPosted(req)
      PROVE  /\ TypeOK'
             /\ Indices!Next
             /\ KeepsSlots(children, children')
  <2>1. req.num_aps \in ApCounts /\ NewAp(ApRequestOf(req)) \in APs
    BY RequestsMakeAPs
  <2>2. req.num_aps \in Nat
    BY <2>1, ApAssumption
  <2>3. /\ IsDict(children', APs)
        /\ DOMAIN children'
             = DOMAIN children \cup LowestFree(DOMAIN children, req.num_aps)
        /\ \A i \in DOMAIN children : children'[i] = children[i]
    BY <1>1, <2>1, <2>2, AddApsDict DEF HubPosted
  <2>4. Indices!Create(req.num_aps)
    BY <2>3 DEF Indices!Create, Indices!LowestFree, LowestFree, Cardinality,
                Indices!Cardinality
  <2> QED
    BY <1>1, <2>1, <2>3, <2>4 DEF HubPosted, Indices!Next, KeepsSlots
<1>2. ASSUME NEW req \in ApRequests, CreateAp(req)
      PROVE  /\ TypeOK'
             /\ Indices!Next
             /\ KeepsSlots(children, children')
  <2>1. /\ IsDict(children', APs)
        /\ DOMAIN children' = DOMAIN children \cup {GetIndex(children)}
        /\ \A i \in DOMAIN children : children'[i] = children[i]
    BY <1>2, RequestsMakeAPs, AddApDict DEF CreateAp
  <2> DEFINE U == DOMAIN children
             g == GetIndex(children)
  <2>2. /\ g \in Nat /\ g \notin U
        /\ \A j \in 0 .. g - 1 : j \in U
    BY GetIndexFree
  <2>3. U \in SUBSET Nat /\ IsFiniteSet(U)
    BY DEF IsDict
  <2>4. LowestFree(U, 0 + 1) = LowestFree(U, 0) \cup {g}
    <3>1. LowestFree(U, 0) = {}
      BY <2>3, LowestNone
    <3> HIDE DEF U, g
    <3> QED
      BY <2>2, <2>3, <3>1, LowestNext
  <2>5. LowestFree(U, 1) = {g}
    BY <2>3, <2>4, LowestNone
  <2>6. Indices!Create(1)
    BY <2>1, <2>5 DEF Indices!Create, Indices!LowestFree, LowestFree,
                      Cardinality, Indices!Cardinality
  <2> QED
    BY <1>2, <2>1, <2>6 DEF CreateAp, Indices!Next, KeepsSlots
<1>3. ASSUME NEW i \in DOMAIN children, DeleteAp(i)
      PROVE  /\ TypeOK'
             /\ Indices!Next
             /\ KeepsSlots(children, children')
  <2>1. IsDict(children', APs)
    BY <1>3, RemoveChildDict DEF DeleteAp
  <2>2. /\ DOMAIN children' = DOMAIN children \ {i}
        /\ \A j \in DOMAIN children' : children'[j] = children[j]
    BY <1>3 DEF DeleteAp, RemoveChild, Restrict
  <2> QED
    BY <1>3, <2>1, <2>2 DEF DeleteAp, Indices!Next, Indices!Delete, KeepsSlots
<1> QED
  BY <1>1, <1>2, <1>3, RequestsMakeAPs DEF Next

\* Stuttering steps keep everything.
LEMMA ApNext ==
  ASSUME TypeOK, [Next]_vars
  PROVE  TypeOK' /\ [Indices!Next]_(DOMAIN children)
<1>1. CASE Next
  BY <1>1, ApSteps
<1>2. CASE UNCHANGED vars
  BY <1>2 DEF vars, TypeOK
<1> QED
  BY <1>1, <1>2

LEMMA ApInit ==
  ASSUME Init
  PROVE  TypeOK /\ Indices!Init
BY NoChildrenDict DEF Init, TypeOK, Indices!Init

(***************************************************************************)
(* The APs of a hub stay a dictionary of well-typed APs, whatever counts   *)
(* the requests ask for.                                                   *)
(***************************************************************************)
THEOREM ApsStayTyped == Spec => []TypeOK
<1> QED
  BY ApInit, ApNext, PTL DEF Spec

(***************************************************************************)
(* The loop of add_hub and the AP routes take the lowest free indices, as  *)
(* module Controller assumes.                                              *)
(***************************************************************************)
THEOREM ApIndicesImplemented == Spec => ImplementsApIndices
<1> QED
  BY ApInit, ApNext, PTL DEF Spec, ImplementsApIndices, Indices!Spec

(***************************************************************************)
(* No step replaces an AP: the loop of add_hub spares the APs that clients *)
(* gave the hub before.                                                    *)
(***************************************************************************)
THEOREM ApsKept == Spec => ApsNotOverwritten
<1>1. ASSUME TypeOK, [Next]_vars
      PROVE  [KeepsSlots(children, children')]_vars
  BY <1>1, ApSteps
<1> QED
  BY <1>1, ApInit, ApNext, PTL DEF Spec, ApsNotOverwritten

=============================================================================
