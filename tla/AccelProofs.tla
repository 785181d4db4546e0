----------------------------- MODULE AccelProofs ----------------------------
(***************************************************************************)
(* Theorems about AccelNodes, for any sets of APs and RTs.                 *)
(***************************************************************************)
EXTENDS AccelNodes, TLAPS

\* A node that is alive refers only to nodes that are alive.
Closed ==
  /\ \A r \in RTs : (r \in alive /\ ap[r] # NullPtr) => ap[r] \in alive
  /\ \A a \in APs : rts[a] \subseteq alive

\* A node that was released refers to nothing.
Cleared == \A r \in RTs \ alive : ap[r] = NullPtr

\* A node stays for a reason: Python holds it, or a living node refers to it.
Supported == \A o \in alive : o \in held \/ \E p \in alive : Refers(p, o)

PointerInv == TypeOK /\ Closed /\ Cleared /\ PointerOwned /\ Supported

(***************************************************************************)
(* What survives was alive, is all that Python holds of it, and includes   *)
(* the AP that a surviving RT points to.                                   *)
(***************************************************************************)
LEMMA SurvivorsKept ==
  ASSUME NEW R, NEW P, NEW H, H \subseteq alive
  PROVE  /\ Survivors(R, P, H) \subseteq alive
         /\ H \subseteq Survivors(R, P, H)
         /\ \A r \in Survivors(R, P, H), o \in alive :
              RefersBy(R, P, r, o) => o \in Survivors(R, P, H)
         /\ \A o \in Survivors(R, P, H) :
              o \in H \/ \E p \in Survivors(R, P, H) : RefersBy(R, P, p, o)
<1> DEFINE OK(S) == \A o \in S : o \in H \/ \E p \in S : RefersBy(R, P, p, o)
<1>1. Survivors(R, P, H) = UNION {S \in SUBSET alive : OK(S)}
  BY DEF Survivors
<1>2. OK(H)
  OBVIOUS
<1>3. ASSUME NEW S \in SUBSET alive, OK(S), NEW r \in S, NEW o \in alive,
             RefersBy(R, P, r, o)
      PROVE  OK(S \cup {o})
  BY <1>3
<1> HIDE DEF OK
<1>4. \A S \in SUBSET alive : OK(S) => S \subseteq Survivors(R, P, H)
  BY <1>1
<1>5. H \subseteq Survivors(R, P, H)
  BY <1>2, <1>4
<1>6. ASSUME NEW r \in Survivors(R, P, H), NEW o \in alive, RefersBy(R, P, r, o)
      PROVE  o \in Survivors(R, P, H)
  <2>1. PICK S \in SUBSET alive : OK(S) /\ r \in S
    BY <1>1
  <2>2. OK(S \cup {o}) /\ S \cup {o} \in SUBSET alive
    BY <1>3, <1>6, <2>1
  <2> QED
    BY <1>4, <2>2
<1>7. ASSUME NEW o \in Survivors(R, P, H), o \notin H
      PROVE  \E p \in Survivors(R, P, H) : RefersBy(R, P, p, o)
  <2>1. PICK S \in SUBSET alive : OK(S) /\ o \in S
    BY <1>1
  <2>2. \E p \in S : RefersBy(R, P, p, o)
    BY <1>7, <2>1 DEF OK
  <2> QED
    BY <1>4, <2>1, <2>2
<1> QED
  BY <1>1, <1>5, <1>6, <1>7

(***************************************************************************)
(* A step that leaves well-typed members in which pointers are owned       *)
(* preserves the invariant: releasing nodes breaks no pointer.             *)
(***************************************************************************)
LEMMA ReleaseStep ==
  ASSUME NEW R \in [APs -> SUBSET RTs], NEW P \in [RTs -> APs \cup {NullPtr}],
         NEW H \in SUBSET alive, alive \subseteq APs \cup RTs, Release(R, P, H),
         \A a \in APs : R[a] \subseteq alive,
         \A r \in RTs \cap alive : P[r] # NullPtr => P[r] \in alive /\ r \in R[P[r]]
  PROVE  PointerInv'
<1> DEFINE K == Survivors(R, P, H)
<1>1. /\ alive' = K /\ held' = H
      /\ rts' = [a \in APs |-> IF a \in K THEN R[a] ELSE {}]
      /\ ap' = [r \in RTs |-> IF r \in K THEN P[r] ELSE NullPtr]
  BY DEF Release
<1>2. K \subseteq alive /\ H \subseteq K
  BY SurvivorsKept
<1>3. \A r \in K, o \in alive : RefersBy(R, P, r, o) => o \in K
  BY SurvivorsKept
<1>8. \A o \in K : o \in H \/ \E p \in K : RefersBy(R, P, p, o)
  BY SurvivorsKept
<1> HIDE DEF K
<1>4. TypeOK'
  BY <1>1, <1>2 DEF TypeOK
<1>5. ASSUME NEW r \in RTs, ap'[r] # NullPtr
      PROVE  r \in K /\ ap'[r] = P[r] /\ P[r] \in APs \cap K /\ r \in R[P[r]]
  <2>1. r \in K /\ ap'[r] = P[r] /\ P[r] \in APs
    BY <1>1, <1>5
  <2>2. P[r] \in alive /\ r \in R[P[r]]
    BY <1>2, <1>5, <2>1
  <2>3. r \notin APs
    BY NodesDistinct
  <2>4. RefersBy(R, P, r, P[r])
    BY <2>3 DEF RefersBy
  <2> QED
    BY <1>3, <2>1, <2>2, <2>4
<1>6. ASSUME NEW a \in APs, NEW r \in rts'[a]
      PROVE  r \in K
  <2>1. a \in K /\ r \in R[a] /\ r \in alive
    BY <1>1, <1>6
  <2> QED
    BY <1>3, <2>1 DEF RefersBy
<1>7. Closed' /\ Cleared' /\ PointerOwned'
  BY <1>1, <1>5, <1>6 DEF Closed, Cleared, PointerOwned
<1>9. Supported'
  <2> SUFFICES ASSUME NEW o \in K, o \notin H
               PROVE  \E p \in K : RefersBy(rts', ap', p, o)
    BY <1>1 DEF Supported, Refers
  <2>1. PICK p \in K : RefersBy(R, P, p, o)
    BY <1>8
  <2>2. p \in APs \cup RTs
    BY <1>2
  <2> QED
    BY <1>1, <2>1, <2>2 DEF RefersBy
<1> QED
  BY <1>4, <1>7, <1>9 DEF PointerInv

\* Every step of the client preserves the invariant.
LEMMA NextPointerInv == PointerInv /\ [Next]_vars => PointerInv'
<1> SUFFICES ASSUME PointerInv, [Next]_vars
             PROVE  PointerInv'
  OBVIOUS
<1> USE DEF PointerInv, TypeOK
<1>1. ASSUME NEW a \in APs, NEW r \in RTs, AddRt(a, r)
      PROVE  PointerInv'
  <2> DEFINE R == [rts EXCEPT ![a] = @ \cup {r}]
             P == [ap EXCEPT ![r] = a]
  <2>1. Release(R, P, held) /\ {a, r} \subseteq alive
    BY <1>1 DEF AddRt
  <2>2. R \in [APs -> SUBSET RTs] /\ P \in [RTs -> APs \cup {NullPtr}]
    OBVIOUS
  <2>3. /\ \A c \in APs : R[c] \subseteq alive
        /\ \A q \in RTs \cap alive : P[q] # NullPtr => P[q] \in alive /\ q \in R[P[q]]
    BY <2>1 DEF Closed, PointerOwned
  <2>4. held \in SUBSET alive /\ alive \subseteq APs \cup RTs
    OBVIOUS
  <2> HIDE DEF R, P
  <2> QED
    BY <2>1, <2>2, <2>3, <2>4, ReleaseStep
<1>2. ASSUME NEW a \in APs, NEW r \in RTs, RemoveRt(a, r)
      PROVE  PointerInv'
  <2> DEFINE R == [rts EXCEPT ![a] = @ \ {r}]
             P == [ap EXCEPT ![r] = NullPtr]
  <2>1. Release(R, P, held)
    BY <1>2 DEF RemoveRt
  <2>2. R \in [APs -> SUBSET RTs] /\ P \in [RTs -> APs \cup {NullPtr}]
    OBVIOUS
  <2>3. /\ \A c \in APs : R[c] \subseteq alive
        /\ \A q \in RTs \cap alive : P[q] # NullPtr => P[q] \in alive /\ q \in R[P[q]]
    BY DEF Closed, PointerOwned
  <2>4. held \in SUBSET alive /\ alive \subseteq APs \cup RTs
    OBVIOUS
  <2> HIDE DEF R, P
  <2> QED
    BY <2>1, <2>2, <2>3, <2>4, ReleaseStep
<1>3. /\ \A c \in APs : rts[c] \subseteq alive
      /\ \A q \in RTs \cap alive : ap[q] # NullPtr => ap[q] \in alive /\ q \in rts[ap[q]]
  BY DEF Closed, PointerOwned
<1>4. ASSUME NEW p \in APs \cup RTs, NEW o \in APs \cup RTs, Read(p, o)
      PROVE  PointerInv'
  <2>1. o \in alive
    BY <1>4, NodesDistinct DEF Read, Refers, RefersBy, Closed
  <2>2. Release(rts, ap, held \cup {o}) /\ held \cup {o} \in SUBSET alive
    BY <1>4, <2>1 DEF Read
  <2> QED
    BY <1>3, <2>2, ReleaseStep
<1>5. ASSUME NEW o \in APs \cup RTs, Drop(o)
      PROVE  PointerInv'
  BY <1>3, <1>5, ReleaseStep DEF Drop
<1>6. CASE UNCHANGED vars
  BY <1>6 DEF vars, Closed, Cleared, PointerOwned, Supported, Refers, RefersBy
<1> QED
  BY <1>1, <1>2, <1>4, <1>5, <1>6 DEF Next

(***************************************************************************)
(* The inductive invariant: what is alive is supported, and pointers are   *)
(* owned and lead to nodes that are alive.                                 *)
(***************************************************************************)
LEMMA PointerInvariance == Spec => []PointerInv
<1>1. Init => PointerInv
  BY DEF Init, PointerInv, TypeOK, Closed, Cleared, PointerOwned, Supported
<1> QED
  BY <1>1, NextPointerInv, PTL DEF Spec

(***************************************************************************)
(* Python never holds a node whose destructor has run.                     *)
(***************************************************************************)
THEOREM HeldNodesLive == Spec => []TypeOK
<1>1. PointerInv => TypeOK
  BY DEF PointerInv
<1> QED
  BY <1>1, PointerInvariance, PTL

(***************************************************************************)
(* However RTs are added, removed and dropped, the AP an RT points to is   *)
(* one whose set has the RT.                                               *)
(***************************************************************************)
THEOREM PointersOwned == Spec => []PointerOwned
<1>1. PointerInv => PointerOwned
  BY DEF PointerInv
<1> QED
  BY <1>1, PointerInvariance, PTL

\* What refers to a leaked node is leaked, for nothing that is held does.
LEMMA LeakedClosed ==
  ASSUME NEW o \in Leaked, NEW p \in alive, Refers(p, o)
  PROVE  p \in Leaked
<1>1. PICK S \in SUBSET (alive \ held) :
        o \in S /\ \A x \in S, y \in alive : Refers(y, x) => y \in S
  BY DEF Leaked
<1> QED
  BY <1>1 DEF Leaked

\* A leaked AP is kept by a leaked RT that points to it.
LEMMA LeakedAp ==
  ASSUME PointerInv, NEW a \in Leaked \cap APs
  PROVE  \E r \in Leaked \cap RTs : ap[r] \in Leaked /\ r \in rts[ap[r]]
<1>1. a \in alive \ held
  BY DEF Leaked
<1>2. PICK p \in alive : Refers(p, a)
  BY <1>1 DEF PointerInv, Supported
<1>3. p \in Leaked
  BY <1>2, LeakedClosed
<1>4. p \in RTs /\ ap[p] = a
  BY <1>2, NodesDistinct DEF PointerInv, TypeOK, Refers, RefersBy
<1>5. ap[p] # NullPtr
  BY <1>4, NodesDistinct
<1> QED
  BY <1>3, <1>4, <1>5 DEF PointerInv, PointerOwned

(***************************************************************************)
(* Whenever nodes leak, an AP and an RT that point to each other are among *)
(* them: what keeps a leaked RT is a leaked AP, and what keeps that is a   *)
(* leaked RT that points to it.                                            *)
(***************************************************************************)
THEOREM OnlyPairsLeak == Spec => []LeaksArePairs
<1>1. PointerInv => LeaksArePairs
  <2> SUFFICES ASSUME PointerInv, NEW o \in Leaked
               PROVE  \E r \in Leaked \cap RTs : ap[r] \in Leaked /\ r \in rts[ap[r]]
    BY DEF LeaksArePairs
  <2>1. CASE o \in APs
    BY <2>1, LeakedAp
  <2>2. CASE o \notin APs
    <3>1. o \in alive \ held
      BY DEF Leaked
    <3>2. PICK p \in alive : Refers(p, o)
      BY <3>1 DEF PointerInv, Supported
    <3>3. p \in Leaked
      BY <3>2, LeakedClosed
    <3>4. o \in RTs
      BY <2>2, <3>1 DEF PointerInv, TypeOK
    <3>5. p \in APs
      BY <3>2, <3>4, NodesDistinct DEF PointerInv, TypeOK, Refers, RefersBy
    <3> QED
      BY <3>3, <3>5, LeakedAp
  <2> QED
    BY <2>1, <2>2
<1> QED
  BY <1>1, PointerInvariance, PTL

=============================================================================
