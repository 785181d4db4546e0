----------------------------- MODULE AccelNodes -----------------------------
(***************************************************************************)
(* The C++ nodes of the accel extension (accel/src): an AP owns a set of   *)
(* RTs, an RT points back to an AP, both through std::shared_ptr, and      *)
(* Python holds nodes through the holders of the bindings.  The client     *)
(* calls add_rt and remove_rt, reads the properties, and drops references; *)
(* it does not assign to the properties.                                   *)
(***************************************************************************)
CONSTANTS APs, RTs, NullPtr

ASSUME NodesDistinct == NullPtr \notin APs \cup RTs /\ APs \cap RTs = {}

VARIABLES
  rts,   \* AP::rts
  ap,    \* RT::ap
  held,  \* nodes that Python refers to
  alive  \* nodes whose destructor has not run

vars == <<rts, ap, held, alive>>

\* A shared_ptr to o is a member of p, with these values of rts and ap.
RefersBy(newRts, newAp, p, o) ==
  IF p \in APs THEN o \in newRts[p] ELSE o = newAp[p]

Refers(p, o) == RefersBy(rts, ap, p, o)

(***************************************************************************)
(* The nodes that are not released by a step that leaves these members and *)
(* references: a node goes when its last reference is gone, and with it    *)
(* the references of its members, but nodes that refer to each other stay. *)
(***************************************************************************)
Survivors(newRts, newAp, newHeld) ==
  UNION {S \in SUBSET alive :
           \A o \in S : \/ o \in newHeld
                        \/ \E p \in S : RefersBy(newRts, newAp, p, o)}

Release(newRts, newAp, newHeld) ==
  LET kept == Survivors(newRts, newAp, newHeld)
  IN  /\ alive' = kept
      /\ held' = newHeld
      /\ rts' = [a \in APs |-> IF a \in kept THEN newRts[a] ELSE {}]
      /\ ap' = [r \in RTs |-> IF r \in kept THEN newAp[r] ELSE NullPtr]

AddRt(a, r) ==
  /\ {a, r} \subseteq held
  /\ Release([rts EXCEPT ![a] = @ \cup {r}], [ap EXCEPT ![r] = a], held)

\* Wrong: the RT keeps its pointer to the AP.
RemoveRtKeepsAp(a, r) ==
  /\ {a, r} \subseteq held
  /\ Release([rts EXCEPT ![a] = @ \ {r}], ap, held)

\* The pointer is reset whether or not the RT was in the set.
RemoveRt(a, r) ==
  /\ {a, r} \subseteq held
  /\ Release([rts EXCEPT ![a] = @ \ {r}], [ap EXCEPT ![r] = NullPtr], held)

\* Wrong: the binding hands out a pointer to a node that may be gone.
ReadDangling(p, o) ==
  /\ p \in held
  /\ held' = held \cup {o}
  /\ UNCHANGED <<rts, ap, alive>>

\* Python reads a property of p and keeps o; it forgets o.
Read(p, o) ==
  /\ p \in held
  /\ Refers(p, o)
  /\ Release(rts, ap, held \cup {o})

Drop(o) == o \in held /\ Release(rts, ap, held \ {o})

Init ==
  /\ rts = [a \in APs |-> {}]
  /\ ap = [r \in RTs |-> NullPtr]
  /\ held = APs \cup RTs
  /\ alive = APs \cup RTs

Next ==
  \/ \E a \in APs, r \in RTs : AddRt(a, r) \/ RemoveRt(a, r)
  \/ \E p, o \in APs \cup RTs : Read(p, o)
  \/ \E o \in APs \cup RTs : Drop(o)

Spec == Init /\ [][Next]_vars

-----------------------------------------------------------------------------
TypeOK ==
  /\ rts \in [APs -> SUBSET RTs]
  /\ ap \in [RTs -> APs \cup {NullPtr}]
  /\ held \subseteq alive
  /\ alive \subseteq APs \cup RTs

(***************************************************************************)
(* The AP that an RT points to has the RT in its set, although an RT may   *)
(* be added to several APs and removed from APs it is not in.              *)
(***************************************************************************)
PointerOwned == \A r \in RTs : ap[r] # NullPtr => r \in rts[ap[r]]

(***************************************************************************)
(* The nodes that Python can no longer reach but that are not released     *)
(* contain an AP and an RT that point to each other: who removes the RTs   *)
(* of an AP before dropping it leaks nothing.                              *)
(***************************************************************************)
Leaked ==
  UNION {S \in SUBSET (alive \ held) :
           \A o \in S, p \in alive : Refers(p, o) => p \in S}

LeaksArePairs ==
  Leaked # {} => \E r \in Leaked \cap RTs : ap[r] \in Leaked /\ r \in rts[ap[r]]

=============================================================================
