---------------------------- MODULE HubRegistry ----------------------------
(***************************************************************************)
(* What the controller promises of networks, hubs and workers to every     *)
(* client, also to one that deletes what is still being made.  A network   *)
(* or a hub that appears gets the lowest index that is free where it       *)
(* appears, and keeps it; nothing but a deletion of a network takes more   *)
(* than one hub away, and what is gone does not come back.  A hub is held  *)
(* while clients can see it, and perhaps longer, but once released it is   *)
(* not held again.  The workers that run are those that were started with  *)
(* a hub that is still held, except for those that crashed.                *)
(***************************************************************************)
EXTENDS Integers, FiniteSets

CONSTANTS
  Hubs,     \* the hubs that may be made
  NoPlace,  \* the address of a hub that has not been made
  MayCrash  \* whether workers may crash

VARIABLES
  networks, \* the indices of the networks
  fresh,    \* the hubs that have not been made
  present,  \* the hubs that clients can see
  held,     \* the hubs that something in the controller refers to
  place,    \* the address of each hub
  running   \* the hubs whose worker runs

registryVars == <<networks, fresh, present, held, place, running>>

\* The lowest natural that is not used.
Lowest(used) ==
  CHOOSE i \in 0 .. Cardinality(used) :
    /\ i \notin used
    /\ \A j \in 0 .. i - 1 : j \in used

\* The hubs under the network with index i, and the indices they use.
Under(i) == {h \in present : place[h].net = i}
UsedIndices(i) == {place[h].hub : h \in Under(i)}

(***************************************************************************)
(* Every step may release hubs that clients cannot see, and holds no hub   *)
(* anew but those it makes; of the workers that are up, those of hubs that *)
(* are still held run on.                                                  *)
(***************************************************************************)
Hold(made, up) ==
  /\ present' \subseteq held'
  /\ held' \subseteq held \cup made
  /\ IF MayCrash
       THEN running' \subseteq up \cap held'
       ELSE running' = up \cap held'

\* A hub is made, and its worker is started, unless that fails.
Make(h) ==
  /\ fresh' = fresh \ {h}
  /\ place' = [place EXCEPT ![h] = place'[h]]
  /\ place'[h] # NoPlace
  /\ Hold({h}, running) \/ Hold({h}, running \cup {h})

\* A hub appears under the network with index i.
Appear(h, i) ==
  /\ Make(h)
  /\ place'[h] = [net |-> i, hub |-> Lowest(UsedIndices(i))]
  /\ present' = present \cup {h}

MakeNothing == UNCHANGED <<fresh, place>> /\ Hold({}, running)

AddNetwork ==
  LET i == Lowest(networks)
  IN  /\ networks' = networks \cup {i}
      /\ \/ \E h \in fresh : Appear(h, i)
         \/ UNCHANGED present /\ MakeNothing

AddHub == UNCHANGED networks /\ \E h \in fresh, i \in networks : Appear(h, i)

\* A request makes a hub in a network that was deleted meanwhile.
AddUnseen == UNCHANGED <<networks, present>> /\ \E h \in fresh : Make(h)

RemoveHub(h) ==
  UNCHANGED networks /\ present' = present \ {h} /\ MakeNothing

RemoveNetwork(i) ==
  networks' = networks \ {i} /\ present' = present \ Under(i) /\ MakeNothing

Release == UNCHANGED <<networks, present>> /\ MakeNothing

-----------------------------------------------------------------------------
Init ==
  /\ networks = {}
  /\ fresh = Hubs
  /\ present = {}
  /\ held = {}
  /\ place = [h \in Hubs |-> NoPlace]
  /\ running = {}

Next ==
  \/ Release
  \/ AddNetwork
  \/ AddHub
  \/ AddUnseen
  \/ \E i \in networks : RemoveNetwork(i)
  \/ \E h \in present : RemoveHub(h)

Spec == Init /\ [][Next]_registryVars

=============================================================================
