---------------------------- MODULE HubLifecycle ----------------------------
(***************************************************************************)
(* What the REST API promises of networks and hubs, whatever requests are  *)
(* in flight.  A network or a hub gets the lowest index that is free where *)
(* it is made, and keeps it.  A hub is made, one after the other in a new  *)
(* network, and then kept, or it is given up by the request that makes it. *)
(* Only what is kept can be deleted; what is deleted has no worker from    *)
(* then on, and does not come back.  A worker starts with its hub only; it *)
(* may crash at any time.                                                  *)
(***************************************************************************)
EXTENDS Integers, FiniteSets

CONSTANTS
  Hubs,    \* the hubs that may be made
  NoPlace  \* the address of a hub that has not been made

VARIABLES
  networks, \* the indices of the networks
  fresh,    \* the hubs that have not been made
  present,  \* the hubs that clients can see
  making,   \* those that a request has not finished
  place,    \* the address of each hub
  running   \* the hubs whose worker runs

lifeVars == <<networks, fresh, present, making, place, running>>

\* The lowest natural that is not used.
Lowest(used) ==
  CHOOSE i \in 0 .. Cardinality(used) :
    /\ i \notin used
    /\ \A j \in 0 .. i - 1 : j \in used

\* The hubs under the network with index i, and the indices they use.
Under(i) == {h \in present : place[h].net = i}
UsedIndices(i) == {place[h].hub : h \in Under(i)}

WorkersMayStop(up) == running' \in SUBSET up

(***************************************************************************)
(* A request begins a hub under network i, after it has finished others.   *)
(* If the worker cannot be started, the hub is kept without one.           *)
(***************************************************************************)
Begin(i, unfinished) ==
  \E h \in fresh :
    /\ fresh' = fresh \ {h}
    /\ present' = present \cup {h}
    /\ place' = [place EXCEPT ![h] = [net |-> i, hub |-> Lowest(UsedIndices(i))]]
    /\ \/ making' = unfinished \cup {h} /\ WorkersMayStop(running \cup {h})
       \/ making' = unfinished /\ WorkersMayStop(running)

NoBegin(unfinished) ==
  /\ making' = unfinished
  /\ UNCHANGED <<fresh, present, place>>
  /\ WorkersMayStop(running)

AddNetwork ==
  LET i == Lowest(networks)
  IN  networks' = networks \cup {i} /\ (Begin(i, making) \/ NoBegin(making))

AddHub == \E i \in networks : Begin(i, making) /\ UNCHANGED networks

\* A hub is finished, and its request may begin another one beside it.
Finish(h) ==
  LET unfinished == making \ {h}
  IN  /\ Begin(place[h].net, unfinished) \/ NoBegin(unfinished)
      /\ UNCHANGED networks

GiveUp(h) ==
  /\ making' = making \ {h}
  /\ present' = present \ {h}
  /\ UNCHANGED <<networks, fresh, place>>
  /\ WorkersMayStop(running)

\* Some hubs leave, and no worker of theirs is left.
Remove(gone) ==
  /\ gone \cap making = {}
  /\ present' = present \ gone
  /\ UNCHANGED <<fresh, making, place>>
  /\ WorkersMayStop(running \ gone)

RemoveHub(h) == Remove({h}) /\ UNCHANGED networks
RemoveNetwork(i) == Remove(Under(i)) /\ networks' = networks \ {i}

WorkersStop ==
  UNCHANGED <<networks, fresh, present, making, place>> /\ WorkersMayStop(running)

-----------------------------------------------------------------------------
Init ==
  /\ networks = {}
  /\ fresh = Hubs
  /\ present = {}
  /\ making = {}
  /\ place = [h \in Hubs |-> NoPlace]
  /\ running = {}

Next ==
  \/ AddNetwork
  \/ AddHub
  \/ \E h \in making : Finish(h) \/ GiveUp(h)
  \/ \E h \in present : RemoveHub(h)
  \/ \E i \in networks : RemoveNetwork(i)
  \/ WorkersStop

Spec == Init /\ [][Next]_lifeVars

=============================================================================
