------------------------------- MODULE ApTree -------------------------------
(***************************************************************************)
(* The APs of one hub with their RTs and heartbeats (managers.py), as the  *)
(* create requests of the REST API (api.py) ask for them.  APs are made    *)
(* one at a time by add_ap, in the loop at the end of add_hub or by the    *)
(* AP route, which may run before that loop because the hub is in the tree *)
(* as soon as add_hub begins.  No AP operation suspends.                   *)
(***************************************************************************)
EXTENDS NodeTree

CONSTANTS
  ApCounts,         \* the values of num_aps and aps_per_hub
  RtCounts,         \* the values of num_rts, num_rts_per_ap and rts_per_ap
  Heartbeats,       \* the heartbeat intervals that clients ask for
  DefaultHeartbeat, \* settings.DEFAULT_HEARTBEAT_SECONDS
  MaxAps            \* bound on the APs of the hub

ASSUME ApAssumption ==
  /\ ApCounts \subseteq Nat
  /\ RtCounts \subseteq Nat
  /\ DefaultHeartbeat \in Heartbeats
  /\ MaxAps \in Nat

VARIABLES
  children, \* HubManager.children: index -> AP
  posted    \* add_hub has made the APs of its request

vars == <<children, posted>>

ApRequests ==
  [heartbeat : Heartbeats, num_rts : RtCounts, rt_heartbeat : Heartbeats]

HubRequests ==
  [num_aps : ApCounts, num_rts_per_ap : RtCounts, heartbeat : Heartbeats,
   rt_heartbeat : Heartbeats]

NetworkRequests ==
  [aps_per_hub : ApCounts, rts_per_ap : RtCounts, ap_heartbeat : Heartbeats,
   rt_heartbeat : Heartbeats]

\* The request that add_network hands to add_hub: rt_heartbeat is not in it.
HubRequestOf(req) ==
  [num_aps |-> req.aps_per_hub, num_rts_per_ap |-> req.rts_per_ap,
   heartbeat |-> req.ap_heartbeat, rt_heartbeat |-> DefaultHeartbeat]

\* The request that add_hub hands to add_ap.
ApRequestOf(req) ==
  [heartbeat |-> req.heartbeat, num_rts |-> req.num_rts_per_ap,
   rt_heartbeat |-> req.rt_heartbeat]

-----------------------------------------------------------------------------
\* An AP and its RTs, each RT with its heartbeat.
NewAp(req) ==
  [heartbeat |-> req.heartbeat,
   rts |-> [i \in 0 .. req.num_rts - 1 |-> req.heartbeat]]

AddAp(c, req) == AddChild(c, GetIndex(c), NewAp(req))

\* n turns of the loop at the end of add_hub.
AddAps(c, n, req) ==
  LET after[k \in 0 .. n] == IF k = 0 THEN c ELSE AddAp(after[k - 1], req)
  IN  after[n]

Fits(n) == Cardinality(DOMAIN children) + n =< MaxAps

HubPosted(req) ==
  /\ ~posted
  /\ Fits(req.num_aps)
  /\ children' = AddAps(children, req.num_aps, ApRequestOf(req))
  /\ posted' = TRUE

CreateAp(req) ==
  /\ Fits(1)
  /\ children' = AddAp(children, req)
  /\ UNCHANGED posted

DeleteAp(i) ==
  /\ i \in DOMAIN children
  /\ children' = RemoveChild(children, i)
  /\ UNCHANGED posted

Init == children = NoChildren /\ posted = FALSE

Next ==
  \/ \E req \in HubRequests : HubPosted(req)
  \/ \E req \in NetworkRequests : HubPosted(HubRequestOf(req))
  \/ \E req \in ApRequests : CreateAp(req)
  \/ \E i \in DOMAIN children : DeleteAp(i)

Spec == Init /\ [][Next]_vars

-----------------------------------------------------------------------------
APs ==
  [heartbeat : Heartbeats,
   rts : UNION {[0 .. n - 1 -> Heartbeats] : n \in RtCounts}]

TypeOK == IsDict(children, APs) /\ posted \in BOOLEAN

(***************************************************************************)
(* The loop of add_ap, one get_index at a time between the APs that are    *)
(* left, takes the lowest free indices: what Controller says of the APs of *)
(* a hub is true of the code.                                              *)
(***************************************************************************)
Indices ==
  INSTANCE ApIndices WITH aps <- DOMAIN children, ApCounts <- ApCounts \cup {1}

ImplementsApIndices == Indices!Spec

(***************************************************************************)
(* No AP is replaced by another while it is in the tree: the loop of       *)
(* add_hub spares the APs that clients gave the hub before its POST ended. *)
(***************************************************************************)
ApsNotOverwritten == [][KeepsSlots(children, children')]_vars

(***************************************************************************)
(* "rt_heartbeat_seconds (int): Heartbeat interval for child RTs."         *)
(* (api.py:39): the RTs of an AP that the AP route makes have the interval *)
(* the request asks for.                                                   *)
(***************************************************************************)
RtHeartbeatRequested ==
  [][\A req \in ApRequests :
       CreateAp(req) =>
         \A i \in DOMAIN children' \ DOMAIN children :
           \A j \in DOMAIN children'[i].rts :
             children'[i].rts[j] = req.rt_heartbeat]_vars

=============================================================================
