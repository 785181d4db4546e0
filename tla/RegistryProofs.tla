--------------------------- MODULE RegistryProofs ---------------------------
(***************************************************************************)
(* Theorems about Controller that concern what it refers to, for any sets  *)
(* of networks, hubs and requests and for every client: the worker of a    *)
(* hub is not terminated while anything refers to the hub, and the         *)
(* controller implements HubRegistry.                                      *)
(***************************************************************************)
EXTENDS ControllerProofs

-----------------------------------------------------------------------------
(***************************************************************************)
(* Hubs that lost their last reference.                                    *)
(***************************************************************************)

(***************************************************************************)
(* What every step respects: the networks and the hubs that it holds were  *)
(* held before, or no constructor had returned them.                       *)
(***************************************************************************)
HoldsNothingOld ==
  /\ Nodes(nms') \subseteq Nodes(nms) \cup FreshNetworks
  /\ pinned' \in {pinned} \cup Nodes(nms)
  /\ \A n \in Networks : Nodes(hubs'[n]) \subseteq Nodes(hubs[n]) \cup FreshHubs
  /\ \A r \in Requests : InFlight(r)' =>
       /\ task'[r].net \in {NoNode} \cup HeldNetworks \cup FreshNetworks
       /\ task'[r].hub \in {NoNode} \cup HeldHubs \cup FreshHubs

\* No step revives a hub: a network that is new has new hubs only.
LEMMA NothingRevived ==
  ASSUME TreeInv, TreeInv', HoldsNothingOld
  PROVE  HeldHubs' \subseteq HeldHubs \cup FreshHubs
<1>1. HeldNetworks' \subseteq HeldNetworks \cup FreshNetworks
  BY DEF HoldsNothingOld, HeldNetworks
<1>2. HeldNetworks' \subseteq Networks
  BY DEF TreeInv, TypeOK, IsDict, HeldNetworks, Nodes, Range, TaskType
<1>3. ASSUME NEW n \in HeldNetworks', NEW h \in Nodes(hubs'[n])
      PROVE  h \in HeldHubs \cup FreshHubs
  <2>1. CASE n \in HeldNetworks
    BY <1>2, <1>3, <2>1 DEF HoldsNothingOld, HeldHubs
  <2>2. CASE n \in FreshNetworks
    <3>1. Nodes(hubs[n]) = {}
      BY <2>2 DEF TreeInv, FreshNetworksEmpty, Nodes, Range
    <3> QED
      BY <1>2, <1>3, <3>1 DEF HoldsNothingOld
  <2> QED
    BY <1>1, <2>1, <2>2
<1>4. \A r \in Requests : InFlight(r)' /\ task'[r].hub # NoNode
                             => task'[r].hub \in HeldHubs \cup FreshHubs
  BY DEF HoldsNothingOld
<1> QED
  BY <1>3, <1>4 DEF HeldHubs

\* Requests that keep what they hold, or give it up, hold nothing old.
LEMMA RequestHoldsNothingOld ==
  ASSUME NEW r \in Requests,
         \/ task'[r] = task[r]
         \/ /\ InFlight(r)
            /\ task'[r].net \in {NoNode, task[r].net}
            /\ task'[r].hub \in {NoNode, task[r].hub},
         InFlight(r)'
  PROVE  /\ task'[r].net \in {NoNode} \cup HeldNetworks \cup FreshNetworks
         /\ task'[r].hub \in {NoNode} \cup HeldHubs \cup FreshHubs
<1>1. CASE InFlight(r)
  <2>1. /\ task[r].net \in {NoNode} \cup HeldNetworks
        /\ task[r].hub \in {NoNode} \cup HeldHubs
    BY <1>1 DEF HeldNetworks, HeldHubs
  <2> QED
    BY <2>1
<1>2. CASE ~InFlight(r)
  BY <1>2 DEF InFlight
<1> QED
  BY <1>1, <1>2

\* A request that begins a hub in a network that it holds, or that is new.
LEMMA BeginHubHoldsNothingOld ==
  ASSUME TreeInv, NEW r \in Requests, NEW n \in Networks,
         n \in HeldNetworks \cup FreshNetworks,
         NEW i, NEW more, NEW a, BeginHub(r, n, i, more, a)
  PROVE  /\ \A m \in Networks :
              Nodes(hubs'[m]) \subseteq Nodes(hubs[m]) \cup FreshHubs
         /\ \A q \in Requests : InFlight(q)' =>
              /\ task'[q].net \in {NoNode} \cup HeldNetworks \cup FreshNetworks
              /\ task'[q].hub \in {NoNode} \cup HeldHubs \cup FreshHubs
<1> DEFINE index == GetIndex(hubs[n])
<1>1. PICK h \in FreshHubs :
        /\ hubs' = [hubs EXCEPT ![n] = AddChild(hubs[n], index, h)]
        /\ \/ task' = [task EXCEPT ![r] = Locals("connect", n, h, more, a)]
           \/ task' = [task EXCEPT ![r] = Answered("500")]
  BY DEF BeginHub
<1>2. index \notin DOMAIN hubs[n]
  BY GetIndexFree DEF TreeInv, TypeOK
<1> HIDE DEF index
<1>3. \A m \in Networks : Nodes(hubs'[m]) \subseteq Nodes(hubs[m]) \cup FreshHubs
  BY <1>1, <1>2, AddChildNodes DEF TreeInv, TypeOK
<1>4. ASSUME NEW q \in Requests, InFlight(q)'
      PROVE  /\ task'[q].net \in {NoNode} \cup HeldNetworks \cup FreshNetworks
             /\ task'[q].hub \in {NoNode} \cup HeldHubs \cup FreshHubs
  <2>1. CASE q = r
    <3>1. \/ task'[r] = Locals("connect", n, h, more, a)
          \/ task'[r] = Answered("500")
      BY <1>1 DEF TreeInv, TypeOK
    <3> QED
      BY <1>1, <2>1, <3>1 DEF Locals, Answered
  <2>2. CASE q # r
    <3>1. task'[q] = task[q]
      BY <1>1, <2>2 DEF TreeInv, TypeOK
    <3> QED
      BY <1>4, <3>1, RequestHoldsNothingOld
  <2> QED
    BY <2>1, <2>2
<1> QED
  BY <1>3, <1>4

\* The loop of add_network goes on in the network of its request.
LEMMA NextHubHoldsNothingOld ==
  ASSUME TreeInv, NEW r \in Requests, NEW n \in Networks,
         n \in HeldNetworks \cup FreshNetworks,
         NEW i, NextHub(r, n, i)
  PROVE  /\ \A m \in Networks :
              Nodes(hubs'[m]) \subseteq Nodes(hubs[m]) \cup FreshHubs
         /\ \A q \in Requests : InFlight(q)' =>
              /\ task'[q].net \in {NoNode} \cup HeldNetworks \cup FreshNetworks
              /\ task'[q].hub \in {NoNode} \cup HeldHubs \cup FreshHubs
<1>1. CASE task[r].more > 0
  <2>1. BeginHub(r, n, i, task[r].more - 1, task[r].aps)
    BY <1>1 DEF NextHub
  <2> QED
    BY <2>1, BeginHubHoldsNothingOld
<1>2. CASE ~(task[r].more > 0)
  <2>1. /\ task' = [task EXCEPT ![r] = Answered("201")]
        /\ hubs' = hubs
    BY <1>2 DEF NextHub
  <2>2. \A q \in Requests : InFlight(q)' => task'[q] = task[q]
    BY <2>1 DEF TreeInv, TypeOK, InFlight, Answered
  <2> QED
    BY <2>1, <2>2, RequestHoldsNothingOld
<1> QED
  BY <1>1, <1>2

\* The creations and continuations of requests hold nothing old.
LEMMA CreatesHoldNothingOld ==
  ASSUME TreeInv, HoldersInv, Creates
  PROVE  HoldsNothingOld
<1>1. PICK r \in Requests, a \in ApCounts :
        \/ \E k \in HubCounts : CreateNetwork(r, k, a)
        \/ \E i \in DOMAIN nms : CreateHub(r, i, a)
  BY DEF Creates
<1>2. CASE \E k \in HubCounts : CreateNetwork(r, k, a)
  <2>1. PICK k \in HubCounts :
          /\ task' = [task EXCEPT ![r] = Locals("netPost", NoNode, NoNode, k, a)]
          /\ UNCHANGED <<nms, hubs, pinned>>
    BY <1>2 DEF CreateNetwork
  <2>2. ASSUME NEW q \in Requests, InFlight(q)'
        PROVE  /\ task'[q].net \in {NoNode} \cup HeldNetworks \cup FreshNetworks
               /\ task'[q].hub \in {NoNode} \cup HeldHubs \cup FreshHubs
    <3>1. CASE q = r
      BY <2>1, <3>1 DEF TreeInv, TypeOK, Locals
    <3>2. CASE q # r
      <4>1. task'[q] = task[q]
        BY <2>1, <3>2 DEF TreeInv, TypeOK
      <4> QED
        BY <2>2, <4>1, RequestHoldsNothingOld
    <3> QED
      BY <3>1, <3>2
  <2> QED
    BY <2>1, <2>2 DEF HoldsNothingOld
<1>3. CASE \E i \in DOMAIN nms : CreateHub(r, i, a)
  <2>1. PICK i \in DOMAIN nms : CreateHub(r, i, a)
    BY <1>3
  <2>2. nms[i] \in Networks /\ nms[i] \in HeldNetworks
    BY NodesAssumption DEF TreeInv, TypeOK, IsDict, HeldNetworks, Nodes, Range
  <2>3. /\ BeginHub(r, nms[i], netIndex[nms[i]], 0, a)
        /\ UNCHANGED <<nms, pinned>>
    BY <2>1 DEF CreateHub
  <2> QED
    BY <2>2, <2>3, BeginHubHoldsNothingOld DEF HoldsNothingOld
<1> QED
  BY <1>1, <1>2, <1>3

LEMMA ContinuesHoldNothingOld ==
  ASSUME TreeInv, HoldersInv, Continues
  PROVE  HoldsNothingOld
<1>1. PICK r \in Requests :
        \/ NetworkPosted(r) \/ NetworkRefused(r) \/ HubConnected(r)
        \/ HubPosted(r) \/ HubRefused(r) \/ RequestFails(r)
  BY DEF Continues
<1>2. CASE NetworkPosted(r)
  <2>1. PICK n \in FreshNetworks :
          /\ nms' = AddChild(nms, GetIndex(nms), n)
          /\ NextHub(r, n, GetIndex(nms))
    BY <1>2 DEF NetworkPosted
  <2>2. n \in Networks /\ pinned' = pinned
    BY <1>2 DEF NetworkPosted, FreshNetworks
  <2>3. Nodes(nms') \subseteq Nodes(nms) \cup FreshNetworks
    BY <2>1, AddChildNodes, GetIndexFree DEF TreeInv, TypeOK
  <2> QED
    BY <2>1, <2>2, <2>3, NextHubHoldsNothingOld DEF HoldsNothingOld
<1>3. CASE HubPosted(r)
  <2>1. /\ task[r].pc = "hubPost"
        /\ NextHub(r, task[r].net, netIndex[task[r].net])
        /\ UNCHANGED <<nms, pinned>>
    BY <1>3 DEF HubPosted
  <2>2. task[r].net \in Networks /\ task[r].net \in HeldNetworks
    BY <2>1, NodesAssumption DEF TreeInv, TasksMade, HeldNetworks, InFlight
  <2> QED
    BY <2>1, <2>2, NextHubHoldsNothingOld DEF HoldsNothingOld
<1>4. CASE NetworkRefused(r) \/ HubConnected(r) \/ HubRefused(r) \/ RequestFails(r)
  <2>1. /\ UNCHANGED <<nms, pinned>>
        /\ \A n \in Networks : Nodes(hubs'[n]) \subseteq Nodes(hubs[n])
    <3>1. UNCHANGED <<nms, pinned>>
      BY <1>4 DEF NetworkRefused, HubConnected, HubRefused, RequestFails
    <3>2. \/ hubs' = hubs
          \/ \E n, j : hubs' = [hubs EXCEPT ![n] = RemoveChild(hubs[n], j)]
      BY <1>4 DEF NetworkRefused, HubConnected, HubRefused, RequestFails
    <3> QED
      BY <3>1, <3>2, RemoveChildNodes DEF TreeInv, TypeOK
  <2>2. InFlight(r)
    BY <1>4 DEF NetworkRefused, HubConnected, HubRefused, RequestFails, InFlight
  <2>3. PICK code :
          \/ task' = [task EXCEPT ![r] = Answered(code)]
          \/ task' = [task EXCEPT ![r] = Failing(task[r], code)]
          \/ task' = [task EXCEPT ![r].pc = "hubPost"]
    BY <1>4 DEF NetworkRefused, HubConnected, HubRefused, RequestFails
  <2>4. /\ task'[r].net \in {NoNode, task[r].net}
        /\ task'[r].hub \in {NoNode, task[r].hub}
        /\ \A q \in Requests \ {r} : task'[q] = task[q]
    BY <2>3 DEF TreeInv, TypeOK, TaskType, Answered, Failing
  <2>5. ASSUME NEW q \in Requests, InFlight(q)'
        PROVE  /\ task'[q].net \in {NoNode} \cup HeldNetworks \cup FreshNetworks
               /\ task'[q].hub \in {NoNode} \cup HeldHubs \cup FreshHubs
    BY <2>2, <2>4, <2>5, RequestHoldsNothingOld
  <2> QED
    BY <2>1, <2>5 DEF HoldsNothingOld
<1> QED
  BY <1>1, <1>2, <1>3, <1>4

\* Deletions, AP routes, workers and the listener change no request.
LEMMA TasksKeptHoldNothingOld ==
  ASSUME TreeInv, Deletes \/ ChangesAps \/ WorkerOrListener \/ UNCHANGED vars
  PROVE  HoldsNothingOld
<1>1. task' = task
  BY DEF Deletes, DeleteNetwork, DeleteHub, ChangesAps, CreateAp, DeleteAp,
         WorkerOrListener, WorkerConnects, WorkerCrashes, WorkerDies,
         ListenerHandles, vars
<1>2. pinned' \in {pinned} \cup Nodes(nms)
  BY DEF Deletes, DeleteNetwork, DeleteHub, ChangesAps, CreateAp, DeleteAp,
         WorkerOrListener, WorkerConnects, WorkerCrashes, WorkerDies,
         ListenerHandles, HandleHubConnectInd, OnConnectInd, ListenerEnds,
         Nodes, Range, vars
<1>3. /\ nms' = nms \/ \E i : nms' = RemoveChild(nms, i)
      /\ \/ hubs' = hubs
         \/ \E n, j : hubs' = [hubs EXCEPT ![n] = RemoveChild(hubs[n], j)]
  BY DEF Deletes, DeleteNetwork, RemoveNetwork, DeleteHub, RemoveHub, ChangesAps,
         CreateAp, DeleteAp, WorkerOrListener, WorkerConnects, WorkerCrashes,
         WorkerDies, ListenerHandles, vars
<1>4. /\ Nodes(nms') \subseteq Nodes(nms)
      /\ \A n \in Networks : Nodes(hubs'[n]) \subseteq Nodes(hubs[n])
  BY <1>3, RemoveChildNodes DEF TreeInv, TypeOK
<1>5. \A r \in Requests : InFlight(r)' =>
        /\ task'[r].net \in {NoNode} \cup HeldNetworks \cup FreshNetworks
        /\ task'[r].hub \in {NoNode} \cup HeldHubs \cup FreshHubs
  BY <1>1, RequestHoldsNothingOld
<1> QED
  BY <1>2, <1>4, <1>5 DEF HoldsNothingOld

(***************************************************************************)
(* Only stop_worker and crashes end workers, and stop_worker ends those of *)
(* hubs that the step drops.                                               *)
(***************************************************************************)
LEMMA StopsDroppedOnly ==
  ASSUME TreeInv, HoldersInv, [Next]_vars, NEW h \in Hubs,
         Stopped(h)', h \in HeldHubs'
  PROVE  Stopped(h)
<1>1. CASE Finalize(worker)
  BY <1>1 DEF Finalize, Stopped, TreeInv, TypeOK
<1>2. CASE \E x \in Hubs : Finalize([worker EXCEPT ![x] = "starting"])
  BY <1>2 DEF Finalize, Stopped, TreeInv, TypeOK
<1>3. CASE worker' = worker
  BY <1>3 DEF Stopped
<1>4. CASE WorkerOrListener
  BY <1>4 DEF WorkerOrListener, WorkerConnects, WorkerCrashes, WorkerDies,
              ListenerHandles, Stopped, TreeInv, TypeOK
<1>5. ASSUME NEW r \in Requests, NEW n, NEW i, NEW more, NEW a,
             BeginHub(r, n, i, more, a)
      PROVE  Stopped(h)
  <2>1. \/ Finalize(worker)
        \/ \E x \in Hubs : Finalize([worker EXCEPT ![x] = "starting"])
    BY <1>5 DEF BeginHub, FreshHubs
  <2> QED
    BY <1>1, <1>2, <2>1
<1>6. ASSUME NEW r \in Requests, NEW n, NEW i, NextHub(r, n, i)
      PROVE  Stopped(h)
  BY <1>1, <1>5, <1>6 DEF NextHub
<1>7. CASE Creates
  BY <1>3, <1>5, <1>7 DEF Creates, CreateNetwork, CreateHub
<1>8. CASE Continues
  BY <1>1, <1>3, <1>6, <1>8 DEF Continues, NetworkPosted, NetworkRefused,
     HubConnected, HubPosted, HubRefused, RequestFails
<1>9. CASE Deletes
  BY <1>1, <1>9 DEF Deletes, DeleteNetwork, DeleteHub
<1>10. CASE ChangesAps \/ UNCHANGED vars
  BY <1>3, <1>10 DEF ChangesAps, CreateAp, DeleteAp, vars
<1> QED
  BY <1>4, <1>7, <1>8, <1>9, <1>10 DEF Next

(***************************************************************************)
(* The controller never terminates the worker of a hub that the tree, a    *)
(* request or a traceback still refers to: what is dropped once is never   *)
(* reached again, and what is new has no worker to stop.                   *)
(***************************************************************************)
THEOREM HeldWorkersKept == Spec => []NoWorkerStoppedEarly
<1>1. Init => NoWorkerStoppedEarly
  <2> SUFFICES ASSUME Init, NEW h \in HeldHubs
               PROVE  ~Stopped(h)
    BY DEF NoWorkerStoppedEarly
  <2>1. \A n \in Networks : Nodes(hubs[n]) = {}
    BY NoChildrenDict DEF Init, Nodes, Range
  <2>2. HeldNetworks = {}
    BY NoChildrenDict DEF Init, HeldNetworks, Nodes, Range, InFlight, NoTask, Locals
  <2> QED
    BY <2>1, <2>2 DEF Init, HeldHubs, InFlight, NoTask, Locals
<1>2. TreeInv /\ TreeInv' /\ HoldersInv /\ NoWorkerStoppedEarly /\ [Next]_vars
        => NoWorkerStoppedEarly'
  <2> SUFFICES ASSUME TreeInv, TreeInv', HoldersInv, NoWorkerStoppedEarly,
                      [Next]_vars, NEW h \in HeldHubs', Stopped(h)'
               PROVE  FALSE
    BY DEF NoWorkerStoppedEarly
  <2>1. HoldsNothingOld
    BY CreatesHoldNothingOld, ContinuesHoldNothingOld, TasksKeptHoldNothingOld
       DEF Next
  <2>2. h \in HeldHubs \cup FreshHubs
    BY <2>1, NothingRevived
  <2>3. h \in Hubs
    <3>1. HeldNetworks' \subseteq Networks
      BY DEF TreeInv, TypeOK, IsDict, HeldNetworks, Nodes, Range, TaskType
    <3> QED
      BY <3>1 DEF TreeInv, TypeOK, IsDict, HeldHubs, Nodes, Range, TaskType
  <2>4. Stopped(h)
    BY <2>3, StopsDroppedOnly
  <2>5. h \in FreshHubs => worker[h] = "none"
    BY DEF HoldersInv, FreshNotStarted
  <2> QED
    BY <2>2, <2>4, <2>5 DEF NoWorkerStoppedEarly, Stopped
<1> QED
  BY <1>1, <1>2, TreeInvariance, HoldersInvariance, PTL DEF Spec

-----------------------------------------------------------------------------
(***************************************************************************)
(* The promises of HubRegistry.                                            *)
(***************************************************************************)

\* What is known of every step of the controller.
SafeStep ==
  TreeInv /\ TreeInv' /\ HoldersInv /\ HoldersInv' /\ HoldsNothingOld

\* The tree refers to its hubs, and what something refers to has been made.
HeldBetween ==
  TreeHubs \subseteq HeldHubs /\ HeldHubs \subseteq Hubs \ FreshHubs

LEMMA HubsHeld == TreeInv /\ HoldersInv => HeldBetween
<1> SUFFICES ASSUME TreeInv, HoldersInv
             PROVE  HeldBetween
  OBVIOUS
<1>1. Nodes(nms) \subseteq HeldNetworks
  BY TreeFacts, NodesAssumption DEF HeldNetworks
<1>2. HeldNetworks \subseteq Networks
  BY DEF TreeInv, TypeOK, IsDict, HeldNetworks, Nodes, Range, TaskType
<1>3. ASSUME NEW n \in HeldNetworks, NEW h \in Nodes(hubs[n])
      PROVE  h \in Hubs \ FreshHubs
  BY <1>2, <1>3, NodesMade
<1>4. ASSUME NEW r \in Requests, InFlight(r), task[r].hub # NoNode
      PROVE  task[r].hub \in Hubs \ FreshHubs
  <2>1. task[r].pc \notin {"idle", "netPost", "answered"}
    BY <1>4 DEF HoldersInv, RequestsHold
  <2>2. task[r] \in TaskType
    BY DEF TreeInv, TypeOK
  <2>3. task[r].pc \in {"connect", "hubPost", "failing"}
    BY <2>1, <2>2 DEF TaskType
  <2> QED
    BY <2>3 DEF TreeInv, TasksMade
<1> QED
  BY <1>1, <1>3, <1>4 DEF HeldBetween, TreeHubs, HeldHubs

LEMMA HubsHeldNext == TreeInv' /\ HoldersInv' => HeldBetween'
BY HubsHeld, PTL

\* The controller refers to what it referred to before, and to what it makes.
LEMMA HeldAfter ==
  ASSUME SafeStep, NEW made, FreshHubs' = FreshHubs \ made
  PROVE  /\ TreeHubs' \subseteq HeldHubs'
         /\ HeldHubs' \subseteq HeldHubs \cup made
         /\ HeldHubs' \subseteq Hubs
<1>1. HeldBetween'
  BY HubsHeldNext DEF SafeStep
<1>2. HeldHubs' \subseteq HeldHubs \cup FreshHubs
  BY NothingRevived DEF SafeStep
<1> QED
  BY <1>1, <1>2 DEF HeldBetween

\* Finalize leaves the workers of the hubs that are held, and no others.
LEMMA FinalizeRuns ==
  ASSUME NEW P \in [Hubs -> Processes], Finalize(P), HeldHubs' \subseteq Hubs
  PROVE  RunningHubs' = {h \in Hubs : P[h] \in Running} \cap HeldHubs'
BY DEF Finalize, RunningHubs, Running

\* A step that makes the hubs made, and leaves the workers up to Finalize.
LEMMA HoldAfter ==
  ASSUME SafeStep, NEW made, FreshHubs' = FreshHubs \ made,
         NEW P \in [Hubs -> Processes], Finalize(P),
         NEW up, up = {h \in Hubs : P[h] \in Running}
  PROVE  Registry!Hold(made, up)
<1>1. RunningHubs' = up \cap HeldHubs'
  BY HeldAfter, FinalizeRuns
<1> QED
  BY <1>1, HeldAfter DEF Registry!Hold

\* A step that makes no hub.
LEMMA NothingMade ==
  ASSUME SafeStep, address' = address, Finalize(worker) \/ worker' = worker
  PROVE  Registry!MakeNothing
<1>1. FreshHubs' = FreshHubs /\ FreshHubs' = FreshHubs \ {}
  BY DEF FreshHubs
<1>2. CASE Finalize(worker)
  <2>1. worker \in [Hubs -> Processes]
    BY DEF SafeStep, TreeInv, TypeOK
  <2>2. RunningHubs = {h \in Hubs : worker[h] \in Running}
    BY DEF RunningHubs
  <2>3. Registry!Hold({}, RunningHubs)
    BY <1>1, <1>2, <2>1, <2>2, HoldAfter
  <2> QED
    BY <1>1, <2>3 DEF Registry!MakeNothing
<1>3. CASE worker' = worker
  <2>1. RunningHubs' = RunningHubs
    BY <1>3 DEF RunningHubs
  <2>2. RunningHubs' \subseteq HeldHubs'
    BY DEF SafeStep, HoldersInv, RunningHeld, RunningHubs
  <2>3. RunningHubs' = RunningHubs \cap HeldHubs'
    BY <2>1, <2>2
  <2>4. Registry!Hold({}, RunningHubs)
    BY <1>1, <2>3, HeldAfter DEF Registry!Hold
  <2> QED
    BY <1>1, <2>4 DEF Registry!MakeNothing
<1> QED
  BY <1>2, <1>3

\* The index that get_index picks, and the indices that are used.
LEMMA LowestIndex == ASSUME NEW f PROVE GetIndex(f) = Registry!Lowest(DOMAIN f)
BY DEF GetIndex, Registry!Lowest, Cardinality, Registry!Cardinality

LEMMA IndicesUsed ==
  ASSUME TreeInv, NEW i
  PROVE  /\ i \in DOMAIN nms =>
              /\ Registry!Under(i) = Nodes(hubs[nms[i]])
              /\ Registry!UsedIndices(i) = DOMAIN hubs[nms[i]]
         /\ i \notin DOMAIN nms => Registry!UsedIndices(i) = {}
BY HubsUnderNetwork, HubsUnderNothing
   DEF HubsUnder, Registry!Under, Registry!UsedIndices

\* A hub that a request begins is made, at the lowest free index.
LEMMA BeginHubMakes ==
  ASSUME SafeStep, NEW r \in Requests, NEW n \in Networks, NEW i \in Nat,
         NEW more, NEW a, BeginHub(r, n, i, more, a)
  PROVE  \E h \in FreshHubs :
           /\ Registry!Make(h)
           /\ address'[h] = [net |-> i, hub |-> GetIndex(hubs[n])]
           /\ Nodes(hubs'[n]) = Nodes(hubs[n]) \cup {h}
           /\ \A m \in Networks \ {n} : hubs'[m] = hubs[m]
<1> DEFINE index == GetIndex(hubs[n])
<1>1. PICK h \in FreshHubs :
        /\ address' = [address EXCEPT ![h] = [net |-> i, hub |-> index]]
        /\ hubs' = [hubs EXCEPT ![n] = AddChild(hubs[n], index, h)]
        /\ Finalize([worker EXCEPT ![h] = "starting"]) \/ Finalize(worker)
  BY DEF BeginHub
<1>2. TreeInv /\ h \in Hubs
  BY DEF SafeStep, FreshHubs
<1>3. index \notin DOMAIN hubs[n] /\ index \in Nat
  BY <1>2, GetIndexFree DEF TreeInv, TypeOK
<1> HIDE DEF index
<1>4. /\ Nodes(hubs'[n]) = Nodes(hubs[n]) \cup {h}
      /\ \A m \in Networks \ {n} : hubs'[m] = hubs[m]
  BY <1>1, <1>2, <1>3, AddChildNodes DEF TreeInv, TypeOK
<1>5. /\ address'[h] = [net |-> i, hub |-> index]
      /\ address'[h] # NoAddress
      /\ address' = [address EXCEPT ![h] = address'[h]]
      /\ FreshHubs' = FreshHubs \ {h}
  BY <1>1, <1>2, <1>3 DEF FreshHubs, NoAddress, NoIndex, TreeInv, TypeOK
<1>6. worker \in [Hubs -> Processes]
  BY <1>2 DEF TreeInv, TypeOK
<1>7. CASE Finalize(worker)
  <2>1. RunningHubs = {x \in Hubs : worker[x] \in Running}
    BY DEF RunningHubs
  <2>2. Registry!Hold({h}, RunningHubs)
    BY <1>5, <1>6, <1>7, <2>1, HoldAfter
  <2>3. Registry!Make(h)
    BY <1>5, <2>2 DEF Registry!Make
  <2> QED
    BY <1>4, <1>5, <2>3 DEF index
<1>8. CASE Finalize([worker EXCEPT ![h] = "starting"])
  <2> DEFINE P == [worker EXCEPT ![h] = "starting"]
  <2>1. P \in [Hubs -> Processes]
    BY <1>2, <1>6 DEF Processes, Running
  <2>2. {x \in Hubs : P[x] \in Running} = RunningHubs \cup {h}
    BY <1>2, <1>6 DEF RunningHubs, Running
  <2>3. Finalize(P)
    BY <1>8
  <2> HIDE DEF P
  <2>4. Registry!Hold({h}, RunningHubs \cup {h})
    BY <1>5, <2>1, <2>2, <2>3, HoldAfter
  <2>5. Registry!Make(h)
    BY <1>5, <2>4 DEF Registry!Make
  <2> QED
    BY <1>4, <1>5, <2>5 DEF index
<1> QED
  BY <1>1, <1>7, <1>8

\* It appears, if its network is in the tree or comes there by this step.
LEMMA BeginHubAppears ==
  ASSUME SafeStep, NEW r \in Requests, NEW n \in Networks, NEW i \in Nat,
         NEW more, NEW a, BeginHub(r, n, i, more, a),
         Nodes(nms') = Nodes(nms) \cup {n},
         n \in Nodes(nms) \/ Nodes(hubs[n]) = {},
         Registry!UsedIndices(i) = DOMAIN hubs[n]
  PROVE  \E h \in FreshHubs : Registry!Appear(h, i)
<1>1. PICK h \in FreshHubs :
        /\ Registry!Make(h)
        /\ address'[h] = [net |-> i, hub |-> GetIndex(hubs[n])]
        /\ Nodes(hubs'[n]) = Nodes(hubs[n]) \cup {h}
        /\ \A m \in Networks \ {n} : hubs'[m] = hubs[m]
  BY BeginHubMakes
<1>2. GetIndex(hubs[n]) = Registry!Lowest(Registry!UsedIndices(i))
  BY LowestIndex
<1>3. Nodes(nms) \subseteq Networks
  BY TreeFacts DEF SafeStep
<1>4. TreeHubs' = TreeHubs \cup {h}
  BY <1>1, <1>3 DEF TreeHubs
<1> QED
  BY <1>1, <1>2, <1>4 DEF Registry!Appear

\* Nobody sees it, if its network is not in the tree.
LEMMA BeginHubUnseen ==
  ASSUME SafeStep, NEW r \in Requests, NEW n \in Networks, NEW i \in Nat,
         NEW more, NEW a, BeginHub(r, n, i, more, a),
         nms' = nms, n \notin Nodes(nms)
  PROVE  Registry!AddUnseen
<1>1. PICK h \in FreshHubs :
        /\ Registry!Make(h)
        /\ \A m \in Networks \ {n} : hubs'[m] = hubs[m]
  BY BeginHubMakes
<1>2. Nodes(nms) \subseteq Networks
  BY TreeFacts DEF SafeStep
<1>3. TreeHubs' = TreeHubs
  BY <1>1, <1>2 DEF TreeHubs
<1> QED
  BY <1>1, <1>3 DEF Registry!AddUnseen

\* The loop of add_network, in a network of the tree or one that comes there.
LEMMA NextHubAppears ==
  ASSUME SafeStep, NEW r \in Requests, NEW n \in Networks, NEW i \in Nat,
         NextHub(r, n, i), Nodes(nms') = Nodes(nms) \cup {n},
         n \in Nodes(nms) \/ Nodes(hubs[n]) = {},
         Registry!UsedIndices(i) = DOMAIN hubs[n]
  PROVE  \/ \E h \in FreshHubs : Registry!Appear(h, i)
         \/ TreeHubs' = TreeHubs /\ Registry!MakeNothing
<1>1. CASE task[r].more > 0
  <2>1. BeginHub(r, n, i, task[r].more - 1, task[r].aps)
    BY <1>1 DEF NextHub
  <2> QED
    BY <2>1, BeginHubAppears
<1>2. CASE ~(task[r].more > 0)
  <2>1. UNCHANGED <<hubs, address>> /\ Finalize(worker)
    BY <1>2 DEF NextHub
  <2>2. TreeHubs' = TreeHubs
    BY <2>1 DEF TreeHubs
  <2> QED
    BY <2>1, <2>2, NothingMade
<1> QED
  BY <1>1, <1>2

\* The loop of add_network, in a network that has left the tree.
LEMMA NextHubUnseen ==
  ASSUME SafeStep, NEW r \in Requests, NEW n \in Networks, NEW i \in Nat,
         NextHub(r, n, i), nms' = nms, n \notin Nodes(nms)
  PROVE  Registry!AddUnseen \/ Registry!Release
<1>1. CASE task[r].more > 0
  <2>1. BeginHub(r, n, i, task[r].more - 1, task[r].aps)
    BY <1>1 DEF NextHub
  <2> QED
    BY <2>1, BeginHubUnseen
<1>2. CASE ~(task[r].more > 0)
  <2>1. UNCHANGED <<hubs, address>> /\ Finalize(worker)
    BY <1>2 DEF NextHub
  <2>2. TreeHubs' = TreeHubs
    BY <2>1 DEF TreeHubs
  <2> QED
    BY <2>1, <2>2, NothingMade DEF Registry!Release
<1> QED
  BY <1>1, <1>2

\* A network that the NMS accepted is added, with its first hub if it has one.
LEMMA NetworkPostedRegisters ==
  ASSUME SafeStep, NEW r \in Requests, NetworkPosted(r)
  PROVE  Registry!AddNetwork
<1> DEFINE i == GetIndex(nms)
<1>1. PICK n \in FreshNetworks : nms' = AddChild(nms, i, n) /\ NextHub(r, n, i)
  BY DEF NetworkPosted
<1>2. i \notin DOMAIN nms /\ i \in Nat
  BY GetIndexFree DEF SafeStep, TreeInv, TypeOK
<1>3. i = Registry!Lowest(DOMAIN nms)
  BY LowestIndex
<1> HIDE DEF i
<1>4. n \in Networks /\ DOMAIN hubs[n] = {}
  BY DEF FreshNetworks, SafeStep, TreeInv, FreshNetworksEmpty
<1>5. Nodes(hubs[n]) = {}
  BY <1>4 DEF Nodes, Range
<1>6. Nodes(nms') = Nodes(nms) \cup {n} /\ DOMAIN nms' = DOMAIN nms \cup {i}
  <2>1. Nodes(nms') = Nodes(nms) \cup {n}
    BY <1>1, <1>2, AddChildNodes
  <2>2. DOMAIN nms' = DOMAIN nms \cup {i}
    BY <1>1 DEF AddChild
  <2> QED
    BY <2>1, <2>2
<1>7. Registry!UsedIndices(i) = DOMAIN hubs[n]
  BY <1>2, <1>4, IndicesUsed DEF SafeStep
<1>8. \/ \E h \in FreshHubs : Registry!Appear(h, i)
      \/ TreeHubs' = TreeHubs /\ Registry!MakeNothing
  BY <1>1, <1>2, <1>4, <1>5, <1>6, <1>7, NextHubAppears
<1> QED
  BY <1>3, <1>6, <1>8 DEF Registry!AddNetwork

\* A POST of a hub adds one to the network at the index.
LEMMA CreateHubRegisters ==
  ASSUME SafeStep, NEW r \in Requests, NEW i \in DOMAIN nms, NEW a,
         CreateHub(r, i, a)
  PROVE  Registry!AddHub
<1>1. /\ nms[i] \in Networks /\ i \in Nat /\ netIndex[nms[i]] = i
      /\ nms[i] \in Nodes(nms)
  BY TreeFacts DEF SafeStep, Nodes, Range
<1>2. BeginHub(r, nms[i], i, 0, a) /\ nms' = nms
  BY <1>1 DEF CreateHub
<1>3. Nodes(nms') = Nodes(nms) \cup {nms[i]}
  BY <1>1, <1>2
<1>4. Registry!UsedIndices(i) = DOMAIN hubs[nms[i]]
  BY IndicesUsed DEF SafeStep
<1>5. \E h \in FreshHubs : Registry!Appear(h, i)
  BY <1>1, <1>2, <1>3, <1>4, BeginHubAppears
<1> QED
  BY <1>2, <1>5 DEF Registry!AddHub

\* The loop goes on after a POST of a hub, wherever the network is now.
LEMMA HubPostedRegisters ==
  ASSUME SafeStep, NEW r \in Requests, HubPosted(r)
  PROVE  Registry!AddHub \/ Registry!AddUnseen \/ Registry!Release
<1> DEFINE n == task[r].net
           i == netIndex[n]
<1>1. /\ task[r].pc = "hubPost" /\ nms' = nms
      /\ NextHub(r, n, i)
  BY DEF HubPosted
<1>2. n \in Networks /\ i \in Nat
  BY <1>1 DEF SafeStep, TreeInv, TypeOK, TasksMade, FreshNetworks, Indices
<1> HIDE DEF n, i
<1>3. CASE n \in Nodes(nms)
  <2>1. PICK k \in DOMAIN nms : nms[k] = n
    BY <1>3 DEF Nodes, Range
  <2>2. i = k
    BY <2>1, TreeFacts DEF SafeStep, i
  <2>3. Registry!UsedIndices(i) = DOMAIN hubs[n]
    BY <2>1, <2>2, IndicesUsed DEF SafeStep
  <2>4. Nodes(nms') = Nodes(nms) \cup {n}
    BY <1>1, <1>3
  <2>5. \/ \E h \in FreshHubs : Registry!Appear(h, i)
        \/ TreeHubs' = TreeHubs /\ Registry!MakeNothing
    BY <1>1, <1>2, <1>3, <2>3, <2>4, NextHubAppears
  <2> QED
    BY <1>1, <2>1, <2>2, <2>5 DEF Registry!AddHub, Registry!Release
<1>4. CASE n \notin Nodes(nms)
  BY <1>1, <1>2, <1>4, NextHubUnseen
<1> QED
  BY <1>3, <1>4

-----------------------------------------------------------------------------
\* The rollback removes the hub at the request's index, whoever that is now,
\* or nothing that clients can see.
LEMMA HubRefusedRegisters ==
  ASSUME SafeStep, NEW r \in Requests, HubRefused(r)
  PROVE  (\E h \in TreeHubs : Registry!RemoveHub(h)) \/ Registry!Release
<1> DEFINE n == task[r].net
           j == address[task[r].hub].hub
<1>1. /\ task[r].pc = "hubPost"
      /\ hubs' = [hubs EXCEPT ![n] = RemoveChild(hubs[n], j)]
      /\ UNCHANGED <<nms, address>>
      /\ Finalize(worker)
  BY DEF HubRefused
<1>2. n \in Networks /\ TreeInv /\ HoldersInv
  BY <1>1 DEF SafeStep, TreeInv, TasksMade
<1>3. Registry!MakeNothing
  BY <1>1, NothingMade
<1> HIDE DEF n, j
<1>4. CASE n \in Nodes(nms) /\ j \in DOMAIN hubs[n]
  <2>1. TreeHubs' = TreeHubs \ {hubs[n][j]} /\ hubs[n][j] \in TreeHubs
    BY <1>1, <1>2, <1>4, RemoveHubTree
  <2> QED
    BY <1>1, <1>3, <2>1 DEF Registry!RemoveHub
<1>5. CASE n \notin Nodes(nms) \/ j \notin DOMAIN hubs[n]
  <2>1. /\ \A m \in Networks \ {n} : hubs'[m] = hubs[m]
        /\ hubs'[n] = RemoveChild(hubs[n], j)
    BY <1>1, <1>2 DEF TreeInv, TypeOK
  <2>2. j \notin DOMAIN hubs[n] => Nodes(hubs'[n]) = Nodes(hubs[n])
    BY <2>1 DEF RemoveChild, Restrict, Nodes, Range
  <2>3. Nodes(nms) \subseteq Networks
    BY <1>2, TreeFacts
  <2>4. TreeHubs' = TreeHubs
    BY <1>1, <1>5, <2>1, <2>2, <2>3 DEF TreeHubs
  <2> QED
    BY <1>1, <1>3, <2>4 DEF Registry!Release
<1> QED
  BY <1>4, <1>5

LEMMA DeleteHubRegisters ==
  ASSUME SafeStep, NEW i \in DOMAIN nms, NEW j \in HubsAt(i), DeleteHub(i, j)
  PROVE  \E h \in TreeHubs : Registry!RemoveHub(h)
<1>1. /\ hubs' = [hubs EXCEPT ![nms[i]] = RemoveChild(hubs[nms[i]], j)]
      /\ UNCHANGED <<nms, address>>
      /\ Finalize(worker)
  BY DEF DeleteHub, RemoveHub
<1>2. nms[i] \in Nodes(nms) /\ j \in DOMAIN hubs[nms[i]]
  BY DEF Nodes, Range, HubsAt
<1>3. /\ TreeHubs' = TreeHubs \ {hubs[nms[i]][j]}
      /\ hubs[nms[i]][j] \in TreeHubs
  BY <1>1, <1>2, RemoveHubTree DEF SafeStep
<1>4. Registry!MakeNothing
  BY <1>1, NothingMade
<1> QED
  BY <1>1, <1>3, <1>4 DEF Registry!RemoveHub

\* A deleted network takes its hubs with it, and no others.
LEMMA DeleteNetworkRegisters ==
  ASSUME SafeStep, NEW i \in DOMAIN nms, DeleteNetwork(i)
  PROVE  Registry!RemoveNetwork(i)
<1> DEFINE n == nms[i]
<1>1. TreeInv /\ HoldersInv
  BY DEF SafeStep
<1>2. n \in Networks /\ n \in Nodes(nms) /\ Nodes(nms) \subseteq Networks
  BY <1>1, TreeFacts DEF Nodes, Range
<1>3. /\ nms' = RemoveChild(nms, i)
      /\ UNCHANGED <<hubs, address>>
      /\ Finalize(worker)
  BY DEF DeleteNetwork, RemoveNetwork
<1>4. DOMAIN nms' = DOMAIN nms \ {i}
  BY <1>3 DEF RemoveChild, Restrict
<1>5. Nodes(nms') = Nodes(nms) \ {n}
  <2>1. \A k \in DOMAIN nms : nms[k] = nms[i] => k = i
    BY <1>1, TreeFacts
  <2> QED
    BY <1>3, <2>1 DEF Nodes, Range, RemoveChild, Restrict
<1>6. Registry!Under(i) = Nodes(hubs[n])
  BY <1>1, IndicesUsed
<1> HIDE DEF n
<1>7. \A m \in Networks \ {n} : Nodes(hubs[m]) \cap Nodes(hubs[n]) = {}
  BY <1>1, <1>2 DEF HoldersInv, HubsInOneNetwork
<1>8. TreeHubs' = TreeHubs \ Nodes(hubs[n])
  BY <1>2, <1>3, <1>5, <1>7 DEF TreeHubs
<1>9. Registry!MakeNothing
  BY <1>3, NothingMade
<1> QED
  BY <1>4, <1>6, <1>8, <1>9 DEF Registry!RemoveNetwork

-----------------------------------------------------------------------------
\* Requests that begin without a hub, and those that end.
LEMMA RequestsRegister ==
  ASSUME SafeStep, NEW r \in Requests,
         \/ \E k, a : CreateNetwork(r, k, a)
         \/ NetworkRefused(r)
         \/ HubConnected(r)
         \/ RequestFails(r)
  PROVE  Registry!Release
<1>1. UNCHANGED <<nms, hubs, address>> /\ (Finalize(worker) \/ worker' = worker)
  BY DEF CreateNetwork, NetworkRefused, HubConnected, RequestFails
<1>2. TreeHubs' = TreeHubs
  BY <1>1 DEF TreeHubs
<1> QED
  BY <1>1, <1>2, NothingMade DEF Registry!Release

\* AP routes, workers and the listener.
LEMMA OthersRegister ==
  ASSUME SafeStep, ChangesAps \/ WorkerOrListener \/ UNCHANGED vars
  PROVE  Registry!Release
<1>1. UNCHANGED <<nms, hubs, address>>
  BY DEF ChangesAps, CreateAp, DeleteAp, WorkerOrListener, WorkerConnects,
         WorkerCrashes, WorkerDies, ListenerHandles, vars
<1>2. FreshHubs' = FreshHubs /\ FreshHubs' = FreshHubs \ {}
  BY <1>1 DEF FreshHubs
<1>3. TreeHubs' = TreeHubs
  BY <1>1 DEF TreeHubs
<1>4. \/ RunningHubs' = RunningHubs
      \/ WorkersMayCrash /\ RunningHubs' \subseteq RunningHubs
  BY DEF RunningHubs, Running, ChangesAps, CreateAp, DeleteAp,
         WorkerOrListener, WorkerConnects, WorkerCrashes, WorkerDies,
         ListenerHandles, vars, SafeStep, TreeInv, TypeOK
<1>5. RunningHubs' \subseteq HeldHubs'
  BY DEF SafeStep, HoldersInv, RunningHeld, RunningHubs
<1>6. Registry!Hold({}, RunningHubs)
  BY <1>2, <1>4, <1>5, HeldAfter DEF Registry!Hold
<1> QED
  BY <1>1, <1>2, <1>3, <1>6 DEF Registry!Release, Registry!MakeNothing

\* The empty controller has no networks and no hubs.
LEMMA InitRegisters == Init => Registry!Init
<1> SUFFICES ASSUME Init
             PROVE  Registry!Init
  OBVIOUS
<1>1. DOMAIN nms = {} /\ Nodes(nms) = {} /\ \A n \in Networks : Nodes(hubs[n]) = {}
  BY NoChildrenDict DEF Init, Nodes, Range
<1>2. \A r \in Requests : ~InFlight(r)
  BY DEF Init, InFlight, NoTask, Locals
<1>3. TreeHubs = {} /\ HeldHubs = {}
  BY <1>1, <1>2 DEF Init, TreeHubs, HeldHubs, HeldNetworks
<1>4. FreshHubs = Hubs /\ RunningHubs = {}
  BY DEF Init, FreshHubs, RunningHubs, Running
<1> QED
  BY <1>1, <1>3, <1>4 DEF Init, Registry!Init

\* Every step of the controller is a step of the registry.
LEMMA NextRegisters ==
  TreeInv /\ TreeInv' /\ HoldersInv /\ HoldersInv' /\ [Next]_vars
    => [Registry!Next]_(Registry!registryVars)
<1> SUFFICES ASSUME TreeInv, TreeInv', HoldersInv, HoldersInv', [Next]_vars
             PROVE  Registry!Next
  OBVIOUS
<1>1. SafeStep
  BY CreatesHoldNothingOld, ContinuesHoldNothingOld, TasksKeptHoldNothingOld
     DEF Next, SafeStep
<1>2. CASE Creates
  BY <1>1, <1>2, RequestsRegister, CreateHubRegisters DEF Creates, Registry!Next
<1>3. CASE Continues
  BY <1>1, <1>3, RequestsRegister, NetworkPostedRegisters, HubPostedRegisters,
     HubRefusedRegisters DEF Continues, Registry!Next
<1>4. CASE Deletes
  BY <1>1, <1>4, DeleteNetworkRegisters, DeleteHubRegisters
     DEF Deletes, Registry!Next
<1>5. CASE ChangesAps \/ WorkerOrListener \/ UNCHANGED vars
  BY <1>1, <1>5, OthersRegister DEF Registry!Next
<1> QED
  BY <1>2, <1>3, <1>4, <1>5 DEF Next

(***************************************************************************)
(* The controller keeps the promises of HubRegistry to every client: what  *)
(* appears gets the lowest free index, only deletions and rollbacks take   *)
(* hubs away, nothing that was dropped is reached again, and workers run   *)
(* exactly as long as something refers to their hubs.                      *)
(***************************************************************************)
THEOREM RegistryImplemented == Spec => ImplementsRegistry
BY InitRegisters, NextRegisters, TreeInvariance, HoldersInvariance, PTL
   DEF Spec, ImplementsRegistry, Registry!Spec

=============================================================================
