----------------------------- MODULE Controller -----------------------------
(***************************************************************************)
(* The controller process: the tree of networks and hubs (managers.py),    *)
(* the requests that create and delete them (routes_*.py), the hub worker  *)
(* processes they start, and the listener task that consumes the workers'  *)
(* messages (worker_ctrl.py).                                              *)
(*                                                                         *)
(* The controller is one asyncio event loop, so an action is the code that *)
(* runs between two suspension points.  A create request is suspended at   *)
(* the POST of a network to the NMS, at the wait for a hub's worker, at    *)
(* the POST of a hub, and at the exit of the HTTP client; every other      *)
(* handler runs to its end in one action.  GET routes, and requests that   *)
(* answer 404 because an index is not in the tree, change nothing.         *)
(***************************************************************************)
EXTENDS NodeTree

CONSTANTS
  Networks,        \* the NetworkManager objects (bounds how many are made)
  Hubs,            \* the HubManager objects, each with its auid and worker
  Requests,        \* the POST requests that create a network or a hub
  HubCounts,       \* the values of NetworkCreateRequest.hubs
  ApCounts,        \* the values of num_aps and aps_per_hub
  MaxAps,          \* bound on the APs under a hub
  WorkersMayCrash, \* whether worker processes may exit by themselves
  NoNode           \* None

ASSUME NodesAssumption ==
  /\ NoNode \notin Networks \cup Hubs
  /\ IsFiniteSet(Hubs)

ASSUME CountsAssumption ==
  /\ HubCounts \subseteq Nat
  /\ ApCounts \subseteq Nat
  /\ MaxAps \in Nat
  /\ WorkersMayCrash \in BOOLEAN

VARIABLES
  nms,        \* nms.children: index -> NetworkManager
  hubs,       \* NetworkManager.children: index -> HubManager, per network
  aps,        \* the keys of HubManager.children, per hub
  netIndex,   \* NetworkManager.index and address.net
  address,    \* HubManager.address
  task,       \* the local variables of each create request
  worker,     \* the worker process of each hub
  inbox,      \* hubs whose worker's HubConnectInd waits in the PULL socket
  connected,  \* hubs whose _connected_event is set
  registered, \* hubs whose auid the NMS has accepted
  listening,  \* the listener task is alive
  pinned      \* the network that the dead listener's traceback refers to

vars == <<nms, hubs, aps, netIndex, address, task, worker, inbox, connected,
          registered, listening, pinned>>

NoIndex == -1
NoAddress == [net |-> NoIndex, hub |-> NoIndex]
Addresses == [net : Nat, hub : Nat]

\* The local variables of a request: where it is suspended, the network and
\* the hub it works on, how many hubs are still to be made, each with a APs.
Locals(pc, n, h, more, a) ==
  [pc |-> pc, net |-> n, hub |-> h, more |-> more, aps |-> a,
   answer |-> "none"]

\* A request whose exception, with this status code, waits for the client of
\* add_hub to close; only the references it holds still matter.
Failing(t, code) ==
  [pc |-> "failing", net |-> t.net, hub |-> t.hub, more |-> 0, aps |-> 0,
   answer |-> code]

\* A request that has not arrived, and one that has been answered.
NoTask == Locals("idle", NoNode, NoNode, 0, 0)

Answered(code) ==
  [pc |-> "answered", net |-> NoNode, hub |-> NoNode, more |-> 0, aps |-> 0,
   answer |-> code]

Idle(r) == task[r].pc = "idle"
InFlight(r) == task[r].pc \notin {"idle", "answered"}

\* The objects that no constructor has returned yet.
FreshNetworks == {n \in Networks : netIndex[n] = NoIndex}
FreshHubs == {h \in Hubs : address[h] = NoAddress}

-----------------------------------------------------------------------------
(***************************************************************************)
(* References.  A worker is stopped by HubManager.__del__, which CPython   *)
(* runs when the last reference to the hub goes: those of the tree, of the *)
(* frames of suspended requests (self in add_hub is the network, hub_mgr   *)
(* the hub), and of the traceback of the exception that ended the listener *)
(* task, which the task object keeps (instance in get_node).               *)
(***************************************************************************)
HeldNetworks ==
  (Nodes(nms) \cup {task[r].net : r \in {q \in Requests : InFlight(q)}}
     \cup {pinned}) \ {NoNode}

HeldHubs ==
  (UNION {Nodes(hubs[n]) : n \in HeldNetworks})
    \cup ({task[r].hub : r \in {q \in Requests : InFlight(q)}} \ {NoNode})

\* The hubs of the networks in the tree: what the routes can reach.
TreeHubs == UNION {Nodes(hubs[n]) : n \in Nodes(nms)}

Running == {"starting", "connected"}

\* Wrong: a hub that leaves the tree stops its worker, whoever holds the hub.
FinalizeOutsideTree(processes) ==
  worker' = [h \in Hubs |-> IF processes[h] \in Running /\ h \notin TreeHubs'
                              THEN "exited"
                              ELSE processes[h]]

\* Wrong: no hub stops its worker.
FinalizeNothing(processes) == worker' = processes

(***************************************************************************)
(* stop_worker for every hub whose last reference this step drops, after   *)
(* the step has made processes the workers: terminate, then wait at most   *)
(* five seconds.  A process that outlasts the wait is forgotten all the    *)
(* same ("dying").                                                         *)
(***************************************************************************)
Finalize(processes) ==
  LET dropped == {h \in Hubs \ HeldHubs' : processes[h] \in Running}
  IN  \E slow \in SUBSET dropped :
        worker' = [h \in Hubs |->
                     CASE h \in slow -> "dying"
                       [] h \in dropped \ slow -> "exited"
                       [] OTHER -> processes[h]]

-----------------------------------------------------------------------------
(***************************************************************************)
(* add_hub up to the wait for the worker: pick the index, put the new hub  *)
(* in the tree, start its process.  If Popen raises, the exception passes  *)
(* through every frame, the answer is 500, and the hub stays in the tree   *)
(* without a worker.  The hub goes into network n, whose index is i; more  *)
(* hubs follow, and each gets a APs.                                       *)
(***************************************************************************)
BeginHub(r, n, i, more, a) ==
  \E h \in FreshHubs :
    LET index == GetIndex(hubs[n])
    IN  /\ address' = [address EXCEPT ![h] = [net |-> i, hub |-> index]]
        /\ hubs' = [hubs EXCEPT ![n] = AddChild(hubs[n], index, h)]
        /\ \/ /\ task' = [task EXCEPT ![r] = Locals("connect", n, h, more, a)]
              /\ Finalize([worker EXCEPT ![h] = "starting"])
           \/ /\ task' = [task EXCEPT ![r] = Answered("500")]
              /\ Finalize(worker)

(***************************************************************************)
(* POST /network: add_network up to its POST to the NMS.                   *)
(***************************************************************************)
CreateNetwork(r, k, a) ==
  /\ Idle(r)
  /\ task' = [task EXCEPT ![r] =
                Locals("netPost", NoNode, NoNode, k, a)]
  /\ UNCHANGED <<nms, hubs, aps, netIndex, address, worker, inbox, connected,
                 registered, listening, pinned>>

\* Wrong: the loop counts no hub as made.
NextHubAgain(r, n, i) ==
  IF task[r].more > 0
    THEN BeginHub(r, n, i, task[r].more, task[r].aps)
    ELSE /\ task' = [task EXCEPT ![r] = Answered("201")]
         /\ UNCHANGED <<hubs, address>>
         /\ Finalize(worker)

\* The next hub of the loop in add_network, or the 201 answer.
NextHub(r, n, i) ==
  IF task[r].more > 0
    THEN BeginHub(r, n, i, task[r].more - 1, task[r].aps)
    ELSE /\ task' = [task EXCEPT ![r] = Answered("201")]
         /\ UNCHANGED <<hubs, address>>
         /\ Finalize(worker)

(***************************************************************************)
(* The NMS accepted the network: only now is its index chosen.             *)
(***************************************************************************)
NetworkPosted(r) ==
  /\ task[r].pc = "netPost"
  /\ UNCHANGED <<aps, inbox, connected, registered, listening, pinned>>
  /\ \E n \in FreshNetworks :
       LET index == GetIndex(nms)
       IN  /\ nms' = AddChild(nms, index, n)
           /\ netIndex' = [netIndex EXCEPT ![n] = index]
           /\ NextHub(r, n, index)

(***************************************************************************)
(* The NMS refused the network: an HTTP error status is answered with 502. *)
(* A transport error has no response attribute, so building the detail of  *)
(* the 502 raises AttributeError, which is answered with 500.              *)
(***************************************************************************)
NetworkRefused(r) ==
  /\ task[r].pc = "netPost"
  /\ \E code \in {"502", "500"} : task' = [task EXCEPT ![r] = Answered(code)]
  /\ UNCHANGED <<nms, hubs, aps, netIndex, address, worker, inbox, connected,
                 registered, listening, pinned>>

(***************************************************************************)
(* POST /network/i/hub: add_hub up to the wait for the worker.             *)
(***************************************************************************)
CreateHub(r, i, a) ==
  /\ Idle(r)
  /\ i \in DOMAIN nms
  /\ UNCHANGED <<nms, aps, netIndex, inbox, connected, registered, listening,
                 pinned>>
  /\ BeginHub(r, nms[i], netIndex[nms[i]], 0, a)

\* Wrong: the request does not wait for the event.
HubConnectedEarly(r) ==
  /\ task[r].pc = "connect"
  /\ task' = [task EXCEPT ![r].pc = "hubPost"]
  /\ UNCHANGED <<nms, hubs, aps, netIndex, address, worker, inbox, connected,
                 registered, listening, pinned>>

(***************************************************************************)
(* The event the request waits for is set: it goes on to POST the hub.     *)
(***************************************************************************)
HubConnected(r) ==
  /\ task[r].pc = "connect"
  /\ task[r].hub \in connected
  /\ task' = [task EXCEPT ![r].pc = "hubPost"]
  /\ UNCHANGED <<nms, hubs, aps, netIndex, address, worker, inbox, connected,
                 registered, listening, pinned>>

(***************************************************************************)
(* The NMS accepted the hub: the APs are made, and add_hub returns.        *)
(***************************************************************************)
HubPosted(r) ==
  LET t == task[r]
  IN  /\ t.pc = "hubPost"
      /\ registered' = registered \cup {t.hub}
      /\ aps' = [aps EXCEPT ![t.hub] = @ \cup LowestFree(@, t.aps)]
      /\ UNCHANGED <<nms, netIndex, inbox, connected, listening, pinned>>
      /\ NextHub(r, t.net, netIndex[t.net])

(***************************************************************************)
(* The POST of the hub failed: the entry at the request's index is deleted *)
(* (KeyError, hence 500, if there is none) and the exception waits for the *)
(* client to close.  The NMS may have accepted the hub whose answer was    *)
(* lost.                                                                   *)
(***************************************************************************)
HubRefused(r) ==
  LET t == task[r]
      index == address[t.hub].hub
      found == index \in DOMAIN hubs[t.net]
  IN  /\ t.pc = "hubPost"
      /\ registered' \in {registered, registered \cup {t.hub}}
      /\ hubs' = [hubs EXCEPT ![t.net] = RemoveChild(@, index)]
      /\ task' = [task EXCEPT ![r] = Failing(t, IF found THEN "502" ELSE "500")]
      /\ UNCHANGED <<nms, aps, netIndex, address, inbox, connected, listening,
                     pinned>>
      /\ Finalize(worker)

\* The client is closed and the exception leaves add_hub.
RequestFails(r) ==
  /\ task[r].pc = "failing"
  /\ task' = [task EXCEPT ![r] = Answered(@.answer)]
  /\ UNCHANGED <<nms, hubs, aps, netIndex, address, inbox, connected,
                 registered, listening, pinned>>
  /\ Finalize(worker)

-----------------------------------------------------------------------------
\* remove_network, remove_hub, add_ap and remove_ap of the managers.
RemoveNetwork(i) == nms' = RemoveChild(nms, i)
RemoveHub(n, j) == hubs' = [hubs EXCEPT ![n] = RemoveChild(@, j)]
AddAp(h) == aps' = [aps EXCEPT ![h] = @ \cup LowestFree(@, 1)]
RemoveAp(h, k) == aps' = [aps EXCEPT ![h] = @ \ {k}]

\* DELETE /network/i
DeleteNetwork(i) ==
  /\ i \in DOMAIN nms
  /\ RemoveNetwork(i)
  /\ UNCHANGED <<hubs, aps, netIndex, address, task, inbox, connected,
                 registered, listening, pinned>>
  /\ Finalize(worker)

\* DELETE /network/i/hub/j
DeleteHub(i, j) ==
  /\ i \in DOMAIN nms
  /\ j \in DOMAIN hubs[nms[i]]
  /\ RemoveHub(nms[i], j)
  /\ UNCHANGED <<nms, aps, netIndex, address, task, inbox, connected,
                 registered, listening, pinned>>
  /\ Finalize(worker)

\* POST /network/i/hub/j/ap
CreateAp(i, j) ==
  /\ i \in DOMAIN nms
  /\ j \in DOMAIN hubs[nms[i]]
  /\ LET h == hubs[nms[i]][j]
     IN  /\ Cardinality(aps[h]) < MaxAps
         /\ AddAp(h)
  /\ UNCHANGED <<nms, hubs, netIndex, address, task, worker, inbox, connected,
                 registered, listening, pinned>>

\* DELETE /network/i/hub/j/ap/k
DeleteAp(i, j, k) ==
  /\ i \in DOMAIN nms
  /\ j \in DOMAIN hubs[nms[i]]
  /\ LET h == hubs[nms[i]][j]
     IN  /\ k \in aps[h]
         /\ RemoveAp(h, k)
  /\ UNCHANGED <<nms, hubs, netIndex, address, task, worker, inbox, connected,
                 registered, listening, pinned>>

-----------------------------------------------------------------------------
(***************************************************************************)
(* The hub worker processes.                                               *)
(***************************************************************************)

\* Wrong: the worker sends nothing.
WorkerSilent(h) ==
  /\ worker[h] = "starting"
  /\ worker' = [worker EXCEPT ![h] = "connected"]
  /\ UNCHANGED <<nms, hubs, aps, netIndex, address, task, inbox, connected,
                 registered, listening, pinned>>

\* send_to_controller: the message waits in the PULL socket.
SendToController(h) == inbox' = inbox \cup {h}

\* The worker's first act is to send its address in a HubConnectInd.
WorkerConnects(h) ==
  /\ worker[h] = "starting"
  /\ worker' = [worker EXCEPT ![h] = "connected"]
  /\ SendToController(h)
  /\ UNCHANGED <<nms, hubs, aps, netIndex, address, task, connected,
                 registered, listening, pinned>>

\* Nobody polls the process: the controller does not notice.
WorkerCrashes(h) ==
  /\ WorkersMayCrash
  /\ worker[h] \in Running
  /\ worker' = [worker EXCEPT ![h] = "exited"]
  /\ UNCHANGED <<nms, hubs, aps, netIndex, address, task, inbox, connected,
                 registered, listening, pinned>>

\* The terminated process ends after stop_worker has stopped waiting.
WorkerDies(h) ==
  /\ worker[h] = "dying"
  /\ worker' = [worker EXCEPT ![h] = "exited"]
  /\ UNCHANGED <<nms, hubs, aps, netIndex, address, task, inbox, connected,
                 registered, listening, pinned>>

\* nms.get_node(a), if each get_child_or_404 on its way finds the child.
Resolves(a) == a.net \in DOMAIN nms /\ a.hub \in DOMAIN hubs[nms[a.net]]
GetNode(a) == hubs[nms[a.net]][a.hub]

\* on_connect_ind sets the event of hub h.
OnConnectInd(h) ==
  /\ connected' = connected \cup {h}
  /\ UNCHANGED <<listening, pinned>>

\* The HTTPException of get_child_or_404 leaves the loop, and the task has
\* ended; its traceback keeps the network whose child was missing.
ListenerEnds(a) ==
  /\ listening' = FALSE
  /\ pinned' = IF a.net \in DOMAIN nms THEN nms[a.net] ELSE pinned
  /\ UNCHANGED connected

\* handle_hub_connect_ind: a is resolved in the tree of now.
HandleHubConnectInd(a) ==
  \/ Resolves(a) /\ OnConnectInd(GetNode(a))
  \/ ~Resolves(a) /\ ListenerEnds(a)

(***************************************************************************)
(* One turn of the listener: a message of the socket is handled.           *)
(***************************************************************************)
ListenerHandles(h) ==
  /\ listening
  /\ h \in inbox
  /\ inbox' = inbox \ {h}
  /\ HandleHubConnectInd(address[h])
  /\ UNCHANGED <<nms, hubs, aps, netIndex, address, task, worker, registered>>

-----------------------------------------------------------------------------
Init ==
  /\ nms = NoChildren
  /\ hubs = [n \in Networks |-> NoChildren]
  /\ aps = [h \in Hubs |-> {}]
  /\ netIndex = [n \in Networks |-> NoIndex]
  /\ address = [h \in Hubs |-> NoAddress]
  /\ task = [r \in Requests |-> NoTask]
  /\ worker = [h \in Hubs |-> "none"]
  /\ inbox = {}
  /\ connected = {}
  /\ registered = {}
  /\ listening = TRUE
  /\ pinned = NoNode

\* The indices of the hubs under the network at index i.
HubsAt(i) == DOMAIN hubs[nms[i]]

Creates ==
  \E r \in Requests, a \in ApCounts :
    \/ \E k \in HubCounts : CreateNetwork(r, k, a)
    \/ \E i \in DOMAIN nms : CreateHub(r, i, a)

Continues ==
  \E r \in Requests :
    \/ NetworkPosted(r)
    \/ NetworkRefused(r)
    \/ HubConnected(r)
    \/ HubPosted(r)
    \/ HubRefused(r)
    \/ RequestFails(r)

Deletes ==
  \E i \in DOMAIN nms : DeleteNetwork(i) \/ \E j \in HubsAt(i) : DeleteHub(i, j)

ChangesAps ==
  \E i \in DOMAIN nms : \E j \in HubsAt(i) :
    CreateAp(i, j) \/ \E k \in aps[hubs[nms[i]][j]] : DeleteAp(i, j, k)

WorkerOrListener ==
  \E h \in Hubs :
    \/ WorkerConnects(h)
    \/ WorkerCrashes(h)
    \/ WorkerDies(h)
    \/ ListenerHandles(h)

Next == Creates \/ Continues \/ Deletes \/ ChangesAps \/ WorkerOrListener

Spec == Init /\ [][Next]_vars

(***************************************************************************)
(* Fairness.  The event loop resumes a request whose event is set or whose *)
(* client is closed; the POSTs end within HTTPX_TIMEOUT; a process that    *)
(* was started runs, and one that was terminated ends; the listener        *)
(* receives what is in its socket.  Nothing makes a client send a request  *)
(* or a worker crash.                                                      *)
(***************************************************************************)
Fairness ==
  /\ \A r \in Requests :
       /\ WF_vars(NetworkPosted(r) \/ NetworkRefused(r))
       /\ WF_vars(HubConnected(r))
       /\ WF_vars(HubPosted(r) \/ HubRefused(r))
       /\ WF_vars(RequestFails(r))
  /\ \A h \in Hubs :
       /\ WF_vars(WorkerConnects(h))
       /\ WF_vars(WorkerDies(h))
       /\ WF_vars(ListenerHandles(h))

FairSpec == Spec /\ Fairness

-----------------------------------------------------------------------------
Codes == {"none", "201", "502", "500"}

Indices == Nat \cup {NoIndex}

\* A worker that was never started, is up, or has been stopped.
Processes == {"none"} \cup Running \cup {"dying", "exited"}

TaskType ==
  [pc : {"idle", "netPost", "connect", "hubPost", "failing", "answered"},
   net : Networks \cup {NoNode}, hub : Hubs \cup {NoNode},
   more : Nat, aps : Nat, answer : Codes]

\* The type of every variable.
TypeOK ==
  /\ IsDict(nms, Networks)
  /\ DOMAIN hubs = Networks
  /\ \A n \in Networks : IsDict(hubs[n], Hubs)
  /\ aps \in [Hubs -> SUBSET Nat]
  /\ \A h \in Hubs : IsFiniteSet(aps[h])
  /\ netIndex \in [Networks -> Indices]
  /\ address \in [Hubs -> Addresses \cup {NoAddress}]
  /\ task \in [Requests -> TaskType]
  /\ worker \in [Hubs -> Processes]
  /\ inbox \subseteq Hubs
  /\ connected \subseteq Hubs
  /\ registered \subseteq Hubs
  /\ listening \in BOOLEAN
  /\ pinned \in Networks \cup {NoNode}

(***************************************************************************)
(* Every node of the tree is where get_node looks for its address: indices *)
(* that are reused while requests are suspended never leave a network or a *)
(* hub under an index that is not its own, so no node is in two places.    *)
(***************************************************************************)
AddressResolves ==
  \A i \in DOMAIN nms :
    /\ netIndex[nms[i]] = i
    /\ \A j \in HubsAt(i) : address[hubs[nms[i]][j]] = [net |-> i, hub |-> j]

(***************************************************************************)
(* Why AddressResolves holds: the addresses also match in the networks     *)
(* that have left the tree but that a suspended request still fills, a     *)
(* network that has not been made has no hubs, and a request works on a    *)
(* network and a hub that have been made.                                  *)
(***************************************************************************)
NetworksPlaced == \A i \in DOMAIN nms : netIndex[nms[i]] = i

HubsPlaced ==
  \A n \in Networks : \A j \in DOMAIN hubs[n] :
    address[hubs[n][j]] = [net |-> netIndex[n], hub |-> j]

FreshNetworksEmpty == \A n \in FreshNetworks : DOMAIN hubs[n] = {}

TasksMade ==
  \A r \in Requests : task[r].pc \in {"connect", "hubPost", "failing"} =>
    /\ task[r].net \in Networks \ FreshNetworks
    /\ task[r].hub \in Hubs \ FreshHubs

TreeInv ==
  TypeOK /\ NetworksPlaced /\ HubsPlaced /\ FreshNetworksEmpty /\ TasksMade

(***************************************************************************)
(* A hub in the tree that no request is still making, and whose process    *)
(* could be started, has been accepted by the NMS and was connected:       *)
(* add_hub leaves no half-made hub behind, whoever deletes what meanwhile. *)
(***************************************************************************)
Settled(h) ==
  \/ worker[h] = "none"
  \/ \E r \in Requests : InFlight(r) /\ task[r].hub = h
  \/ h \in registered \cap connected

SettledHubRegistered == \A h \in TreeHubs : Settled(h)

(***************************************************************************)
(* When no request is in flight, the worker processes that run are those   *)
(* of the hubs in the tree and of at most one network that has left it,    *)
(* the one that the traceback of a dead listener keeps: stopping workers   *)
(* from __del__ loses none of the others.                                  *)
(***************************************************************************)
PinnedHubs == UNION {Nodes(hubs[n]) : n \in {pinned} \ {NoNode}}

QuiescentWorkersInTree ==
  (\A r \in Requests : ~InFlight(r))
    => {h \in Hubs : worker[h] \in Running} \subseteq TreeHubs \cup PinnedHubs

(***************************************************************************)
(* Why the two hold: the references of the requests.  A hub is in one      *)
(* network only, that of the request that makes it; a request that waits   *)
(* for the network has neither; one that waits for the POST of its hub has *)
(* seen it connect; one whose hub was refused has taken it out.  A worker  *)
(* that runs is held by a reference, and only a listener that is dead pins *)
(* a network.  Hubs are settled in networks that left the tree as well.    *)
(***************************************************************************)
HubsInOneNetwork ==
  \A n, m \in Networks : Nodes(hubs[n]) \cap Nodes(hubs[m]) # {} => n = m

RequestsHold ==
  \A r \in Requests :
    /\ task[r].pc \in {"idle", "netPost", "answered"} =>
         task[r].net = NoNode /\ task[r].hub = NoNode
    /\ task[r].pc = "hubPost" => task[r].hub \in connected
    /\ \A n \in Networks :
         task[r].hub \in Nodes(hubs[n]) =>
           n = task[r].net /\ task[r].pc # "failing"

RunningHeld == \A h \in Hubs : worker[h] \in Running => h \in HeldHubs

FreshNotStarted == \A h \in FreshHubs : worker[h] = "none"

HoldersInv ==
  /\ HubsInOneNetwork
  /\ RequestsHold
  /\ RunningHeld
  /\ FreshNotStarted
  /\ listening => pinned = NoNode
  /\ \A n \in Networks : \A h \in Nodes(hubs[n]) : Settled(h)

(***************************************************************************)
(* No step puts another node into an occupied slot of a dictionary: what   *)
(* get_index picks is free when add_network and add_hub use it, although   *)
(* other requests fill and empty the slots around every suspension.        *)
(***************************************************************************)
SlotsNotOverwritten ==
  [][KeepsSlots(nms, nms')
     /\ \A n \in Networks : KeepsSlots(hubs[n], hubs'[n])]_vars

(***************************************************************************)
(* No worker is stopped too early: while clients can see a hub, or any     *)
(* request works on it, the controller has not terminated its worker.  A   *)
(* deletion leaves the worker to the request that waits for it, and a hub  *)
(* that lost its last reference is never reached again, although networks  *)
(* that left the tree are still filled by their requests.                  *)
(***************************************************************************)
Stopped(h) ==
  worker[h] = "dying" \/ (worker[h] = "exited" /\ ~WorkersMayCrash)

NoWorkerStoppedEarly == \A h \in HeldHubs : ~Stopped(h)

(***************************************************************************)
(* A request never goes round: each turn of the event loop that resumes it *)
(* leaves fewer suspensions (two for each hub still to be made, three for  *)
(* the one that connects) before its answer, and an answer is final,       *)
(* whatever other clients delete or roll back meanwhile.                   *)
(***************************************************************************)
StepsLeft(t) ==
  CASE t.pc = "connect" -> 2 * t.more + 3
    [] t.pc \in {"netPost", "hubPost"} -> 2 * t.more + 2
    [] t.pc = "failing" -> 1
    [] OTHER -> 0

RequestsAdvance ==
  [][\A r \in Requests :
       task'[r] # task[r] => Idle(r) \/ StepsLeft(task'[r]) < StepsLeft(task[r])]_vars

(***************************************************************************)
(* What every client can rely on: the controller implements HubRegistry,   *)
(* with the hubs it refers to as those that are held.  So a worker runs as *)
(* long as, and no longer than, the controller refers to its hub.          *)
(***************************************************************************)
RunningHubs == {h \in Hubs : worker[h] \in Running}

Registry == INSTANCE HubRegistry
  WITH NoPlace <- NoAddress, MayCrash <- WorkersMayCrash,
       networks <- DOMAIN nms, fresh <- FreshHubs, present <- TreeHubs,
       held <- HeldHubs, place <- address, running <- RunningHubs

ImplementsRegistry == Registry!Spec

=============================================================================
