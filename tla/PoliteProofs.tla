---------------------------- MODULE PoliteProofs ----------------------------
(***************************************************************************)
(* Theorems about PoliteController: with clients that delete only what is  *)
(* no longer being created, the listener survives, every POST of a hub     *)
(* follows the connection of the hub's own worker, and every rollback      *)
(* finds the hub it removes.                                               *)
(***************************************************************************)
EXTENDS PoliteController, ControllerProofs

\* A polite client takes only steps that any client may take.
LEMMA PoliteNextIsNext == [PoliteNext]_vars => [Next]_vars
BY DEF PoliteNext, PoliteDeletes, Next, Deletes

\* The initial state satisfies the invariant.
LEMMA InitPoliteInv == Init => PoliteInv
BY DEF Init, PoliteInv, ListenerSurvives, AwaitedWorkers, OwnHubs, Making,
       BusyHubsInTree, ConnectedOnce, RollbackFindsHub, NoTask, Locals

\* Stopping workers only takes workers out of the states they run in.
LEMMA FinalizeStops ==
  ASSUME NEW P \in [Hubs -> Processes], Finalize(P), NEW h \in Hubs,
         worker'[h] = "starting"
  PROVE  P[h] = "starting"
BY DEF Finalize

(***************************************************************************)
(* What a step must leave alone to keep the part of the invariant that is  *)
(* about workers and the listener.                                         *)
(***************************************************************************)
LEMMA WorkersKept ==
  ASSUME PoliteInv, TreeInv,
         \A h \in Hubs : worker'[h] = "starting" => worker[h] = "starting",
         UNCHANGED <<inbox, connected, listening>>,
         \A h \in Hubs : h \in FreshHubs' => h \in FreshHubs,
         \A r \in Requests : task[r].pc = "connect" => task'[r] = task[r],
         \A r \in Requests : task'[r].pc = "hubPost" => task'[r] = task[r]
  PROVE  ListenerSurvives' /\ AwaitedWorkers' /\ ConnectedOnce'
<1>1. ListenerSurvives'
  BY DEF PoliteInv, ListenerSurvives
<1>2. AwaitedWorkers'
  BY DEF PoliteInv, AwaitedWorkers
<1>3. ConnectedOnce'
  BY DEF PoliteInv, ConnectedOnce, TreeInv, TypeOK
<1> QED
  BY <1>1, <1>2, <1>3

(***************************************************************************)
(* What a step must leave alone to keep the part that is about the         *)
(* requests and the tree: no request begins to make a hub, and the slots   *)
(* of the hubs that are being made stay as they are.                       *)
(***************************************************************************)
SlotKept(r) ==
  LET n == task[r].net
      h == task[r].hub
      a == address[h]
  IN  /\ task'[r].net = n /\ task'[r].hub = h /\ address'[h] = a
      /\ a.net \in DOMAIN nms' /\ nms'[a.net] = nms[a.net]
      /\ a.hub \in DOMAIN hubs'[n] /\ hubs'[n][a.hub] = hubs[n][a.hub]

\* A hub stays in place while the tree, its address and its request do.
LEMMA InPlaceKept ==
  ASSUME NEW r \in Requests, InPlace(r), SlotKept(r)
  PROVE  InPlace(r)'
BY DEF InPlace, SlotKept

\* Requests that keep their state keep the hubs they make to themselves.
LEMMA MakersKept ==
  ASSUME PoliteInv,
         \A r \in Requests : Making(r)' => Making(r) /\ SlotKept(r),
         \A r \in Requests :
           task'[r].pc = "failing" => task'[r] = task[r] \/ task'[r].answer = "502"
  PROVE  OwnHubs' /\ BusyHubsInTree' /\ RollbackFindsHub'
<1>1. OwnHubs'
  BY DEF PoliteInv, OwnHubs, SlotKept
<1>2. BusyHubsInTree'
  <2>1. \A r \in Requests : Making(r)' => InPlace(r) /\ SlotKept(r)
    BY DEF PoliteInv, BusyHubsInTree
  <2> QED
    BY <2>1, InPlaceKept DEF BusyHubsInTree
<1>3. RollbackFindsHub'
  BY DEF PoliteInv, RollbackFindsHub
<1> QED
  BY <1>1, <1>2, <1>3

(***************************************************************************)
(* A request that is answered or fails leaves the invariant, if the step   *)
(* keeps the slots of the hubs that other requests make.                   *)
(***************************************************************************)
LEMMA LeavesInv ==
  ASSUME PoliteInv, TreeInv, NEW r \in Requests,
         task[r].pc # "connect",
         \/ task'[r].pc \in {"netPost", "answered"}
         \/ task'[r].pc = "failing" /\ task'[r].answer = "502",
         \A q \in Requests \ {r} : task'[q] = task[q],
         \A q \in Requests \ {r} : Making(q) => SlotKept(q),
         \A h \in Hubs : worker'[h] = "starting" => worker[h] = "starting",
         \A h \in Hubs : h \in FreshHubs' => h \in FreshHubs,
         UNCHANGED <<inbox, connected, listening>>
  PROVE  PoliteInv'
<1>1. ListenerSurvives' /\ AwaitedWorkers' /\ ConnectedOnce'
  <2>1. \A q \in Requests : task[q].pc = "connect" => task'[q] = task[q]
    OBVIOUS
  <2>2. \A q \in Requests : task'[q].pc = "hubPost" => task'[q] = task[q]
    OBVIOUS
  <2> QED
    BY <2>1, <2>2, WorkersKept
<1>2. OwnHubs' /\ BusyHubsInTree' /\ RollbackFindsHub'
  <2>1. \A q \in Requests : Making(q)' => Making(q) /\ SlotKept(q)
    BY DEF Making
  <2>2. \A q \in Requests :
          task'[q].pc = "failing" => task'[q] = task[q] \/ task'[q].answer = "502"
    OBVIOUS
  <2> QED
    BY <2>1, <2>2, MakersKept
<1> QED
  BY <1>1, <1>2 DEF PoliteInv

(***************************************************************************)
(* A request that begins a hub makes it and awaits its worker; the hubs of *)
(* the other requests stay where they are, because the index is free.      *)
(***************************************************************************)
LEMMA BeginHubPolite ==
  ASSUME PoliteInv, TreeInv, NEW r \in Requests, NEW n \in Networks, NEW i \in Nat,
         NEW more, NEW a, BeginHub(r, n, i, more, a),
         task[r].pc # "connect",
         i \in DOMAIN nms', nms'[i] = n,
         \A j \in DOMAIN nms : j \in DOMAIN nms' /\ nms'[j] = nms[j],
         UNCHANGED <<inbox, connected, listening>>
  PROVE  PoliteInv'
<1> DEFINE index == GetIndex(hubs[n])
<1>1. PICK h \in FreshHubs :
        /\ address' = [address EXCEPT ![h] = [net |-> i, hub |-> index]]
        /\ hubs' = [hubs EXCEPT ![n] = AddChild(hubs[n], index, h)]
        /\ \/ /\ task' = [task EXCEPT ![r] = Locals("connect", n, h, more, a)]
              /\ Finalize([worker EXCEPT ![h] = "starting"])
           \/ /\ task' = [task EXCEPT ![r] = Answered("500")]
              /\ Finalize(worker)
  BY DEF BeginHub
<1>2. h \in Hubs /\ address[h] = NoAddress
  BY <1>1 DEF FreshHubs
<1>3. index \in Nat /\ index \notin DOMAIN hubs[n]
  BY GetIndexFree DEF TreeInv, TypeOK
<1> HIDE DEF index
<1>4. /\ address'[h] = [net |-> i, hub |-> index]
      /\ \A x \in Hubs \ {h} : address'[x] = address[x]
  BY <1>1, <1>2 DEF TreeInv, TypeOK
<1>5. /\ DOMAIN hubs'[n] = DOMAIN hubs[n] \cup {index}
      /\ hubs'[n][index] = h
      /\ \A j \in DOMAIN hubs[n] : hubs'[n][j] = hubs[n][j]
  BY <1>1, <1>3 DEF AddChild, TreeInv, TypeOK
<1>6. \A m \in Networks \ {n} : hubs'[m] = hubs[m]
  BY <1>1 DEF TreeInv, TypeOK
<1>7. \A q \in Requests \ {r} : task'[q] = task[q]
  BY <1>1 DEF TreeInv, TypeOK
<1>8. \A q \in Requests : Making(q) =>
        /\ task[q].net \in Networks
        /\ task[q].hub \in Hubs \ {h}
        /\ InPlace(q)
  BY <1>1 DEF TreeInv, TasksMade, Making, PoliteInv, BusyHubsInTree
<1>9. \A q \in Requests \ {r} : Making(q) => SlotKept(q)
  <2> SUFFICES ASSUME NEW q \in Requests \ {r}, Making(q)
               PROVE  SlotKept(q)
    OBVIOUS
  <2> DEFINE m == task[q].net
             x == task[q].hub
             b == address[x]
  <2>1. m \in Networks /\ x \in Hubs \ {h} /\ task'[q] = task[q]
    BY <1>7, <1>8
  <2>2. b.net \in DOMAIN nms /\ b.hub \in DOMAIN hubs[m]
    BY <1>8 DEF InPlace
  <2>3. address'[x] = b /\ b.net \in DOMAIN nms' /\ nms'[b.net] = nms[b.net]
    BY <1>4, <2>1, <2>2
  <2>4. b.hub \in DOMAIN hubs'[m] /\ hubs'[m][b.hub] = hubs[m][b.hub]
    BY <1>5, <1>6, <2>1, <2>2
  <2> QED
    BY <2>1, <2>3, <2>4 DEF SlotKept
<1>10. \A x \in Hubs : x \in FreshHubs' => x \in FreshHubs /\ x # h
  BY <1>3, <1>4 DEF FreshHubs, NoAddress, NoIndex
<1>11. worker \in [Hubs -> Processes]
  BY DEF TreeInv, TypeOK
<1>12. CASE task' = [task EXCEPT ![r] = Answered("500")] /\ Finalize(worker)
  <2>1. task'[r].pc = "answered"
    BY <1>12 DEF TreeInv, TypeOK, Answered
  <2>2. \A x \in Hubs : worker'[x] = "starting" => worker[x] = "starting"
    BY <1>11, <1>12, FinalizeStops
  <2> QED
    BY <1>7, <1>9, <1>10, <2>1, <2>2, LeavesInv
<1>13. CASE /\ task' = [task EXCEPT ![r] = Locals("connect", n, h, more, a)]
            /\ Finalize([worker EXCEPT ![h] = "starting"])
  <2>1. task'[r].pc = "connect" /\ task'[r].net = n /\ task'[r].hub = h
    BY <1>13 DEF TreeInv, TypeOK, Locals
  <2>2. \A x \in Hubs \ {h} : worker'[x] = "starting" => worker[x] = "starting"
    <3>1. [worker EXCEPT ![h] = "starting"] \in [Hubs -> Processes]
      BY <1>11 DEF Processes, Running
    <3>2. \A x \in Hubs : worker'[x] = "starting"
                             => [worker EXCEPT ![h] = "starting"][x] = "starting"
      BY <1>13, <3>1, FinalizeStops
    <3> QED
      BY <1>11, <3>2
  <2>3. h \notin inbox /\ h \notin connected
    BY <1>1 DEF PoliteInv, AwaitedWorkers, ConnectedOnce, TreeInv, TasksMade,
                FreshHubs
  <2>4. AwaitedWorkers'
    <3> SUFFICES ASSUME NEW x \in Hubs, worker'[x] = "starting" \/ x \in inbox'
                 PROVE  \E q \in Requests :
                          task'[q].pc = "connect" /\ task'[q].hub = x
      BY DEF AwaitedWorkers
    <3>1. CASE x = h
      BY <2>1, <3>1
    <3>2. CASE x # h
      <4>1. worker[x] = "starting" \/ x \in inbox
        BY <2>2, <3>2
      <4>2. PICK q \in Requests : task[q].pc = "connect" /\ task[q].hub = x
        BY <4>1 DEF PoliteInv, AwaitedWorkers
      <4> QED
        BY <1>7, <4>2
    <3> QED
      BY <3>1, <3>2
  <2>5. OwnHubs'
    <3>1. \A q \in Requests \ {r} : Making(q)' => Making(q) /\ task'[q].hub # h
      BY <1>7, <1>8 DEF Making
    <3> QED
      BY <1>7, <2>1, <3>1 DEF PoliteInv, OwnHubs
  <2>6. BusyHubsInTree'
    <3>1. InPlace(r)'
      BY <1>4, <1>5, <2>1 DEF InPlace
    <3>2. \A q \in Requests \ {r} : Making(q)' => InPlace(q)'
      <4>1. \A q \in Requests \ {r} : Making(q)' => Making(q)
        BY <1>7 DEF Making
      <4> QED
        BY <1>8, <1>9, <4>1, InPlaceKept
    <3> QED
      BY <3>1, <3>2 DEF BusyHubsInTree
  <2>7. ConnectedOnce'
    <3>1. \A x \in inbox' : worker'[x] # "starting"
      BY <2>2, <2>3 DEF PoliteInv, ConnectedOnce, TreeInv, TypeOK
    <3>2. \A x \in connected' :
            x \notin FreshHubs' /\ worker'[x] # "starting" /\ x \notin inbox'
      BY <1>10, <2>2, <2>3 DEF PoliteInv, ConnectedOnce, TreeInv, TypeOK
    <3>3. \A q \in Requests : task'[q].pc = "hubPost" => task'[q].hub \in connected'
      BY <1>7, <2>1 DEF PoliteInv, ConnectedOnce
    <3> QED
      BY <3>1, <3>2, <3>3 DEF ConnectedOnce
  <2>8. ListenerSurvives' /\ RollbackFindsHub'
    BY <1>7, <2>1 DEF PoliteInv, ListenerSurvives, RollbackFindsHub
  <2> QED
    BY <2>4, <2>5, <2>6, <2>7, <2>8 DEF PoliteInv
<1> QED
  BY <1>1, <1>12, <1>13

(***************************************************************************)
(* The loop of add_network: another hub, or the answer.                    *)
(***************************************************************************)
LEMMA NextHubPolite ==
  ASSUME PoliteInv, TreeInv, NEW r \in Requests, NEW n \in Networks, NEW i \in Nat,
         NextHub(r, n, i),
         task[r].pc # "connect",
         i \in DOMAIN nms', nms'[i] = n,
         \A j \in DOMAIN nms : j \in DOMAIN nms' /\ nms'[j] = nms[j],
         UNCHANGED <<inbox, connected, listening>>
  PROVE  PoliteInv'
<1>1. CASE task[r].more > 0
  BY <1>1, BeginHubPolite DEF NextHub
<1>2. CASE ~(task[r].more > 0)
  <2>1. /\ task' = [task EXCEPT ![r] = Answered("201")]
        /\ UNCHANGED <<hubs, address>>
        /\ Finalize(worker)
    BY <1>2 DEF NextHub
  <2>2. task'[r].pc = "answered" /\ \A q \in Requests \ {r} : task'[q] = task[q]
    BY <2>1 DEF TreeInv, TypeOK, Answered
  <2>3. \A q \in Requests \ {r} : Making(q) => SlotKept(q)
    BY <2>1, <2>2 DEF PoliteInv, BusyHubsInTree, InPlace, SlotKept
  <2>4. \A h \in Hubs : worker'[h] = "starting" => worker[h] = "starting"
    BY <2>1, FinalizeStops DEF TreeInv, TypeOK
  <2>5. \A h \in Hubs : h \in FreshHubs' => h \in FreshHubs
    BY <2>1 DEF FreshHubs
  <2> QED
    BY <2>2, <2>3, <2>4, <2>5, LeavesInv
<1> QED
  BY <1>1, <1>2

(***************************************************************************)
(* The steps of the requests.                                              *)
(***************************************************************************)
LEMMA AnswerPolite ==
  ASSUME PoliteInv, TreeInv, NEW r \in Requests,
         task[r].pc # "connect", task'[r].pc \in {"netPost", "answered"},
         \A q \in Requests \ {r} : task'[q] = task[q],
         \A h \in Hubs : worker'[h] = "starting" => worker[h] = "starting",
         UNCHANGED <<nms, hubs, address, inbox, connected, listening>>
  PROVE  PoliteInv'
<1>1. \A q \in Requests \ {r} : Making(q) => SlotKept(q)
  BY DEF PoliteInv, BusyHubsInTree, InPlace, SlotKept
<1>2. \A h \in Hubs : h \in FreshHubs' => h \in FreshHubs
  BY DEF FreshHubs
<1> QED
  BY <1>1, <1>2, LeavesInv

\* Requests that arrive preserve the invariant.
LEMMA CreatesPolite ==
  ASSUME PoliteInv, TreeInv, Creates
  PROVE  PoliteInv'
<1>1. PICK r \in Requests, a \in ApCounts :
        \/ \E k \in HubCounts : CreateNetwork(r, k, a)
        \/ \E i \in DOMAIN nms : CreateHub(r, i, a)
  BY DEF Creates
<1>2. CASE \E k \in HubCounts : CreateNetwork(r, k, a)
  <2>1. /\ task[r].pc = "idle" /\ task'[r].pc = "netPost"
        /\ \A q \in Requests \ {r} : task'[q] = task[q]
        /\ UNCHANGED <<nms, hubs, address, worker, inbox, connected, listening>>
    BY <1>2 DEF CreateNetwork, Idle, Locals, TreeInv, TypeOK
  <2> QED
    BY <2>1, AnswerPolite
<1>3. CASE \E i \in DOMAIN nms : CreateHub(r, i, a)
  <2>1. PICK i \in DOMAIN nms : CreateHub(r, i, a)
    BY <1>3
  <2>2. nms[i] \in Networks /\ i \in Nat /\ netIndex[nms[i]] = i
    BY DEF TreeInv, TypeOK, IsDict, NetworksPlaced
  <2>3. /\ BeginHub(r, nms[i], i, 0, a)
        /\ task[r].pc = "idle"
        /\ UNCHANGED <<nms, inbox, connected, listening>>
    BY <2>1, <2>2 DEF CreateHub, Idle
  <2> QED
    BY <2>2, <2>3, BeginHubPolite
<1> QED
  BY <1>1, <1>2, <1>3

\* A network that the NMS accepted preserves the invariant.
LEMMA NetworkPostedPolite ==
  ASSUME PoliteInv, TreeInv, NEW r \in Requests, NetworkPosted(r)
  PROVE  PoliteInv'
<1> DEFINE index == GetIndex(nms)
<1>1. PICK n \in Networks : NextHub(r, n, index) /\ nms' = AddChild(nms, index, n)
  BY DEF NetworkPosted, FreshNetworks
<1>2. index \in Nat /\ index \notin DOMAIN nms
  BY GetIndexFree DEF TreeInv, TypeOK
<1> HIDE DEF index
<1>3. /\ index \in DOMAIN nms' /\ nms'[index] = n
      /\ \A j \in DOMAIN nms : j \in DOMAIN nms' /\ nms'[j] = nms[j]
  BY <1>1, <1>2 DEF AddChild
<1>4. task[r].pc = "netPost" /\ UNCHANGED <<inbox, connected, listening>>
  BY DEF NetworkPosted
<1> QED
  BY <1>1, <1>2, <1>3, <1>4, NextHubPolite

\* A hub that the NMS accepted preserves the invariant.
LEMMA HubPostedPolite ==
  ASSUME PoliteInv, TreeInv, NEW r \in Requests, HubPosted(r)
  PROVE  PoliteInv'
<1> DEFINE n == task[r].net
           i == netIndex[n]
<1>1. task[r].pc = "hubPost" /\ NextHub(r, n, i)
  BY DEF HubPosted
<1>2. UNCHANGED <<nms, inbox, connected, listening>>
  BY DEF HubPosted
<1>3. n \in Networks
  BY <1>1 DEF TreeInv, TasksMade
<1>4. i \in DOMAIN nms /\ nms[i] = n
  <2>1. InPlace(r)
    BY <1>1 DEF PoliteInv, BusyHubsInTree, Making
  <2>2. \E j \in DOMAIN nms : nms[j] = n
    BY <2>1 DEF InPlace
  <2> QED
    BY <2>2 DEF TreeInv, NetworksPlaced
<1>5. i \in Nat
  BY <1>4 DEF TreeInv, TypeOK, IsDict
<1> HIDE DEF n, i
<1> QED
  BY <1>1, <1>2, <1>3, <1>4, <1>5, NextHubPolite

\* A rollback removes the hub of its own request, so it is found.
LEMMA HubRefusedPolite ==
  ASSUME PoliteInv, TreeInv, NEW r \in Requests, HubRefused(r)
  PROVE  PoliteInv'
<1> DEFINE n == task[r].net
           index == address[task[r].hub].hub
<1>1. task[r].pc = "hubPost" /\ Making(r) /\ InPlace(r) /\ n \in Networks
  BY DEF HubRefused, PoliteInv, BusyHubsInTree, Making, TreeInv, TasksMade
<1>2. /\ hubs' = [hubs EXCEPT ![n] = RemoveChild(hubs[n], index)]
      /\ UNCHANGED <<nms, address, inbox, connected, listening>>
      /\ Finalize(worker)
  BY DEF HubRefused
<1>3. task' = [task EXCEPT ![r] = Failing(task[r], "502")]
  <2>1. index \in DOMAIN hubs[n]
    BY <1>1 DEF InPlace
  <2> QED
    BY <2>1 DEF HubRefused
<1>4. /\ task'[r].pc = "failing" /\ task'[r].answer = "502"
      /\ \A q \in Requests \ {r} : task'[q] = task[q]
  BY <1>3 DEF Failing, TreeInv, TypeOK
<1>5. \A q \in Requests \ {r} : Making(q) => SlotKept(q)
  <2> SUFFICES ASSUME NEW q \in Requests \ {r}, Making(q)
               PROVE  SlotKept(q)
    OBVIOUS
  <2> DEFINE m == task[q].net
             b == address[task[q].hub]
  <2>1. InPlace(q) /\ m \in Networks /\ task[q].hub # task[r].hub
    BY <1>1 DEF PoliteInv, BusyHubsInTree, OwnHubs, TreeInv, TasksMade, Making
  <2>2. m = n => b.hub # index
    BY <1>1, <2>1 DEF InPlace
  <2>3. b.hub \in DOMAIN hubs'[m] /\ hubs'[m][b.hub] = hubs[m][b.hub]
    <3>1. b.hub \in DOMAIN hubs[m]
      BY <2>1 DEF InPlace
    <3>2. CASE m = n
      BY <1>2, <2>1, <2>2, <3>1, <3>2 DEF RemoveChild, Restrict, TreeInv, TypeOK
    <3>3. CASE m # n
      BY <1>2, <2>1, <3>1, <3>3 DEF TreeInv, TypeOK
    <3> QED
      BY <3>2, <3>3
  <2> QED
    BY <1>2, <1>4, <2>1, <2>3 DEF SlotKept, InPlace
<1>6. \A h \in Hubs : worker'[h] = "starting" => worker[h] = "starting"
  BY <1>2, FinalizeStops DEF TreeInv, TypeOK
<1>7. \A h \in Hubs : h \in FreshHubs' => h \in FreshHubs
  BY <1>2 DEF FreshHubs
<1>8. UNCHANGED <<inbox, connected, listening>>
  BY <1>2
<1> QED
  BY <1>1, <1>4, <1>5, <1>6, <1>7, <1>8, LeavesInv

\* A request that resumes with its hub connected preserves the invariant.
LEMMA HubConnectedPolite ==
  ASSUME PoliteInv, TreeInv, NEW r \in Requests, HubConnected(r)
  PROVE  PoliteInv'
<1>1. /\ task[r].pc = "connect" /\ task[r].hub \in connected
      /\ UNCHANGED <<nms, hubs, address, worker, inbox, connected, listening>>
  BY DEF HubConnected
<1>2. /\ task'[r].pc = "hubPost"
      /\ \A q \in Requests : /\ task'[q].net = task[q].net
                             /\ task'[q].hub = task[q].hub
                             /\ q # r => task'[q] = task[q]
  BY DEF HubConnected, TreeInv, TypeOK, TaskType
<1>3. AwaitedWorkers'
  <2> SUFFICES ASSUME NEW x \in Hubs, worker[x] = "starting" \/ x \in inbox
               PROVE  \E q \in Requests :
                        task'[q].pc = "connect" /\ task'[q].hub = x
    BY <1>1 DEF AwaitedWorkers
  <2>1. PICK q \in Requests : task[q].pc = "connect" /\ task[q].hub = x
    BY DEF PoliteInv, AwaitedWorkers
  <2>2. q # r
    BY <1>1, <2>1 DEF PoliteInv, ConnectedOnce
  <2> QED
    BY <1>2, <2>1, <2>2
<1>4. \A q \in Requests : Making(q)' <=> Making(q)
  BY <1>1, <1>2 DEF Making
<1>5. OwnHubs'
  BY <1>2, <1>4 DEF PoliteInv, OwnHubs
<1>6. BusyHubsInTree'
  BY <1>1, <1>2, <1>4 DEF PoliteInv, BusyHubsInTree, InPlace
<1>7. ConnectedOnce'
  BY <1>1, <1>2 DEF PoliteInv, ConnectedOnce, FreshHubs
<1>8. ListenerSurvives' /\ RollbackFindsHub'
  BY <1>1, <1>2 DEF PoliteInv, ListenerSurvives, RollbackFindsHub
<1> QED
  BY <1>3, <1>5, <1>6, <1>7, <1>8 DEF PoliteInv

\* Every step of a suspended request preserves the invariant.
LEMMA ContinuesPolite ==
  ASSUME PoliteInv, TreeInv, Continues
  PROVE  PoliteInv'
<1>1. PICK r \in Requests :
        \/ NetworkPosted(r) \/ NetworkRefused(r) \/ HubConnected(r)
        \/ HubPosted(r) \/ HubRefused(r) \/ RequestFails(r)
  BY DEF Continues
<1>2. CASE NetworkRefused(r)
  <2>1. /\ task[r].pc = "netPost" /\ task'[r].pc = "answered"
        /\ \A q \in Requests \ {r} : task'[q] = task[q]
        /\ UNCHANGED <<nms, hubs, address, worker, inbox, connected, listening>>
    BY <1>2 DEF NetworkRefused, Answered, TreeInv, TypeOK
  <2> QED
    BY <2>1, AnswerPolite
<1>3. CASE RequestFails(r)
  <2>1. /\ task[r].pc = "failing" /\ task'[r].pc = "answered"
        /\ \A q \in Requests \ {r} : task'[q] = task[q]
        /\ UNCHANGED <<nms, hubs, address, inbox, connected, listening>>
    BY <1>3 DEF RequestFails, Answered, TreeInv, TypeOK
  <2>2. \A h \in Hubs : worker'[h] = "starting" => worker[h] = "starting"
    BY <1>3, FinalizeStops DEF RequestFails, TreeInv, TypeOK
  <2> QED
    BY <2>1, <2>2, AnswerPolite
<1> QED
  BY <1>1, <1>2, <1>3, NetworkPostedPolite, HubConnectedPolite, HubPostedPolite,
     HubRefusedPolite

(***************************************************************************)
(* The steps of clients that delete, and of workers and the listener.      *)
(***************************************************************************)
LEMMA RequestsUnchanged ==
  ASSUME PoliteInv, UNCHANGED <<nms, hubs, address, task>>
  PROVE  OwnHubs' /\ BusyHubsInTree' /\ RollbackFindsHub'
BY DEF PoliteInv, OwnHubs, BusyHubsInTree, RollbackFindsHub, InPlace, Making

\* Deleting what no request is making preserves the invariant.
LEMMA PoliteDeletesPolite ==
  ASSUME PoliteInv, TreeInv, PoliteDeletes
  PROVE  PoliteInv'
<1>1. PICK i \in DOMAIN nms :
        \/ ~BusyNetwork(nms[i]) /\ DeleteNetwork(i)
        \/ \E j \in HubsAt(i) : ~BusyHub(hubs[nms[i]][j]) /\ DeleteHub(i, j)
  BY DEF PoliteDeletes
<1>2. /\ UNCHANGED <<address, task, inbox, connected, listening>>
      /\ Finalize(worker)
  BY <1>1 DEF DeleteNetwork, RemoveNetwork, DeleteHub, RemoveHub
<1>3. ListenerSurvives' /\ AwaitedWorkers' /\ ConnectedOnce'
  <2>1. \A h \in Hubs : worker'[h] = "starting" => worker[h] = "starting"
    BY <1>2, FinalizeStops DEF TreeInv, TypeOK
  <2>2. \A h \in Hubs : h \in FreshHubs' => h \in FreshHubs
    BY <1>2 DEF FreshHubs
  <2> QED
    BY <1>2, <2>1, <2>2, WorkersKept
<1>4. \A r \in Requests : Making(r) => SlotKept(r)
  <2> SUFFICES ASSUME NEW r \in Requests, Making(r)
               PROVE  SlotKept(r)
    OBVIOUS
  <2> DEFINE n == task[r].net
             h == task[r].hub
             b == address[h]
  <2>1. InPlace(r) /\ InFlight(r) /\ n \in Networks
    BY DEF PoliteInv, BusyHubsInTree, Making, InFlight, TreeInv, TasksMade
  <2>2. CASE ~BusyNetwork(nms[i]) /\ DeleteNetwork(i)
    <3>1. b.net # i
      BY <2>1, <2>2 DEF BusyNetwork, InPlace
    <3>2. b.net \in DOMAIN nms' /\ nms'[b.net] = nms[b.net] /\ hubs' = hubs
      BY <2>1, <2>2, <3>1 DEF DeleteNetwork, RemoveNetwork, RemoveChild,
                              Restrict, InPlace
    <3> QED
      BY <1>2, <2>1, <3>2 DEF SlotKept, InPlace
  <2>3. CASE \E j \in HubsAt(i) : ~BusyHub(hubs[nms[i]][j]) /\ DeleteHub(i, j)
    <3>1. PICK j \in HubsAt(i) : ~BusyHub(hubs[nms[i]][j]) /\ DeleteHub(i, j)
      BY <2>3
    <3>2. /\ nms' = nms
          /\ hubs' = [hubs EXCEPT ![nms[i]] = RemoveChild(hubs[nms[i]], j)]
      BY <3>1 DEF DeleteHub, RemoveHub
    <3>3. hubs[nms[i]][j] # h
      BY <2>1, <3>1 DEF BusyHub
    <3>4. b.hub \in DOMAIN hubs'[n] /\ hubs'[n][b.hub] = hubs[n][b.hub]
      <4>1. CASE n = nms[i]
        <5>1. b.hub # j
          BY <2>1, <3>3, <4>1 DEF InPlace
        <5> QED
          BY <2>1, <3>2, <4>1, <5>1
             DEF RemoveChild, Restrict, InPlace, TreeInv, TypeOK
      <4>2. CASE n # nms[i]
        BY <2>1, <3>2, <4>2 DEF InPlace, TreeInv, TypeOK
      <4> QED
        BY <4>1, <4>2
    <3> QED
      BY <1>2, <2>1, <3>2, <3>4 DEF SlotKept, InPlace
  <2> QED
    BY <1>1, <2>2, <2>3
<1>5. OwnHubs' /\ BusyHubsInTree' /\ RollbackFindsHub'
  <2>1. \A r \in Requests : Making(r)' => Making(r) /\ SlotKept(r)
    BY <1>2, <1>4 DEF Making
  <2>2. \A r \in Requests :
          task'[r].pc = "failing" => task'[r] = task[r] \/ task'[r].answer = "502"
    BY <1>2
  <2> QED
    BY <2>1, <2>2, MakersKept
<1> QED
  BY <1>3, <1>5 DEF PoliteInv

\* The sender of a HubConnectInd is found, and its event is set.
LEMMA ListenerHandlesPolite ==
  ASSUME PoliteInv, TreeInv, NEW h \in Hubs, ListenerHandles(h)
  PROVE  PoliteInv'
<1>1. PICK r \in Requests : task[r].pc = "connect" /\ task[r].hub = h
  BY DEF ListenerHandles, HandleHubConnectInd, Resolves, GetNode,
     OnConnectInd, ListenerEnds, PoliteInv, AwaitedWorkers
<1>2. InPlace(r)
  BY <1>1 DEF PoliteInv, BusyHubsInTree, Making
<1>3. /\ connected' = connected \cup {h}
      /\ inbox' = inbox \ {h}
      /\ h \in inbox
      /\ UNCHANGED <<nms, hubs, address, task, worker, listening>>
  BY <1>1, <1>2 DEF ListenerHandles, HandleHubConnectInd, Resolves, GetNode,
     OnConnectInd, ListenerEnds, InPlace
<1>4. h \notin FreshHubs
  BY <1>1 DEF TreeInv, TasksMade
<1>5. ListenerSurvives' /\ AwaitedWorkers'
  BY <1>3 DEF PoliteInv, ListenerSurvives, AwaitedWorkers
<1>6. ConnectedOnce'
  BY <1>3, <1>4 DEF PoliteInv, ConnectedOnce, FreshHubs
<1> QED
  BY <1>3, <1>5, <1>6, RequestsUnchanged DEF PoliteInv

\* Steps of the workers and of the listener preserve the invariant.
LEMMA WorkerOrListenerPolite ==
  ASSUME PoliteInv, TreeInv, WorkerOrListener
  PROVE  PoliteInv'
<1>1. PICK h \in Hubs : \/ WorkerConnects(h) \/ WorkerCrashes(h)
                        \/ WorkerDies(h) \/ ListenerHandles(h)
  BY DEF WorkerOrListener
<1>2. CASE WorkerConnects(h)
  <2>1. /\ worker[h] = "starting"
        /\ worker' = [worker EXCEPT ![h] = "connected"]
        /\ inbox' = inbox \cup {h}
        /\ UNCHANGED <<nms, hubs, address, task, connected, listening>>
    BY <1>2 DEF WorkerConnects, SendToController
  <2>2. ListenerSurvives' /\ AwaitedWorkers' /\ ConnectedOnce'
    BY <2>1 DEF PoliteInv, ListenerSurvives, AwaitedWorkers, ConnectedOnce,
                FreshHubs, TreeInv, TypeOK
  <2> QED
    BY <2>1, <2>2, RequestsUnchanged DEF PoliteInv
<1>3. CASE WorkerCrashes(h) \/ WorkerDies(h)
  <2>1. /\ worker' = [worker EXCEPT ![h] = "exited"]
        /\ UNCHANGED <<nms, hubs, address, task, inbox, connected, listening>>
    BY <1>3 DEF WorkerCrashes, WorkerDies
  <2>2. ListenerSurvives' /\ AwaitedWorkers' /\ ConnectedOnce'
    BY <2>1 DEF PoliteInv, ListenerSurvives, AwaitedWorkers, ConnectedOnce,
                FreshHubs, TreeInv, TypeOK
  <2> QED
    BY <2>1, <2>2, RequestsUnchanged DEF PoliteInv
<1> QED
  BY <1>1, <1>2, <1>3, ListenerHandlesPolite

\* A step that changes nothing preserves the invariant.
LEMMA PoliteUnchanged ==
  ASSUME PoliteInv,
         UNCHANGED <<nms, hubs, address, task, worker, inbox, connected, listening>>
  PROVE  PoliteInv'
<1>1. ListenerSurvives' /\ AwaitedWorkers' /\ ConnectedOnce'
  BY DEF PoliteInv, ListenerSurvives, AwaitedWorkers, ConnectedOnce, FreshHubs
<1> QED
  BY <1>1, RequestsUnchanged DEF PoliteInv

\* PoliteInv is inductive, relative to TreeInv.
LEMMA NextPoliteInv == PoliteInv /\ TreeInv /\ [PoliteNext]_vars => PoliteInv'
<1> SUFFICES ASSUME PoliteInv, TreeInv, [PoliteNext]_vars
             PROVE  PoliteInv'
  OBVIOUS
<1>1. CASE ChangesAps
  <2>1. UNCHANGED <<nms, hubs, address, task, worker, inbox, connected, listening>>
    BY <1>1 DEF ChangesAps, CreateAp, AddAp, DeleteAp, RemoveAp
  <2> QED
    BY <2>1, PoliteUnchanged
<1>2. CASE UNCHANGED vars
  BY <1>2, PoliteUnchanged DEF vars
<1> QED
  BY <1>1, <1>2, CreatesPolite, ContinuesPolite, PoliteDeletesPolite,
     WorkerOrListenerPolite DEF PoliteNext

-----------------------------------------------------------------------------
(***************************************************************************)
(* The inductive invariant of the controller under polite clients.         *)
(***************************************************************************)
THEOREM PoliteInvariance == PoliteSpec => [](PoliteInv /\ TreeInv)
<1>1. PoliteInv /\ TreeInv /\ [PoliteNext]_vars => (PoliteInv /\ TreeInv)'
  BY NextPoliteInv, NextTreeInv, PoliteNextIsNext
<1>2. Init => PoliteInv /\ TreeInv
  BY InitPoliteInv, InitTreeInv
<1> QED
  BY <1>1, <1>2, PTL DEF PoliteSpec

(***************************************************************************)
(* No message of a worker ends the listener task: the address in it always *)
(* resolves.                                                               *)
(***************************************************************************)
THEOREM ListenerNeverDies == PoliteSpec => []ListenerSurvives
<1>1. PoliteInv => ListenerSurvives
  BY DEF PoliteInv
<1> QED
  BY <1>1, PoliteInvariance, PTL

(***************************************************************************)
(* A hub is POSTed to the NMS only after its own worker has connected.     *)
(***************************************************************************)
THEOREM WorkerFirst == PoliteSpec => []WaitsForOwnWorker
<1>1. PoliteInv => WaitsForOwnWorker
  BY DEF PoliteInv, ConnectedOnce, WaitsForOwnWorker
<1> QED
  BY <1>1, PoliteInvariance, PTL

(***************************************************************************)
(* The rollback of a hub that the NMS refuses finds the hub's entry.       *)
(***************************************************************************)
THEOREM RollbackIsSound == PoliteSpec => []RollbackFindsHub
<1>1. PoliteInv => RollbackFindsHub
  BY DEF PoliteInv
<1> QED
  BY <1>1, PoliteInvariance, PTL

(***************************************************************************)
(* Nobody but the request itself takes a hub it is making out of the tree. *)
(***************************************************************************)
THEOREM BusyHubsStay == PoliteSpec => BusyHubStays
<1>1. ASSUME PoliteInv, PoliteInv',
             NEW r \in Requests, NEW h \in Hubs, task[r].hub = h,
             task[r].pc \in {"connect", "hubPost"}, task'[r] = task[r]
      PROVE  InTree(h) /\ InTree(h)'
  <2>1. InPlace(r) /\ InPlace(r)'
    BY <1>1 DEF PoliteInv, BusyHubsInTree, Making
  <2> QED
    BY <1>1, <2>1 DEF InPlace, InTree, HubsAt
<1>2. PoliteInv /\ PoliteInv' =>
        [\A r \in Requests, h \in Hubs :
           (/\ task[r].hub = h
            /\ task[r].pc \in {"connect", "hubPost"}
            /\ task'[r] = task[r]) => InTree(h) /\ InTree(h)']_vars
  BY <1>1
<1> QED
  BY <1>2, PoliteInvariance, PTL DEF BusyHubStays

(***************************************************************************)
(* The step that answers 201 for a hub leaves the tree as it is: no other  *)
(* action answers a request that waits for the POST of its hub.            *)
(***************************************************************************)
LEMMA AnswerKeepsTree ==
  ASSUME TypeOK, PoliteNext, NEW r \in Requests,
         task[r].pc = "hubPost", task'[r] = Answered("201")
  PROVE  UNCHANGED <<nms, hubs, address>>
<1>1. task' # task /\ task'[r].pc = "answered" /\ task'[r].answer = "201"
  BY DEF Answered
<1>2. ASSUME NEW q \in Requests, NEW t, task' = [task EXCEPT ![q] = t]
      PROVE  q = r /\ t = Answered("201")
  BY <1>1, <1>2 DEF TypeOK, Answered
<1>3. ASSUME NEW q \in Requests, NEW n, NEW i, NEW more, NEW a,
             BeginHub(q, n, i, more, a)
      PROVE  FALSE
  <2>1. PICK h \in FreshHubs :
          \/ task' = [task EXCEPT ![q] = Locals("connect", n, h, more, a)]
          \/ task' = [task EXCEPT ![q] = Answered("500")]
    BY <1>3 DEF BeginHub
  <2>2. Locals("connect", n, h, more, a) # Answered("201")
    BY DEF Locals, Answered
  <2>3. Answered("500") # Answered("201")
    BY DEF Answered
  <2> QED
    BY <2>1, <2>2, <2>3, <1>2
<1>4. CASE Creates
  <2>1. PICK q \in Requests, a \in ApCounts :
          \/ \E k \in HubCounts : CreateNetwork(q, k, a)
          \/ \E i \in DOMAIN nms : CreateHub(q, i, a)
    BY <1>4 DEF Creates
  <2>2. ASSUME NEW k \in HubCounts, CreateNetwork(q, k, a)
        PROVE  FALSE
    BY <1>2, <2>2 DEF CreateNetwork, Idle
  <2>3. ASSUME NEW i \in DOMAIN nms, CreateHub(q, i, a)
        PROVE  FALSE
    BY <1>3, <2>3 DEF CreateHub
  <2> QED
    BY <2>1, <2>2, <2>3
<1>5. CASE Continues
  <2>1. PICK q \in Requests :
          \/ NetworkPosted(q) \/ NetworkRefused(q) \/ HubConnected(q)
          \/ HubPosted(q) \/ HubRefused(q) \/ RequestFails(q)
    BY <1>5 DEF Continues
  <2>2. ASSUME NEW n, NEW i, NextHub(q, n, i)
        PROVE  q = r /\ UNCHANGED <<hubs, address>>
    BY <1>2, <1>3, <2>2 DEF NextHub
  <2>3. CASE NetworkPosted(q)
    BY <2>2, <2>3 DEF NetworkPosted
  <2>4. CASE NetworkRefused(q)
    BY <1>2, <2>4 DEF NetworkRefused
  <2>5. CASE HubConnected(q)
    <3>1. \A x \in Requests \ {q} : task'[x] = task[x]
      BY <2>5 DEF HubConnected, TypeOK
    <3> QED
      BY <1>1, <2>5, <3>1 DEF HubConnected
  <2>6. CASE HubPosted(q)
    BY <2>2, <2>6 DEF HubPosted
  <2>7. CASE HubRefused(q)
    <3>1. PICK code : task' = [task EXCEPT ![q] = Failing(task[q], code)]
      BY <2>7 DEF HubRefused
    <3>2. Failing(task[q], code) # Answered("201")
      BY DEF Failing, Answered
    <3> QED
      BY <1>2, <3>1, <3>2
  <2>8. CASE RequestFails(q)
    <3>1. \A x \in Requests \ {q} : task'[x] = task[x]
      BY <2>8 DEF RequestFails, TypeOK
    <3> QED
      BY <1>1, <2>8, <3>1 DEF RequestFails
  <2> QED
    BY <2>1, <2>3, <2>4, <2>5, <2>6, <2>7, <2>8
<1>6. CASE PoliteDeletes
  BY <1>1, <1>6 DEF PoliteDeletes, DeleteNetwork, RemoveNetwork, DeleteHub,
                    RemoveHub
<1>7. CASE ChangesAps
  BY <1>1, <1>7 DEF ChangesAps, CreateAp, AddAp, DeleteAp, RemoveAp
<1>8. CASE WorkerOrListener
  BY <1>1, <1>8
     DEF WorkerOrListener, WorkerConnects, SendToController, WorkerCrashes,
         WorkerDies, ListenerHandles, HandleHubConnectInd, Resolves, GetNode,
         OnConnectInd, ListenerEnds
<1> QED
  BY <1>4, <1>5, <1>6, <1>7, <1>8 DEF PoliteNext

(***************************************************************************)
(* When a request that made a hub is answered 201, the hub is in the tree  *)
(* under the index of the answer.                                          *)
(***************************************************************************)
THEOREM CreatedHubsAtIndex == PoliteSpec => CreatedHubAtIndex
<1>1. ASSUME PoliteInv, TreeInv, PoliteNext, NEW r \in Requests, NEW h \in Hubs,
             task[r].hub = h, task[r].pc = "hubPost", task'[r] = Answered("201")
      PROVE  InTree(h)'
  <2>1. InPlace(r)
    BY <1>1 DEF PoliteInv, BusyHubsInTree, Making
  <2>2. UNCHANGED <<nms, hubs, address>>
    BY <1>1, AnswerKeepsTree DEF TreeInv
  <2> QED
    BY <1>1, <2>1, <2>2 DEF InPlace, InTree, HubsAt
<1>2. PoliteInv /\ TreeInv /\ [PoliteNext]_vars =>
        [\A r \in Requests, h \in Hubs :
           (/\ task[r].hub = h
            /\ task[r].pc = "hubPost"
            /\ task'[r] = Answered("201")) => InTree(h)']_vars
  BY <1>1
<1> QED
  BY <1>2, PoliteInvariance, PTL DEF PoliteSpec, CreatedHubAtIndex

-----------------------------------------------------------------------------
(***************************************************************************)
(* What a request waits for.                                               *)
(***************************************************************************)
\* Why NoRequestStranded holds: without the listener and the tree, which
\* PoliteInv knows of, it is inductive.
Wakes(h) ==
  \/ h \in connected
  \/ h \in inbox
  \/ worker[h] = "starting"
  \/ worker[h] = "exited" /\ WorkersMayCrash

WaitingWakes == \A r \in Requests : task[r].pc = "connect" => Wakes(task[r].hub)

\* The worker of a hub that is held is not stopped.
LEMMA FinalizeKeepsHeld ==
  ASSUME NEW P \in [Hubs -> Processes], Finalize(P), NEW h \in Hubs,
         h \in HeldHubs'
  PROVE  worker'[h] = P[h]
BY DEF Finalize

\* A hub that a request waits for is held.
LEMMA WaitingHolds ==
  ASSUME TreeInv', NEW r \in Requests, task'[r].pc = "connect"
  PROVE  task'[r].hub \in Hubs /\ task'[r].hub \in HeldHubs'
<1>1. task'[r].hub \in Hubs /\ InFlight(r)'
  BY DEF TreeInv, TasksMade, InFlight
<1> QED
  BY <1>1, NodesAssumption DEF HeldHubs

\* What a request waits for is still to come when a request begins a hub.
LEMMA BeginHubWakes ==
  ASSUME TreeInv, TreeInv', WaitingWakes, UNCHANGED <<inbox, connected>>,
         NEW r \in Requests, NEW n, NEW i, NEW more, NEW a,
         BeginHub(r, n, i, more, a)
  PROVE  WaitingWakes'
<1> SUFFICES ASSUME NEW q \in Requests, task'[q].pc = "connect"
             PROVE  Wakes(task[q].hub)'
  BY DEF WaitingWakes
<1>1. PICK h \in FreshHubs :
        \/ /\ task' = [task EXCEPT ![r] = Locals("connect", n, h, more, a)]
           /\ Finalize([worker EXCEPT ![h] = "starting"])
        \/ /\ task' = [task EXCEPT ![r] = Answered("500")]
           /\ Finalize(worker)
  BY DEF BeginHub
<1>2. task'[q].hub \in Hubs /\ task'[q].hub \in HeldHubs'
  BY WaitingHolds
<1>3. /\ worker \in [Hubs -> Processes] /\ h \in Hubs
      /\ [worker EXCEPT ![h] = "starting"] \in [Hubs -> Processes]
  BY <1>1 DEF TreeInv, TypeOK, Processes, Running, FreshHubs
<1>4. CASE q = r
  <2>1. task'[q].hub = h /\ Finalize([worker EXCEPT ![h] = "starting"])
    BY <1>1, <1>4 DEF TreeInv, TypeOK, Locals, Answered
  <2>2. worker'[h] = "starting"
    BY <1>2, <1>3, <2>1, FinalizeKeepsHeld
  <2> QED
    BY <2>1, <2>2 DEF Wakes
<1>5. CASE q # r
  <2>1. task'[q] = task[q]
    BY <1>1, <1>5 DEF TreeInv, TypeOK
  <2>2. Wakes(task[q].hub) /\ task[q].hub # h
    BY <1>1, <2>1 DEF WaitingWakes, TreeInv, TasksMade
  <2>3. \/ worker'[task[q].hub] = worker[task[q].hub]
        \/ worker'[task[q].hub] = [worker EXCEPT ![h] = "starting"][task[q].hub]
    BY <1>1, <1>2, <1>3, <2>1, FinalizeKeepsHeld
  <2> QED
    BY <1>2, <1>3, <2>1, <2>2, <2>3 DEF Wakes
<1> QED
  BY <1>4, <1>5

\* The same for the steps in which nothing happens to requests that wait.
LEMMA KeptWakes ==
  ASSUME TreeInv, TreeInv', WaitingWakes, UNCHANGED <<inbox, connected>>,
         \A q \in Requests : task'[q].pc = "connect" => task'[q] = task[q],
         Finalize(worker) \/ worker' = worker
  PROVE  WaitingWakes'
<1> SUFFICES ASSUME NEW q \in Requests, task'[q].pc = "connect"
             PROVE  Wakes(task[q].hub)'
  BY DEF WaitingWakes
<1>1. worker'[task'[q].hub] = worker[task'[q].hub]
  BY WaitingHolds, FinalizeKeepsHeld DEF TreeInv, TypeOK
<1> QED
  BY <1>1 DEF WaitingWakes, Wakes

LEMMA NextHubWakes ==
  ASSUME TreeInv, TreeInv', WaitingWakes, UNCHANGED <<inbox, connected>>,
         NEW r \in Requests, NEW n, NEW i, NextHub(r, n, i)
  PROVE  WaitingWakes'
<1>1. CASE task[r].more > 0
  <2>1. BeginHub(r, n, i, task[r].more - 1, task[r].aps)
    BY <1>1 DEF NextHub
  <2> QED
    BY <2>1, BeginHubWakes
<1>2. CASE ~(task[r].more > 0)
  <2>1. task' = [task EXCEPT ![r] = Answered("201")] /\ Finalize(worker)
    BY <1>2 DEF NextHub
  <2>2. \A q \in Requests : task'[q].pc = "connect" => task'[q] = task[q]
    BY <2>1 DEF TreeInv, TypeOK, Answered
  <2> QED
    BY <2>1, <2>2, KeptWakes
<1> QED
  BY <1>1, <1>2

\* A worker that connects leaves a message; one that crashes may do so.
LEMMA WorkersWake ==
  ASSUME TreeInv, TreeInv', WaitingWakes, NEW h \in Hubs,
         WorkerConnects(h) \/ WorkerCrashes(h) \/ WorkerDies(h)
  PROVE  WaitingWakes'
<1> SUFFICES ASSUME NEW q \in Requests, task'[q].pc = "connect"
             PROVE  Wakes(task[q].hub)'
  BY DEF WaitingWakes
<1> DEFINE x == task[q].hub
<1>1. task' = task /\ connected' = connected /\ inbox \subseteq inbox'
  BY DEF WorkerConnects, SendToController, WorkerCrashes, WorkerDies
<1>2. x \in Hubs /\ Wakes(x)
  BY <1>1, WaitingHolds DEF WaitingWakes
<1>3. CASE x = h
  BY <1>1, <1>2, <1>3 DEF WorkerConnects, SendToController, WorkerCrashes,
     WorkerDies, Wakes, TreeInv, TypeOK
<1>4. CASE x # h
  <2>1. worker'[x] = worker[x]
    BY <1>2, <1>4 DEF WorkerConnects, WorkerCrashes, WorkerDies, TreeInv, TypeOK
  <2> QED
    BY <1>1, <1>2, <2>1 DEF Wakes
<1> QED
  BY <1>3, <1>4

\* The listener takes a message only to set the event of the very hub.
LEMMA ListenerWakes ==
  ASSUME TreeInv, TreeInv', PoliteInv, WaitingWakes, NEW h \in Hubs,
         ListenerHandles(h)
  PROVE  WaitingWakes'
<1> SUFFICES ASSUME NEW q \in Requests, task'[q].pc = "connect"
             PROVE  Wakes(task[q].hub)'
  BY DEF WaitingWakes
<1> DEFINE x == task[q].hub
<1>1. /\ UNCHANGED <<task, worker>> /\ inbox' = inbox \ {h}
      /\ HandleHubConnectInd(address[h])
  BY DEF ListenerHandles
<1>2. Wakes(x) /\ InPlace(q)
  BY <1>1 DEF WaitingWakes, PoliteInv, BusyHubsInTree, Making
<1>3. connected \subseteq connected'
  BY <1>1 DEF HandleHubConnectInd, OnConnectInd, ListenerEnds
<1>4. CASE x = h
  <2>1. Resolves(address[x]) /\ GetNode(address[x]) = x
    BY <1>2 DEF InPlace, Resolves, GetNode
  <2>2. x \in connected'
    BY <1>1, <1>4, <2>1 DEF HandleHubConnectInd, OnConnectInd
  <2> QED
    BY <1>1, <2>2 DEF Wakes
<1>5. CASE x # h
  BY <1>1, <1>2, <1>3, <1>5 DEF Wakes
<1> QED
  BY <1>4, <1>5

LEMMA NextWakes ==
  ASSUME TreeInv, TreeInv', PoliteInv, WaitingWakes, [PoliteNext]_vars
  PROVE  WaitingWakes'
<1>1. CASE Creates
  <2>1. PICK r \in Requests, a \in ApCounts :
          \/ \E k \in HubCounts : CreateNetwork(r, k, a)
          \/ \E i \in DOMAIN nms : CreateHub(r, i, a)
    BY <1>1 DEF Creates
  <2>2. CASE \E k \in HubCounts : CreateNetwork(r, k, a)
    BY <2>2, KeptWakes DEF CreateNetwork, TreeInv, TypeOK, Locals
  <2>3. CASE \E i \in DOMAIN nms : CreateHub(r, i, a)
    BY <2>3, BeginHubWakes DEF CreateHub
  <2> QED
    BY <2>1, <2>2, <2>3
<1>2. CASE Continues
  <2>1. PICK r \in Requests :
          \/ NetworkPosted(r) \/ NetworkRefused(r) \/ HubConnected(r)
          \/ HubPosted(r) \/ HubRefused(r) \/ RequestFails(r)
    BY <1>2 DEF Continues
  <2>2. CASE NetworkPosted(r) \/ HubPosted(r)
    BY <2>2, NextHubWakes DEF NetworkPosted, HubPosted
  <2>3. CASE NetworkRefused(r) \/ HubConnected(r) \/ HubRefused(r)
               \/ RequestFails(r)
    <3>1. /\ UNCHANGED <<inbox, connected>>
          /\ Finalize(worker) \/ worker' = worker
      BY <2>3 DEF NetworkRefused, HubConnected, HubRefused, RequestFails
    <3>2. \A q \in Requests : task'[q].pc = "connect" => task'[q] = task[q]
      BY <2>3 DEF NetworkRefused, HubConnected, HubRefused, RequestFails,
         Answered, Failing, TreeInv, TypeOK, TaskType
    <3> QED
      BY <3>1, <3>2, KeptWakes
  <2> QED
    BY <2>1, <2>2, <2>3
<1>3. CASE PoliteDeletes \/ ChangesAps \/ UNCHANGED vars
  <2>1. /\ UNCHANGED <<task, inbox, connected>>
        /\ Finalize(worker) \/ worker' = worker
    BY <1>3 DEF PoliteDeletes, DeleteNetwork, DeleteHub, ChangesAps, CreateAp,
                DeleteAp, vars
  <2> QED
    BY <2>1, KeptWakes
<1>4. CASE WorkerOrListener
  BY <1>4, WorkersWake, ListenerWakes DEF WorkerOrListener
<1> QED
  BY <1>1, <1>2, <1>3, <1>4 DEF PoliteNext

(***************************************************************************)
(* Under polite clients only the crash of a worker strands a request: what *)
(* it waits for is always on its way, and finds its hub.                   *)
(***************************************************************************)
THEOREM RequestsAwaken == PoliteSpec => []NoRequestStranded
<1>1. Init => WaitingWakes
  BY DEF Init, WaitingWakes, NoTask, Locals
<1>2. (PoliteInv /\ TreeInv) /\ (PoliteInv /\ TreeInv)' /\ WaitingWakes
        /\ [PoliteNext]_vars => WaitingWakes'
  BY NextWakes
<1>3. (PoliteInv /\ TreeInv) /\ WaitingWakes => NoRequestStranded
  <2> SUFFICES ASSUME PoliteInv, WaitingWakes, NEW r \in Requests,
                      task[r].pc = "connect"
               PROVE  LET h == task[r].hub
                      IN  \/ h \in connected
                          \/ worker[h] = "starting"
                          \/ /\ h \in inbox /\ listening
                             /\ Resolves(address[h]) /\ GetNode(address[h]) = h
                          \/ worker[h] = "exited" /\ WorkersMayCrash
    BY DEF NoRequestStranded
  <2>1. Wakes(task[r].hub) /\ InPlace(r) /\ listening
    BY DEF WaitingWakes, PoliteInv, BusyHubsInTree, Making, ListenerSurvives
  <2> QED
    BY <2>1 DEF Wakes, InPlace, Resolves, GetNode
<1> QED
  BY <1>1, <1>2, <1>3, PoliteInvariance, PTL DEF PoliteSpec

=============================================================================
