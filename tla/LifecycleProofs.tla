--------------------------- MODULE LifecycleProofs ---------------------------
(***************************************************************************)
(* The controller under polite clients implements HubLifecycle, for any    *)
(* sets of networks, hubs and requests: every step of the controller is a  *)
(* step of the life of the hubs, or leaves it as it is.  And the order in  *)
(* which Lifespan shuts it down loses no message of a worker and leaves no *)
(* hub half made.                                                          *)
(***************************************************************************)
EXTENDS Lifespan, PoliteProofs

\* What is known of every reachable state.
KnownInv == TreeInv /\ HoldersInv /\ PoliteInv

\* The indices that get_index picks, and those that are used.
LEMMA GetIndexLowest == ASSUME NEW f PROVE GetIndex(f) = Life!Lowest(DOMAIN f)
BY DEF GetIndex, Life!Lowest, Cardinality, Life!Cardinality

LEMMA UnderNetwork ==
  ASSUME TreeInv, NEW i \in DOMAIN nms
  PROVE  /\ Life!Under(i) = Nodes(hubs[nms[i]])
         /\ Life!UsedIndices(i) = DOMAIN hubs[nms[i]]
BY HubsUnderNetwork DEF HubsUnder, Life!Under, Life!UsedIndices

LEMMA UnderNothing ==
  ASSUME TreeInv, NEW i, i \notin DOMAIN nms
  PROVE  Life!UsedIndices(i) = {}
BY HubsUnderNothing DEF HubsUnder, Life!Under, Life!UsedIndices

\* Stopping workers only shrinks the set of those that run.
LEMMA FinalizeShrinks ==
  ASSUME NEW P \in [Hubs -> Processes], Finalize(P)
  PROVE  RunningHubs' \subseteq {h \in Hubs : P[h] \in Running}
BY DEF Finalize, RunningHubs, Running

\* The hubs that other requests than r make.
OthersMake(r) == {task[q].hub : q \in {q \in Requests \ {r} : Making(q)}}

LEMMA OthersMaking ==
  ASSUME PoliteInv, NEW r \in Requests
  PROVE  /\ Making(r) => OthersMake(r) = MakingHubs \ {task[r].hub}
         /\ ~Making(r) => OthersMake(r) = MakingHubs
<1>1. CASE Making(r)
  BY <1>1 DEF PoliteInv, OwnHubs, OthersMake, MakingHubs
<1>2. CASE ~Making(r)
  BY <1>2 DEF OthersMake, MakingHubs
<1> QED
  BY <1>1, <1>2

\* What the step of a request does to the hubs that requests make.
LEMMA MakingAfter ==
  ASSUME NEW r \in Requests, \A q \in Requests \ {r} : task'[q] = task[q]
  PROVE  /\ Making(r)' => MakingHubs' = OthersMake(r) \cup {task'[r].hub}
         /\ ~Making(r)' => MakingHubs' = OthersMake(r)
<1>1. CASE Making(r)'
  BY <1>1 DEF OthersMake, MakingHubs, Making
<1>2. CASE ~Making(r)'
  BY <1>2 DEF OthersMake, MakingHubs, Making
<1> QED
  BY <1>1, <1>2

(***************************************************************************)
(* A hub that a request begins in a network of the tree, or in one that    *)
(* the same step puts there, begins its life.                              *)
(***************************************************************************)
LEMMA BeginHubRefines ==
  ASSUME TreeInv, HoldersInv, NEW r \in Requests, NEW n \in Networks,
         NEW i \in Nat, NEW more, NEW a, BeginHub(r, n, i, more, a),
         Nodes(nms') = Nodes(nms) \cup {n},
         n \in Nodes(nms) \/ Nodes(hubs[n]) = {},
         Life!UsedIndices(i) = DOMAIN hubs[n]
  PROVE  Life!Begin(i, OthersMake(r))
<1> DEFINE index == GetIndex(hubs[n])
<1>1. PICK h \in FreshHubs :
        /\ address' = [address EXCEPT ![h] = [net |-> i, hub |-> index]]
        /\ hubs' = [hubs EXCEPT ![n] = AddChild(hubs[n], index, h)]
        /\ \/ /\ task' = [task EXCEPT ![r] = Locals("connect", n, h, more, a)]
              /\ Finalize([worker EXCEPT ![h] = "starting"])
           \/ /\ task' = [task EXCEPT ![r] = Answered("500")]
              /\ Finalize(worker)
  BY DEF BeginHub
<1>2. h \in Hubs
  BY DEF FreshHubs
<1>3. index \notin DOMAIN hubs[n] /\ index \in Nat
  BY GetIndexFree DEF TreeInv, TypeOK
<1>4. index = Life!Lowest(Life!UsedIndices(i))
  BY GetIndexLowest
<1> HIDE DEF index
<1>5. FreshHubs' = FreshHubs \ {h}
  BY <1>1, <1>3 DEF FreshHubs, NoAddress, NoIndex, TreeInv, TypeOK
<1>6. TreeHubs' = TreeHubs \cup {h}
  <2>1. /\ Nodes(hubs'[n]) = Nodes(hubs[n]) \cup {h}
        /\ \A m \in Networks \ {n} : hubs'[m] = hubs[m]
    BY <1>1, <1>3, AddChildNodes DEF TreeInv, TypeOK
  <2>2. Nodes(nms) \subseteq Networks
    BY TreeFacts
  <2> QED
    BY <2>1, <2>2 DEF TreeHubs
<1>7. \A q \in Requests \ {r} : task'[q] = task[q]
  BY <1>1 DEF TreeInv, TypeOK
<1>8. worker \in [Hubs -> Processes]
  BY DEF TreeInv, TypeOK
<1>9. \/ /\ MakingHubs' = OthersMake(r) \cup {h}
         /\ RunningHubs' \subseteq RunningHubs \cup {h}
      \/ /\ MakingHubs' = OthersMake(r)
         /\ RunningHubs' \subseteq RunningHubs
  <2>1. CASE /\ task' = [task EXCEPT ![r] = Locals("connect", n, h, more, a)]
             /\ Finalize([worker EXCEPT ![h] = "starting"])
    <3>1. Making(r)' /\ task'[r].hub = h
      BY <2>1 DEF Making, Locals, TreeInv, TypeOK
    <3>2. [worker EXCEPT ![h] = "starting"] \in [Hubs -> Processes]
      BY <1>2, <1>8 DEF Processes, Running
    <3>3. RunningHubs' \subseteq {x \in Hubs :
                            [worker EXCEPT ![h] = "starting"][x] \in Running}
      BY <2>1, <3>2, FinalizeShrinks
    <3>4. RunningHubs' \subseteq RunningHubs \cup {h}
      BY <1>8, <3>3 DEF RunningHubs
    <3> QED
      BY <1>7, <3>1, <3>4, MakingAfter
  <2>2. CASE task' = [task EXCEPT ![r] = Answered("500")] /\ Finalize(worker)
    <3>1. ~Making(r)'
      BY <2>2 DEF Making, Answered, TreeInv, TypeOK
    <3>2. RunningHubs' \subseteq RunningHubs
      BY <1>8, <2>2, FinalizeShrinks DEF RunningHubs
    <3> QED
      BY <1>7, <3>1, <3>2, MakingAfter
  <2> QED
    BY <1>1, <2>1, <2>2
<1> QED
  BY <1>1, <1>4, <1>5, <1>6, <1>9 DEF Life!Begin, Life!WorkersMayStop

(***************************************************************************)
(* The loop of add_network begins the next hub, or begins none.            *)
(***************************************************************************)
LEMMA NextHubRefines ==
  ASSUME TreeInv, HoldersInv, NEW r \in Requests, NEW n \in Networks,
         NEW i \in Nat, NextHub(r, n, i),
         Nodes(nms') = Nodes(nms) \cup {n},
         n \in Nodes(nms) \/ Nodes(hubs[n]) = {},
         Life!UsedIndices(i) = DOMAIN hubs[n]
  PROVE  Life!Begin(i, OthersMake(r)) \/ Life!NoBegin(OthersMake(r))
<1>1. CASE task[r].more > 0
  <2>1. BeginHub(r, n, i, task[r].more - 1, task[r].aps)
    BY <1>1 DEF NextHub
  <2> QED
    BY <2>1, BeginHubRefines
<1>2. CASE ~(task[r].more > 0)
  <2>1. /\ task' = [task EXCEPT ![r] = Answered("201")]
        /\ UNCHANGED <<hubs, address>>
        /\ Finalize(worker)
    BY <1>2 DEF NextHub
  <2>2. MakingHubs' = OthersMake(r)
    <3>1. /\ ~Making(r)'
          /\ \A q \in Requests \ {r} : task'[q] = task[q]
      BY <2>1 DEF Making, Answered, TreeInv, TypeOK
    <3> QED
      BY <3>1, MakingAfter
  <2>3. TreeHubs' = TreeHubs
    BY <2>1 DEF TreeHubs
  <2>4. FreshHubs' = FreshHubs
    BY <2>1 DEF FreshHubs
  <2>5. RunningHubs' \subseteq RunningHubs
    BY <2>1, FinalizeShrinks DEF RunningHubs, TreeInv, TypeOK
  <2> QED
    BY <2>1, <2>2, <2>3, <2>4, <2>5 DEF Life!NoBegin, Life!WorkersMayStop
<1> QED
  BY <1>1, <1>2

\* A network that the NMS accepted is added, with its first hub if it has one.
LEMMA NetworkPostedRefines ==
  ASSUME TreeInv, HoldersInv, PoliteInv, NEW r \in Requests, NetworkPosted(r)
  PROVE  Life!AddNetwork
<1> DEFINE i == GetIndex(nms)
<1>1. PICK n \in FreshNetworks : nms' = AddChild(nms, i, n) /\ NextHub(r, n, i)
  BY DEF NetworkPosted
<1>2. i \notin DOMAIN nms /\ i \in Nat
  BY GetIndexFree DEF TreeInv, TypeOK
<1>3. i = Life!Lowest(DOMAIN nms)
  BY GetIndexLowest
<1> HIDE DEF i
<1>4. n \in Networks /\ DOMAIN hubs[n] = {}
  BY DEF FreshNetworks, TreeInv, FreshNetworksEmpty
<1>5. Nodes(hubs[n]) = {}
  BY <1>4 DEF Nodes, Range
<1>6. Nodes(nms') = Nodes(nms) \cup {n} /\ DOMAIN nms' = DOMAIN nms \cup {i}
  BY <1>1, <1>2, AddChildNodes DEF AddChild
<1>7. Life!UsedIndices(i) = DOMAIN hubs[n]
  BY <1>2, <1>4, UnderNothing
<1>8. OthersMake(r) = MakingHubs
  BY OthersMaking DEF NetworkPosted, Making
<1>9. Life!Begin(i, OthersMake(r)) \/ Life!NoBegin(OthersMake(r))
  BY <1>1, <1>2, <1>4, <1>5, <1>6, <1>7, NextHubRefines
<1> QED
  BY <1>3, <1>6, <1>8, <1>9 DEF Life!AddNetwork

\* A POST of a hub adds one to the network at the index.
LEMMA CreateHubRefines ==
  ASSUME TreeInv, HoldersInv, PoliteInv, NEW r \in Requests,
         NEW i \in DOMAIN nms, NEW a, CreateHub(r, i, a)
  PROVE  Life!AddHub
<1>1. /\ nms[i] \in Networks /\ i \in Nat /\ netIndex[nms[i]] = i
      /\ nms[i] \in Nodes(nms)
  BY TreeFacts DEF Nodes, Range
<1>2. BeginHub(r, nms[i], i, 0, a) /\ nms' = nms
  BY <1>1 DEF CreateHub
<1>3. Nodes(nms') = Nodes(nms) \cup {nms[i]}
  BY <1>1, <1>2
<1>4. Life!UsedIndices(i) = DOMAIN hubs[nms[i]]
  BY UnderNetwork
<1>5. OthersMake(r) = MakingHubs
  BY OthersMaking DEF CreateHub, Idle, Making
<1>6. Life!Begin(i, OthersMake(r))
  BY <1>1, <1>2, <1>3, <1>4, BeginHubRefines
<1> QED
  BY <1>2, <1>5, <1>6 DEF Life!AddHub

\* Where the hub of a request is.
LEMMA MakerFacts ==
  ASSUME TreeInv, PoliteInv, NEW r \in Requests, Making(r)
  PROVE  /\ address[task[r].hub].net \in DOMAIN nms
         /\ nms[address[task[r].hub].net] = task[r].net
         /\ netIndex[task[r].net] = address[task[r].hub].net
         /\ task[r].net \in Networks
         /\ task[r].net \in Nodes(nms)
         /\ task[r].hub \in Nodes(hubs[task[r].net])
         /\ task[r].hub \in MakingHubs
<1>1. InPlace(r)
  BY DEF PoliteInv, BusyHubsInTree
<1>2. /\ address[task[r].hub].net \in DOMAIN nms
      /\ nms[address[task[r].hub].net] = task[r].net
  BY <1>1 DEF InPlace
<1>3. task[r].hub \in Nodes(hubs[task[r].net])
  BY <1>1 DEF InPlace, Nodes, Range
<1>4. /\ netIndex[task[r].net] = address[task[r].hub].net
      /\ task[r].net \in Networks
  BY <1>2, TreeFacts
<1>5. task[r].net \in Nodes(nms)
  BY <1>2 DEF Nodes, Range
<1> QED
  BY <1>2, <1>3, <1>4, <1>5 DEF MakingHubs

\* A hub that the NMS accepted is finished, and the loop goes on.
LEMMA HubPostedRefines ==
  ASSUME TreeInv, HoldersInv, PoliteInv, NEW r \in Requests, HubPosted(r)
  PROVE  \E h \in MakingHubs : Life!Finish(h)
<1> DEFINE n == task[r].net
           h == task[r].hub
           i == address[h].net
<1>1. Making(r)
  BY DEF HubPosted, Making
<1>2. /\ i \in DOMAIN nms /\ nms[i] = n /\ netIndex[n] = i
      /\ n \in Networks /\ n \in Nodes(nms) /\ h \in MakingHubs
  BY <1>1, MakerFacts
<1>3. i \in Nat
  BY <1>2, TreeFacts
<1>4. NextHub(r, n, i) /\ nms' = nms
  BY <1>2 DEF HubPosted
<1>5. Life!UsedIndices(i) = DOMAIN hubs[n]
  BY <1>2, UnderNetwork
<1>6. OthersMake(r) = MakingHubs \ {h}
  BY <1>1, OthersMaking
<1> HIDE DEF n, h, i
<1>7. Life!Begin(i, OthersMake(r)) \/ Life!NoBegin(OthersMake(r))
  BY <1>2, <1>3, <1>4, <1>5, NextHubRefines
<1> QED
  BY <1>2, <1>4, <1>6, <1>7 DEF Life!Finish, i

-----------------------------------------------------------------------------
\* The rollback gives the hub up.
LEMMA HubRefusedRefines ==
  ASSUME TreeInv, HoldersInv, PoliteInv, NEW r \in Requests, HubRefused(r)
  PROVE  \E h \in MakingHubs : Life!GiveUp(h)
<1> DEFINE n == task[r].net
           h == task[r].hub
           j == address[h].hub
<1>1. Making(r)
  BY DEF HubRefused, Making
<1>2. n \in Nodes(nms) /\ n \in Networks /\ h \in MakingHubs
  BY <1>1, MakerFacts
<1>3. j \in DOMAIN hubs[n] /\ hubs[n][j] = h
  BY <1>1, <1>2, MakerFacts, HubAddress
<1>4. /\ hubs' = [hubs EXCEPT ![n] = RemoveChild(hubs[n], j)]
      /\ UNCHANGED <<nms, address>>
      /\ Finalize(worker)
  BY DEF HubRefused
<1>5. MakingHubs' = MakingHubs \ {h}
  <2>1. PICK code : task' = [task EXCEPT ![r] = Failing(task[r], code)]
    BY DEF HubRefused
  <2>2. /\ ~Making(r)'
        /\ \A q \in Requests \ {r} : task'[q] = task[q]
    BY <2>1 DEF Making, Failing, TreeInv, TypeOK
  <2> QED
    BY <1>1, <2>2, MakingAfter, OthersMaking
<1> HIDE DEF n, h, j
<1>6. TreeHubs' = TreeHubs \ {h}
  BY <1>2, <1>3, <1>4, RemoveHubTree
<1>7. FreshHubs' = FreshHubs /\ DOMAIN nms' = DOMAIN nms
  BY <1>4 DEF FreshHubs
<1>8. RunningHubs' \subseteq RunningHubs
  BY <1>4, FinalizeShrinks DEF RunningHubs, TreeInv, TypeOK
<1> QED
  BY <1>2, <1>4, <1>5, <1>6, <1>7, <1>8 DEF Life!GiveUp, Life!WorkersMayStop

-----------------------------------------------------------------------------
\* What a polite deletion leaves alone.
LEMMA DeletesLeave ==
  ASSUME TreeInv, HoldersInv, PoliteInv, PoliteDeletes
  PROVE  /\ UNCHANGED <<address, task>>
         /\ FreshHubs' = FreshHubs /\ MakingHubs' = MakingHubs
         /\ pinned' = NoNode
         /\ RunningHubs' \subseteq RunningHubs /\ RunningHeld'
<1>1. /\ UNCHANGED <<address, task, pinned>>
      /\ Finalize(worker)
  BY DEF PoliteDeletes, DeleteNetwork, DeleteHub
<1>2. RunningHubs' \subseteq RunningHubs /\ RunningHeld'
  BY <1>1, FinalizeShrinks, FinalizeHolds DEF RunningHubs, TreeInv, TypeOK
<1>3. pinned = NoNode
  BY DEF HoldersInv, PoliteInv, ListenerSurvives
<1> QED
  BY <1>1, <1>2, <1>3 DEF FreshHubs, MakingHubs, Making

\* A deleted hub is held by nothing, so its worker is stopped.
LEMMA DeleteHubRefines ==
  ASSUME TreeInv, HoldersInv, PoliteInv, PoliteDeletes,
         NEW i \in DOMAIN nms, NEW j \in HubsAt(i),
         ~BusyHub(hubs[nms[i]][j]), DeleteHub(i, j)
  PROVE  \E h \in TreeHubs : Life!RemoveHub(h)
<1> DEFINE n == nms[i]
           h == hubs[n][j]
<1>1. n \in Nodes(nms) /\ j \in DOMAIN hubs[n]
  BY DEF Nodes, Range, HubsAt
<1>2. /\ hubs' = [hubs EXCEPT ![n] = RemoveChild(hubs[n], j)]
      /\ nms' = nms
  BY DEF DeleteHub, RemoveHub
<1>3. \A r \in Requests : InFlight(r) => task[r].hub # h
  BY DEF BusyHub
<1> HIDE DEF n
<1>4. /\ TreeHubs' = TreeHubs \ {h} /\ h \in TreeHubs
      /\ \A m \in Networks : h \notin Nodes(hubs'[m])
  BY <1>1, <1>2, RemoveHubTree
<1> HIDE DEF h
<1>5. h \notin MakingHubs
  BY <1>3 DEF MakingHubs, Making, InFlight
<1>6. h \notin RunningHubs'
  <2>1. h \notin HeldHubs'
    <3>1. HeldNetworks' \subseteq Networks
      <4>1. \A r \in Requests : task'[r].net \in Networks \cup {NoNode}
        <5>1. task' = task
          BY DeletesLeave
        <5>2. \A r \in Requests : task[r] \in TaskType
          BY DEF TreeInv, TypeOK
        <5> QED
          BY <5>1, <5>2 DEF TaskType
      <4>2. Nodes(nms') \subseteq Networks
        BY <1>2, TreeFacts
      <4> QED
        BY <4>1, <4>2, DeletesLeave DEF HeldNetworks
    <3>2. \A r \in Requests : InFlight(r)' => task'[r].hub # h
      BY <1>3, DeletesLeave DEF InFlight
    <3> QED
      BY <1>4, <3>1, <3>2 DEF HeldHubs
  <2> QED
    BY <2>1, DeletesLeave DEF RunningHeld, RunningHubs
<1> QED
  BY <1>2, <1>4, <1>5, <1>6, DeletesLeave
     DEF Life!RemoveHub, Life!Remove, Life!WorkersMayStop

\* A deleted network holds all its hubs, and nothing else does.
LEMMA DeleteNetworkRefines ==
  ASSUME TreeInv, HoldersInv, PoliteInv, PoliteDeletes,
         NEW i \in DOMAIN nms, ~BusyNetwork(nms[i]), DeleteNetwork(i)
  PROVE  Life!RemoveNetwork(i)
<1> DEFINE n == nms[i]
           gone == Nodes(hubs[n])
<1>1. /\ n \in Networks /\ n \in Nodes(nms) /\ n # NoNode
      /\ Nodes(nms) \subseteq Networks
  BY TreeFacts, NodesAssumption DEF Nodes, Range
<1>2. nms' = RemoveChild(nms, i) /\ hubs' = hubs
  BY DEF DeleteNetwork, RemoveNetwork
<1>3. DOMAIN nms' = DOMAIN nms \ {i}
  BY <1>2 DEF RemoveChild, Restrict
<1>4. Nodes(nms') = Nodes(nms) \ {n}
  <2>1. \A k \in DOMAIN nms : nms[k] = nms[i] => k = i
    BY TreeFacts
  <2> QED
    BY <1>2, <2>1 DEF Nodes, Range, RemoveChild, Restrict
<1>5. Life!Under(i) = gone
  BY UnderNetwork
<1>6. \A r \in Requests : InFlight(r) => task[r].net # n
  BY DEF BusyNetwork
<1> HIDE DEF n
<1>7. \A r \in Requests : InFlight(r) => task[r].hub \notin gone
  BY <1>1, <1>6 DEF HoldersInv, RequestsHold
<1>8. \A m \in Networks \ {n} : Nodes(hubs[m]) \cap gone = {}
  BY <1>1 DEF HoldersInv, HubsInOneNetwork
<1> HIDE DEF gone
<1>9. TreeHubs' = TreeHubs \ gone
  BY <1>1, <1>2, <1>4, <1>8 DEF TreeHubs, gone
<1>10. gone \cap MakingHubs = {}
  BY <1>7 DEF MakingHubs, Making, InFlight
<1>11. gone \cap RunningHubs' = {}
  <2>1. gone \cap HeldHubs' = {}
    <3>1. \A r \in Requests : InFlight(r)' =>
            task'[r].hub \notin gone /\ task'[r].net # n
      BY <1>6, <1>7, DeletesLeave DEF InFlight
    <3>2. HeldNetworks' \subseteq Networks \ {n}
      <4>1. \A r \in Requests : task'[r].net \in Networks \cup {NoNode}
        <5>1. task' = task
          BY DeletesLeave
        <5>2. \A r \in Requests : task[r] \in TaskType
          BY DEF TreeInv, TypeOK
        <5> QED
          BY <5>1, <5>2 DEF TaskType
      <4> QED
        BY <1>1, <1>4, <3>1, <4>1, DeletesLeave DEF HeldNetworks
    <3> QED
      BY <1>2, <1>8, <3>1, <3>2 DEF HeldHubs
  <2> QED
    BY <2>1, DeletesLeave DEF RunningHeld, RunningHubs
<1> QED
  BY <1>3, <1>5, <1>9, <1>10, <1>11, DeletesLeave
     DEF Life!RemoveNetwork, Life!Remove, Life!WorkersMayStop

-----------------------------------------------------------------------------
\* The steps that change no dictionary and no address.
LEMMA QuietRefines ==
  ASSUME UNCHANGED <<nms, hubs, address>>, MakingHubs' = MakingHubs,
         RunningHubs' \subseteq RunningHubs
  PROVE  Life!WorkersStop
BY DEF Life!WorkersStop, Life!WorkersMayStop, FreshHubs, TreeHubs

\* A request that begins or ends without a hub that it makes.
LEMMA RequestsRefine ==
  ASSUME TreeInv, PoliteInv, NEW r \in Requests,
         \/ \E k, a : CreateNetwork(r, k, a)
         \/ NetworkRefused(r)
         \/ HubConnected(r)
         \/ RequestFails(r)
  PROVE  Life!WorkersStop
<1>1. UNCHANGED <<nms, hubs, address>>
  BY DEF CreateNetwork, NetworkRefused, HubConnected, RequestFails
<1>2. RunningHubs' \subseteq RunningHubs
  <2>1. worker' = worker \/ Finalize(worker)
    BY DEF CreateNetwork, NetworkRefused, HubConnected, RequestFails
  <2> QED
    BY <2>1, FinalizeShrinks DEF RunningHubs, TreeInv, TypeOK
<1>3. /\ \A q \in Requests \ {r} : task'[q] = task[q]
      /\ Making(r)' <=> Making(r)
      /\ Making(r) => task'[r].hub = task[r].hub
  BY DEF CreateNetwork, NetworkRefused, HubConnected, RequestFails, Idle,
         Locals, Answered, Making, TreeInv, TypeOK, TaskType
<1>4. MakingHubs' = MakingHubs
  BY <1>3 DEF MakingHubs, Making
<1> QED
  BY <1>1, <1>2, <1>4, QuietRefines

\* AP routes, workers and the listener.
LEMMA OthersRefine ==
  ASSUME TreeInv, ChangesAps \/ WorkerOrListener \/ UNCHANGED vars
  PROVE  Life!WorkersStop
<1>1. UNCHANGED <<nms, hubs, address, task>>
  BY DEF ChangesAps, CreateAp, DeleteAp, WorkerOrListener, WorkerConnects,
         WorkerCrashes, WorkerDies, ListenerHandles, vars
<1>2. RunningHubs' \subseteq RunningHubs
  BY DEF RunningHubs, Running, ChangesAps, CreateAp, DeleteAp,
         WorkerOrListener, WorkerConnects, WorkerCrashes, WorkerDies,
         ListenerHandles, vars, TreeInv, TypeOK
<1>3. MakingHubs' = MakingHubs
  BY <1>1 DEF MakingHubs, Making
<1> QED
  BY <1>1, <1>2, <1>3, QuietRefines

\* The empty controller has no networks and no hubs.
LEMMA InitRefines == Init => Life!Init
<1> SUFFICES ASSUME Init
             PROVE  Life!Init
  OBVIOUS
<1>1. DOMAIN nms = {} /\ Nodes(nms) = {}
  BY NoChildrenDict DEF Init, Nodes, Range
<1>2. MakingHubs = {}
  BY DEF Init, MakingHubs, Making, NoTask, Locals
<1> QED
  BY <1>1, <1>2 DEF Init, Life!Init, FreshHubs, TreeHubs, RunningHubs, Running

\* Every step of the controller is a step of the life of the hubs.
LEMMA NextRefines ==
  KnownInv /\ [PoliteNext]_vars => [Life!Next]_(Life!lifeVars)
<1> SUFFICES ASSUME TreeInv, HoldersInv, PoliteInv, [PoliteNext]_vars
             PROVE  Life!Next
  BY DEF KnownInv
<1>1. CASE Creates
  BY <1>1, RequestsRefine, CreateHubRefines DEF Creates, Life!Next
<1>2. CASE Continues
  BY <1>2, RequestsRefine, NetworkPostedRefines, HubPostedRefines,
     HubRefusedRefines DEF Continues, Life!Next
<1>3. CASE PoliteDeletes
  BY <1>3, DeleteNetworkRefines, DeleteHubRefines DEF PoliteDeletes, Life!Next
<1>4. CASE ChangesAps \/ WorkerOrListener \/ UNCHANGED vars
  BY <1>4, OthersRefine DEF Life!Next
<1> QED
  BY <1>1, <1>2, <1>3, <1>4 DEF PoliteNext

\* What is known holds in every state that polite clients can reach.
LEMMA KnownInvariance == PoliteSpec => []KnownInv
<1>1. Init /\ [][PoliteNext]_vars => Spec
  BY PoliteNextIsNext, PTL DEF Spec
<1> QED
  BY <1>1, PoliteInvariance, HoldersInvariance, PTL DEF PoliteSpec, KnownInv

(***************************************************************************)
(* The controller keeps the promises of HubLifecycle to polite clients,    *)
(* for any number of networks, hubs and requests.                          *)
(***************************************************************************)
THEOREM LifecycleImplemented == PoliteSpec => ImplementsLifecycle
BY InitRefines, NextRefines, KnownInvariance, PTL
   DEF PoliteSpec, ImplementsLifecycle, Life!Spec

\* Every step of a request changes the place where it is suspended.
LEMMA RequestMoves ==
  ASSUME TypeOK, Creates \/ Continues
  PROVE  task' # task
<1>1. ASSUME NEW r \in Requests, NEW n, NEW i, NEW more, NEW a,
             BeginHub(r, n, i, more, a), task[r].pc \notin {"connect", "answered"}
      PROVE  task' # task
  BY <1>1 DEF BeginHub, TypeOK, Locals, Answered
<1>2. ASSUME NEW r \in Requests, NEW n, NEW i, NextHub(r, n, i),
             task[r].pc \notin {"connect", "answered"}
      PROVE  task' # task
  BY <1>1, <1>2 DEF NextHub, TypeOK, Answered
<1>3. CASE Creates
  BY <1>1, <1>3
     DEF Creates, CreateNetwork, CreateHub, Idle, TypeOK, Locals
<1>4. CASE Continues
  <2>1. PICK r \in Requests :
          \/ NetworkPosted(r) \/ NetworkRefused(r) \/ HubConnected(r)
          \/ HubPosted(r) \/ HubRefused(r) \/ RequestFails(r)
    BY <1>4 DEF Continues
  <2>2. NetworkPosted(r) => task' # task
    BY <1>2 DEF NetworkPosted
  <2>3. HubPosted(r) => task' # task
    BY <1>2 DEF HubPosted
  <2>4. NetworkRefused(r) => task' # task
    BY DEF NetworkRefused, TypeOK, Answered
  <2>5. HubConnected(r) => task' # task
    BY DEF HubConnected, TypeOK, TaskType
  <2>6. HubRefused(r) => task' # task
    BY DEF HubRefused, TypeOK, Failing
  <2>7. RequestFails(r) => task' # task
    BY DEF RequestFails, TypeOK, Answered
  <2> QED
    BY <2>1, <2>2, <2>3, <2>4, <2>5, <2>6, <2>7
<1> QED
  BY <1>3, <1>4

(***************************************************************************)
(* A hub that a polite deletion takes out of the tree has no worker        *)
(* afterwards; every other step that takes one out is a request's own.     *)
(***************************************************************************)
THEOREM DeletedWorkersStop == PoliteSpec => DeleteStopsWorker
<1>1. ASSUME KnownInv, [PoliteNext]_vars, task' = task,
             NEW h \in TreeHubs \ TreeHubs'
      PROVE  worker'[h] \notin Running
  <2>1. KnownInv /\ h \in Hubs
    BY <1>1, TreeFacts DEF KnownInv
  <2>2. CASE PoliteDeletes
    <3>1. PICK gone : Life!Remove(gone)
      BY <2>1, <2>2, DeleteNetworkRefines, DeleteHubRefines
         DEF PoliteDeletes, KnownInv, Life!RemoveHub, Life!RemoveNetwork
    <3>2. h \in gone
      BY <1>1, <3>1 DEF Life!Remove
    <3>3. h \notin RunningHubs'
      BY <3>1, <3>2 DEF Life!Remove, Life!WorkersMayStop
    <3> QED
      BY <2>1, <3>3 DEF RunningHubs
  <2>3. CASE Creates \/ Continues
    BY <1>1, <2>1, <2>3, RequestMoves DEF KnownInv, TreeInv
  <2>4. CASE ChangesAps \/ WorkerOrListener \/ UNCHANGED vars
    BY <1>1, <2>1, <2>4, OthersRefine DEF KnownInv, Life!WorkersStop
  <2> QED
    BY <1>1, <2>2, <2>3, <2>4 DEF PoliteNext
<1>2. KnownInv /\ [PoliteNext]_vars =>
        [\A h \in TreeHubs \ TreeHubs' :
           task' = task => worker'[h] \notin Running]_vars
  BY <1>1
<1> QED
  BY <1>2, KnownInvariance, PTL DEF PoliteSpec, DeleteStopsWorker

-----------------------------------------------------------------------------
(***************************************************************************)
(* Until the sockets are closed the controller is the one of               *)
(* PoliteController; after that its tree and its workers stay well formed. *)
(***************************************************************************)
LifeInv ==
  /\ TreeInv
  /\ phase # "stopped" => HoldersInv /\ PoliteInv
  /\ NothingUnread
  /\ NothingHalfMade

\* At rest, with a listener that lives, every hub of the tree is whole, and
\* every worker that runs has one.
LEMMA NothingHalfMadeAtRest ==
  ASSUME TreeInv, HoldersInv, PoliteInv, \A r \in Requests : ~InFlight(r)
  PROVE  /\ \A h \in TreeHubs :
              worker[h] = "none" \/ h \in registered \cap connected
         /\ RunningHubs \subseteq TreeHubs
<1>1. ASSUME NEW h \in TreeHubs
      PROVE  worker[h] = "none" \/ h \in registered \cap connected
  <2>1. PICK n \in Nodes(nms) : h \in Nodes(hubs[n])
    BY <1>1 DEF TreeHubs
  <2>2. n \in Networks
    BY <2>1, TreeFacts
  <2> QED
    BY <2>1, <2>2 DEF HoldersInv, Settled
<1>2. RunningHubs \subseteq TreeHubs
  <2>1. HeldNetworks \subseteq Nodes(nms)
    BY DEF HeldNetworks, HoldersInv, PoliteInv, ListenerSurvives
  <2>2. RunningHubs \subseteq HeldHubs
    BY DEF HoldersInv, RunningHeld, RunningHubs
  <2> QED
    BY <2>1, <2>2 DEF HeldHubs, TreeHubs
<1> QED
  BY <1>1, <1>2

\* What the controller does while it serves or drains.
LEMMA ServeOrDrain ==
  ASSUME Serve \/ Drain
  PROVE  phase # "stopped" /\ phase' = phase /\ PoliteNext
BY DEF Serve, Drain, PoliteNext

\* What happens after the sockets are closed.
LEMMA OutliveStops ==
  ASSUME LifeInv, Outlive
  PROVE  /\ phase = "stopped" /\ phase' = "stopped"
         /\ WorkerOrListener
         /\ inbox' = inbox
         /\ \A h \in Hubs : worker'[h] # "starting"
         /\ NothingHalfMade'
<1>1. phase = "stopped" /\ phase' = "stopped"
  BY DEF Outlive
<1>2. PICK h \in Hubs : WorkerCrashes(h) \/ WorkerDies(h)
  BY <1>1 DEF Outlive, LifeInv, NothingUnread, WorkerConnects, SendToController
<1>3. inbox' = inbox /\ worker' = [worker EXCEPT ![h] = "exited"]
  BY <1>2 DEF WorkerCrashes, WorkerDies
<1>4. \A x \in Hubs : worker'[x] # "starting"
  BY <1>1, <1>3 DEF LifeInv, NothingUnread
<1>5. WorkerOrListener
  BY <1>2 DEF WorkerOrListener
<1>6. NothingHalfMade'
  <2>1. UNCHANGED <<nms, hubs, registered, connected>>
    BY <1>2 DEF WorkerCrashes, WorkerDies
  <2>2. TreeHubs' = TreeHubs
    BY <2>1 DEF TreeHubs
  <2>3. /\ \A x \in TreeHubs : worker[x] = "none" \/ x \in registered \cap connected
        /\ RunningHubs \subseteq TreeHubs
    BY <1>1 DEF LifeInv, NothingHalfMade
  <2>4. worker[h] # "none"
    BY <1>2 DEF WorkerCrashes, WorkerDies, Running
  <2>5. RunningHubs' \subseteq RunningHubs
    BY <1>3 DEF RunningHubs, Running, LifeInv, TreeInv, TypeOK
  <2>6. \A x \in TreeHubs : worker'[x] = "none" \/ x \in registered \cap connected
    BY <1>3, <2>3, <2>4 DEF LifeInv, TreeInv, TypeOK
  <2> QED
    BY <2>1, <2>2, <2>3, <2>5, <2>6 DEF NothingHalfMade
<1> QED
  BY <1>1, <1>3, <1>4, <1>5, <1>6

\* LifeInv is inductive.
LEMMA NextLifeInv == LifeInv /\ [LifeNext]_lifeVars => LifeInv'
<1> SUFFICES ASSUME LifeInv, [LifeNext]_lifeVars
             PROVE  LifeInv'
  OBVIOUS
<1>1. ASSUME phase # "stopped", phase' # "stopped", [PoliteNext]_vars
      PROVE  LifeInv'
  <2>1. [Next]_vars
    BY <1>1, PoliteNextIsNext
  <2>2. PoliteInv' /\ TreeInv'
    BY <1>1, <2>1, NextPoliteInv, NextTreeInv DEF LifeInv
  <2>3. HoldersInv'
    BY <1>1, <2>1, <2>2, NextHoldersInv DEF LifeInv
  <2> QED
    BY <1>1, <2>2, <2>3 DEF LifeInv, NothingUnread, NothingHalfMade
<1>2. CASE Serve \/ Drain
  BY <1>1, <1>2, ServeOrDrain
<1>3. CASE Sigterm
  BY <1>1, <1>3 DEF Sigterm
<1>4. CASE Teardown
  <2>1. AwaitedWorkers /\ TreeInv /\ inbox \subseteq Hubs
    BY <1>4 DEF Teardown, LifeInv, PoliteInv, TreeInv, TypeOK
  <2>2. \A r \in Requests : task[r].pc # "connect"
    BY <1>4 DEF Teardown, InFlight
  <2>3. inbox = {} /\ \A h \in Hubs : worker[h] # "starting"
    BY <2>1, <2>2 DEF AwaitedWorkers
  <2>4. /\ listening' = FALSE /\ phase' = "stopped"
        /\ UNCHANGED <<nms, hubs, aps, netIndex, address, task, worker, inbox,
                       connected, registered, pinned>>
    BY <1>4 DEF Teardown, TeardownZmq
  <2>5. TreeInv'
    BY <2>1, <2>4 DEF TreeInv, TypeOK, NetworksPlaced, HubsPlaced,
       FreshNetworksEmpty, FreshNetworks, TasksMade, FreshHubs
  <2>6. NothingHalfMade'
    <3>1. /\ \A h \in TreeHubs :
              worker[h] = "none" \/ h \in registered \cap connected
          /\ RunningHubs \subseteq TreeHubs
      BY <1>4, NothingHalfMadeAtRest DEF Teardown, LifeInv
    <3>2. TreeHubs' = TreeHubs /\ RunningHubs' = RunningHubs
      BY <2>4 DEF TreeHubs, RunningHubs
    <3> QED
      BY <2>4, <3>1, <3>2 DEF NothingHalfMade
  <2> QED
    BY <2>3, <2>4, <2>5, <2>6 DEF LifeInv, NothingUnread
<1>5. CASE Outlive
  <2>1. /\ phase' = "stopped" /\ inbox = {} /\ inbox' = inbox
        /\ \A h \in Hubs : worker'[h] # "starting"
        /\ [Next]_vars /\ NothingHalfMade'
    BY <1>5, OutliveStops DEF LifeInv, NothingUnread, Next
  <2>2. TreeInv'
    BY <2>1, NextTreeInv DEF LifeInv
  <2> QED
    BY <2>1, <2>2 DEF LifeInv, NothingUnread
<1>6. CASE UNCHANGED lifeVars
  <2>1. UNCHANGED vars /\ phase' = phase
    BY <1>6 DEF lifeVars
  <2>2. UNCHANGED <<inbox, worker>> /\ [Next]_vars
    BY <2>1 DEF vars
  <2>3. TreeInv'
    BY <2>2, NextTreeInv DEF LifeInv
  <2>4. NothingHalfMade'
    BY <2>1 DEF vars, LifeInv, NothingHalfMade, TreeHubs, RunningHubs
  <2> QED
    BY <1>1, <2>1, <2>2, <2>3, <2>4 DEF LifeInv, NothingUnread
<1> QED
  BY <1>2, <1>3, <1>4, <1>5, <1>6 DEF LifeNext

\* The controller starts as the one of PoliteController.
LEMMA InitLifeInv == LifeInit => LifeInv
BY InitPoliteInv, InitTreeInv, InitHoldersInv DEF LifeInit, LifeInv, NothingUnread, NothingHalfMade

(***************************************************************************)
(* When the sockets are closed, every worker has connected and every       *)
(* HubConnectInd has been handled.                                         *)
(***************************************************************************)
THEOREM ShutdownLosesNothing == LifeSpec => []NothingUnread
<1>1. LifeInv => NothingUnread
  BY DEF LifeInv
<1> QED
  BY <1>1, InitLifeInv, NextLifeInv, PTL DEF LifeSpec

(***************************************************************************)
(* The shutdown leaves no hub half made and no worker without a hub: what  *)
(* was being made when the signal came is whole or gone.                   *)
(***************************************************************************)
THEOREM ShutdownLeavesNothingHalfMade == LifeSpec => []NothingHalfMade
<1>1. LifeInv => NothingHalfMade
  BY DEF LifeInv
<1> QED
  BY <1>1, InitLifeInv, NextLifeInv, PTL DEF LifeSpec

=============================================================================
