-------------------------- MODULE ControllerProofs --------------------------
(***************************************************************************)
(* Theorems about Controller, for any sets of networks, hubs and requests  *)
(* and for every client.  From the inductive invariant TreeInv: the state  *)
(* is well typed, every node of the tree is where its address says, and no *)
(* slot of a dictionary is overwritten.  From HoldersInv, about references *)
(* to hubs: a hub that is settled in the tree was connected and accepted   *)
(* by the NMS, and when nothing is in flight no worker runs outside the    *)
(* tree.  Every step of a request brings its answer nearer.                *)
(***************************************************************************)
EXTENDS Controller, NodeTreeProofs

\* The empty tree satisfies the invariant.
LEMMA InitTreeInv == Init => TreeInv
<1> SUFFICES ASSUME Init
             PROVE  TreeInv
  OBVIOUS
<1>1. IsDict(NoChildren, Networks) /\ IsDict(NoChildren, Hubs)
  BY NoChildrenDict
<1>2. DOMAIN NoChildren = {}
  BY NoChildrenDict
<1>3. IsFiniteSet({})
  BY FS_EmptySet
<1>4. TypeOK
  BY <1>1, <1>3
     DEF Init, TypeOK, TaskType, Codes, NoTask, Locals, Indices, Processes
<1>5. DOMAIN nms = {} /\ \A n \in Networks : DOMAIN hubs[n] = {}
  BY <1>2 DEF Init
<1>6. NetworksPlaced /\ HubsPlaced /\ FreshNetworksEmpty
  BY <1>5 DEF NetworksPlaced, HubsPlaced, FreshNetworksEmpty, FreshNetworks
<1>7. TasksMade
  BY DEF Init, TasksMade, NoTask, Locals
<1> QED
  BY <1>4, <1>6, <1>7 DEF TreeInv

(***************************************************************************)
(* Stopping the workers of dropped hubs leaves every worker in a state     *)
(* that worker processes have.                                             *)
(***************************************************************************)
LEMMA FinalizeType ==
  ASSUME NEW P \in [Hubs -> Processes], Finalize(P)
  PROVE  worker' \in [Hubs -> Processes]
BY DEF Finalize, Processes

(***************************************************************************)
(* A hub that a request begins in network n goes under the index that its  *)
(* address names.  The network itself may be made by the same step.        *)
(***************************************************************************)
LEMMA BeginHubStep ==
  ASSUME TreeInv, NEW r \in Requests, NEW n \in Networks, NEW i \in Nat,
         NEW more \in Nat, NEW a \in Nat, BeginHub(r, n, i, more, a),
         netIndex'[n] = i, n \notin FreshNetworks => netIndex[n] = i,
         \A m \in Networks \ {n} : netIndex'[m] = netIndex[m]
  PROVE  /\ DOMAIN hubs' = Networks
         /\ \A m \in Networks : IsDict(hubs'[m], Hubs)
         /\ address' \in [Hubs -> Addresses \cup {NoAddress}]
         /\ task' \in [Requests -> TaskType]
         /\ worker' \in [Hubs -> Processes]
         /\ HubsPlaced' /\ FreshNetworksEmpty' /\ TasksMade'
<1> DEFINE index == GetIndex(hubs[n])
<1>1. PICK h \in FreshHubs :
        /\ address' = [address EXCEPT ![h] = [net |-> i, hub |-> index]]
        /\ hubs' = [hubs EXCEPT ![n] = AddChild(hubs[n], index, h)]
        /\ \/ /\ task' = [task EXCEPT ![r] = Locals("connect", n, h, more, a)]
              /\ Finalize([worker EXCEPT ![h] = "starting"])
           \/ /\ task' = [task EXCEPT ![r] = Answered("500")]
              /\ Finalize(worker)
  BY DEF BeginHub
<1>2. h \in Hubs /\ address[h] = NoAddress
  BY <1>1 DEF FreshHubs
<1>3. IsDict(hubs[n], Hubs) /\ DOMAIN hubs = Networks
  BY DEF TreeInv, TypeOK
<1>4. index \in Nat
  BY <1>3, GetIndexFree
<1>5. /\ IsDict(hubs'[n], Hubs)
      /\ DOMAIN hubs'[n] = DOMAIN hubs[n] \cup {index}
      /\ hubs'[n][index] = h
      /\ \A j \in DOMAIN hubs[n] : j # index => hubs'[n][j] = hubs[n][j]
  <2>1. hubs'[n] = AddChild(hubs[n], index, h)
    BY <1>1, <1>3
  <2> HIDE DEF index
  <2>2. IsDict(AddChild(hubs[n], index, h), Hubs)
    BY <1>2, <1>3, <1>4, AddChildDict
  <2>3. /\ DOMAIN hubs'[n] = DOMAIN hubs[n] \cup {index}
        /\ hubs'[n][index] = h
        /\ \A j \in DOMAIN hubs[n] : j # index => hubs'[n][j] = hubs[n][j]
    BY <2>1 DEF AddChild
  <2> QED
    BY <2>1, <2>2, <2>3
<1>6. \A m \in Networks \ {n} : hubs'[m] = hubs[m]
  BY <1>1, <1>3
<1> HIDE DEF index
<1>7. DOMAIN hubs' = Networks /\ \A m \in Networks : IsDict(hubs'[m], Hubs)
  BY <1>1, <1>3, <1>5, <1>6 DEF TreeInv, TypeOK
<1>8. /\ address' \in [Hubs -> Addresses \cup {NoAddress}]
      /\ address'[h] = [net |-> i, hub |-> index]
      /\ \A x \in Hubs \ {h} : address'[x] = address[x]
  BY <1>1, <1>2, <1>4 DEF TreeInv, TypeOK, Addresses
<1>9. address'[h] # NoAddress
  BY <1>4, <1>8 DEF NoAddress, NoIndex
<1>10. task' \in [Requests -> TaskType]
  BY <1>1, <1>2 DEF TreeInv, TypeOK, TaskType, Answered, Locals, Codes
<1>11. worker' \in [Hubs -> Processes]
  <2>1. /\ worker \in [Hubs -> Processes]
        /\ [worker EXCEPT ![h] = "starting"] \in [Hubs -> Processes]
    BY <1>2 DEF TreeInv, TypeOK, Processes, Running
  <2> QED
    BY <1>1, <2>1, FinalizeType
<1>12. HubsPlaced'
  <2> SUFFICES ASSUME NEW m \in Networks, NEW j \in DOMAIN hubs'[m]
               PROVE  address'[hubs'[m][j]] = [net |-> netIndex'[m], hub |-> j]
    BY DEF HubsPlaced
  <2>1. ASSUME j \in DOMAIN hubs[m]
        PROVE  /\ address[hubs[m][j]] = [net |-> netIndex[m], hub |-> j]
               /\ hubs[m][j] \in Hubs \ {h}
               /\ m \notin FreshNetworks
    <3>1. address[hubs[m][j]] = [net |-> netIndex[m], hub |-> j]
      BY <2>1 DEF TreeInv, HubsPlaced
    <3>2. hubs[m][j] \in Hubs /\ j \in Nat
      BY <2>1 DEF TreeInv, TypeOK, IsDict
    <3>3. hubs[m][j] # h
      BY <1>2, <3>1, <3>2 DEF NoAddress, NoIndex
    <3> QED
      BY <2>1, <3>1, <3>2, <3>3 DEF TreeInv, FreshNetworksEmpty
  <2>2. CASE m # n
    BY <1>6, <1>8, <2>1, <2>2
  <2>3. CASE m = n /\ j = index
    BY <1>5, <1>8, <2>3
  <2>4. CASE m = n /\ j # index
    BY <1>5, <1>8, <2>1, <2>4
  <2> QED
    BY <2>2, <2>3, <2>4
<1>13. FreshNetworksEmpty'
  BY <1>6 DEF FreshNetworksEmpty, FreshNetworks, TreeInv, NoIndex
<1>14. TasksMade'
  <2> SUFFICES ASSUME NEW q \in Requests,
                      task'[q].pc \in {"connect", "hubPost", "failing"}
               PROVE  /\ task'[q].net \in Networks /\ netIndex'[task'[q].net] # NoIndex
                      /\ task'[q].hub \in Hubs /\ address'[task'[q].hub] # NoAddress
    BY DEF TasksMade, FreshNetworks, FreshHubs
  <2>1. CASE q = r
    <3>1. task'[r].net = n /\ task'[r].hub = h
      BY <1>1, <2>1 DEF TreeInv, TypeOK, TaskType, Answered, Locals
    <3> QED
      BY <1>2, <1>9, <2>1, <3>1 DEF NoIndex
  <2>2. CASE q # r
    <3>1. task'[q] = task[q]
      BY <1>1, <2>2 DEF TreeInv, TypeOK
    <3>2. /\ task[q].net \in Networks /\ netIndex[task[q].net] # NoIndex
          /\ task[q].hub \in Hubs /\ address[task[q].hub] # NoAddress
      BY <3>1 DEF TreeInv, TasksMade, FreshNetworks, FreshHubs
    <3> QED
      BY <1>2, <1>8, <3>1, <3>2 DEF NoIndex
  <2> QED
    BY <2>1, <2>2
<1> QED
  BY <1>7, <1>8, <1>10, <1>11, <1>12, <1>13, <1>14

(***************************************************************************)
(* The same for the loop of add_network: the next hub, or the 201 answer.  *)
(***************************************************************************)
LEMMA NextHubStep ==
  ASSUME TreeInv, NEW r \in Requests, NEW n \in Networks, NEW i \in Nat,
         NextHub(r, n, i),
         netIndex'[n] = i, n \notin FreshNetworks => netIndex[n] = i,
         \A m \in Networks \ {n} : netIndex'[m] = netIndex[m]
  PROVE  /\ DOMAIN hubs' = Networks
         /\ \A m \in Networks : IsDict(hubs'[m], Hubs)
         /\ address' \in [Hubs -> Addresses \cup {NoAddress}]
         /\ task' \in [Requests -> TaskType]
         /\ worker' \in [Hubs -> Processes]
         /\ HubsPlaced' /\ FreshNetworksEmpty' /\ TasksMade'
<1>1. task[r].more \in Nat /\ task[r].aps \in Nat
  BY DEF TreeInv, TypeOK, TaskType
<1>2. CASE task[r].more > 0
  <2>1. task[r].more - 1 \in Nat
    BY <1>1, <1>2
  <2>2. BeginHub(r, n, i, task[r].more - 1, task[r].aps)
    BY <1>2 DEF NextHub
  <2> QED
    BY <1>1, <2>1, <2>2, BeginHubStep
<1>3. CASE ~(task[r].more > 0)
  <2>1. /\ task' = [task EXCEPT ![r] = Answered("201")]
        /\ UNCHANGED <<hubs, address>>
        /\ Finalize(worker)
    BY <1>3 DEF NextHub
  <2>2. worker' \in [Hubs -> Processes]
    BY <2>1, FinalizeType DEF TreeInv, TypeOK
  <2>3. task' \in [Requests -> TaskType]
    BY <2>1 DEF TreeInv, TypeOK, TaskType, Answered, Codes
  <2>4. HubsPlaced' /\ FreshNetworksEmpty'
    <3>1. \A m \in Networks : DOMAIN hubs[m] # {} => netIndex'[m] = netIndex[m]
      BY DEF TreeInv, FreshNetworksEmpty, FreshNetworks
    <3>2. \A m \in Networks : netIndex'[m] = NoIndex => netIndex[m] = NoIndex
      BY DEF NoIndex
    <3> QED
      BY <2>1, <3>1, <3>2
         DEF TreeInv, HubsPlaced, FreshNetworksEmpty, FreshNetworks
  <2>5. TasksMade'
    <3>1. \A q \in Requests :
            task'[q].pc \in {"connect", "hubPost", "failing"}
              => task'[q] = task[q]
      BY <2>1 DEF TreeInv, TypeOK, Answered
    <3>2. \A m \in Networks : netIndex[m] # NoIndex => netIndex'[m] # NoIndex
      BY DEF NoIndex
    <3> QED
      BY <2>1, <3>1, <3>2
         DEF TreeInv, TasksMade, FreshNetworks, FreshHubs
  <2> QED
    BY <2>1, <2>2, <2>3, <2>4, <2>5 DEF TreeInv, TypeOK
<1> QED
  BY <1>2, <1>3

\* A POST /network that arrives preserves the invariant.
LEMMA CreateNetworkStep ==
  ASSUME TreeInv, NEW r \in Requests, NEW k \in HubCounts, NEW a \in ApCounts,
         CreateNetwork(r, k, a)
  PROVE  TreeInv'
<1>1. TypeOK'
  BY CountsAssumption DEF CreateNetwork, TreeInv, TypeOK, TaskType, Locals, Codes
<1>2. TasksMade'
  <2>1. \A q \in Requests :
          task'[q].pc \in {"connect", "hubPost", "failing"} => task'[q] = task[q]
    BY DEF CreateNetwork, TreeInv, TypeOK, Locals
  <2> QED
    BY <2>1 DEF CreateNetwork, TreeInv, TasksMade, FreshNetworks, FreshHubs
<1> QED
  BY <1>1, <1>2 DEF CreateNetwork, TreeInv, NetworksPlaced, HubsPlaced,
                    FreshNetworksEmpty, FreshNetworks

\* A network that the NMS accepted is placed at the address it gets.
LEMMA NetworkPostedStep ==
  ASSUME TreeInv, NEW r \in Requests, NetworkPosted(r)
  PROVE  TreeInv'
<1>1. PICK n \in FreshNetworks :
        /\ nms' = AddChild(nms, GetIndex(nms), n)
        /\ netIndex' = [netIndex EXCEPT ![n] = GetIndex(nms)]
        /\ NextHub(r, n, GetIndex(nms))
  BY DEF NetworkPosted
<1> DEFINE index == GetIndex(nms)
<1>2. n \in Networks /\ netIndex[n] = NoIndex
  BY <1>1 DEF FreshNetworks
<1>3. index \in Nat
  BY GetIndexFree DEF TreeInv, TypeOK
<1> HIDE DEF index
<1>4. /\ netIndex' \in [Networks -> Indices]
      /\ netIndex'[n] = index
      /\ \A m \in Networks \ {n} : netIndex'[m] = netIndex[m]
  BY <1>1, <1>2, <1>3 DEF TreeInv, TypeOK, Indices, index
<1>5. /\ DOMAIN hubs' = Networks
      /\ \A m \in Networks : IsDict(hubs'[m], Hubs)
      /\ address' \in [Hubs -> Addresses \cup {NoAddress}]
      /\ task' \in [Requests -> TaskType]
      /\ worker' \in [Hubs -> Processes]
      /\ HubsPlaced' /\ FreshNetworksEmpty' /\ TasksMade'
  <2>1. NextHub(r, n, index)
    BY <1>1 DEF index
  <2>2. n \in FreshNetworks
    BY <1>1
  <2> QED
    BY <1>2, <1>3, <1>4, <2>1, <2>2, NextHubStep
<1>6. IsDict(nms', Networks)
  <2>1. IsDict(AddChild(nms, index, n), Networks)
    BY <1>2, <1>3, AddChildDict DEF TreeInv, TypeOK
  <2> QED
    BY <1>1, <2>1 DEF index
<1>7. NetworksPlaced'
  <2> SUFFICES ASSUME NEW i \in DOMAIN nms'
               PROVE  netIndex'[nms'[i]] = i
    BY DEF NetworksPlaced
  <2>1. /\ i = index => nms'[i] = n
        /\ i # index => i \in DOMAIN nms /\ nms'[i] = nms[i]
    BY <1>1 DEF AddChild, index
  <2>2. i # index => nms[i] \in Networks /\ netIndex[nms[i]] = i /\ i \in Nat
    BY <2>1 DEF TreeInv, TypeOK, IsDict, NetworksPlaced
  <2>3. i # index => nms[i] # n
    BY <1>2, <2>2 DEF NoIndex
  <2> QED
    BY <1>4, <2>1, <2>2, <2>3
<1>8. TypeOK'
  BY <1>4, <1>5, <1>6 DEF NetworkPosted, TreeInv, TypeOK
<1> QED
  BY <1>5, <1>7, <1>8 DEF TreeInv

(***************************************************************************)
(* An answered request needs no network and no hub.                        *)
(***************************************************************************)
LEMMA AnswerStep ==
  ASSUME TreeInv, NEW r \in Requests, NEW code \in Codes,
         task' = [task EXCEPT ![r] = Answered(code)],
         worker' \in [Hubs -> Processes],
         UNCHANGED <<nms, hubs, aps, netIndex, address, inbox, connected,
                     registered, listening, pinned>>
  PROVE  TreeInv'
<1>1. TypeOK'
  BY DEF TreeInv, TypeOK, TaskType, Answered
<1>2. TasksMade'
  <2>1. \A q \in Requests :
          task'[q].pc \in {"connect", "hubPost", "failing"} => task'[q] = task[q]
    BY DEF TreeInv, TypeOK, Answered
  <2> QED
    BY <2>1 DEF TreeInv, TasksMade, FreshNetworks, FreshHubs
<1> QED
  BY <1>1, <1>2 DEF TreeInv, NetworksPlaced, HubsPlaced, FreshNetworksEmpty,
                    FreshNetworks

\* A refused network leaves the tree as it was.
LEMMA NetworkRefusedStep ==
  ASSUME TreeInv, NEW r \in Requests, NetworkRefused(r)
  PROVE  TreeInv'
<1>1. PICK code \in {"502", "500"} : task' = [task EXCEPT ![r] = Answered(code)]
  BY DEF NetworkRefused
<1>2. code \in Codes
  BY DEF Codes
<1>3. worker' \in [Hubs -> Processes]
  BY DEF NetworkRefused, TreeInv, TypeOK
<1>4. UNCHANGED <<nms, hubs, aps, netIndex, address, inbox, connected,
                  registered, listening, pinned>>
  BY DEF NetworkRefused
<1> QED
  BY <1>1, <1>2, <1>3, <1>4, AnswerStep

\* The end of a failed add_hub leaves the tree as it was.
LEMMA RequestFailsStep ==
  ASSUME TreeInv, NEW r \in Requests, RequestFails(r)
  PROVE  TreeInv'
<1>1. task[r].answer \in Codes
  BY DEF TreeInv, TypeOK, TaskType
<1>2. task' = [task EXCEPT ![r] = Answered(task[r].answer)]
  BY DEF RequestFails
<1>3. worker' \in [Hubs -> Processes]
  BY FinalizeType DEF RequestFails, TreeInv, TypeOK
<1>4. UNCHANGED <<nms, hubs, aps, netIndex, address, inbox, connected,
                  registered, listening, pinned>>
  BY DEF RequestFails
<1> QED
  BY <1>1, <1>2, <1>3, <1>4, AnswerStep

\* A POST of a hub places the hub in the network that is at the index.
LEMMA CreateHubStep ==
  ASSUME TreeInv, NEW r \in Requests, NEW i \in DOMAIN nms, NEW a \in ApCounts,
         CreateHub(r, i, a)
  PROVE  TreeInv'
<1>1. nms[i] \in Networks /\ i \in Nat /\ netIndex[nms[i]] = i /\ a \in Nat
  BY CountsAssumption DEF TreeInv, TypeOK, IsDict, NetworksPlaced
<1>2. BeginHub(r, nms[i], i, 0, a) /\ netIndex' = netIndex
  BY <1>1 DEF CreateHub
<1>3. /\ DOMAIN hubs' = Networks
      /\ \A m \in Networks : IsDict(hubs'[m], Hubs)
      /\ address' \in [Hubs -> Addresses \cup {NoAddress}]
      /\ task' \in [Requests -> TaskType]
      /\ worker' \in [Hubs -> Processes]
      /\ HubsPlaced' /\ FreshNetworksEmpty' /\ TasksMade'
  BY <1>1, <1>2, BeginHubStep
<1>4. TypeOK' /\ NetworksPlaced'
  BY <1>3 DEF CreateHub, TreeInv, TypeOK, NetworksPlaced
<1> QED
  BY <1>3, <1>4 DEF TreeInv

\* A request that resumes with its hub connected keeps the invariant.
LEMMA HubConnectedStep ==
  ASSUME TreeInv, NEW r \in Requests, HubConnected(r)
  PROVE  TreeInv'
<1>1. /\ task[r].pc = "connect"
      /\ task' = [task EXCEPT ![r].pc = "hubPost"]
      /\ UNCHANGED <<nms, hubs, aps, netIndex, address, worker, inbox,
                      connected, registered, listening, pinned>>
  BY DEF HubConnected
<1>2. TypeOK'
  BY <1>1 DEF TreeInv, TypeOK, TaskType
<1>3. TasksMade'
  <2>1. \A q \in Requests : /\ task'[q].net = task[q].net
                            /\ task'[q].hub = task[q].hub
                            /\ q # r => task'[q] = task[q]
    BY <1>1 DEF TreeInv, TypeOK, TaskType
  <2> QED
    BY <1>1, <2>1 DEF TreeInv, TasksMade, FreshNetworks, FreshHubs
<1> QED
  BY <1>1, <1>2, <1>3 DEF TreeInv, NetworksPlaced, HubsPlaced,
                          FreshNetworksEmpty, FreshNetworks

\* A hub that the NMS accepted, and the next of the loop, keep it.
LEMMA HubPostedStep ==
  ASSUME TreeInv, NEW r \in Requests, HubPosted(r)
  PROVE  TreeInv'
<1> DEFINE n == task[r].net
           h == task[r].hub
<1>1. /\ n \in Networks /\ netIndex[n] # NoIndex
      /\ h \in Hubs
  BY DEF HubPosted, TreeInv, TasksMade, FreshNetworks
<1>2. netIndex[n] \in Nat
  BY <1>1 DEF TreeInv, TypeOK, Indices
<1>3. netIndex' = netIndex /\ NextHub(r, n, netIndex[n])
  BY DEF HubPosted
<1>4. /\ DOMAIN hubs' = Networks
      /\ \A m \in Networks : IsDict(hubs'[m], Hubs)
      /\ address' \in [Hubs -> Addresses \cup {NoAddress}]
      /\ task' \in [Requests -> TaskType]
      /\ worker' \in [Hubs -> Processes]
      /\ HubsPlaced' /\ FreshNetworksEmpty' /\ TasksMade'
  BY <1>1, <1>2, <1>3, NextHubStep
<1>5. aps' \in [Hubs -> SUBSET Nat] /\ \A x \in Hubs : IsFiniteSet(aps'[x])
  <2> DEFINE more == LowestFree(aps[h], task[r].aps)
  <2>1. aps' = [aps EXCEPT ![h] = @ \cup more]
    BY DEF HubPosted
  <2>2. aps[h] \in SUBSET Nat /\ IsFiniteSet(aps[h]) /\ task[r].aps \in Nat
    BY <1>1 DEF TreeInv, TypeOK, TaskType
  <2>3. aps[h] \cup more \subseteq Nat /\ IsFiniteSet(aps[h] \cup more)
    BY <2>2, LowestFreeIndices
  <2> HIDE DEF h, more
  <2> QED
    BY <1>1, <2>1, <2>3 DEF TreeInv, TypeOK
<1>6. TypeOK'
  BY <1>1, <1>4, <1>5 DEF HubPosted, TreeInv, TypeOK
<1>7. NetworksPlaced'
  BY DEF HubPosted, TreeInv, NetworksPlaced
<1> QED
  BY <1>4, <1>6, <1>7 DEF TreeInv

(***************************************************************************)
(* Deleting an index of a network's dictionary.                            *)
(***************************************************************************)
LEMMA RemoveHubStep ==
  ASSUME TreeInv, NEW n \in Networks, NEW j,
         hubs' = [hubs EXCEPT ![n] = RemoveChild(hubs[n], j)],
         UNCHANGED <<netIndex, address>>
  PROVE  /\ DOMAIN hubs' = Networks
         /\ \A m \in Networks : IsDict(hubs'[m], Hubs)
         /\ HubsPlaced' /\ FreshNetworksEmpty'
<1>1. IsDict(RemoveChild(hubs[n], j), Hubs)
  BY RemoveChildDict DEF TreeInv, TypeOK
<1>2. /\ DOMAIN hubs' = Networks
      /\ \A m \in Networks : IsDict(hubs'[m], Hubs)
  BY <1>1 DEF TreeInv, TypeOK
<1>3. \A m \in Networks : /\ DOMAIN hubs'[m] \subseteq DOMAIN hubs[m]
                          /\ \A k \in DOMAIN hubs'[m] : hubs'[m][k] = hubs[m][k]
  BY DEF TreeInv, TypeOK, RemoveChild, Restrict
<1>4. HubsPlaced' /\ FreshNetworksEmpty'
  BY <1>3 DEF TreeInv, HubsPlaced, FreshNetworksEmpty, FreshNetworks
<1> QED
  BY <1>2, <1>4

\* The rollback of add_hub removes one entry and keeps the invariant.
LEMMA HubRefusedStep ==
  ASSUME TreeInv, NEW r \in Requests, HubRefused(r)
  PROVE  TreeInv'
<1>1. task[r].pc = "hubPost" /\ task[r].net \in Networks /\ task[r].hub \in Hubs
  BY DEF HubRefused, TreeInv, TasksMade
<1>2. PICK code \in {"502", "500"} :
        task' = [task EXCEPT ![r] = Failing(task[r], code)]
  BY DEF HubRefused
<1>3. /\ DOMAIN hubs' = Networks
      /\ \A m \in Networks : IsDict(hubs'[m], Hubs)
      /\ HubsPlaced' /\ FreshNetworksEmpty'
  <2> DEFINE index == address[task[r].hub].hub
             n == task[r].net
  <2>1. /\ hubs' = [hubs EXCEPT ![n] = RemoveChild(hubs[n], index)]
        /\ UNCHANGED <<netIndex, address>>
    BY DEF HubRefused
  <2>2. n \in Networks
    BY <1>1
  <2> HIDE DEF n, index
  <2> QED
    BY <2>1, <2>2, RemoveHubStep
<1>4. /\ task' \in [Requests -> TaskType]
      /\ \A q \in Requests : /\ task'[q].net = task[q].net
                             /\ task'[q].hub = task[q].hub
                             /\ q # r => task'[q] = task[q]
  BY <1>2 DEF TreeInv, TypeOK, TaskType, Codes, Failing
<1>5. worker' \in [Hubs -> Processes]
  BY FinalizeType DEF HubRefused, TreeInv, TypeOK
<1>6. TypeOK'
  BY <1>1, <1>3, <1>4, <1>5 DEF HubRefused, TreeInv, TypeOK
<1>7. TasksMade'
  BY <1>1, <1>4
     DEF HubRefused, TreeInv, TasksMade, FreshNetworks, FreshHubs
<1>8. NetworksPlaced'
  BY DEF HubRefused, TreeInv, NetworksPlaced
<1> QED
  BY <1>3, <1>6, <1>7, <1>8 DEF TreeInv

\* Deleting a network keeps the rest of the tree in place.
LEMMA DeleteNetworkStep ==
  ASSUME TreeInv, NEW i \in DOMAIN nms, DeleteNetwork(i)
  PROVE  TreeInv'
<1>1. IsDict(nms', Networks)
  BY RemoveChildDict DEF DeleteNetwork, RemoveNetwork, TreeInv, TypeOK
<1>2. worker' \in [Hubs -> Processes]
  BY FinalizeType DEF DeleteNetwork, RemoveNetwork, TreeInv, TypeOK
<1>3. TypeOK'
  BY <1>1, <1>2 DEF DeleteNetwork, RemoveNetwork, TreeInv, TypeOK
<1>4. NetworksPlaced'
  BY DEF DeleteNetwork, RemoveNetwork, RemoveChild, Restrict, TreeInv,
         NetworksPlaced
<1> QED
  BY <1>3, <1>4 DEF DeleteNetwork, RemoveNetwork, TreeInv, HubsPlaced,
                    FreshNetworksEmpty, FreshNetworks, TasksMade, FreshHubs

\* Deleting a hub keeps the rest of the tree in place.
LEMMA DeleteHubStep ==
  ASSUME TreeInv, NEW i \in DOMAIN nms, NEW j, DeleteHub(i, j)
  PROVE  TreeInv'
<1>1. nms[i] \in Networks
  BY DEF TreeInv, TypeOK, IsDict
<1>2. /\ hubs' = [hubs EXCEPT ![nms[i]] = RemoveChild(hubs[nms[i]], j)]
      /\ UNCHANGED <<nms, aps, netIndex, address, task, inbox, connected,
                      registered, listening, pinned>>
  BY DEF DeleteHub, RemoveHub
<1>3. /\ DOMAIN hubs' = Networks
      /\ \A m \in Networks : IsDict(hubs'[m], Hubs)
      /\ HubsPlaced' /\ FreshNetworksEmpty'
  BY <1>1, <1>2, RemoveHubStep
<1>4. worker' \in [Hubs -> Processes]
  BY FinalizeType DEF DeleteHub, RemoveHub, TreeInv, TypeOK
<1>5. TypeOK' /\ NetworksPlaced' /\ TasksMade'
  BY <1>2, <1>3, <1>4 DEF TreeInv, TypeOK, NetworksPlaced, TasksMade,
                          FreshNetworks, FreshHubs
<1> QED
  BY <1>3, <1>5 DEF TreeInv

(***************************************************************************)
(* The steps that leave the networks, the hubs and the requests alone.     *)
(***************************************************************************)
LEMMA TreeUnchangedStep ==
  ASSUME TreeInv, TypeOK', UNCHANGED <<nms, hubs, netIndex, address, task>>
  PROVE  TreeInv'
BY DEF TreeInv, NetworksPlaced, HubsPlaced, FreshNetworksEmpty, FreshNetworks,
       TasksMade, FreshHubs

\* AP routes change only the AP indices of a hub, which stay finite sets.
LEMMA ChangesApsStep ==
  ASSUME TreeInv, ChangesAps
  PROVE  TreeInv'
<1>1. PICK i \in DOMAIN nms : \E j \in HubsAt(i) :
        CreateAp(i, j) \/ \E k \in aps[hubs[nms[i]][j]] : DeleteAp(i, j, k)
  BY DEF ChangesAps
<1>2. PICK j \in HubsAt(i) :
        CreateAp(i, j) \/ \E k \in aps[hubs[nms[i]][j]] : DeleteAp(i, j, k)
  BY <1>1
<1> DEFINE h == hubs[nms[i]][j]
<1>3. h \in Hubs
  BY DEF HubsAt, TreeInv, TypeOK, IsDict
<1>4. aps[h] \in SUBSET Nat /\ IsFiniteSet(aps[h])
  BY <1>3 DEF TreeInv, TypeOK
<1>5. PICK A \in SUBSET Nat : IsFiniteSet(A) /\ aps' = [aps EXCEPT ![h] = A]
  <2>1. CASE CreateAp(i, j)
    <3>1. aps' = [aps EXCEPT ![h] = aps[h] \cup LowestFree(aps[h], 1)]
      BY <2>1 DEF CreateAp, AddAp
    <3>2. /\ aps[h] \cup LowestFree(aps[h], 1) \subseteq Nat
          /\ IsFiniteSet(aps[h] \cup LowestFree(aps[h], 1))
      BY <1>4, LowestFreeIndices
    <3> HIDE DEF h
    <3> QED
      BY <3>1, <3>2
  <2>2. CASE \E k \in aps[h] : DeleteAp(i, j, k)
    <3>1. PICK k \in aps[h] : aps' = [aps EXCEPT ![h] = aps[h] \ {k}]
      BY <2>2 DEF DeleteAp, RemoveAp
    <3>2. aps[h] \ {k} \subseteq Nat /\ IsFiniteSet(aps[h] \ {k})
      BY <1>4, FS_RemoveElement
    <3> HIDE DEF h
    <3> QED
      BY <3>1, <3>2
  <2> QED
    BY <1>2, <2>1, <2>2
<1>6. UNCHANGED <<nms, hubs, netIndex, address, task, worker, inbox, connected,
                  registered, listening, pinned>>
  BY <1>2 DEF CreateAp, AddAp, DeleteAp, RemoveAp
<1>7. TypeOK'
  <2> HIDE DEF h
  <2> QED
    BY <1>3, <1>5, <1>6 DEF TreeInv, TypeOK
<1> QED
  BY <1>6, <1>7, TreeUnchangedStep

\* Neither a worker nor the listener changes the tree.
LEMMA WorkerOrListenerStep ==
  ASSUME TreeInv, WorkerOrListener
  PROVE  TreeInv'
<1> PICK h \in Hubs : \/ WorkerConnects(h) \/ WorkerCrashes(h)
                      \/ WorkerDies(h) \/ ListenerHandles(h)
  BY DEF WorkerOrListener
<1>1. UNCHANGED <<nms, hubs, aps, netIndex, address, task, registered>>
  BY DEF WorkerConnects, SendToController, WorkerCrashes, WorkerDies,
         ListenerHandles, HandleHubConnectInd, Resolves, GetNode, OnConnectInd,
         ListenerEnds
<1>2. /\ worker' \in [Hubs -> Processes]
      /\ inbox' \subseteq Hubs
  BY DEF WorkerConnects, SendToController, WorkerCrashes, WorkerDies,
         ListenerHandles, HandleHubConnectInd, Resolves, GetNode, OnConnectInd,
         ListenerEnds, TreeInv, TypeOK, Processes, Running
<1>3. /\ connected' \subseteq Hubs
      /\ listening' \in BOOLEAN
      /\ pinned' \in Networks \cup {NoNode}
  <2>1. CASE ListenerHandles(h)
    <3> DEFINE a == address[h]
    <3>1. a.net \in DOMAIN nms => nms[a.net] \in Networks
      BY DEF TreeInv, TypeOK, IsDict
    <3>2. (a.net \in DOMAIN nms /\ a.hub \in DOMAIN hubs[nms[a.net]])
            => hubs[nms[a.net]][a.hub] \in Hubs
      BY <3>1 DEF TreeInv, TypeOK, IsDict
    <3> QED
      BY <2>1, <3>1, <3>2 DEF ListenerHandles, HandleHubConnectInd, Resolves,
                              GetNode, OnConnectInd, ListenerEnds, TreeInv,
                              TypeOK
  <2>2. CASE ~ListenerHandles(h)
    BY <2>2 DEF WorkerConnects, SendToController, WorkerCrashes, WorkerDies,
                TreeInv, TypeOK
  <2> QED
    BY <2>1, <2>2
<1>4. TypeOK'
  BY <1>1, <1>2, <1>3 DEF TreeInv, TypeOK
<1> QED
  BY <1>1, <1>4, TreeUnchangedStep

\* TreeInv is inductive.
LEMMA NextTreeInv == TreeInv /\ [Next]_vars => TreeInv'
<1> SUFFICES ASSUME TreeInv, [Next]_vars
             PROVE  TreeInv'
  OBVIOUS
<1>1. CASE Creates
  BY <1>1, CreateNetworkStep, CreateHubStep DEF Creates
<1>2. CASE Continues
  BY <1>2, NetworkPostedStep, NetworkRefusedStep, HubConnectedStep,
     HubPostedStep, HubRefusedStep, RequestFailsStep DEF Continues
<1>3. CASE Deletes
  BY <1>3, DeleteNetworkStep, DeleteHubStep DEF Deletes
<1>4. CASE ChangesAps
  BY <1>4, ChangesApsStep
<1>5. CASE WorkerOrListener
  BY <1>5, WorkerOrListenerStep
<1>6. CASE UNCHANGED vars
  BY <1>6 DEF vars, TreeInv, TypeOK, NetworksPlaced, HubsPlaced,
              FreshNetworksEmpty, FreshNetworks, TasksMade, FreshHubs
<1> QED
  BY <1>1, <1>2, <1>3, <1>4, <1>5, <1>6 DEF Next

(***************************************************************************)
(* Every reachable state satisfies the inductive invariant: the states are *)
(* well typed, and the nodes that requests, dictionaries and addresses     *)
(* name agree, however creations, rollbacks and deletions interleave.      *)
(***************************************************************************)
THEOREM TreeInvariance == Spec => []TreeInv
BY InitTreeInv, NextTreeInv, PTL DEF Spec

(***************************************************************************)
(* Every reachable state of the controller is well typed.                  *)
(***************************************************************************)
THEOREM TypeCorrect == Spec => []TypeOK
<1>1. TreeInv => TypeOK
  BY DEF TreeInv
<1> QED
  BY <1>1, TreeInvariance, PTL

(***************************************************************************)
(* get_node finds every node of the tree at the node's own address.        *)
(***************************************************************************)
THEOREM AddressesResolve == Spec => []AddressResolves
<1>1. TreeInv => AddressResolves
  BY DEF TreeInv, TypeOK, IsDict, NetworksPlaced, HubsPlaced, AddressResolves,
         HubsAt
<1> QED
  BY <1>1, TreeInvariance, PTL

-----------------------------------------------------------------------------
(***************************************************************************)
(* A hub that is begun takes a free slot.                                  *)
(***************************************************************************)
LEMMA NextHubKeepsSlots ==
  ASSUME TreeInv, NEW r \in Requests, NEW n \in Networks, NEW i,
         \/ NextHub(r, n, i)
         \/ \E more, a : BeginHub(r, n, i, more, a)
  PROVE  \A m \in Networks : KeepsSlots(hubs[m], hubs'[m])
<1> DEFINE index == GetIndex(hubs[n])
<1>1. \/ hubs' = hubs
      \/ \E h \in FreshHubs :
           hubs' = [hubs EXCEPT ![n] = AddChild(hubs[n], index, h)]
  BY DEF NextHub, BeginHub
<1>2. index \notin DOMAIN hubs[n]
  BY GetIndexFree DEF TreeInv, TypeOK
<1>3. DOMAIN hubs = Networks
  BY DEF TreeInv, TypeOK
<1> HIDE DEF index
<1> QED
  BY <1>1, <1>2, <1>3 DEF AddChild, KeepsSlots

\* No action puts another node into an occupied slot.
LEMMA NextKeepsSlots ==
  ASSUME TreeInv, [Next]_vars
  PROVE  /\ KeepsSlots(nms, nms')
         /\ \A n \in Networks : KeepsSlots(hubs[n], hubs'[n])
<1>1. ASSUME NEW r \in Requests, NEW i \in DOMAIN nms, NEW a, CreateHub(r, i, a)
      PROVE  /\ KeepsSlots(nms, nms')
             /\ \A n \in Networks : KeepsSlots(hubs[n], hubs'[n])
  <2>1. nms[i] \in Networks
    BY DEF TreeInv, TypeOK, IsDict
  <2>2. BeginHub(r, nms[i], netIndex[nms[i]], 0, a) /\ nms' = nms
    BY <1>1 DEF CreateHub
  <2>3. \A n \in Networks : KeepsSlots(hubs[n], hubs'[n])
    BY <2>1, <2>2, NextHubKeepsSlots
  <2> QED
    BY <2>2, <2>3 DEF KeepsSlots
<1>2. ASSUME NEW r \in Requests, NetworkPosted(r)
      PROVE  /\ KeepsSlots(nms, nms')
             /\ \A n \in Networks : KeepsSlots(hubs[n], hubs'[n])
  <2> DEFINE index == GetIndex(nms)
  <2>1. PICK n \in Networks : NextHub(r, n, index) /\ nms' = AddChild(nms, index, n)
    BY <1>2 DEF NetworkPosted, FreshNetworks
  <2>2. index \notin DOMAIN nms
    BY GetIndexFree DEF TreeInv, TypeOK
  <2> HIDE DEF index
  <2>3. KeepsSlots(nms, nms')
    BY <2>1, <2>2 DEF AddChild, KeepsSlots
  <2>4. \A m \in Networks : KeepsSlots(hubs[m], hubs'[m])
    BY <2>1, NextHubKeepsSlots
  <2> QED
    BY <2>3, <2>4
<1>3. ASSUME NEW r \in Requests, HubPosted(r)
      PROVE  /\ KeepsSlots(nms, nms')
             /\ \A n \in Networks : KeepsSlots(hubs[n], hubs'[n])
  <2>1. task[r].net \in Networks
    BY <1>3 DEF HubPosted, TreeInv, TasksMade
  <2>2. NextHub(r, task[r].net, netIndex[task[r].net]) /\ nms' = nms
    BY <1>3 DEF HubPosted
  <2>3. \A n \in Networks : KeepsSlots(hubs[n], hubs'[n])
    BY <2>1, <2>2, NextHubKeepsSlots
  <2> QED
    BY <2>2, <2>3 DEF KeepsSlots
<1>4. ASSUME nms' = nms, NEW n, NEW j,
             hubs' = [hubs EXCEPT ![n] = RemoveChild(hubs[n], j)]
      PROVE  /\ KeepsSlots(nms, nms')
             /\ \A m \in Networks : KeepsSlots(hubs[m], hubs'[m])
  BY <1>4 DEF RemoveChild, Restrict, KeepsSlots, TreeInv, TypeOK
<1>5. ASSUME NEW r \in Requests, HubRefused(r)
      PROVE  /\ KeepsSlots(nms, nms')
             /\ \A n \in Networks : KeepsSlots(hubs[n], hubs'[n])
  BY <1>4, <1>5 DEF HubRefused
<1>6. ASSUME NEW i, NEW j, DeleteHub(i, j)
      PROVE  /\ KeepsSlots(nms, nms')
             /\ \A n \in Networks : KeepsSlots(hubs[n], hubs'[n])
  BY <1>4, <1>6 DEF DeleteHub, RemoveHub
<1>7. ASSUME NEW i, DeleteNetwork(i)
      PROVE  /\ KeepsSlots(nms, nms')
             /\ \A n \in Networks : KeepsSlots(hubs[n], hubs'[n])
  BY <1>7 DEF DeleteNetwork, RemoveNetwork, RemoveChild, Restrict, KeepsSlots
<1>8. ASSUME UNCHANGED <<nms, hubs>>
      PROVE  /\ KeepsSlots(nms, nms')
             /\ \A n \in Networks : KeepsSlots(hubs[n], hubs'[n])
  BY <1>8 DEF KeepsSlots
<1>9. CASE Creates
  <2>1. PICK r \in Requests, a \in ApCounts :
          \/ \E k \in HubCounts : CreateNetwork(r, k, a)
          \/ \E i \in DOMAIN nms : CreateHub(r, i, a)
    BY <1>9 DEF Creates
  <2>2. (\E k \in HubCounts : CreateNetwork(r, k, a)) => UNCHANGED <<nms, hubs>>
    BY DEF CreateNetwork
  <2> QED
    BY <1>1, <1>8, <2>1, <2>2
<1>10. CASE Continues
  <2>1. PICK r \in Requests :
          \/ NetworkPosted(r) \/ NetworkRefused(r) \/ HubConnected(r)
          \/ HubPosted(r) \/ HubRefused(r) \/ RequestFails(r)
    BY <1>10 DEF Continues
  <2>2. NetworkRefused(r) \/ HubConnected(r) \/ RequestFails(r)
          => UNCHANGED <<nms, hubs>>
    BY DEF NetworkRefused, HubConnected, RequestFails
  <2> QED
    BY <1>2, <1>3, <1>5, <1>8, <2>1, <2>2
<1>11. CASE Deletes
  BY <1>6, <1>7, <1>11 DEF Deletes
<1>12. CASE ChangesAps \/ WorkerOrListener \/ UNCHANGED vars
  <2>1. UNCHANGED <<nms, hubs>>
    BY <1>12 DEF ChangesAps, CreateAp, AddAp, DeleteAp, RemoveAp,
                 WorkerOrListener, WorkerConnects, SendToController,
                 WorkerCrashes, WorkerDies, ListenerHandles,
                 HandleHubConnectInd, Resolves, GetNode, OnConnectInd,
                 ListenerEnds, vars
  <2> QED
    BY <1>8, <2>1
<1> QED
  BY <1>9, <1>10, <1>11, <1>12 DEF Next

(***************************************************************************)
(* No step of the controller overwrites an occupied slot, although every   *)
(* create request is suspended while others fill and empty the slots: an   *)
(* index is looked up and used between two suspension points.              *)
(***************************************************************************)
THEOREM SlotsKept == Spec => SlotsNotOverwritten
<1>1. TreeInv /\ [Next]_vars
        => [/\ KeepsSlots(nms, nms')
            /\ \A n \in Networks : KeepsSlots(hubs[n], hubs'[n])]_vars
  BY NextKeepsSlots
<1> QED
  BY <1>1, TreeInvariance, PTL DEF Spec, SlotsNotOverwritten

-----------------------------------------------------------------------------
(***************************************************************************)
(* The references that keep hubs and their workers.                        *)
(***************************************************************************)
\* The nodes of a dictionary after an insertion at a free index.
LEMMA AddChildNodes ==
  ASSUME NEW f, NEW i, i \notin DOMAIN f, NEW x
  PROVE  Nodes(AddChild(f, i, x)) = Nodes(f) \cup {x}
BY DEF Nodes, Range, AddChild

\* The nodes of a dictionary after a deletion.
LEMMA RemoveChildNodes ==
  ASSUME NEW f, NEW i
  PROVE  Nodes(RemoveChild(f, i)) \subseteq Nodes(f)
BY DEF Nodes, Range, RemoveChild, Restrict

\* The nodes of a network are hubs that have been made.
LEMMA NodesMade ==
  ASSUME TreeInv, NEW n \in Networks, NEW h \in Nodes(hubs[n])
  PROVE  h \in Hubs \ FreshHubs
<1>1. PICK j \in DOMAIN hubs[n] : hubs[n][j] = h
  BY DEF Nodes, Range
<1>2. h \in Hubs /\ j \in Nat
  BY <1>1 DEF TreeInv, TypeOK, IsDict
<1>3. address[h] = [net |-> netIndex[n], hub |-> j]
  BY <1>1 DEF TreeInv, HubsPlaced
<1> QED
  BY <1>2, <1>3 DEF FreshHubs, NoAddress, NoIndex

(***************************************************************************)
(* Finalize stops every worker that no reference holds after the step, and *)
(* starts none.                                                            *)
(***************************************************************************)
LEMMA FinalizeHolds ==
  ASSUME NEW P \in [Hubs -> Processes], Finalize(P)
  PROVE  /\ RunningHeld'
         /\ \A h \in Hubs : P[h] = "none" => worker'[h] = "none"
BY DEF Finalize, RunningHeld, Running

(***************************************************************************)
(* What a step that begins no hub must respect.  A request keeps its hub   *)
(* or gives it up; it gives up a hub only when it is settled without the   *)
(* request, or in no network.                                              *)
(***************************************************************************)
KeepsOrGivesUp(r) ==
  \/ /\ task'[r].net = task[r].net
     /\ task'[r].hub = task[r].hub
     /\ InFlight(r) => InFlight(r)'
     /\ task'[r].pc \in {"idle", "netPost", "answered"} =>
          task[r].pc \in {"idle", "netPost", "answered"}
     /\ task'[r].pc = "hubPost" => task[r].hub \in connected'
     /\ task'[r].pc = "failing" =>
          \A n \in Networks : task[r].hub \notin Nodes(hubs'[n])
  \/ /\ task'[r].net = NoNode
     /\ task'[r].hub = NoNode
     /\ task'[r].pc # "hubPost"
     /\ \/ task[r].hub \in registered' \cap connected'
        \/ \A n \in Networks : task[r].hub \notin Nodes(hubs'[n])

\* A step of that kind keeps the hubs in one network each, and settled.
LEMMA NoHubBegun ==
  ASSUME TreeInv, TreeInv', HoldersInv,
         \A n \in Networks : Nodes(hubs'[n]) \subseteq Nodes(hubs[n]),
         \A r \in Requests : KeepsOrGivesUp(r),
         \A h \in Hubs : worker[h] = "none" => worker'[h] = "none",
         \A h \in Hubs : h \in FreshHubs' => h \in FreshHubs,
         registered \subseteq registered', connected \subseteq connected',
         RunningHeld',
         listening' => pinned' = NoNode
  PROVE  HoldersInv'
<1>1. HubsInOneNetwork'
  BY DEF HoldersInv, HubsInOneNetwork
<1>2. \A n \in Networks : NoNode \notin Nodes(hubs'[n])
  <2>1. \A n \in Networks : Nodes(hubs'[n]) \subseteq Hubs
    BY DEF TreeInv, TypeOK, IsDict, Nodes, Range
  <2> QED
    BY <2>1, NodesAssumption
<1>3. RequestsHold'
  <2> SUFFICES ASSUME NEW r \in Requests
               PROVE  /\ task'[r].pc \in {"idle", "netPost", "answered"} =>
                           task'[r].net = NoNode /\ task'[r].hub = NoNode
                      /\ task'[r].pc = "hubPost" => task'[r].hub \in connected'
                      /\ \A n \in Networks :
                           task'[r].hub \in Nodes(hubs'[n]) =>
                             n = task'[r].net /\ task'[r].pc # "failing"
    BY DEF RequestsHold
  <2>1. KeepsOrGivesUp(r)
    OBVIOUS
  <2> QED
    BY <1>2, <2>1 DEF KeepsOrGivesUp, HoldersInv, RequestsHold
<1>4. FreshNotStarted'
  BY DEF HoldersInv, FreshNotStarted, FreshHubs
<1>5. ASSUME NEW n \in Networks, NEW h \in Nodes(hubs'[n])
      PROVE  Settled(h)'
  <2>1. h \in Hubs /\ Settled(h)
    BY <1>5, NodesMade DEF HoldersInv
  <2>2. CASE worker[h] = "none"
    BY <2>1, <2>2 DEF Settled
  <2>3. CASE h \in registered \cap connected
    BY <2>3 DEF Settled
  <2>4. CASE \E r \in Requests : InFlight(r) /\ task[r].hub = h
    <3>1. PICK r \in Requests : InFlight(r) /\ task[r].hub = h
      BY <2>4
    <3>2. KeepsOrGivesUp(r)
      OBVIOUS
    <3> QED
      BY <1>5, <3>1, <3>2 DEF KeepsOrGivesUp, Settled
  <2> QED
    BY <2>1, <2>2, <2>3, <2>4 DEF Settled
<1> QED
  BY <1>1, <1>3, <1>4, <1>5 DEF HoldersInv

(***************************************************************************)
(* A request that begins a hub: the hub is new, so it is in no other       *)
(* network, and it is the request's.  The hub that the request made before *)
(* it, if any, is settled.                                                 *)
(***************************************************************************)
LEMMA BeginHubHolders ==
  ASSUME TreeInv, TreeInv', HoldersInv, NEW r \in Requests, NEW n \in Networks,
         NEW i \in Nat, NEW more, NEW a, BeginHub(r, n, i, more, a),
         task[r].hub \in {NoNode} \cup (registered' \cap connected),
         registered \subseteq registered',
         UNCHANGED <<connected, listening, pinned>>
  PROVE  HoldersInv'
<1> DEFINE index == GetIndex(hubs[n])
<1>1. PICK h \in FreshHubs :
        /\ address' = [address EXCEPT ![h] = [net |-> i, hub |-> index]]
        /\ hubs' = [hubs EXCEPT ![n] = AddChild(hubs[n], index, h)]
        /\ \/ /\ task' = [task EXCEPT ![r] = Locals("connect", n, h, more, a)]
              /\ Finalize([worker EXCEPT ![h] = "starting"])
           \/ /\ task' = [task EXCEPT ![r] = Answered("500")]
              /\ Finalize(worker)
  BY DEF BeginHub
<1>2. h \in Hubs /\ address[h] = NoAddress /\ worker[h] = "none"
  BY <1>1 DEF FreshHubs, HoldersInv, FreshNotStarted
<1>3. index \notin DOMAIN hubs[n] /\ index \in Nat
  BY GetIndexFree DEF TreeInv, TypeOK
<1> HIDE DEF index
<1>4. /\ Nodes(hubs'[n]) = Nodes(hubs[n]) \cup {h}
      /\ \A m \in Networks \ {n} : hubs'[m] = hubs[m]
  BY <1>1, <1>3, AddChildNodes DEF TreeInv, TypeOK
<1>5. \A m \in Networks : h \notin Nodes(hubs[m])
  BY <1>1, NodesMade
<1>6. \A q \in Requests \ {r} : task'[q] = task[q]
  BY <1>1 DEF TreeInv, TypeOK
<1>7. \A q \in Requests : InFlight(q) => task[q].hub # h
  <2> SUFFICES ASSUME NEW q \in Requests, InFlight(q)
               PROVE  task[q].hub # h
    OBVIOUS
  <2>1. task[q].pc \in {"netPost", "connect", "hubPost", "failing"}
    BY DEF InFlight, TreeInv, TypeOK, TaskType
  <2> QED
    BY <1>1, <1>2, <2>1, NodesAssumption
       DEF TreeInv, TasksMade, HoldersInv, RequestsHold
<1>8. \/ /\ task'[r].pc = "connect" /\ task'[r].net = n /\ task'[r].hub = h
         /\ InFlight(r)'
      \/ /\ task'[r].pc = "answered" /\ task'[r].net = NoNode
         /\ task'[r].hub = NoNode /\ Finalize(worker)
  BY <1>1 DEF TreeInv, TypeOK, Locals, Answered, InFlight
<1>9. /\ RunningHeld'
      /\ \A x \in Hubs \ {h} : worker[x] = "none" => worker'[x] = "none"
      /\ Finalize(worker) => worker'[h] = "none"
  <2>1. /\ worker \in [Hubs -> Processes]
        /\ [worker EXCEPT ![h] = "starting"] \in [Hubs -> Processes]
        /\ \A x \in Hubs \ {h} : [worker EXCEPT ![h] = "starting"][x] = worker[x]
    BY DEF TreeInv, TypeOK, Processes, Running
  <2> QED
    BY <1>1, <1>2, <2>1, FinalizeHolds
<1>10. \A x \in Hubs : x \in FreshHubs' => x \in FreshHubs \ {h}
  BY <1>1, <1>2, <1>3 DEF FreshHubs, NoAddress, NoIndex, TreeInv, TypeOK
<1>11. HubsInOneNetwork'
  BY <1>4, <1>5 DEF HoldersInv, HubsInOneNetwork
<1>12. \A m \in Networks : NoNode \notin Nodes(hubs'[m])
  <2>1. \A m \in Networks : Nodes(hubs'[m]) \subseteq Hubs
    BY DEF TreeInv, TypeOK, IsDict, Nodes, Range
  <2> QED
    BY <2>1, NodesAssumption
<1>13. RequestsHold'
  <2> SUFFICES ASSUME NEW q \in Requests
               PROVE  /\ task'[q].pc \in {"idle", "netPost", "answered"} =>
                           task'[q].net = NoNode /\ task'[q].hub = NoNode
                      /\ task'[q].pc = "hubPost" => task'[q].hub \in connected'
                      /\ \A m \in Networks :
                           task'[q].hub \in Nodes(hubs'[m]) =>
                             m = task'[q].net /\ task'[q].pc # "failing"
    BY DEF RequestsHold
  <2>1. CASE q = r
    BY <1>4, <1>5, <1>8, <1>12, <2>1
  <2>2. CASE q # r /\ InFlight(q)
    BY <1>4, <1>6, <1>7, <2>2 DEF HoldersInv, RequestsHold
  <2>3. CASE q # r /\ ~InFlight(q)
    <3>1. task'[q] = task[q] /\ task[q].hub = NoNode /\ task[q].net = NoNode
      BY <1>6, <2>3 DEF InFlight, HoldersInv, RequestsHold
    <3> QED
      BY <1>12, <2>3, <3>1 DEF InFlight
  <2> QED
    BY <2>1, <2>2, <2>3
<1>14. FreshNotStarted'
  <2>1. \A x \in FreshHubs' : x \in Hubs /\ x \in FreshHubs \ {h}
    BY <1>10 DEF FreshHubs
  <2> QED
    BY <1>9, <2>1 DEF HoldersInv, FreshNotStarted
<1>15. ASSUME NEW m \in Networks, NEW x \in Nodes(hubs'[m])
       PROVE  Settled(x)'
  <2>1. CASE x = h
    BY <1>8, <1>9, <2>1 DEF Settled
  <2>2. CASE x # h
    <3>1. x \in Nodes(hubs[m]) /\ x \in Hubs /\ Settled(x)
      BY <1>4, <1>15, <2>2, NodesMade DEF HoldersInv
    <3>2. CASE \E q \in Requests : InFlight(q) /\ task[q].hub = x
      <4>1. PICK q \in Requests : InFlight(q) /\ task[q].hub = x
        BY <3>2
      <4>2. CASE q = r
        BY <3>1, <4>1, <4>2, NodesAssumption DEF Settled
      <4>3. CASE q # r
        BY <1>6, <4>1, <4>3 DEF Settled, InFlight
      <4> QED
        BY <4>2, <4>3
    <3> QED
      BY <1>9, <2>2, <3>1, <3>2 DEF Settled
  <2> QED
    BY <2>1, <2>2
<1> QED
  BY <1>9, <1>11, <1>13, <1>14, <1>15 DEF HoldersInv

-----------------------------------------------------------------------------
\* A request that the step leaves alone keeps its hub.
LEMMA RequestKept ==
  ASSUME TreeInv, HoldersInv, NEW r \in Requests, task'[r] = task[r],
         \A n \in Networks : Nodes(hubs'[n]) \subseteq Nodes(hubs[n]),
         connected \subseteq connected'
  PROVE  KeepsOrGivesUp(r)
<1>1. InFlight(r) => InFlight(r)'
  BY DEF InFlight
<1> QED
  BY <1>1 DEF HoldersInv, RequestsHold, KeepsOrGivesUp

(***************************************************************************)
(* A step that finalizes what it drops, and begins no hub.                 *)
(***************************************************************************)
LEMMA DroppingStep ==
  ASSUME TreeInv, TreeInv', HoldersInv, Finalize(worker),
         \A n \in Networks : Nodes(hubs'[n]) \subseteq Nodes(hubs[n]),
         \A r \in Requests : KeepsOrGivesUp(r),
         registered \subseteq registered',
         UNCHANGED <<address, connected, listening, pinned>>
  PROVE  HoldersInv'
<1>1. /\ RunningHeld'
      /\ \A h \in Hubs : worker[h] = "none" => worker'[h] = "none"
  BY FinalizeHolds DEF TreeInv, TypeOK
<1>2. FreshHubs' = FreshHubs
  BY DEF FreshHubs
<1>3. listening' => pinned' = NoNode
  BY DEF HoldersInv
<1> QED
  BY <1>1, <1>2, <1>3, NoHubBegun

(***************************************************************************)
(* A step that drops no reference to a network or a hub: requests give up  *)
(* nothing, except those that have neither.                                *)
(***************************************************************************)
LEMMA HoldingStep ==
  ASSUME TreeInv, TreeInv', HoldersInv,
         UNCHANGED <<nms, hubs, address, registered>>,
         \A r \in Requests :
           /\ KeepsOrGivesUp(r)
           /\ InFlight(r) =>
                \/ InFlight(r)' /\ task'[r].net = task[r].net
                                /\ task'[r].hub = task[r].hub
                \/ task[r].net = NoNode /\ task[r].hub = NoNode,
         \A h \in Hubs : /\ worker[h] = "none" => worker'[h] = "none"
                         /\ worker'[h] \in Running => worker[h] \in Running,
         connected \subseteq connected',
         pinned \in {NoNode, pinned'}, listening' => pinned' = NoNode
  PROVE  HoldersInv'
<1>1. HeldNetworks \subseteq HeldNetworks'
  BY DEF HeldNetworks
<1>2. HeldHubs \subseteq HeldHubs'
  BY <1>1 DEF HeldHubs
<1>3. RunningHeld'
  BY <1>2 DEF HoldersInv, RunningHeld
<1>4. FreshHubs' = FreshHubs
  BY DEF FreshHubs
<1> QED
  BY <1>3, <1>4, NoHubBegun

\* A request that waits for the POST of its network has nothing yet.
LEMMA CreateNetworkHolders ==
  ASSUME TreeInv, TreeInv', HoldersInv, NEW r \in Requests, NEW k, NEW a,
         CreateNetwork(r, k, a)
  PROVE  HoldersInv'
<1>1. /\ task[r].pc = "idle" /\ task' = [task EXCEPT
                                   ![r] = Locals("netPost", NoNode, NoNode, k, a)]
      /\ UNCHANGED <<nms, hubs, address, worker, connected, registered,
                     listening, pinned>>
  BY DEF CreateNetwork, Idle
<1>2. task[r].net = NoNode /\ task[r].hub = NoNode /\ ~InFlight(r)
  BY <1>1 DEF HoldersInv, RequestsHold, InFlight
<1>3. \A q \in Requests \ {r} : task'[q] = task[q]
  BY <1>1 DEF TreeInv, TypeOK
<1>4. \A q \in Requests : KeepsOrGivesUp(q)
  <2>1. KeepsOrGivesUp(r)
    BY <1>1, <1>2 DEF TreeInv, TypeOK, Locals, KeepsOrGivesUp
  <2> QED
    BY <1>1, <1>3, <2>1, RequestKept
<1>5. \A q \in Requests : InFlight(q) => InFlight(q)' /\ task'[q] = task[q]
  BY <1>2, <1>3 DEF InFlight
<1>6. listening' => pinned' = NoNode
  BY <1>1 DEF HoldersInv
<1> QED
  BY <1>1, <1>4, <1>5, <1>6, HoldingStep

\* A network that the NMS refused has no hubs.
LEMMA NetworkRefusedHolders ==
  ASSUME TreeInv, TreeInv', HoldersInv, NEW r \in Requests, NetworkRefused(r)
  PROVE  HoldersInv'
<1>1. PICK code : task' = [task EXCEPT ![r] = Answered(code)]
  BY DEF NetworkRefused
<1>2. /\ task[r].pc = "netPost"
      /\ UNCHANGED <<nms, hubs, address, worker, connected, registered,
                     listening, pinned>>
  BY DEF NetworkRefused
<1>3. task[r].net = NoNode /\ task[r].hub = NoNode
  BY <1>2 DEF HoldersInv, RequestsHold
<1>4. \A q \in Requests \ {r} : task'[q] = task[q]
  BY <1>1 DEF TreeInv, TypeOK
<1>5. \A q \in Requests : KeepsOrGivesUp(q)
  <2>1. task'[r] = Answered(code)
    BY <1>1 DEF TreeInv, TypeOK
  <2>2. \A n \in Networks : NoNode \notin Nodes(hubs'[n])
    BY NodesMade, NodesAssumption, <1>2
  <2>3. KeepsOrGivesUp(r)
    BY <1>3, <2>1, <2>2 DEF Answered, KeepsOrGivesUp
  <2> QED
    BY <1>2, <1>4, <2>3, RequestKept
<1>6. \A q \in Requests : InFlight(q) =>
        \/ InFlight(q)' /\ task'[q] = task[q]
        \/ task[q].net = NoNode /\ task[q].hub = NoNode
  BY <1>3, <1>4 DEF InFlight
<1>7. listening' => pinned' = NoNode
  BY <1>2 DEF HoldersInv
<1> QED
  BY <1>2, <1>5, <1>6, <1>7, HoldingStep

\* A request that resumes with its hub connected keeps its hub.
LEMMA HubConnectedHolders ==
  ASSUME TreeInv, TreeInv', HoldersInv, NEW r \in Requests, HubConnected(r)
  PROVE  HoldersInv'
<1>1. /\ task[r].pc = "connect" /\ task[r].hub \in connected
      /\ task' = [task EXCEPT ![r].pc = "hubPost"]
      /\ UNCHANGED <<nms, hubs, address, worker, connected, registered,
                     listening, pinned>>
  BY DEF HubConnected
<1>2. /\ task'[r].pc = "hubPost"
      /\ task'[r].net = task[r].net /\ task'[r].hub = task[r].hub
      /\ \A q \in Requests \ {r} : task'[q] = task[q]
  BY <1>1 DEF TreeInv, TypeOK, TaskType
<1>3. \A q \in Requests : KeepsOrGivesUp(q)
  <2>1. KeepsOrGivesUp(r)
    BY <1>1, <1>2 DEF InFlight, KeepsOrGivesUp
  <2> QED
    BY <1>1, <1>2, <2>1, RequestKept
<1>4. \A q \in Requests : InFlight(q) =>
        InFlight(q)' /\ task'[q].net = task[q].net /\ task'[q].hub = task[q].hub
  BY <1>2 DEF InFlight
<1>5. listening' => pinned' = NoNode
  BY <1>1 DEF HoldersInv
<1> QED
  BY <1>1, <1>3, <1>4, <1>5, HoldingStep

\* AP routes, workers and the listener change no request and no reference.
LEMMA TasksKeptHolders ==
  ASSUME TreeInv, TreeInv', HoldersInv,
         ChangesAps \/ WorkerOrListener \/ UNCHANGED vars
  PROVE  HoldersInv'
<1>1. UNCHANGED <<nms, hubs, address, task, registered>>
  BY DEF ChangesAps, CreateAp, AddAp, DeleteAp, RemoveAp, WorkerOrListener,
         WorkerConnects, WorkerCrashes, WorkerDies, ListenerHandles, vars
<1>2. /\ connected \subseteq connected'
      /\ pinned \in {NoNode, pinned'}
      /\ listening' => pinned' = NoNode
  BY DEF HoldersInv, ChangesAps, CreateAp, AddAp, DeleteAp, RemoveAp,
         WorkerOrListener, WorkerConnects, WorkerCrashes, WorkerDies,
         ListenerHandles, HandleHubConnectInd, OnConnectInd, ListenerEnds, vars
<1>3. \A h \in Hubs : /\ worker[h] = "none" => worker'[h] = "none"
                      /\ worker'[h] \in Running => worker[h] \in Running
  BY DEF TreeInv, TypeOK, Running, ChangesAps, CreateAp, AddAp, DeleteAp,
         RemoveAp, WorkerOrListener, WorkerConnects, WorkerCrashes, WorkerDies,
         ListenerHandles, vars
<1>4. \A q \in Requests : KeepsOrGivesUp(q)
  BY <1>1, <1>2, RequestKept
<1>5. \A q \in Requests : InFlight(q) => InFlight(q)'
  BY <1>1 DEF InFlight
<1> QED
  BY <1>1, <1>2, <1>3, <1>4, <1>5, HoldingStep

-----------------------------------------------------------------------------
\* The end of a failed add_hub gives up a hub that is in no network.
LEMMA RequestFailsHolders ==
  ASSUME TreeInv, TreeInv', HoldersInv, NEW r \in Requests, RequestFails(r)
  PROVE  HoldersInv'
<1>1. /\ task[r].pc = "failing"
      /\ task' = [task EXCEPT ![r] = Answered(task[r].answer)]
      /\ Finalize(worker)
      /\ UNCHANGED <<hubs, address, connected, registered, listening, pinned>>
  BY DEF RequestFails
<1>2. \A q \in Requests \ {r} : task'[q] = task[q]
  BY <1>1 DEF TreeInv, TypeOK
<1>3. KeepsOrGivesUp(r)
  <2>1. task'[r] = Answered(task[r].answer)
    BY <1>1 DEF TreeInv, TypeOK
  <2>2. \A n \in Networks : task[r].hub \notin Nodes(hubs'[n])
    BY <1>1 DEF HoldersInv, RequestsHold
  <2> QED
    BY <2>1, <2>2 DEF Answered, KeepsOrGivesUp
<1>4. \A q \in Requests : KeepsOrGivesUp(q)
  BY <1>1, <1>2, <1>3, RequestKept
<1> QED
  BY <1>1, <1>4, DroppingStep

\* The rollback takes the hub out of the only network it is in.
LEMMA HubRefusedHolders ==
  ASSUME TreeInv, TreeInv', HoldersInv, NEW r \in Requests, HubRefused(r)
  PROVE  HoldersInv'
<1> DEFINE n == task[r].net
           h == task[r].hub
           index == address[h].hub
<1>1. n \in Networks /\ h \in Hubs
  BY DEF HubRefused, TreeInv, TasksMade
<1>2. /\ task[r].pc = "hubPost"
      /\ hubs' = [hubs EXCEPT ![n] = RemoveChild(hubs[n], index)]
      /\ Finalize(worker)
      /\ registered \subseteq registered'
      /\ UNCHANGED <<address, connected, listening, pinned>>
  BY DEF HubRefused
<1>3. PICK code : task' = [task EXCEPT ![r] = Failing(task[r], code)]
  BY DEF HubRefused
<1>4. /\ task'[r] = Failing(task[r], code)
      /\ \A q \in Requests \ {r} : task'[q] = task[q]
  BY <1>3 DEF TreeInv, TypeOK
<1>5. /\ hubs'[n] = RemoveChild(hubs[n], index)
      /\ \A m \in Networks \ {n} : hubs'[m] = hubs[m]
  BY <1>1, <1>2 DEF TreeInv, TypeOK
<1>6. \A m \in Networks : Nodes(hubs'[m]) \subseteq Nodes(hubs[m])
  BY <1>5, RemoveChildNodes
<1>7. h \notin Nodes(hubs'[n])
  <2> HIDE DEF n
  <2>1. \A j \in DOMAIN hubs[n] :
          address[hubs[n][j]] = [net |-> netIndex[n], hub |-> j]
    BY <1>1 DEF TreeInv, HubsPlaced
  <2> HIDE DEF h
  <2>2. ASSUME NEW j \in DOMAIN hubs[n], hubs[n][j] = h
        PROVE  j = index
    <3>1. address[h] = [net |-> netIndex[n], hub |-> j]
      BY <2>1, <2>2
    <3> QED
      BY <3>1
  <2> HIDE DEF index
  <2> QED
    BY <1>5, <2>2 DEF Nodes, Range, RemoveChild, Restrict
<1>8. \A m \in Networks : h \notin Nodes(hubs'[m])
  BY <1>6, <1>7 DEF HoldersInv, RequestsHold
<1>9. KeepsOrGivesUp(r)
  BY <1>4, <1>8 DEF Failing, InFlight, KeepsOrGivesUp
<1>10. \A q \in Requests : KeepsOrGivesUp(q)
  BY <1>2, <1>4, <1>6, <1>9, RequestKept
<1> QED
  BY <1>2, <1>6, <1>10, DroppingStep

\* A deletion changes no request.
LEMMA DeletesHolders ==
  ASSUME TreeInv, TreeInv', HoldersInv, Deletes
  PROVE  HoldersInv'
<1>1. /\ Finalize(worker)
      /\ UNCHANGED <<address, task, connected, registered, listening, pinned>>
  BY DEF Deletes, DeleteNetwork, DeleteHub
<1>2. \A m \in Networks : Nodes(hubs'[m]) \subseteq Nodes(hubs[m])
  <2>1. CASE hubs' = hubs
    BY <2>1
  <2>2. CASE \E n, j : hubs' = [hubs EXCEPT ![n] = RemoveChild(hubs[n], j)]
    BY <2>2, RemoveChildNodes DEF TreeInv, TypeOK
  <2> QED
    BY <2>1, <2>2 DEF Deletes, DeleteNetwork, DeleteHub, RemoveHub
<1>3. \A q \in Requests : KeepsOrGivesUp(q)
  BY <1>1, <1>2, RequestKept
<1> QED
  BY <1>1, <1>2, <1>3, DroppingStep

(***************************************************************************)
(* The loop of add_network: the hub before, if any, is settled; then comes *)
(* the next hub, or the 201 answer.                                        *)
(***************************************************************************)
LEMMA NextHubHolders ==
  ASSUME TreeInv, TreeInv', HoldersInv, NEW r \in Requests, NEW n \in Networks,
         NEW i \in Nat, NextHub(r, n, i),
         task[r].hub \in {NoNode} \cup (registered' \cap connected),
         registered \subseteq registered',
         UNCHANGED <<connected, listening, pinned>>
  PROVE  HoldersInv'
<1>1. CASE task[r].more > 0
  <2>1. BeginHub(r, n, i, task[r].more - 1, task[r].aps)
    BY <1>1 DEF NextHub
  <2> QED
    BY <2>1, BeginHubHolders
<1>2. CASE ~(task[r].more > 0)
  <2>1. /\ task' = [task EXCEPT ![r] = Answered("201")]
        /\ UNCHANGED <<hubs, address>>
        /\ Finalize(worker)
    BY <1>2 DEF NextHub
  <2>2. /\ task'[r] = Answered("201")
        /\ \A q \in Requests \ {r} : task'[q] = task[q]
    BY <2>1 DEF TreeInv, TypeOK
  <2>3. \A m \in Networks : NoNode \notin Nodes(hubs'[m])
    BY NodesMade, NodesAssumption, <2>1
  <2>4. KeepsOrGivesUp(r)
    BY <2>2, <2>3 DEF Answered, KeepsOrGivesUp
  <2>5. \A q \in Requests : KeepsOrGivesUp(q)
    BY <2>1, <2>2, <2>4, RequestKept
  <2> QED
    BY <2>1, <2>5, DroppingStep
<1> QED
  BY <1>1, <1>2

\* A network that the NMS accepted, and its first hub.
LEMMA NetworkPostedHolders ==
  ASSUME TreeInv, TreeInv', HoldersInv, NEW r \in Requests, NetworkPosted(r)
  PROVE  HoldersInv'
<1>1. PICK n \in Networks : NextHub(r, n, GetIndex(nms))
  BY DEF NetworkPosted, FreshNetworks
<1>2. GetIndex(nms) \in Nat
  BY GetIndexFree DEF TreeInv, TypeOK
<1>3. task[r].hub = NoNode
  BY DEF NetworkPosted, HoldersInv, RequestsHold
<1>4. UNCHANGED <<connected, registered, listening, pinned>>
  BY DEF NetworkPosted
<1> QED
  BY <1>1, <1>2, <1>3, <1>4, NextHubHolders

\* The hub of a POST /network/i/hub.
LEMMA CreateHubHolders ==
  ASSUME TreeInv, TreeInv', HoldersInv, NEW r \in Requests,
         NEW i \in DOMAIN nms, NEW a, CreateHub(r, i, a)
  PROVE  HoldersInv'
<1>1. nms[i] \in Networks /\ netIndex[nms[i]] = i /\ i \in Nat
  BY DEF TreeInv, TypeOK, IsDict, NetworksPlaced
<1>2. /\ BeginHub(r, nms[i], i, 0, a)
      /\ UNCHANGED <<connected, registered, listening, pinned>>
  BY <1>1 DEF CreateHub
<1>3. task[r].hub = NoNode
  BY DEF CreateHub, Idle, HoldersInv, RequestsHold
<1> QED
  BY <1>1, <1>2, <1>3, BeginHubHolders

\* A hub that the NMS accepted was connected, and the loop goes on.
LEMMA HubPostedHolders ==
  ASSUME TreeInv, TreeInv', HoldersInv, NEW r \in Requests, HubPosted(r)
  PROVE  HoldersInv'
<1>1. /\ task[r].pc = "hubPost"
      /\ registered' = registered \cup {task[r].hub}
      /\ NextHub(r, task[r].net, netIndex[task[r].net])
      /\ UNCHANGED <<connected, listening, pinned>>
  BY DEF HubPosted
<1>2. task[r].net \in Networks /\ netIndex[task[r].net] \in Nat
  BY <1>1 DEF TreeInv, TasksMade, FreshNetworks, TypeOK, Indices
<1>3. task[r].hub \in connected
  BY <1>1 DEF HoldersInv, RequestsHold
<1> QED
  BY <1>1, <1>2, <1>3, NextHubHolders

-----------------------------------------------------------------------------
\* Without networks and processes nothing has to be held.
LEMMA InitHoldersInv == Init => HoldersInv
<1> SUFFICES ASSUME Init
             PROVE  HoldersInv
  OBVIOUS
<1>1. \A n \in Networks : Nodes(hubs[n]) = {}
  BY NoChildrenDict DEF Init, Nodes, Range
<1>2. RequestsHold
  BY <1>1 DEF Init, RequestsHold, NoTask, Locals
<1> QED
  BY <1>1, <1>2 DEF Init, HoldersInv, HubsInOneNetwork, RunningHeld, Running,
                    FreshNotStarted, FreshHubs

\* HoldersInv is inductive.
LEMMA NextHoldersInv ==
  TreeInv /\ TreeInv' /\ HoldersInv /\ [Next]_vars => HoldersInv'
<1> SUFFICES ASSUME TreeInv, TreeInv', HoldersInv, [Next]_vars
             PROVE  HoldersInv'
  OBVIOUS
<1>1. CASE Creates
  BY <1>1, CreateNetworkHolders, CreateHubHolders DEF Creates
<1>2. CASE Continues
  BY <1>2, NetworkPostedHolders, NetworkRefusedHolders, HubConnectedHolders,
     HubPostedHolders, HubRefusedHolders, RequestFailsHolders DEF Continues
<1>3. CASE Deletes
  BY <1>3, DeletesHolders
<1>4. CASE ChangesAps \/ WorkerOrListener \/ UNCHANGED vars
  BY <1>4, TasksKeptHolders
<1> QED
  BY <1>1, <1>2, <1>3, <1>4 DEF Next

(***************************************************************************)
(* Every reachable state satisfies the inductive invariant: who holds each *)
(* hub and each worker is known, however creations, rollbacks, deletions   *)
(* and dead listeners interleave.                                          *)
(***************************************************************************)
THEOREM HoldersInvariance == Spec => []HoldersInv
BY InitHoldersInv, NextHoldersInv, TreeInvariance, PTL DEF Spec

(***************************************************************************)
(* add_hub leaves no half-made hub behind: a hub of the tree that no       *)
(* request is making was connected and is known to the NMS, or its process *)
(* could not be started.                                                   *)
(***************************************************************************)
THEOREM HubsSettled == Spec => []SettledHubRegistered
<1>1. TreeInv /\ HoldersInv => SettledHubRegistered
  <2> SUFFICES ASSUME TreeInv, HoldersInv, NEW h \in TreeHubs
               PROVE  Settled(h)
    BY DEF SettledHubRegistered
  <2>1. PICK n \in Nodes(nms) : h \in Nodes(hubs[n])
    BY DEF TreeHubs
  <2>2. n \in Networks
    BY DEF Nodes, Range, TreeInv, TypeOK, IsDict
  <2> QED
    BY <2>1, <2>2 DEF HoldersInv
<1> QED
  BY <1>1, TreeInvariance, HoldersInvariance, PTL

(***************************************************************************)
(* Stopping workers from __del__ loses none: when nothing is in flight,    *)
(* only hubs of the tree, and of the network that the traceback of a dead  *)
(* listener keeps, have a worker.                                          *)
(***************************************************************************)
THEOREM NoWorkerLost == Spec => []QuiescentWorkersInTree
<1>1. HoldersInv => QuiescentWorkersInTree
  <2> SUFFICES ASSUME HoldersInv,
                      \A r \in Requests : ~InFlight(r),
                      NEW h \in Hubs, worker[h] \in Running
               PROVE  h \in TreeHubs \cup PinnedHubs
    BY DEF QuiescentWorkersInTree
  <2>1. HeldNetworks \subseteq Nodes(nms) \cup ({pinned} \ {NoNode})
    BY DEF HeldNetworks
  <2>2. h \in HeldHubs
    BY DEF HoldersInv, RunningHeld
  <2> QED
    BY <2>1, <2>2 DEF HeldHubs, TreeHubs, PinnedHubs
<1> QED
  BY <1>1, HoldersInvariance, PTL

-----------------------------------------------------------------------------
(***************************************************************************)
(* The progress of requests.                                               *)
(***************************************************************************)
\* The request r takes a step towards its answer, and no other one moves.
Advances(r) ==
  /\ \A q \in Requests \ {r} : task'[q] = task[q]
  /\ Idle(r) \/ StepsLeft(task'[r]) < StepsLeft(task[r])

\* An answer leaves nothing to do.
LEMMA AnswerAdvances ==
  ASSUME TreeInv, NEW r \in Requests, InFlight(r), NEW code,
         task' = [task EXCEPT ![r] = Answered(code)]
  PROVE  Advances(r)
<1>1. /\ task'[r] = Answered(code)
      /\ \A q \in Requests \ {r} : task'[q] = task[q]
  BY DEF TreeInv, TypeOK
<1>2. StepsLeft(task'[r]) = 0
  BY <1>1 DEF StepsLeft, Answered
<1>3. /\ task[r].pc \in {"netPost", "connect", "hubPost", "failing"}
      /\ task[r].more \in Nat
  BY DEF InFlight, TreeInv, TypeOK, TaskType
<1>4. StepsLeft(task[r]) > 0
  BY <1>3 DEF StepsLeft
<1> QED
  BY <1>1, <1>2, <1>4 DEF Advances

\* The loop of add_network makes one hub fewer each time.
LEMMA NextHubAdvances ==
  ASSUME TreeInv, NEW r \in Requests, task[r].pc \in {"netPost", "hubPost"},
         NEW n, NEW i, NextHub(r, n, i)
  PROVE  Advances(r)
<1>1. InFlight(r) /\ task[r].more \in Nat
  BY DEF InFlight, TreeInv, TypeOK, TaskType
<1>2. CASE \E code : task' = [task EXCEPT ![r] = Answered(code)]
  BY <1>1, <1>2, AnswerAdvances
<1>3. CASE /\ task[r].more > 0
           /\ \E h : task' = [task EXCEPT
                   ![r] = Locals("connect", n, h, task[r].more - 1, task[r].aps)]
  <2>1. PICK h : task' = [task EXCEPT
                   ![r] = Locals("connect", n, h, task[r].more - 1, task[r].aps)]
    BY <1>3
  <2>2. /\ task'[r].pc = "connect" /\ task'[r].more = task[r].more - 1
        /\ \A q \in Requests \ {r} : task'[q] = task[q]
    BY <2>1 DEF TreeInv, TypeOK, Locals
  <2>3. /\ StepsLeft(task[r]) = 2 * task[r].more + 2
        /\ StepsLeft(task'[r]) = 2 * (task[r].more - 1) + 3
    BY <2>2 DEF StepsLeft
  <2> QED
    BY <1>1, <2>2, <2>3 DEF Advances
<1> QED
  BY <1>2, <1>3 DEF NextHub, BeginHub

\* Every step of a request advances it, and the other steps move none.
LEMMA NextAdvances ==
  ASSUME TreeInv, [Next]_vars, NEW r \in Requests, task'[r] # task[r]
  PROVE  Idle(r) \/ StepsLeft(task'[r]) < StepsLeft(task[r])
<1>1. ASSUME NEW q \in Requests, Advances(q)
      PROVE  Idle(r) \/ StepsLeft(task'[r]) < StepsLeft(task[r])
  BY <1>1 DEF Advances
<1>2. CASE Creates
  <2>1. PICK q \in Requests :
          /\ Idle(q)
          /\ \E t : task' = [task EXCEPT ![q] = t]
    BY <1>2 DEF Creates, CreateNetwork, CreateHub, BeginHub
  <2>2. Advances(q)
    BY <2>1 DEF Advances, TreeInv, TypeOK
  <2> QED
    BY <1>1, <2>2
<1>3. CASE Continues
  <2>1. PICK q \in Requests :
          \/ NetworkPosted(q) \/ NetworkRefused(q) \/ HubConnected(q)
          \/ HubPosted(q) \/ HubRefused(q) \/ RequestFails(q)
    BY <1>3 DEF Continues
  <2>2. CASE NetworkPosted(q) \/ HubPosted(q)
    BY <1>1, <2>2, NextHubAdvances DEF NetworkPosted, HubPosted
  <2>3. CASE NetworkRefused(q) \/ RequestFails(q)
    <3>1. InFlight(q) /\ \E code : task' = [task EXCEPT ![q] = Answered(code)]
      BY <2>3 DEF NetworkRefused, RequestFails, InFlight
    <3> QED
      BY <1>1, <3>1, AnswerAdvances
  <2>4. CASE HubConnected(q)
    <3>1. /\ task[q].pc = "connect"
          /\ task' = [task EXCEPT ![q].pc = "hubPost"]
      BY <2>4 DEF HubConnected
    <3>2. /\ task'[q].pc = "hubPost" /\ task'[q].more = task[q].more
          /\ \A x \in Requests \ {q} : task'[x] = task[x]
          /\ task[q].more \in Nat
      BY <3>1 DEF TreeInv, TypeOK, TaskType
    <3>3. Advances(q)
      BY <3>1, <3>2 DEF Advances, StepsLeft
    <3> QED
      BY <1>1, <3>3
  <2>5. CASE HubRefused(q)
    <3>1. /\ task[q].pc = "hubPost"
          /\ \E code : task' = [task EXCEPT ![q] = Failing(task[q], code)]
      BY <2>5 DEF HubRefused
    <3>2. /\ task'[q].pc = "failing"
          /\ \A x \in Requests \ {q} : task'[x] = task[x]
          /\ task[q].more \in Nat
      BY <3>1 DEF TreeInv, TypeOK, TaskType, Failing
    <3>3. StepsLeft(task'[q]) = 1 /\ StepsLeft(task[q]) = 2 * task[q].more + 2
      BY <3>1, <3>2 DEF StepsLeft
    <3>4. Advances(q)
      BY <3>2, <3>3 DEF Advances
    <3> QED
      BY <1>1, <3>4
  <2> QED
    BY <2>1, <2>2, <2>3, <2>4, <2>5
<1>4. CASE Deletes \/ ChangesAps \/ WorkerOrListener \/ UNCHANGED vars
  BY <1>4 DEF Deletes, DeleteNetwork, DeleteHub, ChangesAps, CreateAp, DeleteAp,
     WorkerOrListener, WorkerConnects, WorkerCrashes, WorkerDies,
     ListenerHandles, vars
<1> QED
  BY <1>2, <1>3, <1>4 DEF Next

(***************************************************************************)
(* A request never goes round, for any number of hubs asked for: from its  *)
(* arrival every resumption leaves fewer suspensions before its answer.    *)
(* With NoRequestStranded of PoliteController it is what safety says of    *)
(* EveryCreateAnswered.                                                    *)
(***************************************************************************)
THEOREM RequestsProgress == Spec => RequestsAdvance
<1>1. TreeInv /\ [Next]_vars
        => [\A r \in Requests : task'[r] # task[r]
              => Idle(r) \/ StepsLeft(task'[r]) < StepsLeft(task[r])]_vars
  BY NextAdvances
<1> QED
  BY <1>1, TreeInvariance, PTL DEF Spec, RequestsAdvance

-----------------------------------------------------------------------------
(***************************************************************************)
(* The tree, as its clients see it.                                        *)
(***************************************************************************)
\* Where the nodes of the tree are.
LEMMA TreeFacts ==
  ASSUME TreeInv
  PROVE  /\ Nodes(nms) \subseteq Networks
         /\ TreeHubs \subseteq Hubs \ FreshHubs
         /\ \A i \in DOMAIN nms : nms[i] \in Networks /\ i \in Nat
                                  /\ netIndex[nms[i]] = i
<1>1. \A i \in DOMAIN nms : nms[i] \in Networks /\ i \in Nat
                            /\ netIndex[nms[i]] = i
  BY DEF TreeInv, TypeOK, IsDict, NetworksPlaced
<1>2. Nodes(nms) \subseteq Networks
  BY <1>1 DEF Nodes, Range
<1>3. TreeHubs \subseteq Hubs \ FreshHubs
  BY <1>2, NodesMade DEF TreeHubs
<1> QED
  BY <1>1, <1>2, <1>3

\* The address of a hub in a network of the tree.
LEMMA HubAddress ==
  ASSUME TreeInv, NEW n \in Networks, NEW h \in Nodes(hubs[n])
  PROVE  /\ address[h].net = netIndex[n]
         /\ address[h].hub \in DOMAIN hubs[n]
         /\ hubs[n][address[h].hub] = h
<1>1. PICK j \in DOMAIN hubs[n] : hubs[n][j] = h
  BY DEF Nodes, Range
<1>2. address[h] = [net |-> netIndex[n], hub |-> j]
  BY <1>1 DEF TreeInv, HubsPlaced
<1> QED
  BY <1>1, <1>2

\* The hubs whose address is in a network of the tree are those of its
\* dictionary.
HubsUnder(i) == {h \in TreeHubs : address[h].net = i}

LEMMA HubsUnderNetwork ==
  ASSUME TreeInv, NEW i \in DOMAIN nms
  PROVE  /\ HubsUnder(i) = Nodes(hubs[nms[i]])
         /\ {address[h].hub : h \in HubsUnder(i)} = DOMAIN hubs[nms[i]]
<1>1. nms[i] \in Networks /\ netIndex[nms[i]] = i /\ nms[i] \in Nodes(nms)
  BY TreeFacts DEF Nodes, Range
<1>2. HubsUnder(i) = Nodes(hubs[nms[i]])
  <2>1. ASSUME NEW h \in TreeHubs, address[h].net = i
        PROVE  h \in Nodes(hubs[nms[i]])
    <3>1. PICK n \in Nodes(nms) : h \in Nodes(hubs[n])
      BY DEF TreeHubs
    <3>2. PICK k \in DOMAIN nms : nms[k] = n
      BY DEF Nodes, Range
    <3>3. n \in Networks /\ netIndex[n] = k
      BY <3>2, TreeFacts
    <3>4. address[h].net = netIndex[n]
      BY <3>1, <3>3, HubAddress
    <3> QED
      BY <2>1, <3>1, <3>2, <3>3, <3>4
  <2>2. ASSUME NEW h \in Nodes(hubs[nms[i]])
        PROVE  h \in TreeHubs /\ address[h].net = i
    <3>1. h \in TreeHubs
      BY <1>1, <2>2 DEF TreeHubs
    <3>2. address[h].net = i
      BY <1>1, <2>2, HubAddress
    <3> QED
      BY <3>1, <3>2
  <2> QED
    BY <2>1, <2>2 DEF HubsUnder
<1>3. {address[h].hub : h \in HubsUnder(i)} = DOMAIN hubs[nms[i]]
  <2>1. ASSUME NEW j \in DOMAIN hubs[nms[i]]
        PROVE  /\ hubs[nms[i]][j] \in Nodes(hubs[nms[i]])
               /\ address[hubs[nms[i]][j]].hub = j
    <3>1. address[hubs[nms[i]][j]] = [net |-> netIndex[nms[i]], hub |-> j]
      BY <1>1 DEF TreeInv, HubsPlaced
    <3> QED
      BY <3>1 DEF Nodes, Range
  <2>2. ASSUME NEW h \in Nodes(hubs[nms[i]])
        PROVE  address[h].hub \in DOMAIN hubs[nms[i]]
    BY <1>1, HubAddress
  <2> QED
    BY <1>2, <2>1, <2>2
<1> QED
  BY <1>2, <1>3

\* No hub of the tree has its address under an index that no network has.
LEMMA HubsUnderNothing ==
  ASSUME TreeInv, NEW i, i \notin DOMAIN nms
  PROVE  HubsUnder(i) = {}
<1>1. ASSUME NEW h \in TreeHubs PROVE address[h].net # i
  <2>1. PICK n \in Nodes(nms) : h \in Nodes(hubs[n])
    BY DEF TreeHubs
  <2>2. PICK k \in DOMAIN nms : nms[k] = n
    BY DEF Nodes, Range
  <2>3. n \in Networks /\ netIndex[n] = k
    BY <2>2, TreeFacts
  <2>4. address[h].net = netIndex[n]
    BY <2>1, <2>3, HubAddress
  <2> QED
    BY <2>2, <2>3, <2>4
<1> QED
  BY <1>1 DEF HubsUnder

\* What is left of a dictionary of hubs when the hub at an index is removed.
LEMMA RemoveHubNodes ==
  ASSUME TreeInv, NEW n \in Networks, NEW j \in DOMAIN hubs[n]
  PROVE  Nodes(RemoveChild(hubs[n], j)) = Nodes(hubs[n]) \ {hubs[n][j]}
<1> DEFINE f == hubs[n]
<1>1. \A k \in DOMAIN f : address[f[k]] = [net |-> netIndex[n], hub |-> k]
  BY DEF TreeInv, HubsPlaced
<1>2. \A k \in DOMAIN f : f[k] = f[j] => k = j
  <2> SUFFICES ASSUME NEW k \in DOMAIN f, f[k] = f[j]
               PROVE  k = j
    OBVIOUS
  <2>1. [net |-> netIndex[n], hub |-> k] = [net |-> netIndex[n], hub |-> j]
    BY <1>1
  <2> QED
    BY <2>1
<1> HIDE DEF f
<1>3. j \in DOMAIN f
  BY DEF f
<1>4. Nodes(RemoveChild(f, j)) = Nodes(f) \ {f[j]}
  BY <1>2, <1>3 DEF Nodes, Range, RemoveChild, Restrict
<1> QED
  BY <1>4 DEF f

\* A hub of a network in the tree leaves the tree with its dictionary entry.
LEMMA RemoveHubTree ==
  ASSUME TreeInv, HoldersInv, NEW n \in Nodes(nms), NEW j \in DOMAIN hubs[n],
         hubs' = [hubs EXCEPT ![n] = RemoveChild(hubs[n], j)], nms' = nms
  PROVE  /\ TreeHubs' = TreeHubs \ {hubs[n][j]}
         /\ hubs[n][j] \in TreeHubs
         /\ \A m \in Networks : hubs[n][j] \notin Nodes(hubs'[m])
<1> DEFINE h == hubs[n][j]
<1>1. n \in Networks /\ Nodes(nms) \subseteq Networks
  BY TreeFacts
<1>2. h \in Nodes(hubs[n])
  BY DEF Nodes, Range
<1>3. /\ Nodes(hubs'[n]) = Nodes(hubs[n]) \ {h}
      /\ \A m \in Networks \ {n} : hubs'[m] = hubs[m]
  BY <1>1, RemoveHubNodes DEF TreeInv, TypeOK
<1> HIDE DEF h
<1>4. \A m \in Networks \ {n} : h \notin Nodes(hubs[m])
  BY <1>1, <1>2 DEF HoldersInv, HubsInOneNetwork
<1>5. TreeHubs' = TreeHubs \ {h} /\ h \in TreeHubs
  BY <1>1, <1>2, <1>3, <1>4 DEF TreeHubs
<1>6. \A m \in Networks : h \notin Nodes(hubs'[m])
  BY <1>3, <1>4
<1> QED
  BY <1>5, <1>6 DEF h

=============================================================================
