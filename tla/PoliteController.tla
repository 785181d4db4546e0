-------------------------- MODULE PoliteController --------------------------
(***************************************************************************)
(* The controller used by clients that delete a network or a hub only when *)
(* no create request is still at work on it: such a client waits for the   *)
(* answer of its POST before it sends the DELETE.  Under this assumption   *)
(* on the environment add_hub keeps what its docstrings promise.           *)
(***************************************************************************)
EXTENDS Controller

\* A suspended create request works on this network, or on this hub.
BusyNetwork(n) == \E r \in Requests : InFlight(r) /\ task[r].net = n
BusyHub(h) == \E r \in Requests : InFlight(r) /\ task[r].hub = h

PoliteDeletes ==
  \E i \in DOMAIN nms :
    \/ ~BusyNetwork(nms[i]) /\ DeleteNetwork(i)
    \/ \E j \in HubsAt(i) : ~BusyHub(hubs[nms[i]][j]) /\ DeleteHub(i, j)

PoliteNext ==
  Creates \/ Continues \/ PoliteDeletes \/ ChangesAps \/ WorkerOrListener

PoliteSpec == Init /\ [][PoliteNext]_vars

-----------------------------------------------------------------------------
(***************************************************************************)
(* The listener "listens for incoming messages on the PULL socket"         *)
(* (worker_ctrl.py:57) for as long as the controller runs.                 *)
(***************************************************************************)
ListenerSurvives == listening

(***************************************************************************)
(* start_worker "waits for it to connect back" (managers.py:253): the POST *)
(* of a hub is sent only after the worker of that very hub has run up to   *)
(* its HubConnectInd.                                                      *)
(***************************************************************************)
WaitsForOwnWorker ==
  \A r \in Requests : task[r].pc = "hubPost" => worker[task[r].hub] # "starting"

(***************************************************************************)
(* What a request waits for in connect_event.wait (managers.py:268) comes: *)
(* the event is set, or the worker has yet to send its HubConnectInd, or   *)
(* that message waits for a listener that will find the hub of the request *)
(* at the address.  Only the crash of its worker strands a request.        *)
(***************************************************************************)
NoRequestStranded ==
  \A r \in Requests : task[r].pc = "connect" =>
    LET h == task[r].hub
    IN  \/ h \in connected
        \/ worker[h] = "starting"
        \/ /\ h \in inbox /\ listening
           /\ Resolves(address[h]) /\ GetNode(address[h]) = h
        \/ worker[h] = "exited" /\ WorkersMayCrash

(***************************************************************************)
(* The rollback of add_hub (managers.py:336) finds the entry it deletes:   *)
(* a hub whose POST failed is answered with the 502 of the handler, not    *)
(* with the 500 of a KeyError inside it.                                   *)
(***************************************************************************)
RollbackFindsHub ==
  \A r \in Requests : task[r].pc = "failing" => task[r].answer = "502"

(***************************************************************************)
(* A hub that a request is making leaves its slot in the tree only when    *)
(* that request itself gives it up: no other request's rollback or         *)
(* deletion, and no reuse of its index, takes it away.                     *)
(***************************************************************************)
InTree(h) ==
  /\ address[h].net \in DOMAIN nms
  /\ address[h].hub \in HubsAt(address[h].net)
  /\ hubs[nms[address[h].net]][address[h].hub] = h

BusyHubStays ==
  [][\A r \in Requests, h \in Hubs :
       (/\ task[r].hub = h
        /\ task[r].pc \in {"connect", "hubPost"}
        /\ task'[r] = task[r]) => InTree(h) /\ InTree(h)']_vars

(***************************************************************************)
(* The index add_hub returns is "the index of the created Hub"             *)
(* (managers.py:322): when the answer is 201, the hub the request made is  *)
(* in the tree under that index.                                           *)
(***************************************************************************)
CreatedHubAtIndex ==
  [][\A r \in Requests, h \in Hubs :
       (/\ task[r].hub = h
        /\ task[r].pc = "hubPost"
        /\ task'[r] = Answered("201")) => InTree(h)']_vars

(***************************************************************************)
(* DELETE "stops and removes" a hub (routes_hub.py:95): when a deletion    *)
(* takes a hub out of the tree, alone or with its network, the worker of   *)
(* the hub no longer runs.                                                 *)
(***************************************************************************)
DeleteStopsWorker ==
  [][\A h \in TreeHubs \ TreeHubs' :
       task' = task => worker'[h] \notin Running]_vars

(***************************************************************************)
(* The controller, used this way, keeps the promises of HubLifecycle: no   *)
(* interleaving of requests, worker messages, failures and crashes makes a *)
(* hub appear at another index, come back, or go away half made, or lets   *)
(* the worker of a deleted hub run on.                                     *)
(***************************************************************************)
Making(r) == task[r].pc \in {"connect", "hubPost"}
MakingHubs == {task[r].hub : r \in {q \in Requests : Making(q)}}

Life == INSTANCE HubLifecycle
  WITH NoPlace <- NoAddress, networks <- DOMAIN nms, fresh <- FreshHubs,
       present <- TreeHubs, making <- MakingHubs, place <- address,
       running <- RunningHubs

ImplementsLifecycle == Life!Spec

(***************************************************************************)
(* "1 process per Hub" (README.md:14): every hub in the tree that no       *)
(* request is making has a running worker, if workers do not crash.        *)
(***************************************************************************)
OneProcessPerHub ==
  \A h \in TreeHubs : BusyHub(h) \/ worker[h] \in Running

(***************************************************************************)
(* "Use HTTPException for all error handling in FastAPI routes"            *)
(* (templates/template.py:17): a network that the NMS did not accept is    *)
(* answered with the 502 of add_network's handler.                         *)
(***************************************************************************)
NmsFailureIs502 ==
  [][\A r \in Requests :
       (/\ task[r].pc = "netPost"
        /\ task'[r].pc = "answered"
        /\ nms' = nms) => task'[r].answer = "502"]_vars

(***************************************************************************)
(* A crash strands a request: the worker it waits for ended before it sent *)
(* its HubConnectInd, and connect_event.wait (managers.py:268) has no      *)
(* timeout.                                                                *)
(***************************************************************************)
Stranded(r) ==
  LET h == task[r].hub
  IN  /\ task[r].pc = "connect"
      /\ worker[h] = "exited"
      /\ h \notin connected \cup inbox

(***************************************************************************)
(* Hubs and networks are created at run time (README.md:41): every create  *)
(* request is answered or stranded by the crash of its own worker.  A      *)
(* crash, early or late, holds up no other request.                        *)
(***************************************************************************)
EveryCreateAnswered ==
  \A r \in Requests :
    InFlight(r) ~> (task[r].pc = "answered" \/ Stranded(r))

(***************************************************************************)
(* A worker whose hub is not in the tree exits: neither a reference in a   *)
(* suspended request nor a stop that timed out keeps it for good.          *)
(***************************************************************************)
StrayWorkerExits ==
  \A h \in Hubs :
    (worker[h] \in Running \cup {"dying"} /\ h \notin TreeHubs)
      ~> worker[h] = "exited"

(***************************************************************************)
(* Why the promises are kept: the inductive invariant.  A worker that is   *)
(* on its way to connect, or whose HubConnectInd has not been handled, is  *)
(* awaited by the request that started it; no two requests make the same   *)
(* hub; and the hub that a request makes is in the tree at its address,    *)
(* where the listener will find it.                                        *)
(***************************************************************************)
AwaitedWorkers ==
  \A h \in Hubs :
    (worker[h] = "starting" \/ h \in inbox)
      => \E r \in Requests : task[r].pc = "connect" /\ task[r].hub = h

OwnHubs ==
  \A r, q \in Requests :
    (Making(r) /\ Making(q) /\ task[r].hub = task[q].hub) => r = q

\* The hub that r makes is in the tree at its address, in the network of r.
InPlace(r) ==
  LET n == task[r].net
      h == task[r].hub
      a == address[h]
  IN  /\ a.net \in DOMAIN nms
      /\ nms[a.net] = n
      /\ a.hub \in DOMAIN hubs[n]
      /\ hubs[n][a.hub] = h

BusyHubsInTree == \A r \in Requests : Making(r) => InPlace(r)

\* A worker sends its HubConnectInd once, when it is up, and the event is set
\* when it has been handled.
ConnectedOnce ==
  /\ \A h \in inbox : worker[h] # "starting"
  /\ \A h \in connected :
       h \notin FreshHubs /\ worker[h] # "starting" /\ h \notin inbox
  /\ \A r \in Requests : task[r].pc = "hubPost" => task[r].hub \in connected

PoliteInv ==
  /\ ListenerSurvives
  /\ AwaitedWorkers
  /\ OwnHubs
  /\ BusyHubsInTree
  /\ ConnectedOnce
  /\ RollbackFindsHub

=============================================================================
