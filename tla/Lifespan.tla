------------------------------ MODULE Lifespan ------------------------------
(***************************************************************************)
(* The controller from its start-up (the sockets are bound and the         *)
(* listener task runs before the first request) to its shutdown.  uvicorn, *)
(* run without a graceful-shutdown timeout, stops taking requests when it  *)
(* is told to terminate, waits for those in flight, and only then lets     *)
(* lifespan (app.py) cancel the listener and close the sockets.  Clients   *)
(* are those of PoliteController.                                          *)
(***************************************************************************)
EXTENDS PoliteController

VARIABLE phase \* "serving", "draining" or "stopped"

lifeVars == <<vars, phase>>

\* The start of lifespan is over: the listener runs, and requests are taken.
LifeInit == Init /\ phase = "serving"

Serve ==
  /\ phase = "serving"
  /\ PoliteNext
  /\ UNCHANGED phase

Sigterm ==
  /\ phase = "serving"
  /\ phase' = "draining"
  /\ UNCHANGED vars

Drain ==
  /\ phase = "draining"
  /\ Continues \/ WorkerOrListener
  /\ UNCHANGED phase

\* Wrong: the sockets are closed while requests are in flight.
TeardownEarly ==
  /\ phase = "draining"
  /\ phase' = "stopped"
  /\ listening' = FALSE
  /\ UNCHANGED <<nms, hubs, aps, netIndex, address, task, worker, inbox,
                 connected, registered, pinned>>

\* Wrong: only the requests that wait for a worker are awaited.
TeardownAfterConnects ==
  /\ phase = "draining"
  /\ \A r \in Requests : task[r].pc # "connect"
  /\ phase' = "stopped"
  /\ listening' = FALSE
  /\ UNCHANGED <<nms, hubs, aps, netIndex, address, task, worker, inbox,
                 connected, registered, pinned>>

\* The sockets are closed: what waits in the PULL socket stays unread.
TeardownZmq == phase' = "stopped" /\ UNCHANGED inbox

(***************************************************************************)
(* The end of lifespan, once every request is answered: the listener task  *)
(* is cancelled, then teardown_zmq.                                        *)
(***************************************************************************)
Teardown ==
  /\ phase = "draining"
  /\ \A r \in Requests : ~InFlight(r)
  /\ listening' = FALSE
  /\ TeardownZmq
  /\ UNCHANGED <<nms, hubs, aps, netIndex, address, task, worker, connected,
                 registered, pinned>>

\* The worker processes outlive the sockets of the controller.
Outlive ==
  /\ phase = "stopped"
  /\ \E h \in Hubs : WorkerConnects(h) \/ WorkerCrashes(h) \/ WorkerDies(h)
  /\ UNCHANGED phase

LifeNext == Serve \/ Sigterm \/ Drain \/ Teardown \/ Outlive

LifeSpec == LifeInit /\ [][LifeNext]_lifeVars

\* Nothing makes anybody send the signal; once it is sent, uvicorn shuts down.
FairLifeSpec == LifeSpec /\ Fairness /\ WF_lifeVars(Teardown)

-----------------------------------------------------------------------------
(***************************************************************************)
(* A controller that is told to terminate does, unless a request waits for *)
(* a worker that crashed: nothing else holds up the shutdown for ever.     *)
(***************************************************************************)
ShutdownCompletes ==
  phase = "draining" ~> (phase = "stopped" \/ \E r \in Requests : Stranded(r))

(***************************************************************************)
(* Closing the sockets loses no message: no HubConnectInd is unread then,  *)
(* and no worker has yet to send one.                                      *)
(***************************************************************************)
NothingUnread ==
  phase = "stopped" => inbox = {} /\ \A h \in Hubs : worker[h] # "starting"

(***************************************************************************)
(* The shutdown (app.py:58) leaves nothing half made: every hub in the     *)
(* tree was accepted by the NMS and was connected, or could not be         *)
(* started, and every worker that still runs is that of a hub in the tree, *)
(* whatever was being made or rolled back when the signal came.            *)
(***************************************************************************)
NothingHalfMade ==
  phase = "stopped" =>
    /\ \A h \in TreeHubs : worker[h] = "none" \/ h \in registered \cap connected
    /\ RunningHubs \subseteq TreeHubs

=============================================================================
