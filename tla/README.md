# Verification of the network simulator

This directory specifies the network simulator in TLA+, checks the specifications with TLC on small
instances and proves theorems about them with TLAPS for instances of any size. The reference is the
code; paths below are those of the repository (`src/controller/managers.py` is `managers.py`, and so
on).

## 1. The system

The simulator is one **controller** process (FastAPI on one asyncio event loop) and one **worker**
process per hub. Clients create and delete networks, hubs and APs over REST; the controller registers
networks and hubs with an external **NMS** by HTTP; workers report to the controller over ZeroMQ.

| Component | State | Operations | Interacts with |
|---|---|---|---|
| Node tree (`ControllerNode`) | a dictionary from index to child, per node | `get_index`, insertion, `get_child_or_404`, `remove_child` | all managers |
| Network and hub managers (`managers.py`, `routes_network.py`, `routes_hub.py`) | the tree, each hub's address, process and event | `add_network`, `add_hub`, `remove_*`, `start_worker`, `stop_worker`, `__del__`, `on_connect_ind` | NMS (POST), workers (Popen, terminate), listener (event) |
| AP and RT managers (`managers.py`, `routes_ap.py`) | APs of a hub, RTs of an AP, heartbeats | `add_ap`, `remove_ap` | hub managers |
| Listener (`worker_ctrl.py`) | the task, the PULL socket | `listener`, `handle_hub_connect_ind`, `handle_ap_register_ind`, `send_to_ap` | workers (messages), tree (`get_node`) |
| Lifespan (`app.py`) | sockets, listener task | set-up, cancel, teardown | listener |
| Hub worker (`worker.py`, `worker_api.py`) | address, sockets | `HubConnectInd` at start, read loop, AP registration | controller (PUB/SUB, PUSH/PULL), NMS |
| NMS client models (`api_nms.py`), request models (`api.py`), configuration (`config.py`) | none | none | |
| Accelerated nodes (`accel/src`) | an AP's set of RTs, an RT's pointer, reference counts | `add_rt`, `remove_rt`, property reads | Python through pybind11 |

**What is hard.** There are no threads, but a create request is suspended up to three times (POST of
the network, wait for the worker, POST of the hub) and everything else runs in between. Three things
make this delicate:

* indices are the lowest free ones, so an index picked before a suspension may name another node
  after it (`managers.py:324`, `336`, `345`);
* a worker's message carries an address and not an identity, so it is delivered to whatever has that
  address when the listener handles it, and an address that does not resolve ends the listener for
  good (`worker_ctrl.py:41`);
* a worker is stopped only when Python drops the last reference to its hub (`managers.py:283`), and
  suspended requests and tracebacks hold references.

To these come the failures: a refused or lost POST, a `Popen` that raises, a process that dies before
it connects (nobody notices, and the wait has no timeout) or that outlasts the five seconds of
`stop_worker`. `PROJECT.json` lists each hazard at its line with the properties that cover it.

**What makes the components correct.** The tree: a node is where its address says, and no occupied
slot is overwritten. `add_hub`: it waits for its own worker, rolls back its own hub and returns the
index of its own hub, and leaves no half-made hub. Workers: none runs without a hub, and every hub has
one. Listener: it outlives every message. Requests: each is answered. Accelerated nodes: pointers are
consistent and nothing that was detached leaks.

## 2. Modules

| Module | Models | Extends |
|---|---|---|
| `NodeTree` | children dictionaries: functions from a finite set of naturals to nodes | |
| `Controller` | the controller with its workers and its listener, and every client; implements `HubRegistry` | `NodeTree` |
| `HubLifecycle` | abstract: what the REST API promises of networks, hubs and their workers, with no requests, messages or event loop | |
| `HubRegistry` | abstract: what the REST API promises to every client, also to one that deletes what is being made | |
| `PoliteController` | the same controller with clients that await the answer of a POST before they delete what it makes; the promises that then hold; implements `HubLifecycle` | `Controller` |
| `Lifespan` | the controller told to terminate: requests drain, then the sockets are closed | `PoliteController` |
| `ApIndices` | abstract: the APs of a hub as the set of their indices | `NodeTree` |
| `ApTree` | the APs of a hub with their RTs and heartbeats; implements `ApIndices` | `NodeTree` |
| `HubWorkers` | the workers as receivers of commands: tags, subscriptions, the read loop | |
| `AccelNodes` | the C++ nodes and their life time | |
| `MCController`, `MCPoliteController`, `MCLifespan`, `MCApTree`, `MCHubWorkers`, `MCAccelNodes` | instances for TLC, with symmetry sets where a run uses one | the specification they are named after |
| `NodeTreeProofs` | lemmas about dictionaries and `get_index` | `NodeTree`, `TLAPS` |
| `ControllerProofs`, `PoliteProofs`, `ApTreeProofs`, `HubWorkersProofs`, `AccelProofs` | theorems | the module they are about, `TLAPS` |
| `RegistryProofs` | theorems: what the controller refers to, and the refinement of `HubRegistry` | `ControllerProofs` |
| `LifecycleProofs` | theorems: the refinement of `HubLifecycle`, and the shutdown | `Lifespan`, `PoliteProofs` |

`ApTree` and `HubWorkers` are composed with the controller only through what they share: `Controller`
keeps the indices of a hub's APs and gives out the k lowest free ones at once, which is what `ApTree` is
shown to implement with one `get_index` at a time; and a worker's crash and end are in `Controller`,
while what it does with commands is in `HubWorkers`, because the controller sends none yet.

An operator introduced by "Wrong" in a comment is a plausible bug and no part of the specification: it
shows, put in the place of the definition after it, that a property can fail.

### Controller

One action is the code that one task runs between two suspensions, with all it calls. `task[r]` holds
the local variables of a create request `r` and the place where it is suspended:

    idle -> netPost -> connect -> hubPost -> answered        POST /network
    idle ->            connect -> hubPost -> answered        POST /network/i/hub
                                  hubPost -> failing -> answered

A network request with several hubs passes through `connect` and `hubPost` for each of them.

| Action | Code |
|---|---|
| `CreateNetwork`, `NetworkPosted`, `NetworkRefused` | `add_network` before and after its POST, with the index picked after it |
| `CreateHub`, `BeginHub` | `add_hub` up to the wait in `start_worker`; `Popen` may raise, which answers 500 |
| `HubConnected` | the event is set, `add_hub` goes on to its POST |
| `HubPosted`, `NextHub` | the NMS accepted the hub: APs, return, and the next hub of the loop of `add_network` |
| `HubRefused`, `RequestFails` | the rollback, and the exception leaving `add_hub` when the HTTP client has closed |
| `DeleteNetwork`, `DeleteHub`, `CreateAp`, `DeleteAp` | the other routes; they never suspend |
| `WorkerConnects`, `WorkerCrashes`, `WorkerDies` | a worker process |
| `ListenerHandles` | one turn of the listener: `HandleHubConnectInd` with `get_node` and `on_connect_ind`, or `ListenerEnds` when it raises |

Conventions:

* `Networks` and `Hubs` are the manager objects. An object is fresh until a constructor returns it, and
  is never reused, so their number bounds how many are ever made. A hub stands for its auid and its
  process too.
* `Finalize` is `HubManager.__del__`: CPython counts references, so the workers of all hubs whose last
  reference a step drops are stopped within that step. The references are those of the tree, of the
  frames of suspended requests, and of the traceback of a dead listener (`pinned`). Garbage cycles
  that would delay a destructor are assumed away: the code creates none.
* A POST may be accepted, refused, or accepted with its answer lost. Statuses are told apart as 201,
  502 (the handlers' own) and 500 (anything that escapes).
* 404 answers and GET routes change nothing and are no actions. `get_index` with a requested index and
  `send_to_ap` have no callers. `handle_ap_register_ind` is never reached, because no worker gets as far
  as sending an `APRegisterInd` (`worker.py:96` raises).
* A worker's message is in `inbox` from the moment it is sent until the listener handles it. ZeroMQ
  keeps no order between workers, so `inbox` is a set; each worker sends once. ZeroMQ does not lose it:
  a PUSH socket queues until the controller's PULL socket receives.

### PoliteController

`PoliteNext` is `Next` with the two deletions guarded by "no suspended request works on it". The guard
is an assumption on clients, not on the controller: the code enforces nothing of the kind. It separates
what the code guarantees to everybody (`Controller`) from what is claimed for such clients only. That
the assumption is needed is shown for three of these promises, by runs that violate them without it:
`ListenerSurvives`, `WaitsForOwnWorker` and `DeleteStopsWorker`. The others (`RollbackFindsHub`,
`BusyHubStays`, `CreatedHubAtIndex`, `NoRequestStranded`, `ImplementsLifecycle`) are claimed for polite
clients, and no run says what becomes of them with others.

### HubRegistry

The promise to clients that delete whatever they like: what appears gets the lowest index that is free
where it appears, and keeps it; a step takes at most one hub out of sight, or one network with all its
hubs; what is gone does not come back. A request that makes hubs in a network that was deleted meanwhile
makes hubs that nobody sees (`AddUnseen`). `held` is what the controller refers to: it contains what
clients can see, it grows by new hubs only, and a worker runs if and only if its hub is held and its
process was started and has not crashed (`Hold`). `Controller` implements it (`ImplementsRegistry`) with
`HeldHubs` for `held` and, for the rest, the mapping of the next table. Hubs cease to be held by deletions,
by rollbacks and when a request ends.

### HubLifecycle

The promise: a network or a hub gets the lowest free index and keeps it; a hub is being made, then kept
or given up by the request that makes it; only what is kept is deleted, whole; what is deleted or given
up never comes back, and what is deleted has no worker from then on; a worker runs only for a hub that
was begun. A worker may crash at any time, so `running` may always shrink. `PoliteController` implements
it (`ImplementsLifecycle`) under this mapping:

| `HubLifecycle` | `Controller` |
|---|---|
| `networks` | `DOMAIN nms` |
| `fresh` | `FreshHubs`: the hub objects that no constructor has returned |
| `present` | `TreeHubs`: the hubs of the networks in the tree |
| `making` | the hubs of the requests that wait for a worker or for the POST of a hub |
| `place` | `address` |
| `running` | the hubs whose process is starting or up |

A step may do several things at once, and the abstract actions say which belong together: the POST of a
hub ends and the same request begins the next hub of its network (`Finish` with `Begin`), a `Popen` that
raises keeps the hub and drops its request (`Begin`, second disjunct). The POST of a network until the
NMS has accepted it, messages, the listener's turns, APs, and the exception that leaves a request after
its rollback are stutters. It is no promise to clients that
delete hubs that are being made.

### Lifespan

`phase` is `serving`, `draining` or `stopped`. uvicorn (external, started in `main.py` without a
graceful-shutdown timeout) takes no request after the signal and waits for those in flight; `Teardown`
is the end of `lifespan` (`app.py:58`), which cancels the listener and closes the sockets
(`TeardownZmq`; what is in the PULL socket then is lost). Workers run on
(`Outlive`). The set-up ends before the first request and is the initial state. What the exit of the
interpreter does to the hubs that are left is not modelled.

### ApTree and ApIndices

`children` maps the index of an AP to its heartbeat and those of its RTs. `HubPosted` is the loop at the
end of `add_hub`, written as a recursive function; it may find APs that clients made before. A network
request reaches it through `HubRequestOf`, which shows what `add_network` does not pass on.
`ImplementsApIndices` is `Spec` of `ApIndices` with `aps` mapped to `DOMAIN children`: n turns of the
loop, each picking the lowest free index of what the turn before it left, take the n lowest at once.

### HubWorkers

| Action | Code |
|---|---|
| `Publish` | `send_to_ap`; it has no caller, and as it is it would raise (an `APManager` has no `_tag`), so the action is what any caller could make of it: any command for any hub may be published |
| `Subscribe` | external: the connection of a SUB socket |
| `Connect` | the read loop begins when the `HubConnectInd` is sent |
| `Read` | one turn: `recv_string`, `decode_message`, `execute_command`, `process_register_req` up to `worker.py:96`, which raises for every hub worker, so that the worker sleeps |
| `Wake` | the end of that sleep |

A tag is compared through the indices in it (`Covers`); `Tag` spells it out, digit by digit as the
format `02x` does (`Width`, `Hex`), and `RoutedByTag` holds one against the other. A PUB socket drops
what finds no subscriber or a full queue, so `HighWater` (1000 in ZeroMQ) is behaviour and not only a
bound.

### AccelNodes

Each action is one call from Python. `Survivors` is reference counting: the largest set of nodes each
of which is held by Python or by another survivor. Random ids and assignments to `rts` and `ap` from
Python are left out; the first tell nothing apart, and the second promise nothing.

## 3. Runs

| Run | Checks | Instance |
|---|---|---|
| `Controller_safety` | `TypeOK`, `TreeInv`, `AddressResolves`, `SettledHubRegistered`, `QuiescentWorkersInTree`, `NoWorkerStoppedEarly`, `SlotsNotOverwritten`, `RequestsAdvance`, the refinement `ImplementsRegistry` and the inductive `HoldersInv`, for any clients | 2 networks, 3 hubs, 3 creates, networks with 0 or 2 hubs; 678 000 states |
| `Polite_safety` | `ListenerSurvives`, `WaitsForOwnWorker`, `NoRequestStranded`, `RollbackFindsHub`, `BusyHubStays`, `DeleteStopsWorker`, `CreatedHubAtIndex`, the refinement `ImplementsLifecycle` and the inductive `PoliteInv`, with crashes and APs | 2 networks, 3 hubs, 2 creates, networks with 0 to 2 hubs, 1 AP; 433 000 states |
| `Lifespan_liveness` | `EveryCreateAnswered`, `StrayWorkerExits`, `ShutdownCompletes`, `NothingUnread`, `NothingHalfMade`, with crashes | 2 networks, 2 hubs, 2 creates, networks with 0 to 2 hubs; 81 000 states |
| `Ap_tree` | `TypeOK`, `ImplementsApIndices`, `ApsNotOverwritten` | at most 4 APs, 0 or 2 at a time with 0 or 2 RTs, 2 heartbeats; 1 250 states |
| `Hub_workers` | `TypeOK`, `OwnCommandsOnly`, `RoutedByTag`, `ReadLoopSurvives` | hubs 1, 16 and 256, one command queued; 4 508 states |
| `Accel_nodes` | `TypeOK`, `PointerOwned`, `LeaksArePairs` | 2 APs, 2 RTs; 152 states |
| `Rude_listener`, `Rude_worker`, `Rude_delete` | `ListenerSurvives`, `WaitsForOwnWorker`, `DeleteStopsWorker`, violated by clients that delete what is being created | 2 of each |
| `Process_per_hub` | `OneProcessPerHub`, violated when `Popen` raises, whatever the clients do | 2 of each |
| `Nms_failure` | `NmsFailureIs502`, violated by a transport error of the POST of a network | 2 of each |
| `Ap_heartbeat` | `RtHeartbeatRequested`, violated by a request with two different heartbeats | 1 AP |

**Bounds.** `Networks`, `Hubs` and `Requests` bound what is made and asked, `MaxAps` the APs that
clients add to a hub, `HubCounts` and `ApCounts` the sizes of requests. Three hubs and three creates are
needed for the index hazards: one hub at index 0, one that a request is making at index 1, and after a
deletion a third that competes for an index (a `get_index` that counts children is caught only with
three); a network of two hubs brings them about with two creates, as in `Polite_safety`. Two networks
let a network be deleted and its index reused while a request still fills the old one. Networks, hubs
and requests are interchangeable, so the safety runs use their permutations; the liveness run uses none.
`Controller_safety` has no crashes: to the controller, which does not poll its workers, a worker that
crashed looks like one that is slow. The hubs 1, 16 and 256 have the tags `H01`, `H10` and `H100`: one
that would be a prefix if tags were not padded, and one that is.

**Deadlock** is not checked: clients may stop sending requests, and in the instances the objects run out.

**Fairness** (`Fairness` in `Controller`). Weak fairness for each step of a suspended request, because
the event loop resumes a task whose wait is over and `HTTPX_TIMEOUT` ends every POST one way or the
other; for the connection of a started process and the end of a terminated one, because the operating
system runs them; and for the listener, because `recv` returns what is queued. No fairness for requests
that arrive, deletions and crashes. The choice between success and failure of a POST is not fair.
Workers may crash in `Lifespan_liveness`. As the wait for a worker has no timeout, a worker that crashes
before its `HubConnectInd` is sent strands the request that waits for it (`Stranded`), and a shutdown
with it, which waits for that request. `EveryCreateAnswered` and `ShutdownCompletes` name this exception
and no other: a crash strands no other request, nor does one that comes after the message. The end of a
terminated process, in `StrayWorkerExits`, is the fairness of `WorkerDies`; what the property says of
the code is that every worker outside the tree is told to terminate in the end. `Lifespan` adds weak
fairness of `Teardown`, because uvicorn shuts down once it is drained, and none of the signal.
`HubWorkers` has weak fairness of a worker's own steps, and none of what is published.

**What the violations show.** A hub may be deleted while its request waits for its worker. Then the
request keeps the hub and its worker running (`Rude_delete`), and the worker's message no longer
resolves and ends the listener (`Rude_listener`), after which no hub can be created until a restart. If
another create takes the index first, the old worker's message wakes the wrong request
(`Rude_worker`). The other three need no deletion: a failed `Popen` leaves a hub without process
(`managers.py:327`), the handler of a transport error raises `AttributeError` (`managers.py:403`), and
RTs get the heartbeat of their AP whatever is asked (`managers.py:213`).

One limit shows in a passing run: `OwnCommandsOnly` exempts hubs from index 256 on, since the worker of
hub 16 does receive the commands for hubs 256 to 271.

## 4. Proofs

TLAPS checks every theorem for any sets of networks, hubs, requests, workers, APs and RTs, under the named
assumptions of the modules (`NodesAssumption`: `None` is no node and the hubs are finitely many;
`CountsAssumption`: counts are naturals; `IndicesAssumption`: indices are naturals of at most five hex
digits; `NodesDistinct`). Finiteness of the hubs and of every
dictionary is what makes a free index exist.

| Theorem | States |
|---|---|
| `TreeInvariance`, `TypeCorrect`, `AddressesResolve` | `Spec => []TreeInv`, `[]TypeOK`, `[]AddressResolves` |
| `SlotsKept` | `Spec => SlotsNotOverwritten` |
| `HoldersInvariance`, `HubsSettled`, `NoWorkerLost` | `Spec => []HoldersInv`, `[]SettledHubRegistered`, `[]QuiescentWorkersInTree` |
| `RequestsProgress` | `Spec => RequestsAdvance` |
| `HeldWorkersKept`, `RegistryImplemented` | `Spec => []NoWorkerStoppedEarly`, `Spec => ImplementsRegistry` |
| `PoliteInvariance` | `PoliteSpec => [](PoliteInv /\ TreeInv)` |
| `ListenerNeverDies`, `WorkerFirst`, `RequestsAwaken`, `RollbackIsSound` | `PoliteSpec => []ListenerSurvives`, `[]WaitsForOwnWorker`, `[]NoRequestStranded`, `[]RollbackFindsHub` |
| `BusyHubsStay`, `CreatedHubsAtIndex`, `DeletedWorkersStop` | the three action properties, for polite clients |
| `LifecycleImplemented` | `PoliteSpec => ImplementsLifecycle` |
| `ShutdownLosesNothing`, `ShutdownLeavesNothingHalfMade` | `LifeSpec => []NothingUnread`, `[]NothingHalfMade` |
| `ApsStayTyped`, `ApIndicesImplemented`, `ApsKept` | `Spec => []TypeOK`, `ImplementsApIndices`, `ApsNotOverwritten` for the APs of a hub |
| `WorkersStayTyped`, `CommandsReachOwnHub`, `RoutedByTags` | `Spec => []TypeOK`, `[]OwnCommandsOnly`, `RoutedByTag` for the workers |
| `HeldNodesLive`, `PointersOwned`, `OnlyPairsLeak` | `Spec => []TypeOK`, `[]PointerOwned`, `[]LeaksArePairs` for the accelerated nodes |

*The tree.* `AddressResolves` is not inductive: a network that was deleted can still be filled by a
suspended request, and objects that were never made must not be in the tree. `TreeInv` adds that
addresses match in every network, in the tree or not (`HubsPlaced`), that networks not yet made are empty
(`FreshNetworksEmpty`) and that requests work on objects that were made (`TasksMade`). One lemma per
action shows that it preserves `TreeInv`; `NodeTreeProofs` gives the facts about dictionaries, above all
`GetIndexFree`: the `CHOOSE` of `GetIndex` finds an index, by counting, and finds the lowest.

*References.* `SettledHubRegistered` and `QuiescentWorkersInTree` speak of the tree and of idle moments
only, but a destructor runs whenever the last reference goes. `HoldersInv` follows the references at all
times: every running worker has a holder (`RunningHeld`), the request that starts it or the tree; a hub
is in one network, that of its request, so one deletion drops all references of the tree to it
(`HubsInOneNetwork`, `RequestsHold`); a request that waits for the POST of its hub has seen it connect,
and one that fails has already taken it out, so a request that ends leaves a settled hub or none; and
hubs are settled in networks that left the tree too, because a suspended request goes on filling them.

*What is dropped.* A hub that lost its last reference is never reached again. `HoldsNothingOld` says so
step by step: each place that can hold a hub or a network (the tree, a dictionary of hubs, a request,
the traceback) holds afterwards what something held before, or what no constructor had returned;
`NothingRevived` adds that a new network is empty, so that it revives no hubs either. Together with
`StopsDroppedOnly`, that only the hubs a step drops are terminated, this gives `HeldWorkersKept`. The
refinement of `HubRegistry` rests on the same fact: `HeldAfter` bounds what a step holds, `FinalizeRuns`
turns `Finalize` into "the workers of the hubs that are held", and one lemma per action matches it with an
action of `HubRegistry`. The delicate one is `HubRefusedRegisters`: a rollback after rude deletions may
remove another hub than its own, a hub of a network that has left the tree, or nothing.

*Requests.* `StepsLeft` counts the suspensions before the answer of a request; `RequestsProgress` shows
that each of its steps lowers the count, and `RequestsAwaken` that under polite clients a request that
waits for its worker will be woken unless that worker crashes. Both together are the part of
`EveryCreateAnswered` that needs no fairness. `NoRequestStranded` is not inductive, as it
speaks of the tree and the listener; `WaitingWakes` is, which leaves both to `PoliteInv`.

*Polite clients.* `PoliteInv` is what excludes the violations: every worker that has yet to connect, or
whose message waits, is awaited by the request that started it (`AwaitedWorkers`); that request's hub is
in the tree at its address (`BusyHubsInTree`), so the listener finds it; no two requests make the same
hub (`OwnHubs`), so nobody else's rollback removes it; and an event is set only for a hub whose worker
connected (`ConnectedOnce`). It is inductive relative to `TreeInv`.

*The life of hubs.* The three invariants together (`KnownInv`) make every step of `PoliteController` a
step of `HubLifecycle` or a stutter, one lemma per action. `AddressResolves` turns "the index of the
tree" into "the place of the hub", `GetIndexLowest` the pick of `get_index` into `Lowest`, `OwnHubs` the
end of one request into the loss of exactly its own hub from `making`, and `HoldersInv` shows that what
a deletion removes has no other holder, so that no worker of it is left; `DeleteStopsWorker` follows
from the same lemma.

*Shutdown.* `NothingUnread` follows from `PoliteInv`: who has yet to connect, or whose message waits, is
awaited by a request in flight, and `Teardown` waits for all of these. `LifeInv` is inductive: it keeps
`HoldersInv` and `PoliteInv` until the sockets are closed, and afterwards `TreeInv` and that no worker is
starting, so that `Outlive` only ends workers. `NothingHalfMade` follows from `HoldersInv`: once no request
is in flight, nothing but the tree refers to a hub, and every hub in it is settled. Awaiting only the
requests that wait for a worker would do for `NothingUnread`, not for this.

*APs of a hub.* The loop of `add_hub` is a recursive function, and its theorem an induction over the
turns. The induction theorems of the library cannot be used by the provers here, since they take an
operator, so both inductions are arguments by a least counterexample: `LeastNatural` finds the least
element of a set of naturals, by the finiteness of what is below it. `AddApsLoop` shows that the
recursive function exists; `LowestFreeByRank` and `LowestNext`, that the lowest free index once the k
lowest are taken is the one of rank k + 1, by counting the free indices below; `AddApsDict`, that n turns
therefore take the n lowest and leave every other AP alone.

*Workers.* The lemma `TwoDigitsCovered` says that below 256 no index but itself is covered; queues then
hold only what `Publish` let in. For `RoutedByTag`, `TagOf` gives a tag position by position and
`TagPrefix` compares two of them: the letter after the network's digits is no digit, so equal prefixes
have networks of equal width and hence equal networks; `PrefixCovers` then shows, for each pair of widths,
that the digits of one hub begin those of another exactly when dividing by a power of 16 yields it.

*Accelerated nodes.* The pointers are owned because releasing nodes breaks none: `SurvivorsKept` shows
that an RT that survives keeps the AP it points to. `PointerInv` adds that every node alive is held by
Python or by another one alive (`Supported`) and that destroyed RTs point nowhere (`Cleared`); then a
leaked node has a leaked holder, and that holder and its own are an AP and an RT that point to each
other.

**Only model-checked.** The liveness properties `EveryCreateAnswered`, `StrayWorkerExits`,
`ShutdownCompletes` and `ReadLoopSurvives`: fairness and ENABLED are outside this prover. Every
other property of a passing run is a theorem, and so are the invariants behind
`EveryCreateAnswered` (see *Requests*). No module declares a RECURSIVE operator.

## 5. Not modelled

- *A restart of the controller.* It persists nothing and recovers nothing: the tree is built empty at
  import (`managers.py:473`). `NothingUnread` shows that after an orderly shutdown no old message
  reaches the next controller on the same port; after a kill the code promises nothing.
- *The exit of the interpreter*, which may or may not run `__del__` of the hubs that are left; that order
  is the interpreter's and not the program's.
- *AP registration behind `worker.py:96`*, which raises for every hub worker: the three POSTs, the
  `APRegisterInd`, and the listener's branch for it, which would itself raise, as `APManager` has no
  `on_register` (`worker_ctrl.py:53`).
- *`send_to_ap` and `get_index` with a requested index*, which have no caller; the errors of
  `check_hierarchy`, which no caller provokes; set-up, which ends before the first request.
- *Data classes, configuration, experiments, templates and images*: they have no state that changes.

## 6. Plan

Done: every component above with its runs, the abstract specifications `ApIndices`, `HubRegistry` and
`HubLifecycle` with their refinements, and a proof of every property that is not liveness. Left:

1. When the controller sends commands: `HubWorkers` composed with `Controller`, AP registration behind
   `worker.py:96`, and the listener's branch for its answer.
2. When shutdown stops workers in the program's own code rather than in `__del__` at interpreter exit:
   which workers are terminated and which are orphaned, in `Lifespan`.
