----------------------------- MODULE HubWorkers -----------------------------
(***************************************************************************)
(* The hub worker processes as receivers of commands (worker.py) and the   *)
(* tags that route the commands to them (worker_api.py).  send_to_ap of    *)
(* the controller, which nothing calls yet, may publish any of them.  A    *)
(* worker subscribes to the tag of its hub, so it gets every command whose *)
(* tag starts with it, and it does not look at the address of a command.   *)
(***************************************************************************)
EXTENDS Integers, Sequences, SequencesExt

CONSTANTS
  Nets,        \* indices of networks
  HubIndices,  \* indices of hubs
  HighWater    \* what a SUB socket queues (RCVHWM)

\* The weights of the hex digits of an index, the last one first; Shifts are
\* those that leave at least two of five digits.
Weights == <<1, 16, 256, 4096, 65536>>
MaxIndex == 1048575
Shifts == {16, 256, 4096}

ASSUME IndicesAssumption ==
  /\ Nets \subseteq Nat
  /\ HubIndices \subseteq Nat
  /\ \A i \in Nets \cup HubIndices : i =< MaxIndex
  /\ HighWater \in Nat

VARIABLES
  status,     \* where each worker's read loop is
  subscribed, \* workers whose subscription the publisher knows
  queue       \* the commands in each worker's SUB socket

vars == <<status, subscribed, queue>>

\* A worker is known by its address, and a command by the hub it is for.
Workers == [net : Nets, hub : HubIndices]

\* The message types that a worker tells apart.
Kinds == {"ap_register_req", "other", "undecodable"}

Commands == [to : Workers, kind : Kinds]

-----------------------------------------------------------------------------
\* Wrong: tags without the leading zero.
CoversUnpadded(w, a) ==
  /\ w.net = a.net
  /\ w.hub = a.hub \/ \E s \in Shifts : w.hub >= 1 /\ a.hub \div s = w.hub

(***************************************************************************)
(* The tag of w is a prefix of the tag of a.  Indices are written with two *)
(* hex digits at least, a letter ends those of the network, and digits may *)
(* follow those of the hub.                                                *)
(***************************************************************************)
Covers(w, a) ==
  /\ w.net = a.net
  /\ w.hub = a.hub \/ \E s \in Shifts : w.hub >= 16 /\ a.hub \div s = w.hub

\* Wrong: the socket queues without bound.
PublishUnbounded(c) ==
  /\ queue' = [w \in Workers |->
                 IF w \in subscribed /\ Covers(w, c.to)
                   THEN Append(queue[w], c)
                   ELSE queue[w]]
  /\ UNCHANGED <<status, subscribed>>

\* send_to_ap, with no caller to say what is sent: any command.  The PUB socket
\* drops what nobody subscribes to and what no longer fits.
Publish(c) ==
  /\ queue' = [w \in Workers |->
                 IF w \in subscribed /\ Covers(w, c.to)
                      /\ Len(queue[w]) < HighWater
                   THEN Append(queue[w], c)
                   ELSE queue[w]]
  /\ UNCHANGED <<status, subscribed>>

\* The subscription arrives by a connection of its own, before or after the
\* HubConnectInd.
Subscribe(w) ==
  /\ subscribed' = subscribed \cup {w}
  /\ UNCHANGED <<status, queue>>

\* The read loop starts, once the HubConnectInd is sent.
Connect(w) ==
  /\ status[w] = "starting"
  /\ status' = [status EXCEPT ![w] = "reading"]
  /\ UNCHANGED <<subscribed, queue>>

\* Wrong: the exception leaves the read loop.
ProcessRegisterReqUncaught(w) == status' = [status EXCEPT ![w] = "ended"]

(***************************************************************************)
(* process_register_req raises before its first POST: it multiplies        *)
(* address.ap, which a hub worker does not have.                           *)
(***************************************************************************)
ProcessRegisterReq(w) == status' = [status EXCEPT ![w] = "sleeping"]

ExecuteCommand(w, c) ==
  IF c.kind = "ap_register_req" THEN ProcessRegisterReq(w) ELSE UNCHANGED status

\* One turn of the read loop; decode_message returns None for what it cannot
\* decode.
Read(w) ==
  /\ status[w] = "reading"
  /\ queue[w] # <<>>
  /\ queue' = [queue EXCEPT ![w] = Tail(@)]
  /\ IF Head(queue[w]).kind = "undecodable"
       THEN UNCHANGED status
       ELSE ExecuteCommand(w, Head(queue[w]))
  /\ UNCHANGED subscribed

\* asyncio.sleep(1) after an exception is over.
Wake(w) ==
  /\ status[w] = "sleeping"
  /\ status' = [status EXCEPT ![w] = "reading"]
  /\ UNCHANGED <<subscribed, queue>>

Init ==
  /\ status = [w \in Workers |-> "starting"]
  /\ subscribed = {}
  /\ queue = [w \in Workers |-> <<>>]

Next ==
  \/ \E c \in Commands : Publish(c)
  \/ \E w \in Workers : Subscribe(w) \/ Connect(w) \/ Read(w) \/ Wake(w)

Spec == Init /\ [][Next]_vars

\* A process that was started runs and its timers end.
FairSpec ==
  /\ Spec
  /\ \A w \in Workers :
       WF_vars(Connect(w)) /\ WF_vars(Read(w)) /\ WF_vars(Wake(w))

-----------------------------------------------------------------------------
TypeOK ==
  /\ status \in [Workers -> {"starting", "reading", "sleeping"}]
  /\ subscribed \subseteq Workers
  /\ queue \in [Workers -> Seq(Commands)]
  /\ \A w \in Workers : Len(queue[w]) =< HighWater

(***************************************************************************)
(* Routing by prefix is routing by hub as long as hubs have two hex        *)
(* digits: a worker gets no command for a hub other than its own, unless   *)
(* that hub's index is 256 or more.                                        *)
(***************************************************************************)
OwnCommandsOnly ==
  \A w \in Workers : \A i \in DOMAIN queue[w] :
    queue[w][i].to.hub < 256 => queue[w][i].to = w

(***************************************************************************)
(* No command ends or blocks a worker's read loop, whatever its handler    *)
(* raises (worker.py:181): the worker always reads again.                  *)
(***************************************************************************)
ReadLoopSurvives == \A w \in Workers : []<>(status[w] = "reading")

\* An index is written with two hex digits, or with as many as it has.
Width(i) ==
  CHOOSE n \in 2 .. 5 : i < 16 * Weights[n] /\ (n = 2 \/ i >= Weights[n])

Hex(i) ==
  LET n == Width(i)
  IN  [k \in 1 .. n |-> (i \div Weights[n - k + 1]) % 16]

\* The letters N and H of a tag.
LetterN == 16
LetterH == 17

\* f"N{net:02x}H{hub:02x}"
Tag(a) == <<LetterN>> \o Hex(a.net) \o <<LetterH>> \o Hex(a.hub)

(***************************************************************************)
(* A published command gets to the subscribers whose tag is a prefix of    *)
(* its own, as the comparison of strings in SUB has it: comparing indices  *)
(* (Covers) says the same.                                                 *)
(***************************************************************************)
RoutedByTag ==
  [][\A c \in Commands : Publish(c) =>
       \A w \in Workers :
         queue'[w] # queue[w] <=>
           /\ w \in subscribed
           /\ Len(queue[w]) < HighWater
           /\ IsPrefix(Tag(w), Tag(c.to))]_vars

=============================================================================
