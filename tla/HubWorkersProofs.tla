-------------------------- MODULE HubWorkersProofs --------------------------
(***************************************************************************)
(* Proofs that commands for the hubs with two-digit tags reach only their  *)
(* own workers, and that comparing indices is comparing tags, whatever the *)
(* workers, the queues and the commands.                                   *)
(***************************************************************************)
EXTENDS HubWorkers, SequenceTheorems, TLAPS

(***************************************************************************)
(* A hub index below 256 is a prefix of no other: dividing it by a shift   *)
(* leaves less than 16.                                                    *)
(***************************************************************************)
LEMMA TwoDigitsCovered ==
  ASSUME NEW w \in Workers, NEW a \in Workers, a.hub < 256, Covers(w, a)
  PROVE  a = w
<1>1. w.net \in Int /\ w.hub \in Int /\ a.hub \in Nat
  <2>1. w.net \in Nets /\ w.hub \in HubIndices /\ a.hub \in HubIndices
    BY DEF Workers
  <2>2. Nets \subseteq Nat /\ HubIndices \subseteq Nat
    BY IndicesAssumption
  <2>3. w.net \in Nat
    BY <2>1, <2>2
  <2>4. w.hub \in Nat
    BY <2>1, <2>2
  <2>5. a.hub \in Nat
    BY <2>1, <2>2
  <2> QED
    BY <2>3, <2>4, <2>5
<1>2. w.net = a.net
  BY DEF Covers
<1>3. a.hub \div 16 < 16 /\ a.hub \div 256 < 16 /\ a.hub \div 4096 < 16
  BY <1>1, SMT
<1>4. w.hub = a.hub
  BY <1>1, <1>3, SMT DEF Covers, Shifts
<1> QED
  BY <1>2, <1>4 DEF Workers

OwnCommandsInv == TypeOK /\ OwnCommandsOnly

(***************************************************************************)
(* The inductive invariant: the state is well typed, queues included, and  *)
(* every queue holds only commands for the own hub of the worker, or for   *)
(* hubs from index 256 on.                                                                     *)
(***************************************************************************)
LEMMA OwnCommandsInvariance == Spec => []OwnCommandsInv
<1>1. Init => OwnCommandsInv
  <2> SUFFICES ASSUME Init PROVE TypeOK /\ OwnCommandsOnly
    BY DEF OwnCommandsInv
  <2>1. /\ \A w \in Workers : queue[w] = <<>>
        /\ queue \in [Workers -> Seq(Commands)]
    BY DEF Init
  <2>2. \A w \in Workers : Len(queue[w]) =< HighWater
    BY <2>1, IndicesAssumption
  <2> QED
    BY <2>1, <2>2 DEF Init, TypeOK, OwnCommandsOnly
<1>2. OwnCommandsInv /\ [Next]_vars => OwnCommandsInv'
  <2> SUFFICES ASSUME OwnCommandsInv, [Next]_vars
               PROVE  OwnCommandsInv'
    OBVIOUS
  <2> USE DEF OwnCommandsInv, OwnCommandsOnly
  <2>1. ASSUME NEW c \in Commands, Publish(c)
        PROVE  OwnCommandsInv'
    <3>1. queue' \in [Workers -> Seq(Commands)]
      BY <2>1 DEF Publish, TypeOK
    <3>2. ASSUME NEW w \in Workers, NEW i \in DOMAIN queue'[w],
                 queue'[w][i].to.hub < 256
          PROVE  queue'[w][i].to = w
      <4>1. CASE queue'[w] = queue[w]
        BY <4>1, <3>2
      <4>2. CASE queue'[w] = Append(queue[w], c) /\ Covers(w, c.to)
        <5>1. queue[w] \in Seq(Commands) /\ c.to \in Workers
          BY DEF TypeOK, Commands
        <5>2. CASE i \in DOMAIN queue[w]
          BY <4>2, <5>1, <5>2, <3>2, AppendProperties
        <5>3. CASE i = Len(queue[w]) + 1
          BY <4>2, <5>1, <5>3, <3>2, TwoDigitsCovered
        <5> QED
          BY <4>2, <5>1, <5>2, <5>3, <3>2
      <4> QED
        BY <2>1, <4>1, <4>2 DEF Publish
    <3>3. ASSUME NEW w \in Workers
          PROVE  Len(queue'[w]) =< HighWater
      <4>1. queue[w] \in Seq(Commands) /\ Len(queue[w]) =< HighWater
        BY DEF TypeOK
      <4>2. CASE queue'[w] = queue[w]
        BY <4>1, <4>2
      <4>3. CASE queue'[w] = Append(queue[w], c) /\ Len(queue[w]) < HighWater
        <5>1. Len(queue'[w]) = Len(queue[w]) + 1 /\ Len(queue[w]) \in Nat
          BY <4>1, <4>3, AppendProperties, LenProperties
        <5> QED
          BY <4>3, <5>1, IndicesAssumption
      <4> QED
        BY <2>1, <4>2, <4>3 DEF Publish
    <3>4. TypeOK'
      BY <2>1, <3>1, <3>3 DEF Publish, TypeOK
    <3> QED
      BY <3>2, <3>4
  <2>2. ASSUME NEW w \in Workers, Subscribe(w)
        PROVE  OwnCommandsInv'
    BY <2>2 DEF Subscribe, TypeOK
  <2>3. ASSUME NEW w \in Workers, Connect(w)
        PROVE  OwnCommandsInv'
    BY <2>3 DEF Connect, TypeOK
  <2>4. ASSUME NEW v \in Workers, Read(v)
        PROVE  OwnCommandsInv'
    <3>1. queue[v] \in Seq(Commands) /\ queue[v] # <<>>
      BY <2>4 DEF Read, TypeOK
    <3>2. /\ Tail(queue[v]) \in Seq(Commands)
          /\ Len(Tail(queue[v])) = Len(queue[v]) - 1
          /\ \A i \in 1 .. Len(Tail(queue[v])) :
               Tail(queue[v])[i] = queue[v][i + 1]
      BY <3>1, HeadTailProperties
    <3>3. queue' = [queue EXCEPT ![v] = Tail(queue[v])]
      BY <2>4 DEF Read
    <3>4. ASSUME NEW w \in Workers, NEW i \in DOMAIN queue'[w],
                 queue'[w][i].to.hub < 256
          PROVE  queue'[w][i].to = w
      <4>1. CASE w = v
        <5>1. i \in 1 .. Len(Tail(queue[v])) /\ i + 1 \in DOMAIN queue[v]
          BY <3>1, <3>2, <3>3, <3>4, <4>1 DEF TypeOK
        <5>2. queue'[w][i] = queue[v][i + 1]
          BY <3>2, <3>3, <4>1, <5>1 DEF TypeOK
        <5> QED
          BY <3>4, <4>1, <5>1, <5>2
      <4>2. CASE w # v
        BY <3>3, <3>4, <4>2 DEF TypeOK
      <4> QED
        BY <4>1, <4>2
    <3>5. TypeOK'
      <4>1. status' \in [Workers -> {"starting", "reading", "sleeping"}]
        BY <2>4 DEF Read, ExecuteCommand, ProcessRegisterReq, TypeOK
      <4>2. queue' \in [Workers -> Seq(Commands)]
        BY <3>2, <3>3 DEF TypeOK
      <4>3. ASSUME NEW w \in Workers
            PROVE  Len(queue'[w]) =< HighWater
        <5>1. queue[w] \in Seq(Commands) /\ Len(queue[w]) =< HighWater
          BY DEF TypeOK
        <5>2. Len(queue[w]) \in Nat
          BY <5>1, LenProperties
        <5>3. queue'[w] = IF w = v THEN Tail(queue[v]) ELSE queue[w]
          BY <3>3 DEF TypeOK
        <5> QED
          BY <3>2, <5>1, <5>2, <5>3, IndicesAssumption
      <4> QED
        BY <2>4, <4>1, <4>2, <4>3 DEF Read, TypeOK
    <3> QED
      BY <3>4, <3>5
  <2>5. ASSUME NEW w \in Workers, Wake(w)
        PROVE  OwnCommandsInv'
    BY <2>5 DEF Wake, TypeOK
  <2>6. CASE UNCHANGED vars
    BY <2>6 DEF vars, TypeOK
  <2> QED
    BY <2>1, <2>2, <2>3, <2>4, <2>5, <2>6 DEF Next
<1> QED
  BY <1>1, <1>2, PTL DEF Spec

(***************************************************************************)
(* Whatever is published, every worker's read loop reads, sleeps or has    *)
(* not started: no command ends it.                                        *)
(***************************************************************************)
THEOREM WorkersStayTyped == Spec => []TypeOK
<1>1. OwnCommandsInv => TypeOK
  BY DEF OwnCommandsInv
<1> QED
  BY <1>1, OwnCommandsInvariance, PTL

(***************************************************************************)
(* A worker gets no command for another hub whose index is below 256.      *)
(***************************************************************************)
THEOREM CommandsReachOwnHub == Spec => []OwnCommandsOnly
<1>1. OwnCommandsInv => OwnCommandsOnly
  BY DEF OwnCommandsInv
<1> QED
  BY <1>1, OwnCommandsInvariance, PTL

-----------------------------------------------------------------------------
\* The number of digits that an index is written with.
LEMMA WidthOf ==
  ASSUME NEW i \in Nat, i <= MaxIndex
  PROVE  /\ Width(i) \in 2 .. 5
         /\ Width(i) = 2 => i < 256
         /\ Width(i) = 3 => i >= 256 /\ i < 4096
         /\ Width(i) = 4 => i >= 4096 /\ i < 65536
         /\ Width(i) = 5 => i >= 65536
<1> DEFINE Fits(n) == i < 16 * Weights[n] /\ (n = 2 \/ i >= Weights[n])
<1>1. /\ Fits(2) <=> i < 256
      /\ Fits(3) <=> i >= 256 /\ i < 4096
      /\ Fits(4) <=> i >= 4096 /\ i < 65536
      /\ Fits(5) <=> i >= 65536 /\ i < 1048576
  BY SMT DEF Weights
<1>2. i < 1048576
  BY SMT DEF MaxIndex
<1>3. Width(i) = CHOOSE n \in 2 .. 5 : Fits(n)
  BY SMT DEF Width
<1> HIDE DEF Fits
<1>4. \E n \in 2 .. 5 : Fits(n)
  <2>1. Fits(2) \/ Fits(3) \/ Fits(4) \/ Fits(5)
    BY <1>1, <1>2, SMT
  <2> QED
    BY <2>1, SMT
<1>5. Width(i) \in 2 .. 5 /\ Fits(Width(i))
  BY <1>3, <1>4, SMT
<1> QED
  BY <1>1, <1>5, SMT

\* The digits of an index.
LEMMA HexOf ==
  ASSUME NEW i \in Nat, i <= MaxIndex
  PROVE  /\ Hex(i) \in Seq(0 .. 15)
         /\ Len(Hex(i)) = Width(i)
         /\ \A k \in 1 .. Width(i) :
              Hex(i)[k] = (i \div Weights[Width(i) - k + 1]) % 16
<1>1. Width(i) \in 2 .. 5
  BY WidthOf, SMT
<1>2. ASSUME NEW k \in 1 .. Width(i)
      PROVE  (i \div Weights[Width(i) - k + 1]) % 16 \in 0 .. 15
  <2>1. Width(i) - k + 1 \in 1 .. 5
    BY <1>1, SMT
  <2>2. \A n \in 1 .. 5 : Weights[n] \in Nat \ {0}
    BY SMT DEF Weights
  <2>3. Weights[Width(i) - k + 1] \in Nat \ {0}
    BY <2>1, <2>2, SMT
  <2>4. i \div Weights[Width(i) - k + 1] \in Int
    BY <2>3, SMT
  <2> QED
    BY <2>4, SMT
<1> DEFINE n == Width(i)
           digit(k) == (i \div Weights[n - k + 1]) % 16
           digits == [k \in 1 .. n |-> digit(k)]
<1>3. Hex(i) = digits
  BY DEF Hex
<1>4. n \in Nat /\ \A k \in 1 .. n : digit(k) \in 0 .. 15
  BY <1>1, <1>2
<1>5. \A k \in 1 .. n : digits[k] = digit(k)
  OBVIOUS
<1>6. digits \in Seq(0 .. 15) /\ Len(digits) = n
  <2> HIDE DEF n, digit
  <2> QED
    BY <1>4
<1> QED
  BY <1>3, <1>5, <1>6

\* The digits of i are the first ones of j exactly if i covers j.
HexPrefix(i, j) ==
  /\ Width(i) <= Width(j)
  /\ \A k \in 1 .. Width(i) : Hex(i)[k] = Hex(j)[k]

IndexCovers(i, j) == i = j \/ \E s \in Shifts : i >= 16 /\ j \div s = i

\* The digits one by one, for each number of digits.
LEMMA DigitsOf ==
  ASSUME NEW i \in Nat, i <= MaxIndex
  PROVE  /\ Width(i) = 2 => /\ Hex(i)[1] = (i \div 16) % 16
                            /\ Hex(i)[2] = i % 16
         /\ Width(i) = 3 => /\ Hex(i)[1] = (i \div 256) % 16
                            /\ Hex(i)[2] = (i \div 16) % 16
                            /\ Hex(i)[3] = i % 16
         /\ Width(i) = 4 => /\ Hex(i)[1] = (i \div 4096) % 16
                            /\ Hex(i)[2] = (i \div 256) % 16
                            /\ Hex(i)[3] = (i \div 16) % 16
                            /\ Hex(i)[4] = i % 16
         /\ Width(i) = 5 => /\ Hex(i)[1] = (i \div 65536) % 16
                            /\ Hex(i)[2] = (i \div 4096) % 16
                            /\ Hex(i)[3] = (i \div 256) % 16
                            /\ Hex(i)[4] = (i \div 16) % 16
                            /\ Hex(i)[5] = i % 16
<1>1. i \div 1 = i
  BY SMT
<1>2. /\ Weights[1] = 1 /\ Weights[2] = 16 /\ Weights[3] = 256
      /\ Weights[4] = 4096 /\ Weights[5] = 65536
  BY SMT DEF Weights
<1>3. \A k \in 1 .. Width(i) :
        Hex(i)[k] = (i \div Weights[Width(i) - k + 1]) % 16
  BY HexOf, SMT
<1>4. CASE Width(i) = 2
  BY <1>1, <1>2, <1>3, <1>4, SMT
<1>5. CASE Width(i) = 3
  BY <1>1, <1>2, <1>3, <1>5, SMT
<1>6. CASE Width(i) = 4
  BY <1>1, <1>2, <1>3, <1>6, SMT
<1>7. CASE Width(i) = 5
  BY <1>1, <1>2, <1>3, <1>7, SMT
<1> QED
  BY <1>4, <1>5, <1>6, <1>7, SMT

\* Numbers below a power of 16 are told apart by their digits.
LEMMA SameDigits ==
  ASSUME NEW i \in Nat, NEW j \in Nat, i % 16 = j % 16
  PROVE  /\ i < 256 /\ j < 256 /\ (i \div 16) % 16 = (j \div 16) % 16
              => i = j
         /\ /\ i < 4096 /\ j < 4096
            /\ (i \div 16) % 16 = (j \div 16) % 16
            /\ (i \div 256) % 16 = (j \div 256) % 16
            => i = j
         /\ /\ i < 65536 /\ j < 65536
            /\ (i \div 16) % 16 = (j \div 16) % 16
            /\ (i \div 256) % 16 = (j \div 256) % 16
            /\ (i \div 4096) % 16 = (j \div 4096) % 16
            => i = j
         /\ /\ i < 1048576 /\ j < 1048576
            /\ (i \div 16) % 16 = (j \div 16) % 16
            /\ (i \div 256) % 16 = (j \div 256) % 16
            /\ (i \div 4096) % 16 = (j \div 4096) % 16
            /\ (i \div 65536) % 16 = (j \div 65536) % 16
            => i = j
  BY SMT

\* Quotients of quotients.
LEMMA Quotients ==
  ASSUME NEW j \in Nat
  PROVE  /\ (j \div 16) \div 16 = j \div 256
         /\ (j \div 16) \div 256 = j \div 4096
         /\ (j \div 16) \div 4096 = j \div 65536
         /\ (j \div 256) \div 16 = j \div 4096
         /\ (j \div 256) \div 256 = j \div 65536
         /\ (j \div 4096) \div 16 = j \div 65536
  BY SMT

(***************************************************************************)
(* The digits of an index are the first digits of another exactly when it  *)
(* covers it.                                                              *)
(***************************************************************************)
LEMMA PrefixCovers ==
  ASSUME NEW i \in Nat, i <= MaxIndex, NEW j \in Nat, j <= MaxIndex
  PROVE  HexPrefix(i, j) <=> IndexCovers(i, j)
<1>1. /\ Width(i) \in 2 .. 5
      /\ Width(i) = 2 => i < 256
      /\ Width(i) = 3 => i >= 256 /\ i < 4096
      /\ Width(i) = 4 => i >= 4096 /\ i < 65536
      /\ Width(i) = 5 => i >= 65536
  BY WidthOf, SMT
<1>2. /\ Width(j) \in 2 .. 5
      /\ Width(j) = 2 => j < 256
      /\ Width(j) = 3 => j >= 256 /\ j < 4096
      /\ Width(j) = 4 => j >= 4096 /\ j < 65536
      /\ Width(j) = 5 => j >= 65536
  BY WidthOf, SMT
<1>3. i < 1048576 /\ j < 1048576
  BY SMT DEF MaxIndex
<1>4. IndexCovers(i, j) <=>
        \/ i = j
        \/ i >= 16 /\ (j \div 16 = i \/ j \div 256 = i \/ j \div 4096 = i)
  BY SMT DEF IndexCovers, Shifts
<1>5. HexPrefix(i, j) <=>
        /\ Width(i) <= Width(j)
        /\ \A k \in 1 .. Width(i) : Hex(i)[k] = Hex(j)[k]
  BY SMT DEF HexPrefix
<1>6. CASE Width(i) = 2
  <2>1. HexPrefix(i, j) <=>
          /\ Width(j) >= 2
          /\ Hex(i)[1] = Hex(j)[1]
          /\ Hex(i)[2] = Hex(j)[2]
    BY <1>2, <1>5, <1>6, SMT
  <2>2. CASE Width(j) = 2
    <3>1. HexPrefix(i, j) <=>
            /\ (i \div 16) % 16 = (j \div 16) % 16
            /\ i % 16 = j % 16
      BY <1>6, <2>1, <2>2, DigitsOf, SMT
    <3>2. HexPrefix(i, j) => i = j
      BY <1>1, <1>2, <1>3, <1>6, <2>2, <3>1, SameDigits, Quotients, SMT
    <3>3. i = j => HexPrefix(i, j)
      BY <1>6, <2>2, <3>1, Quotients, SMT
    <3> QED
      BY <1>1, <1>2, <1>3, <1>4, <1>6, <2>2, <3>2, <3>3, SMT
  <2>3. CASE Width(j) = 3
    <3>1. HexPrefix(i, j) <=>
            /\ (i \div 16) % 16 = (j \div 256) % 16
            /\ i % 16 = (j \div 16) % 16
      BY <1>6, <2>1, <2>3, DigitsOf, SMT
    <3>2. HexPrefix(i, j) => i = (j \div 16)
      BY <1>1, <1>2, <1>3, <1>6, <2>3, <3>1, SameDigits, Quotients, SMT
    <3>3. i = (j \div 16) => HexPrefix(i, j)
      BY <1>6, <2>3, <3>1, Quotients, SMT
    <3> QED
      BY <1>1, <1>2, <1>3, <1>4, <1>6, <2>3, <3>2, <3>3, SMT
  <2>4. CASE Width(j) = 4
    <3>1. HexPrefix(i, j) <=>
            /\ (i \div 16) % 16 = (j \div 4096) % 16
            /\ i % 16 = (j \div 256) % 16
      BY <1>6, <2>1, <2>4, DigitsOf, SMT
    <3>2. HexPrefix(i, j) => i = (j \div 256)
      BY <1>1, <1>2, <1>3, <1>6, <2>4, <3>1, SameDigits, Quotients, SMT
    <3>3. i = (j \div 256) => HexPrefix(i, j)
      BY <1>6, <2>4, <3>1, Quotients, SMT
    <3> QED
      BY <1>1, <1>2, <1>3, <1>4, <1>6, <2>4, <3>2, <3>3, SMT
  <2>5. CASE Width(j) = 5
    <3>1. HexPrefix(i, j) <=>
            /\ (i \div 16) % 16 = (j \div 65536) % 16
            /\ i % 16 = (j \div 4096) % 16
      BY <1>6, <2>1, <2>5, DigitsOf, SMT
    <3>2. HexPrefix(i, j) => i = (j \div 4096)
      BY <1>1, <1>2, <1>3, <1>6, <2>5, <3>1, SameDigits, Quotients, SMT
    <3>3. i = (j \div 4096) => HexPrefix(i, j)
      BY <1>6, <2>5, <3>1, Quotients, SMT
    <3> QED
      BY <1>1, <1>2, <1>3, <1>4, <1>6, <2>5, <3>2, <3>3, SMT
  <2> QED
    BY <1>2, <2>2, <2>3, <2>4, <2>5, SMT
<1>7. CASE Width(i) = 3
  <2>1. HexPrefix(i, j) <=>
          /\ Width(j) >= 3
          /\ Hex(i)[1] = Hex(j)[1]
          /\ Hex(i)[2] = Hex(j)[2]
          /\ Hex(i)[3] = Hex(j)[3]
    BY <1>2, <1>5, <1>7, SMT
  <2>2. CASE Width(j) < 3
    BY <1>1, <1>2, <1>4, <1>7, <2>1, <2>2, SMT
  <2>3. CASE Width(j) = 3
    <3>1. HexPrefix(i, j) <=>
            /\ (i \div 256) % 16 = (j \div 256) % 16
            /\ (i \div 16) % 16 = (j \div 16) % 16
            /\ i % 16 = j % 16
      BY <1>7, <2>1, <2>3, DigitsOf, SMT
    <3>2. HexPrefix(i, j) => i = j
      BY <1>1, <1>2, <1>3, <1>7, <2>3, <3>1, SameDigits, Quotients, SMT
    <3>3. i = j => HexPrefix(i, j)
      BY <1>7, <2>3, <3>1, Quotients, SMT
    <3> QED
      BY <1>1, <1>2, <1>3, <1>4, <1>7, <2>3, <3>2, <3>3, SMT
  <2>4. CASE Width(j) = 4
    <3>1. HexPrefix(i, j) <=>
            /\ (i \div 256) % 16 = (j \div 4096) % 16
            /\ (i \div 16) % 16 = (j \div 256) % 16
            /\ i % 16 = (j \div 16) % 16
      BY <1>7, <2>1, <2>4, DigitsOf, SMT
    <3>2. HexPrefix(i, j) => i = (j \div 16)
      BY <1>1, <1>2, <1>3, <1>7, <2>4, <3>1, SameDigits, Quotients, SMT
    <3>3. i = (j \div 16) => HexPrefix(i, j)
      BY <1>7, <2>4, <3>1, Quotients, SMT
    <3> QED
      BY <1>1, <1>2, <1>3, <1>4, <1>7, <2>4, <3>2, <3>3, SMT
  <2>5. CASE Width(j) = 5
    <3>1. HexPrefix(i, j) <=>
            /\ (i \div 256) % 16 = (j \div 65536) % 16
            /\ (i \div 16) % 16 = (j \div 4096) % 16
            /\ i % 16 = (j \div 256) % 16
      BY <1>7, <2>1, <2>5, DigitsOf, SMT
    <3>2. HexPrefix(i, j) => i = (j \div 256)
      BY <1>1, <1>2, <1>3, <1>7, <2>5, <3>1, SameDigits, Quotients, SMT
    <3>3. i = (j \div 256) => HexPrefix(i, j)
      BY <1>7, <2>5, <3>1, Quotients, SMT
    <3> QED
      BY <1>1, <1>2, <1>3, <1>4, <1>7, <2>5, <3>2, <3>3, SMT
  <2> QED
    BY <1>2, <2>2, <2>3, <2>4, <2>5, SMT
<1>8. CASE Width(i) = 4
  <2>1. HexPrefix(i, j) <=>
          /\ Width(j) >= 4
          /\ Hex(i)[1] = Hex(j)[1]
          /\ Hex(i)[2] = Hex(j)[2]
          /\ Hex(i)[3] = Hex(j)[3]
          /\ Hex(i)[4] = Hex(j)[4]
    BY <1>2, <1>5, <1>8, SMT
  <2>2. CASE Width(j) < 4
    BY <1>1, <1>2, <1>4, <1>8, <2>1, <2>2, SMT
  <2>3. CASE Width(j) = 4
    <3>1. HexPrefix(i, j) <=>
            /\ (i \div 4096) % 16 = (j \div 4096) % 16
            /\ (i \div 256) % 16 = (j \div 256) % 16
            /\ (i \div 16) % 16 = (j \div 16) % 16
            /\ i % 16 = j % 16
      BY <1>8, <2>1, <2>3, DigitsOf, SMT
    <3>2. HexPrefix(i, j) => i = j
      BY <1>1, <1>2, <1>3, <1>8, <2>3, <3>1, SameDigits, Quotients, SMT
    <3>3. i = j => HexPrefix(i, j)
      BY <1>8, <2>3, <3>1, Quotients, SMT
    <3> QED
      BY <1>1, <1>2, <1>3, <1>4, <1>8, <2>3, <3>2, <3>3, SMT
  <2>4. CASE Width(j) = 5
    <3>1. HexPrefix(i, j) <=>
            /\ (i \div 4096) % 16 = (j \div 65536) % 16
            /\ (i \div 256) % 16 = (j \div 4096) % 16
            /\ (i \div 16) % 16 = (j \div 256) % 16
            /\ i % 16 = (j \div 16) % 16
      BY <1>8, <2>1, <2>4, DigitsOf, SMT
    <3>2. HexPrefix(i, j) => i = (j \div 16)
      BY <1>1, <1>2, <1>3, <1>8, <2>4, <3>1, SameDigits, Quotients, SMT
    <3>3. i = (j \div 16) => HexPrefix(i, j)
      BY <1>8, <2>4, <3>1, Quotients, SMT
    <3> QED
      BY <1>1, <1>2, <1>3, <1>4, <1>8, <2>4, <3>2, <3>3, SMT
  <2> QED
    BY <1>2, <2>2, <2>3, <2>4, SMT
<1>9. CASE Width(i) = 5
  <2>1. HexPrefix(i, j) <=>
          /\ Width(j) >= 5
          /\ Hex(i)[1] = Hex(j)[1]
          /\ Hex(i)[2] = Hex(j)[2]
          /\ Hex(i)[3] = Hex(j)[3]
          /\ Hex(i)[4] = Hex(j)[4]
          /\ Hex(i)[5] = Hex(j)[5]
    BY <1>2, <1>5, <1>9, SMT
  <2>2. CASE Width(j) < 5
    BY <1>1, <1>2, <1>4, <1>9, <2>1, <2>2, SMT
  <2>3. CASE Width(j) = 5
    <3>1. HexPrefix(i, j) <=>
            /\ (i \div 65536) % 16 = (j \div 65536) % 16
            /\ (i \div 4096) % 16 = (j \div 4096) % 16
            /\ (i \div 256) % 16 = (j \div 256) % 16
            /\ (i \div 16) % 16 = (j \div 16) % 16
            /\ i % 16 = j % 16
      BY <1>9, <2>1, <2>3, DigitsOf, SMT
    <3>2. HexPrefix(i, j) => i = j
      BY <1>1, <1>2, <1>3, <1>9, <2>3, <3>1, SameDigits, Quotients, SMT
    <3>3. i = j => HexPrefix(i, j)
      BY <1>9, <2>3, <3>1, Quotients, SMT
    <3> QED
      BY <1>1, <1>2, <1>3, <1>4, <1>9, <2>3, <3>2, <3>3, SMT
  <2> QED
    BY <1>2, <2>2, <2>3, SMT
<1> QED
  BY <1>1, <1>6, <1>7, <1>8, <1>9, SMT

\* A tag: letters and digits, position by position.
LEMMA TagOf ==
  ASSUME NEW a \in Workers
  PROVE  /\ Tag(a) \in Seq(0 .. 17)
         /\ Len(Tag(a)) = Width(a.net) + Width(a.hub) + 2
         /\ Tag(a)[1] = LetterN
         /\ \A k \in 1 .. Width(a.net) : Tag(a)[k + 1] = Hex(a.net)[k]
         /\ Tag(a)[Width(a.net) + 2] = LetterH
         /\ \A k \in 1 .. Width(a.hub) :
              Tag(a)[Width(a.net) + 2 + k] = Hex(a.hub)[k]
<1>1. /\ a.net \in Nat /\ a.net <= MaxIndex
      /\ a.hub \in Nat /\ a.hub <= MaxIndex
  BY IndicesAssumption DEF Workers
<1>2. /\ Width(a.net) \in 2 .. 5 /\ Width(a.hub) \in 2 .. 5
      /\ Hex(a.net) \in Seq(0 .. 15) /\ Len(Hex(a.net)) = Width(a.net)
      /\ Hex(a.hub) \in Seq(0 .. 15) /\ Len(Hex(a.hub)) = Width(a.hub)
  BY <1>1, WidthOf, HexOf
<1>3. LetterN \in 0 .. 17 /\ LetterH \in 0 .. 17
  BY SMT DEF LetterN, LetterH
<1>4. Hex(a.net) \in Seq(0 .. 17) /\ Hex(a.hub) \in Seq(0 .. 17)
  BY <1>2, SMT
<1> DEFINE s1 == <<LetterN>> \o Hex(a.net)
           s2 == s1 \o <<LetterH>>
<1>5. /\ s1 \in Seq(0 .. 17) /\ Len(s1) = Width(a.net) + 1
      /\ s1[1] = LetterN
      /\ \A k \in 1 .. Width(a.net) : s1[k + 1] = Hex(a.net)[k]
  <2>1. /\ <<LetterN>> \in Seq(0 .. 17) /\ Len(<<LetterN>>) = 1
        /\ <<LetterN>>[1] = LetterN
    BY <1>3, SMT
  <2>2. /\ s1 \in Seq(0 .. 17) /\ Len(s1) = Len(<<LetterN>>) + Len(Hex(a.net))
        /\ \A k \in 1 .. Len(<<LetterN>>) + Len(Hex(a.net)) :
             s1[k] = IF k <= Len(<<LetterN>>) THEN <<LetterN>>[k]
                     ELSE Hex(a.net)[k - Len(<<LetterN>>)]
    BY <1>4, <2>1, ConcatProperties
  <2> HIDE DEF s1
  <2>3. ASSUME NEW k \in 1 .. Width(a.net)
        PROVE  s1[k + 1] = Hex(a.net)[k]
    <3>1. k + 1 \in 1 .. 1 + Len(Hex(a.net)) /\ k + 1 - 1 = k /\ ~(k + 1 <= 1)
      BY <1>2, SMT
    <3> QED
      BY <2>1, <2>2, <3>1
  <2>4. 1 \in 1 .. 1 + Len(Hex(a.net)) /\ 1 <= 1
    BY <1>2, SMT
  <2> QED
    BY <1>2, <2>1, <2>2, <2>3, <2>4, SMT
<1>6. /\ s2 \in Seq(0 .. 17) /\ Len(s2) = Width(a.net) + 2
      /\ \A k \in 1 .. Width(a.net) + 1 : s2[k] = s1[k]
      /\ s2[Width(a.net) + 2] = LetterH
  <2> HIDE DEF s1
  <2>1. /\ <<LetterH>> \in Seq(0 .. 17) /\ Len(<<LetterH>>) = 1
        /\ <<LetterH>>[1] = LetterH
    BY <1>3, SMT
  <2>2. /\ s2 \in Seq(0 .. 17) /\ Len(s2) = Len(s1) + Len(<<LetterH>>)
        /\ \A k \in 1 .. Len(s1) + Len(<<LetterH>>) :
             s2[k] = IF k <= Len(s1) THEN s1[k] ELSE <<LetterH>>[k - Len(s1)]
    BY <1>5, <2>1, ConcatProperties
  <2> HIDE DEF s2
  <2> QED
    BY <1>2, <1>5, <2>1, <2>2, SMT
<1>7. Tag(a) = s2 \o Hex(a.hub)
  BY DEF Tag
<1> HIDE DEF s1, s2
<1>8. /\ Tag(a) \in Seq(0 .. 17)
      /\ Len(Tag(a)) = Len(s2) + Len(Hex(a.hub))
      /\ \A k \in 1 .. Len(s2) + Len(Hex(a.hub)) :
           Tag(a)[k] = IF k <= Len(s2) THEN s2[k] ELSE Hex(a.hub)[k - Len(s2)]
  <2>1. s2 \in Seq(0 .. 17) /\ Hex(a.hub) \in Seq(0 .. 17)
    BY <1>4, <1>6
  <2>2. /\ s2 \o Hex(a.hub) \in Seq(0 .. 17)
        /\ Len(s2 \o Hex(a.hub)) = Len(s2) + Len(Hex(a.hub))
        /\ \A k \in 1 .. Len(s2) + Len(Hex(a.hub)) :
             (s2 \o Hex(a.hub))[k] =
               IF k <= Len(s2) THEN s2[k] ELSE Hex(a.hub)[k - Len(s2)]
    BY <2>1, ConcatProperties, Zenon
  <2> QED
    BY <1>7, <2>2, Zenon
<1>9. /\ Len(Tag(a)) = Width(a.net) + Width(a.hub) + 2
      /\ \A k \in 1 .. Width(a.net) + 2 : Tag(a)[k] = s2[k]
  BY <1>2, <1>6, <1>8, SMT
<1>10. ASSUME NEW k \in 1 .. Width(a.hub)
       PROVE  Tag(a)[Width(a.net) + 2 + k] = Hex(a.hub)[k]
  <2> DEFINE m == Width(a.net) + 2 + k
  <2>1. /\ m \in 1 .. Len(s2) + Len(Hex(a.hub))
        /\ ~(m <= Len(s2))
        /\ m - Len(s2) = k
    BY <1>2, <1>6, SMT
  <2> HIDE DEF m
  <2>2. Tag(a)[m] = Hex(a.hub)[m - Len(s2)]
    BY <1>8, <2>1, Zenon
  <2> QED
    BY <2>1, <2>2 DEF m
<1>11. Tag(a)[1] = LetterN /\ Tag(a)[Width(a.net) + 2] = LetterH
  BY <1>2, <1>5, <1>6, <1>9, SMT
<1>12. ASSUME NEW k \in 1 .. Width(a.net)
       PROVE  Tag(a)[k + 1] = Hex(a.net)[k]
  <2>1. k + 1 \in 1 .. Width(a.net) + 2 /\ k + 1 \in 1 .. Width(a.net) + 1
    BY <1>2, SMT
  <2> QED
    BY <1>5, <1>6, <1>9, <2>1
<1> QED
  BY <1>8, <1>9, <1>10, <1>11, <1>12

(***************************************************************************)
(* Comparing tags as strings is comparing the indices in them.             *)
(***************************************************************************)
LEMMA TagPrefix ==
  ASSUME NEW w \in Workers, NEW a \in Workers
  PROVE  IsPrefix(Tag(w), Tag(a)) <=> Covers(w, a)
<1>1. /\ w.net \in Nat /\ w.net <= MaxIndex
      /\ w.hub \in Nat /\ w.hub <= MaxIndex
      /\ a.net \in Nat /\ a.net <= MaxIndex
      /\ a.hub \in Nat /\ a.hub <= MaxIndex
  BY IndicesAssumption DEF Workers
<1> DEFINE n == Width(w.net)
           m == Width(a.net)
<1>2. /\ n \in 2 .. 5 /\ Width(w.hub) \in 2 .. 5
      /\ m \in 2 .. 5 /\ Width(a.hub) \in 2 .. 5
  BY <1>1, WidthOf
<1>3. /\ \A k \in 1 .. n : Hex(w.net)[k] \in 0 .. 15
      /\ \A k \in 1 .. m : Hex(a.net)[k] \in 0 .. 15
  <2>1. /\ Hex(w.net) \in Seq(0 .. 15) /\ Len(Hex(w.net)) = n
        /\ Hex(a.net) \in Seq(0 .. 15) /\ Len(Hex(a.net)) = m
    BY <1>1, HexOf
  <2> HIDE DEF n, m
  <2> QED
    BY <2>1, ElementOfSeq
<1>4. /\ Len(Tag(w)) = n + Width(w.hub) + 2
      /\ Tag(w)[1] = 16
      /\ \A k \in 1 .. n : Tag(w)[k + 1] = Hex(w.net)[k]
      /\ Tag(w)[n + 2] = 17
      /\ \A k \in 1 .. Width(w.hub) : Tag(w)[n + 2 + k] = Hex(w.hub)[k]
  BY TagOf DEF LetterN, LetterH
<1>5. /\ Len(Tag(a)) = m + Width(a.hub) + 2
      /\ Tag(a)[1] = 16
      /\ \A k \in 1 .. m : Tag(a)[k + 1] = Hex(a.net)[k]
      /\ Tag(a)[m + 2] = 17
      /\ \A k \in 1 .. Width(a.hub) : Tag(a)[m + 2 + k] = Hex(a.hub)[k]
  BY TagOf DEF LetterN, LetterH
<1>6. IsPrefix(Tag(w), Tag(a)) <=>
        /\ Len(Tag(w)) <= Len(Tag(a))
        /\ \A k \in 1 .. Len(Tag(w)) : Tag(w)[k] = Tag(a)[k]
  <2>1. Tag(w) \in Seq(0 .. 17) /\ Tag(a) \in Seq(0 .. 17)
    BY TagOf
  <2> QED
    BY <2>1, SMT DEF IsPrefix
<1> HIDE DEF n, m
<1>7. Covers(w, a) <=> w.net = a.net /\ HexPrefix(w.hub, a.hub)
  BY <1>1, PrefixCovers DEF Covers, IndexCovers
<1>8. ASSUME IsPrefix(Tag(w), Tag(a))
      PROVE  n = m /\ \A k \in 1 .. n : Hex(w.net)[k] = Hex(a.net)[k]
  <2>1. n = m
    <3>1. n < m => Tag(a)[n + 2] = Hex(a.net)[n + 1] /\ n + 1 \in 1 .. m
      BY <1>2, <1>5, SMT
    <3>2. m < n => Tag(w)[m + 2] = Hex(w.net)[m + 1] /\ m + 1 \in 1 .. n
      BY <1>2, <1>4, SMT
    <3>3. n + 2 \in 1 .. Len(Tag(w)) /\ (m < n => m + 2 \in 1 .. Len(Tag(w)))
      BY <1>2, <1>4, SMT
    <3>4. ASSUME n < m PROVE FALSE
      <4>1. Tag(a)[n + 2] \in 0 .. 15 /\ Tag(a)[n + 2] = 17
        BY <1>3, <1>4, <1>6, <1>8, <3>1, <3>3, <3>4
      <4> QED
        BY <4>1, SMT
    <3>5. ASSUME m < n PROVE FALSE
      <4>1. Tag(w)[m + 2] \in 0 .. 15 /\ Tag(w)[m + 2] = 17
        BY <1>3, <1>5, <1>6, <1>8, <3>2, <3>3, <3>5
      <4> QED
        BY <4>1, SMT
    <3> QED
      BY <1>2, <3>4, <3>5, SMT
  <2>2. ASSUME NEW k \in 1 .. n
        PROVE  Hex(w.net)[k] = Hex(a.net)[k]
    <3>1. k + 1 \in 1 .. Len(Tag(w))
      BY <1>2, <1>4, SMT
    <3> QED
      BY <1>4, <1>5, <1>6, <1>8, <2>1, <3>1
  <2> QED
    BY <2>1, <2>2
<1>9. ASSUME IsPrefix(Tag(w), Tag(a))
      PROVE  w.net = a.net
  <2>1. HexPrefix(w.net, a.net) /\ HexPrefix(a.net, w.net)
    BY <1>2, <1>8, <1>9, SMT DEF HexPrefix, n, m
  <2>2. IndexCovers(w.net, a.net) /\ IndexCovers(a.net, w.net)
    BY <1>1, <2>1, PrefixCovers
  <2> QED
    BY <1>1, <2>2, SMT DEF IndexCovers, Shifts
<1>10. ASSUME w.net = a.net
       PROVE  IsPrefix(Tag(w), Tag(a)) <=> HexPrefix(w.hub, a.hub)
  <2>1. n = m
    BY <1>10 DEF n, m
  <2>2. \A k \in 1 .. n + 2 : Tag(w)[k] = Tag(a)[k]
    <3>1. \A k \in 1 .. n + 2 : k = 1 \/ k = n + 2 \/ k - 1 \in 1 .. n
      BY <1>2, SMT
    <3>2. \A k \in 1 .. n : Tag(w)[k + 1] = Tag(a)[k + 1]
      BY <1>4, <1>5, <1>10, <2>1
    <3>3. ASSUME NEW k \in 1 .. n + 2, k - 1 \in 1 .. n
          PROVE  Tag(w)[k] = Tag(a)[k]
      <4>1. k = (k - 1) + 1
        BY <1>2, SMT
      <4>2. Tag(w)[(k - 1) + 1] = Tag(a)[(k - 1) + 1]
        BY <3>2, <3>3
      <4> QED
        BY <4>1, <4>2
    <3> QED
      BY <1>4, <1>5, <2>1, <3>1, <3>3
  <2>3. ASSUME HexPrefix(w.hub, a.hub)
        PROVE  IsPrefix(Tag(w), Tag(a))
    <3>1. Len(Tag(w)) <= Len(Tag(a))
      BY <1>2, <1>4, <1>5, <2>1, <2>3, SMT DEF HexPrefix
    <3>2. ASSUME NEW k \in 1 .. Len(Tag(w)), k > n + 2
          PROVE  Tag(w)[k] = Tag(a)[k]
      <4>1. k - n - 2 \in 1 .. Width(w.hub) /\ k = n + 2 + (k - n - 2)
        BY <1>2, <1>4, <3>2, SMT
      <4>2. k - n - 2 \in 1 .. Width(a.hub)
        BY <1>2, <2>3, <4>1, SMT DEF HexPrefix
      <4>3. Hex(w.hub)[k - n - 2] = Hex(a.hub)[k - n - 2]
        BY <2>3, <4>1 DEF HexPrefix
      <4> QED
        BY <1>4, <1>5, <2>1, <4>1, <4>2, <4>3
    <3>3. \A k \in 1 .. Len(Tag(w)) : k > n + 2 \/ k \in 1 .. n + 2
      BY <1>2, <1>4, SMT
    <3> QED
      BY <1>6, <2>2, <3>1, <3>2, <3>3
  <2>4. ASSUME IsPrefix(Tag(w), Tag(a))
        PROVE  HexPrefix(w.hub, a.hub)
    <3>1. Width(w.hub) <= Width(a.hub)
      BY <1>2, <1>4, <1>5, <1>6, <2>1, <2>4, SMT
    <3>2. ASSUME NEW k \in 1 .. Width(w.hub)
          PROVE  Hex(w.hub)[k] = Hex(a.hub)[k]
      <4>1. n + 2 + k \in 1 .. Len(Tag(w)) /\ k \in 1 .. Width(a.hub)
        BY <1>2, <1>4, <3>1, SMT
      <4> QED
        BY <1>4, <1>5, <1>6, <2>1, <2>4, <4>1
    <3> QED
      BY <3>1, <3>2 DEF HexPrefix
  <2> QED
    BY <2>3, <2>4
<1> QED
  BY <1>7, <1>9, <1>10

(***************************************************************************)
(* What is published reaches the workers whose tag is a prefix of the      *)
(* command's, as strings, for all indices of up to five digits.            *)
(***************************************************************************)
THEOREM RoutedByTags == Spec => RoutedByTag
<1>1. ASSUME TypeOK, NEW c \in Commands, Publish(c)
      PROVE  \A w \in Workers :
               queue'[w] # queue[w] <=>
                 /\ w \in subscribed
                 /\ Len(queue[w]) < HighWater
                 /\ IsPrefix(Tag(w), Tag(c.to))
  <2> SUFFICES ASSUME NEW w \in Workers
               PROVE  queue'[w] # queue[w] <=>
                        /\ w \in subscribed
                        /\ Len(queue[w]) < HighWater
                        /\ IsPrefix(Tag(w), Tag(c.to))
    OBVIOUS
  <2>1. c.to \in Workers /\ queue[w] \in Seq(Commands)
    BY <1>1 DEF Commands, TypeOK
  <2>2. Append(queue[w], c) # queue[w]
    BY <2>1, SMT
  <2>3. IsPrefix(Tag(w), Tag(c.to)) <=> Covers(w, c.to)
    BY <2>1, TagPrefix
  <2>4. queue'[w] = IF w \in subscribed /\ Covers(w, c.to)
                         /\ Len(queue[w]) < HighWater
                      THEN Append(queue[w], c)
                      ELSE queue[w]
    BY <1>1 DEF Publish
  <2> QED
    BY <2>2, <2>3, <2>4
<1>2. TypeOK => [\A c \in Commands : Publish(c) =>
                   \A w \in Workers :
                     queue'[w] # queue[w] <=>
                       /\ w \in subscribed
                       /\ Len(queue[w]) < HighWater
                       /\ IsPrefix(Tag(w), Tag(c.to))]_vars
  BY <1>1
<1> QED
  BY <1>2, WorkersStayTyped, PTL DEF RoutedByTag

=============================================================================
