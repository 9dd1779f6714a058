---------------------- MODULE BackpressureQueueProofs ----------------------
(***************************************************************************)
(* Theorems about BackpressureQueue, for every set of payloads, every      *)
(* size assignment and every pair of marks that satisfies QueueConstants.  *)
(***************************************************************************)
EXTENDS BackpressureQueue, WellFoundedInduction, TLAPS

(* The types of everything but the byte counter, which is only known not   *)
(* to be negative once it is known what it counts.                         *)
Types ==
  /\ outcome \in [Msgs -> Outcomes]
  /\ queue \in Seq(Msgs)
  /\ pendingBytes \in Int
  /\ draining \in {0, 1}
  /\ drainGeneration \in Nat
  /\ active \in Nat
  /\ waiting \in SUBSET Nat
  /\ readyState \in {"open", "closing", "closed"}
  /\ bufferedAmount \in Nat
  /\ wire \in Seq(Msgs)
  /\ ticket \in [Msgs -> Nat]
  /\ calls \in Nat
  /\ clears \in Nat

(* f is the function of prefix sums of the payload sizes in queue q.       *)
PrefixSums(f, q) ==
  /\ f \in [0..Len(q) -> Nat]
  /\ f[0] = 0
  /\ \A i \in 1..Len(q) : f[i] = f[i - 1] + Size[q[i]]
  /\ \A i, j \in 0..Len(q) : i <= j => f[i] <= f[j]

(* pendingBytes is the last prefix sum, that is, the bytes queued.         *)
CountsBytes == \E f : PrefixSums(f, queue) /\ pendingBytes = f[Len(queue)]

(* A non-empty set of numbers has a least one: induction in the form of    *)
(* the least counterexample.                                               *)
LEMMA LeastNatural ==
  ASSUME NEW T \in SUBSET Nat, T # {}
  PROVE  \E n \in T : \A m \in T : n <= m
<1>1. PICK n \in T : \A m \in T : ~(<<m, n>> \in OpToRel(<, Nat))
  BY WFMin, NatLessThanWellFounded, Zenon
<1>2. \A m \in T : ~(m < n)
  BY <1>1 DEF OpToRel
<1>3. n \in Nat /\ \A m \in T : m \in Nat
  OBVIOUS
<1>4. \A m \in T : n <= m
  BY <1>2, <1>3
<1> QED BY <1>4

USE QueueConstants

-----------------------------------------------------------------------------

(* Indices of a sequence's tail.                                           *)
LEMMA ShiftIndex ==
  ASSUME NEW n \in Nat, NEW k, k = n - 1 PROVE \A i \in 1..k : i + 1 \in 1..n
OBVIOUS

LEMMA InitTypes == QueueInit => Types
  BY DEF QueueInit, Types, Outcomes

LEMMA StepTypes == Types /\ [QueueNext]_queueVars => Types'
<1> SUFFICES ASSUME Types, [QueueNext]_queueVars PROVE Types'
  OBVIOUS
<1> USE DEF Types, Outcomes, drainVars, chanVars, callVars
<1>1. ASSUME NEW m \in Msgs, SendNotOpen(m) PROVE Types'
  BY <1>1 DEF SendNotOpen, SendCall
<1>2. ASSUME NEW m \in Msgs, SendQueue(m) PROVE Types'
  <2>1. /\ waiting' = waiting /\ readyState' = readyState /\ wire' = wire
        /\ bufferedAmount' = bufferedAmount
    BY <1>2 DEF SendQueue, StartDrain
  <2>2. draining' \in {0, 1} /\ drainGeneration' \in Nat /\ active' \in Nat
    BY <1>2, SMTT(30) DEF SendQueue, StartDrain
  <2>3. queue' \in Seq(Msgs) /\ outcome' \in [Msgs -> Outcomes]
    BY <1>2 DEF SendQueue
  <2>4. pendingBytes' \in Int
    BY <1>2 DEF SendQueue
  <2>5. ticket' \in [Msgs -> Nat] /\ calls' \in Nat /\ clears' \in Nat
    BY <1>2 DEF SendQueue, SendCall
  <2>6. QED
    BY <2>1, <2>2, <2>3, <2>4, <2>5
<1>3. ASSUME NEW m \in Msgs, SendDirect(m) PROVE Types'
  <2>1. outcome' \in [Msgs -> Outcomes]
    BY <1>3 DEF SendDirect
  <2>2. wire' \in Seq(Msgs) /\ bufferedAmount' \in Nat
    <3>1. CASE wire' = wire /\ bufferedAmount' = bufferedAmount
      BY <3>1
    <3>2. CASE wire' = Append(wire, m) /\ bufferedAmount' = bufferedAmount + Size[m]
      BY <3>2
    <3>3. QED
      BY <1>3, <3>1, <3>2 DEF SendDirect
  <2>3. waiting' = waiting /\ queue' = queue /\ pendingBytes' = pendingBytes
    BY <1>3 DEF SendDirect
  <2>4. /\ draining' = draining /\ drainGeneration' = drainGeneration
        /\ active' = active /\ readyState' = readyState
    BY <1>3 DEF SendDirect
  <2>5. ticket' \in [Msgs -> Nat] /\ calls' \in Nat /\ clears' \in Nat
    BY <1>3 DEF SendDirect, SendCall
  <2>6. QED
    BY <2>1, <2>2, <2>3, <2>4, <2>5
<1>4. CASE DrainExit
  BY <1>4 DEF DrainExit
<1>5. CASE DrainSend
  <2>1. Head(queue) \in Msgs
    BY <1>5 DEF DrainSend
  <2>2. outcome' \in [Msgs -> Outcomes]
    BY <1>5, <2>1 DEF DrainSend
  <2>3. wire' \in Seq(Msgs) /\ bufferedAmount' \in Nat
    <3>1. CASE wire' = wire /\ bufferedAmount' = bufferedAmount
      BY <3>1
    <3>2. CASE /\ wire' = Append(wire, Head(queue))
               /\ bufferedAmount' = bufferedAmount + Size[Head(queue)]
      BY <3>2, <2>1
    <3>3. QED
      BY <1>5, <3>1, <3>2 DEF DrainSend
  <2>4. queue' \in Seq(Msgs) /\ pendingBytes' \in Int
    BY <1>5, <2>1 DEF DrainSend
  <2>5. waiting' = waiting /\ ticket' = ticket
    BY <1>5 DEF DrainSend
  <2>6. QED
    BY <1>5, <2>2, <2>3, <2>4, <2>5 DEF DrainSend
<1>6. CASE DrainWait
  BY <1>6 DEF DrainWait
<1>7. CASE Wake
  BY <1>7 DEF Wake, DrainWake
<1>8. CASE Clear
  BY <1>8 DEF Clear, RejectQueue
<1>9. CASE ChannelClosing
  BY <1>9 DEF ChannelClosing
<1>10. CASE CloseEvent
  <2>1. outcome' \in [Msgs -> Outcomes]
    BY <1>10 DEF CloseEvent, RejectQueue
  <2>2. queue' \in Seq(Msgs) /\ pendingBytes' \in Int
    <3>1. CASE waiting # {}
      BY <1>10, <3>1 DEF CloseEvent, RejectQueue
    <3>2. CASE waiting = {}
      BY <1>10, <3>2 DEF CloseEvent
    <3>3. QED
      BY <3>1, <3>2
  <2>3. waiting' = waiting /\ ticket' = ticket /\ wire' = wire
    BY <1>10 DEF CloseEvent
  <2>4. QED
    BY <1>10, <2>1, <2>2, <2>3 DEF CloseEvent
<1>11. CASE BufferEmpties
  BY <1>11 DEF BufferEmpties
<1>12. CASE UNCHANGED queueVars
  BY <1>12 DEF queueVars
<1>13. QED
  BY <1>1, <1>2, <1>3, <1>4, <1>5, <1>6, <1>7, <1>8, <1>9, <1>10, <1>11, <1>12
  DEF QueueNext, Send, Drain

-----------------------------------------------------------------------------

(* The draining discipline, inductive as it stands.                        *)
DrainInv == Types /\ OneDrainer /\ NoStrandedPayload

LEMMA StepDrain == DrainInv /\ [QueueNext]_queueVars => DrainInv'
<1> SUFFICES ASSUME DrainInv, [QueueNext]_queueVars PROVE OneDrainer' /\ NoStrandedPayload'
  BY StepTypes DEF DrainInv
<1> USE DEF DrainInv, Types, OneDrainer, NoStrandedPayload, Alive, drainVars
<1>1. ASSUME NEW m \in Msgs, SendNotOpen(m) PROVE OneDrainer' /\ NoStrandedPayload'
  BY <1>1 DEF SendNotOpen, SendCall
<1>2. ASSUME NEW m \in Msgs, SendQueue(m) PROVE OneDrainer' /\ NoStrandedPayload'
  <2>1. waiting' = waiting /\ active = 0
    BY <1>2 DEF SendQueue, SendCall, StartDrain
  <2>2. CASE draining = 1
    BY <1>2, <2>1, <2>2 DEF SendQueue, StartDrain
  <2>3. CASE draining = 0
    BY <1>2, <2>1, <2>3 DEF SendQueue, StartDrain
  <2>4. QED
    BY <2>2, <2>3
<1>3. ASSUME NEW m \in Msgs, SendDirect(m) PROVE OneDrainer' /\ NoStrandedPayload'
  BY <1>3 DEF SendDirect, SendCall
<1>4. CASE DrainExit
  <2>1. waiting' = waiting /\ queue' = queue /\ drainGeneration' = drainGeneration
    BY <1>4 DEF DrainExit
  <2>2. CASE active = drainGeneration
    BY <1>4, <2>1, <2>2 DEF DrainExit
  <2>3. CASE active # drainGeneration
    BY <1>4, <2>1, <2>3 DEF DrainExit
  <2>4. QED
    BY <2>2, <2>3
<1>5. CASE DrainSend
  BY <1>5 DEF DrainSend
<1>6. CASE DrainWait
  <2>1. active # 0 /\ active' = 0 /\ active = drainGeneration
    BY <1>6 DEF DrainWait
  <2>2. waiting' = waiting \cup {drainGeneration} /\ drainGeneration' = drainGeneration
    BY <1>6 DEF DrainWait
  <2>3. draining' = draining /\ queue' = queue
    BY <1>6 DEF DrainWait
  <2>4. QED
    BY <2>1, <2>2, <2>3
<1>7. CASE Wake
  BY <1>7 DEF Wake, DrainWake
<1>8. CASE Clear
  BY <1>8 DEF Clear, RejectQueue
<1>9. CASE ChannelClosing
  BY <1>9 DEF ChannelClosing
<1>10. CASE CloseEvent
  BY <1>10 DEF CloseEvent, RejectQueue
<1>11. CASE BufferEmpties
  BY <1>11 DEF BufferEmpties
<1>12. CASE UNCHANGED queueVars
  BY <1>12 DEF queueVars
<1>13. QED
  BY <1>1, <1>2, <1>3, <1>4, <1>5, <1>6, <1>7, <1>8, <1>9, <1>10, <1>11, <1>12
  DEF QueueNext, Send, Drain
(* No stranded payload and one drainer, in every reachable state: the      *)
(* generation counter keeps an activation that outlived clear() from       *)
(* touching the flag of its successor.                                     *)
THEOREM DrainDiscipline == QueueSpec => [](OneDrainer /\ NoStrandedPayload)
<1>1. QueueInit => DrainInv
  <2> SUFFICES ASSUME QueueInit PROVE OneDrainer /\ NoStrandedPayload
    BY InitTypes DEF DrainInv
  <2> QED
    BY DEF QueueInit, OneDrainer, NoStrandedPayload, Alive
<1>2. DrainInv /\ [QueueNext]_queueVars => DrainInv'
  BY StepDrain
<1>3. DrainInv => OneDrainer /\ NoStrandedPayload
  BY DEF DrainInv
<1>4. QED
  BY <1>1, <1>2, <1>3, PTL DEF QueueSpec

-----------------------------------------------------------------------------

(* The empty queue has no bytes; appending and removing the head change    *)
(* the last prefix sum by one size.                                        *)
LEMMA SumsEmpty == PrefixSums([i \in 0..0 |-> 0], <<>>)
  BY DEF PrefixSums

LEMMA SumsAppend ==
  ASSUME NEW q \in Seq(Msgs), NEW m \in Msgs, NEW f, PrefixSums(f, q)
  PROVE  LET n == Len(q)
             g == [i \in 0..(n + 1) |-> IF i = n + 1 THEN f[n] + Size[m] ELSE f[i]]
         IN  PrefixSums(g, Append(q, m)) /\ g[Len(Append(q, m))] = f[n] + Size[m]
<1> DEFINE n == Len(q)
           g == [i \in 0..(n + 1) |-> IF i = n + 1 THEN f[n] + Size[m] ELSE f[i]]
           r == Append(q, m)
<1>1. n \in Nat /\ Len(r) = n + 1 /\ r[n + 1] = m /\ \A i \in 1..n : r[i] = q[i]
  OBVIOUS
<1>2. g \in [0..(n + 1) -> Nat]
  <2>1. ASSUME NEW i \in 0..n PROVE f[i] \in Nat
    BY DEF PrefixSums
  <2>2. f[n] + Size[m] \in Nat
    BY <1>1, <2>1, SMTT(30)
  <2>3. QED
    BY <1>1, <2>1, <2>2
<1>3. g[0] = 0 /\ g[n + 1] = f[n] + Size[m]
  BY <1>1 DEF PrefixSums
<1>4. ASSUME NEW i \in 1..(n + 1) PROVE g[i] = g[i - 1] + Size[r[i]]
  BY <1>1 DEF PrefixSums
<1>5. ASSUME NEW i \in 0..(n + 1), NEW j \in 0..(n + 1), i <= j PROVE g[i] <= g[j]
  <2>1. CASE j <= n
    BY <1>1, <1>5, <2>1 DEF PrefixSums
  <2>2. CASE i = n + 1
    BY <1>1, <1>2, <1>5, <2>2
  <2>3. CASE j = n + 1 /\ i <= n
    <3>1. f[i] <= f[n] /\ f[i] \in Nat /\ f[n] \in Nat
      BY <1>1, <2>3 DEF PrefixSums
    <3>2. g[i] = f[i] /\ g[j] = f[n] + Size[m]
      BY <1>1, <2>3
    <3>3. QED
      BY <3>1, <3>2
  <2>4. QED
    BY <1>1, <1>5, <2>1, <2>2, <2>3
<1>6. QED
  BY <1>1, <1>2, <1>3, <1>4, <1>5 DEF PrefixSums

LEMMA SumsTail ==
  ASSUME NEW q \in Seq(Msgs), q # <<>>, NEW f, PrefixSums(f, q)
  PROVE  LET n == Len(q)
             g == [i \in 0..(n - 1) |-> f[i + 1] - Size[Head(q)]]
         IN  PrefixSums(g, Tail(q)) /\ g[Len(Tail(q))] = f[n] - Size[Head(q)]
<1> DEFINE n == Len(q)
           g == [i \in 0..(n - 1) |-> f[i + 1] - Size[Head(q)]]
           r == Tail(q)
<1>1. /\ n \in Nat /\ n >= 1 /\ Len(r) = n - 1
      /\ Head(q) = q[1] /\ q[1] \in Msgs
      /\ \A i \in 1..(n - 1) : r[i] = q[i + 1]
  OBVIOUS
<1>2. f[1] = Size[Head(q)]
  BY <1>1 DEF PrefixSums
<1>3. ASSUME NEW i \in 0..(n - 1)
      PROVE  g[i] = f[i + 1] - Size[Head(q)] /\ f[i + 1] \in Nat /\ g[i] \in Nat
  <2>1. f[1] <= f[i + 1] /\ f[i + 1] \in Nat /\ f[1] \in Nat
    BY <1>1 DEF PrefixSums
  <2>2. QED
    BY <1>1, <1>2, <2>1
<1>4. g \in [0..(n - 1) -> Nat]
  BY <1>3
<1>5. g[0] = 0 /\ g[n - 1] = f[n] - Size[Head(q)]
  BY <1>1, <1>2 DEF PrefixSums
<1>6. ASSUME NEW i \in 1..(n - 1) PROVE g[i] = g[i - 1] + Size[r[i]]
  <2>1. f[i + 1] = f[i] + Size[q[i + 1]] /\ q[i + 1] \in Msgs
    BY <1>1 DEF PrefixSums
  <2>2. g[i] = f[i + 1] - Size[Head(q)] /\ g[i - 1] = f[i] - Size[Head(q)]
    <3>1. i - 1 \in 0..(n - 1) /\ (i - 1) + 1 = i
      BY <1>1
    <3>2. QED
      BY <3>1
  <2>3. f[i] \in Nat /\ Size[Head(q)] \in Nat /\ Size[q[i + 1]] \in Nat
    <3>1. i \in 0..n
      BY <1>1
    <3>2. QED
      BY <1>1, <2>1, <3>1 DEF PrefixSums
  <2>4. QED
    BY <1>1, <2>1, <2>2, <2>3
<1>7. ASSUME NEW i \in 0..(n - 1), NEW j \in 0..(n - 1), i <= j PROVE g[i] <= g[j]
  <2>1. f[i + 1] <= f[j + 1]
    BY <1>1, <1>7 DEF PrefixSums
  <2>2. Size[Head(q)] \in Nat
    BY <1>1
  <2>3. QED
    BY <1>3, <2>1, <2>2, SMTT(30)
<1>8. QED
  BY <1>1, <1>4, <1>5, <1>6, <1>7 DEF PrefixSums

LEMMA StepBytes == Types /\ CountsBytes /\ [QueueNext]_queueVars => CountsBytes'
<1> SUFFICES ASSUME Types, CountsBytes, [QueueNext]_queueVars PROVE CountsBytes'
  OBVIOUS
<1> USE DEF Types, drainVars, chanVars
<1>0. PICK f : PrefixSums(f, queue) /\ pendingBytes = f[Len(queue)]
  BY DEF CountsBytes
<1>a. ASSUME queue' = queue, pendingBytes' = pendingBytes PROVE CountsBytes'
  BY <1>0, <1>a DEF CountsBytes
<1>b. ASSUME queue' = <<>>, pendingBytes' = 0 PROVE CountsBytes'
  <2>1. Len(<<>>) = 0 /\ [i \in 0..0 |-> 0][0] = 0
    OBVIOUS
  <2>2. QED
    BY <1>b, <2>1, SumsEmpty DEF CountsBytes
<1>2. ASSUME NEW m \in Msgs, Send(m) PROVE CountsBytes'
  <2>1. CASE SendQueue(m)
    <3> DEFINE n == Len(queue)
               g == [i \in 0..(n + 1) |-> IF i = n + 1 THEN f[n] + Size[m] ELSE f[i]]
    <3>1. queue' = Append(queue, m) /\ pendingBytes' = f[n] + Size[m]
      BY <1>0, <2>1 DEF SendQueue
    <3>2. PrefixSums(g, Append(queue, m)) /\ g[Len(Append(queue, m))] = f[n] + Size[m]
      BY <1>0, SumsAppend
    <3>3. QED
      BY <3>1, <3>2 DEF CountsBytes
  <2>2. CASE SendNotOpen(m) \/ SendDirect(m)
    BY <1>a, <2>2 DEF SendNotOpen, SendDirect
  <2>3. QED
    BY <1>2, <2>1, <2>2 DEF Send
<1>3. CASE DrainSend
  <2> DEFINE n == Len(queue)
             g == [i \in 0..(n - 1) |-> f[i + 1] - Size[Head(queue)]]
  <2>1. queue # <<>> /\ queue' = Tail(queue) /\ pendingBytes' = f[n] - Size[Head(queue)]
    BY <1>0, <1>3 DEF DrainSend
  <2>2. PrefixSums(g, Tail(queue)) /\ g[Len(Tail(queue))] = f[n] - Size[Head(queue)]
    BY <1>0, <2>1, SumsTail
  <2>3. QED
    BY <2>1, <2>2 DEF CountsBytes
<1>4. CASE Clear
  BY <1>b, <1>4 DEF Clear, RejectQueue
<1>5. CASE CloseEvent
  BY <1>a, <1>b, <1>5 DEF CloseEvent, RejectQueue
<1>6. CASE DrainExit \/ DrainWait \/ Wake
  BY <1>a, <1>6 DEF DrainExit, DrainWait, Wake, DrainWake
<1>7. CASE ChannelClosing \/ BufferEmpties \/ UNCHANGED queueVars
  BY <1>a, <1>7 DEF ChannelClosing, BufferEmpties, queueVars
<1>8. QED
  BY <1>2, <1>3, <1>4, <1>5, <1>6, <1>7 DEF QueueNext, Drain

(* The byte counter is the last of the queue's prefix sums.                *)
LEMMA PrefixSumsCounted == QueueSpec => []CountsBytes
<1>1. QueueInit => Types /\ CountsBytes
  <2> SUFFICES ASSUME QueueInit PROVE CountsBytes
    BY InitTypes
  <2>1. queue = <<>> /\ pendingBytes = 0
    BY DEF QueueInit
  <2>2. Len(<<>>) = 0 /\ [i \in 0..0 |-> 0][0] = 0
    OBVIOUS
  <2>3. QED
    BY <2>1, <2>2, SumsEmpty DEF CountsBytes
<1>2. Types /\ CountsBytes /\ [QueueNext]_queueVars => (Types /\ CountsBytes)'
  BY StepTypes, StepBytes
<1>3. QED
  BY <1>1, <1>2, PTL DEF QueueSpec

(* The recursive sum over the queue is the last prefix sum: both satisfy   *)
(* the recursive equation, and only one function does.                     *)
LEMMA SumIsPrefixSum ==
  ASSUME Types, NEW f, PrefixSums(f, queue)
  PROVE  QueuedBytes = f[Len(queue)]
<1> DEFINE n == Len(queue)
           Equation(g) == g = [i \in 0..n |-> IF i = 0 THEN 0 ELSE g[i - 1] + Size[queue[i]]]
           sum == CHOOSE g : Equation(g)
           Differ == {i \in 0..n : sum[i] # f[i]}
<1>0. n \in Nat /\ n \in 0..n
  BY DEF Types
<1>1. Equation(f)
  BY <1>0 DEF PrefixSums
<1>2. Equation(sum)
  BY <1>1
<1>3. QueuedBytes = sum[n]
  BY DEF QueuedBytes
<1> HIDE DEF sum
<1>4. SUFFICES ASSUME Differ # {} PROVE FALSE
  BY <1>0, <1>3
<1>5. PICK k \in Differ : \A m \in Differ : k <= m
  <2>1. Differ \in SUBSET Nat
    OBVIOUS
  <2> HIDE DEF Differ
  <2> QED BY <1>4, <2>1, LeastNatural
<1>6. k \in 0..n /\ sum[k] # f[k]
  OBVIOUS
<1>7. k # 0
  BY <1>0, <1>1, <1>2, <1>6
<1>8. k - 1 \in 0..n /\ sum[k - 1] = f[k - 1]
  BY <1>5, <1>6, <1>7
<1>9. sum[k] = sum[k - 1] + Size[queue[k]]
  BY <1>2, <1>6, <1>7
<1>10. f[k] = f[k - 1] + Size[queue[k]]
  BY <1>6, <1>7 DEF PrefixSums
<1> QED BY <1>6, <1>8, <1>9, <1>10

(* The byte counter equals the bytes queued, in every reachable state, for *)
(* any payloads, bursts, clears and closes of the channel.                 *)
THEOREM BytesCounted == QueueSpec => []PendingBytesExact
<1>1. QueueSpec => []Types
  BY InitTypes, StepTypes, PTL DEF QueueSpec
<1>2. Types /\ CountsBytes => PendingBytesExact
  BY SumIsPrefixSum DEF CountsBytes, PendingBytesExact
<1> QED BY <1>1, <1>2, PrefixSumsCounted, PTL

(* Type correctness; that pendingBytes never goes negative rests on what   *)
(* it counts.                                                              *)
THEOREM TypeCorrect == QueueSpec => []QueueTypeOK
<1>1. QueueSpec => []Types
  BY InitTypes, StepTypes, PTL DEF QueueSpec
<1>2. Types /\ CountsBytes => QueueTypeOK
  <2> SUFFICES ASSUME Types, CountsBytes PROVE QueueTypeOK
    OBVIOUS
  <2>1. PICK f : PrefixSums(f, queue) /\ pendingBytes = f[Len(queue)]
    BY DEF CountsBytes
  <2>2. Len(queue) \in 0..Len(queue)
    BY DEF Types
  <2>3. pendingBytes \in Nat
    BY <2>1, <2>2 DEF PrefixSums
  <2>4. QED
    BY <2>3 DEF Types, QueueTypeOK
<1>3. QED
  BY <1>1, <1>2, PrefixSumsCounted, PTL

-----------------------------------------------------------------------------

(* The bound on bufferedAmount needs the counter to be non-negative: a     *)
(* negative one would let a payload through above the high-water mark.     *)
THEOREM BufferIsBounded == QueueSpec => []BufferBounded
<1>1. QueueInit => BufferBounded
  BY DEF QueueInit, BufferBounded
<1>2. QueueTypeOK /\ BufferBounded /\ [QueueNext]_queueVars => BufferBounded'
  <2> SUFFICES ASSUME QueueTypeOK, BufferBounded, [QueueNext]_queueVars PROVE BufferBounded'
    OBVIOUS
  <2> USE DEF QueueTypeOK, BufferBounded
  <2>1. ASSUME NEW m \in Msgs, SendDirect(m) PROVE BufferBounded'
    <3>1. bufferedAmount + pendingBytes + Size[m] <= HIGH_WATER_MARK
      BY <2>1 DEF SendDirect, MustQueue
    <3>2. bufferedAmount' = bufferedAmount \/ bufferedAmount' = bufferedAmount + Size[m]
      BY <2>1 DEF SendDirect
    <3>3. QED
      BY <3>1, <3>2
  <2>2. CASE DrainSend
    <3>1. Head(queue) \in Msgs /\ bufferedAmount <= DRAIN_THRESHOLD
      BY <2>2 DEF DrainSend
    <3>2. \/ bufferedAmount' = bufferedAmount
          \/ bufferedAmount' = bufferedAmount + Size[Head(queue)]
      BY <2>2 DEF DrainSend
    <3>3. QED
      BY <3>1, <3>2
  <2>3. CASE BufferEmpties
    BY <2>3 DEF BufferEmpties
  <2>4. ASSUME NEW m \in Msgs, SendNotOpen(m) \/ SendQueue(m) PROVE BufferBounded'
    BY <2>4 DEF SendNotOpen, SendQueue, chanVars
  <2>5. CASE DrainExit \/ DrainWait \/ Wake \/ Clear
    BY <2>5 DEF DrainExit, DrainWait, Wake, DrainWake, Clear, chanVars
  <2>6. CASE ChannelClosing \/ CloseEvent \/ UNCHANGED queueVars
    BY <2>6 DEF ChannelClosing, CloseEvent, queueVars, chanVars
  <2>7. QED
    BY <2>1, <2>2, <2>3, <2>4, <2>5, <2>6 DEF QueueNext, Send, Drain
<1>3. QED
  BY <1>1, <1>2, TypeCorrect, PTL DEF QueueSpec

-----------------------------------------------------------------------------

(* A payload is in the queue at most once.                                 *)
NoDuplicate == \A i, j \in 1..Len(queue) : queue[i] = queue[j] => i = j

(* send() promises are unsettled exactly while their payload is queued.    *)
THEOREM QueuedPromises == QueueSpec => []QueuedIffPending
<1> DEFINE Inv == Types /\ NoDuplicate /\ QueuedIffPending
<1>1. QueueInit => Inv
  <2> SUFFICES ASSUME QueueInit PROVE NoDuplicate /\ QueuedIffPending
    BY InitTypes
  <2> QED
    BY DEF QueueInit, NoDuplicate, QueuedIffPending, Queued
<1>2. Inv /\ [QueueNext]_queueVars => Inv'
  <2> SUFFICES ASSUME Inv, [QueueNext]_queueVars PROVE (NoDuplicate /\ QueuedIffPending)'
    BY StepTypes
  <2> USE DEF Types, Outcomes
  <2>a. ASSUME queue' = queue, outcome' = outcome
        PROVE  (NoDuplicate /\ QueuedIffPending)'
    BY <2>a DEF NoDuplicate, QueuedIffPending, Queued
  <2>b. ASSUME RejectQueue PROVE (NoDuplicate /\ QueuedIffPending)'
    <3>1. queue' = <<>> /\ NoDuplicate'
      BY <2>b DEF RejectQueue, NoDuplicate
    <3>2. ASSUME NEW m \in Msgs PROVE outcome'[m] # "queued"
      BY <2>b DEF RejectQueue, QueuedIffPending
    <3>3. QED
      BY <3>1, <3>2 DEF QueuedIffPending, Queued
  <2>c. ASSUME NEW m \in Msgs, outcome[m] = "new", queue' = queue,
               NEW o \in {"sent", "rejected"},
               outcome' = [outcome EXCEPT ![m] = o]
        PROVE  (NoDuplicate /\ QueuedIffPending)'
    BY <2>c DEF NoDuplicate, QueuedIffPending, Queued
  <2>1. ASSUME NEW m \in Msgs, SendNotOpen(m) PROVE (NoDuplicate /\ QueuedIffPending)'
    BY <2>1, <2>c DEF SendNotOpen, SendCall
  <2>2. ASSUME NEW m \in Msgs, SendQueue(m) PROVE (NoDuplicate /\ QueuedIffPending)'
    <3>1. /\ outcome[m] = "new"
          /\ queue' = Append(queue, m)
          /\ outcome' = [outcome EXCEPT ![m] = "queued"]
      BY <2>2 DEF SendQueue, SendCall
    <3>2. \A i \in 1..Len(queue) : queue[i] # m
      BY <3>1 DEF QueuedIffPending, Queued
    <3>3. /\ Len(queue') = Len(queue) + 1 /\ queue'[Len(queue) + 1] = m
          /\ \A i \in 1..Len(queue) : queue'[i] = queue[i]
      BY <3>1
    <3>4. NoDuplicate'
      <4>1. SUFFICES ASSUME NEW i \in 1..(Len(queue) + 1), NEW j \in 1..(Len(queue) + 1),
                            queue'[i] = queue'[j]
                     PROVE  i = j
        BY <3>3 DEF NoDuplicate
      <4>2. Len(queue) \in Nat
        OBVIOUS
      <4>3. CASE i \in 1..Len(queue) /\ j \in 1..Len(queue)
        BY <3>3, <4>1, <4>3 DEF NoDuplicate
      <4>4. CASE i = Len(queue) + 1 /\ j \in 1..Len(queue)
        BY <3>2, <3>3, <4>1, <4>4
      <4>5. CASE j = Len(queue) + 1 /\ i \in 1..Len(queue)
        BY <3>2, <3>3, <4>1, <4>5
      <4>6. QED
        BY <4>2, <4>3, <4>4, <4>5
    <3>5. ASSUME NEW x \in Msgs PROVE outcome'[x] = "queued" <=> Queued(x)'
      BY <3>1, <3>3, SMTT(30) DEF QueuedIffPending, Queued
    <3>6. QED
      BY <3>4, <3>5 DEF QueuedIffPending
  <2>3. ASSUME NEW m \in Msgs, SendDirect(m) PROVE (NoDuplicate /\ QueuedIffPending)'
    BY <2>3, <2>c DEF SendDirect, SendCall
  <2>4. CASE DrainSend
    <3> DEFINE h == Head(queue)
    <3>1. /\ queue # <<>> /\ queue' = Tail(queue)
          /\ \E o \in {"sent", "rejected"} : outcome' = [outcome EXCEPT ![h] = o]
      BY <2>4 DEF DrainSend
    <3>2. /\ h = queue[1] /\ h \in Msgs /\ Len(queue) >= 1
          /\ Len(queue') = Len(queue) - 1
          /\ \A i \in 1..Len(queue') : queue'[i] = queue[i + 1]
      BY <3>1
    <3>a. Len(queue) \in Nat /\ \A i \in 1..Len(queue') : i + 1 \in 1..Len(queue)
      <4>1. Len(queue) \in Nat
        OBVIOUS
      <4>2. QED
        BY <3>2, <4>1, ShiftIndex
    <3>3. NoDuplicate'
      <4>1. SUFFICES ASSUME NEW i \in 1..(Len(queue) - 1), NEW j \in 1..(Len(queue) - 1),
                            queue'[i] = queue'[j]
                     PROVE  i = j
        BY <3>2 DEF NoDuplicate
      <4>2. i \in Int /\ j \in Int
        BY <3>a
      <4>3. i + 1 = j + 1
        <5>1. i + 1 \in 1..Len(queue) /\ j + 1 \in 1..Len(queue)
          BY <3>2, <3>a
        <5>2. queue[i + 1] = queue[j + 1]
          BY <3>2, <4>1
        <5>3. QED
          BY <5>1, <5>2 DEF NoDuplicate
      <4>4. QED
        BY <4>2, <4>3
    <3>4. ASSUME NEW i \in 1..Len(queue') PROVE queue'[i] # h
      <4>1. i + 1 # 1 /\ 1 \in 1..Len(queue)
        BY <3>2, <3>a
      <4>2. QED
        BY <3>2, <3>a, <4>1 DEF NoDuplicate
    <3>5. ASSUME NEW x \in Msgs PROVE outcome'[x] = "queued" <=> Queued(x)'
      <4>1. CASE x = h
        BY <3>1, <3>2, <3>4, <4>1 DEF Queued
      <4>2. CASE x # h
        <5>1. outcome'[x] = outcome[x]
          BY <3>1, <4>2
        <5>2. Queued(x) <=> Queued(x)'
          <6>1. ASSUME Queued(x) PROVE Queued(x)'
            <7>1. PICK i \in 1..Len(queue) : queue[i] = x
              BY <6>1 DEF Queued
            <7>2. i # 1 /\ i - 1 \in 1..Len(queue') /\ queue'[i - 1] = x
              <8>1. i # 1 /\ i - 1 \in 1..Len(queue') /\ (i - 1) + 1 = i
                BY <3>2, <3>a, <4>2, <7>1
              <8>2. QED
                BY <3>2, <7>1, <8>1
            <7>3. QED
              BY <7>2 DEF Queued
          <6>2. ASSUME Queued(x)' PROVE Queued(x)
            <7>1. PICK i \in 1..Len(queue') : queue'[i] = x
              BY <6>2 DEF Queued
            <7>2. i + 1 \in 1..Len(queue) /\ queue[i + 1] = x
              BY <3>2, <3>a, <7>1
            <7>3. QED
              BY <7>2 DEF Queued
          <6>3. QED
            BY <6>1, <6>2
        <5>3. QED
          BY <5>1, <5>2 DEF QueuedIffPending
      <4>3. QED
        BY <4>1, <4>2
    <3>6. QED
      BY <3>3, <3>5 DEF QueuedIffPending
  <2>5. CASE Clear \/ CloseEvent
    BY <2>5, <2>a, <2>b DEF Clear, CloseEvent
  <2>6. CASE DrainExit \/ DrainWait \/ Wake
    BY <2>6, <2>a DEF DrainExit, DrainWait, Wake, DrainWake
  <2>7. CASE ChannelClosing \/ BufferEmpties \/ UNCHANGED queueVars
    BY <2>7, <2>a DEF ChannelClosing, BufferEmpties, queueVars
  <2>8. QED
    BY <2>1, <2>2, <2>3, <2>4, <2>5, <2>6, <2>7 DEF QueueNext, Send, Drain
<1>3. QED
  BY <1>1, <1>2, PTL DEF QueueSpec

-----------------------------------------------------------------------------

(* BackpressureQueue implements OrderedDelivery: bursts, clears and the    *)
(* close listener are steps, or stuttering, of the abstract channel.       *)
THEOREM Refinement == QueueSpec => ImplementsOrderedDelivery
<1>1. QueueInit => Abs!AbsInit
  BY DEF QueueInit, Abs!AbsInit
<1>2. Types /\ [QueueNext]_queueVars => [Abs!AbsNext]_(Abs!absVars)
  <2> SUFFICES ASSUME Types, [QueueNext]_queueVars
               PROVE  Abs!AbsNext \/ UNCHANGED Abs!absVars
    OBVIOUS
  <2> USE DEF Abs!AbsNext, Abs!absVars, Abs!Call, SendCall, callVars
  <2>a. ASSUME UNCHANGED <<outcome, queue, wire, callVars>>
        PROVE  UNCHANGED Abs!absVars
    BY <2>a
  <2>b. ASSUME RejectQueue, UNCHANGED <<wire, callVars>> PROVE Abs!RejectAll
    BY <2>b DEF RejectQueue, Queued, Abs!RejectAll
  <2>1. ASSUME NEW m \in Msgs, SendNotOpen(m) PROVE Abs!Refuse(m)
    BY <2>1 DEF SendNotOpen, chanVars, Abs!Refuse
  <2>2. ASSUME NEW m \in Msgs, SendQueue(m) PROVE Abs!Accept(m)
    BY <2>2 DEF SendQueue, chanVars, Abs!Accept
  <2>3. ASSUME NEW m \in Msgs, SendDirect(m) PROVE Abs!DirectSend(m) \/ Abs!Refuse(m)
    <3>1. queue = <<>>
      BY <2>3 DEF SendDirect, MustQueue, Types
    <3>2. QED
      BY <2>3, <3>1 DEF SendDirect, Abs!DirectSend, Abs!Refuse
  <2>4. CASE DrainSend
    BY <2>4 DEF DrainSend, Abs!SendHead, Abs!RejectHead
  <2>5. CASE Clear
    BY <2>5, <2>b DEF Clear, chanVars
  <2>6. CASE CloseEvent
    BY <2>6, <2>a, <2>b DEF CloseEvent
  <2>7. CASE DrainExit \/ DrainWait \/ Wake
    BY <2>7, <2>a DEF DrainExit, DrainWait, Wake, DrainWake, chanVars
  <2>8. CASE ChannelClosing \/ BufferEmpties \/ UNCHANGED queueVars
    BY <2>8, <2>a DEF ChannelClosing, BufferEmpties, queueVars, chanVars
  <2>9. QED
    BY <2>1, <2>2, <2>3, <2>4, <2>5, <2>6, <2>7, <2>8 DEF QueueNext, Send, Drain
<1>3. QueueSpec => []Types
  BY InitTypes, StepTypes, PTL DEF QueueSpec
<1>4. QED
  BY <1>1, <1>2, <1>3, PTL DEF QueueSpec, ImplementsOrderedDelivery, Abs!AbsSpec

-----------------------------------------------------------------------------
(* What OrderedDelivery gives its users *)

(* Append keeps the order t of the elements if the new one is the largest. *)
LEMMA AppendOrder ==
  ASSUME NEW t \in [Msgs -> Nat], NEW s \in Seq(Msgs), NEW m \in Msgs,
         \A i, j \in 1..Len(s) : i < j => t[s[i]] < t[s[j]],
         \A i \in 1..Len(s) : t[s[i]] < t[m]
  PROVE  \A i, j \in 1..Len(Append(s, m)) :
            i < j => t[Append(s, m)[i]] < t[Append(s, m)[j]]
<1> SUFFICES ASSUME NEW i \in 1..Len(Append(s, m)), NEW j \in 1..Len(Append(s, m)), i < j
             PROVE  t[Append(s, m)[i]] < t[Append(s, m)[j]]
  OBVIOUS
<1>1. Len(s) \in Nat /\ Len(Append(s, m)) = Len(s) + 1
  OBVIOUS
<1>2. i \in 1..Len(s) /\ (j \in 1..Len(s) \/ j = Len(s) + 1)
  <2> DEFINE n == Len(s)
  <2>1. n \in Nat /\ i \in 1..(n + 1) /\ j \in 1..(n + 1) /\ i < j
    BY <1>1
  <2> HIDE DEF n
  <2>2. i \in 1..n /\ (j \in 1..n \/ j = n + 1)
    BY <2>1
  <2> QED BY <2>2 DEF n
<1>3. Append(s, m)[i] = s[i] /\ (j \in 1..Len(s) => Append(s, m)[j] = s[j])
  BY <1>2
<1>4. Append(s, m)[Len(s) + 1] = m
  OBVIOUS
<1>5. QED
  BY <1>2, <1>3, <1>4

(* What holds of a sequence's elements and of m holds of Append's.         *)
LEMMA AppendElements ==
  ASSUME NEW X, NEW s \in Seq(Msgs), NEW m \in Msgs,
         \A i \in 1..Len(s) : s[i] \in X, m \in X
  PROVE  \A i \in 1..Len(Append(s, m)) : Append(s, m)[i] \in X
<1> SUFFICES ASSUME NEW i \in 1..Len(Append(s, m)) PROVE Append(s, m)[i] \in X
  OBVIOUS
<1>1. Len(s) \in Nat /\ Len(Append(s, m)) = Len(s) + 1 /\ Append(s, m)[Len(s) + 1] = m
  OBVIOUS
<1>2. i \in 1..Len(s) \/ i = Len(s) + 1
  BY <1>1
<1>3. i \in 1..Len(s) => Append(s, m)[i] = s[i]
  OBVIOUS
<1>4. QED
  BY <1>1, <1>2, <1>3

LEMMA OrderStep == Abs!OrderInv /\ [Abs!AbsNext]_(Abs!absVars) => Abs!OrderInv'
<1> SUFFICES ASSUME Abs!OrderInv, [Abs!AbsNext]_(Abs!absVars) PROVE Abs!OrderInv'
  OBVIOUS
<1>0. Abs!AbsTypeOK /\ Len(queue) \in Nat /\ Len(wire) \in Nat
  BY DEF Abs!OrderInv, Abs!AbsTypeOK
<1>1. ASSUME NEW m \in Msgs, Abs!DirectSend(m) PROVE Abs!OrderInv'
  <2>1. /\ queue = <<>> /\ queue' = <<>> /\ wire' = Append(wire, m)
        /\ outcome[m] = "new" /\ outcome' = [outcome EXCEPT ![m] = "sent"]
        /\ calls' = calls + 1 /\ ticket' = [ticket EXCEPT ![m] = calls + 1]
    BY <1>1 DEF Abs!DirectSend, Abs!Call
  <2>2. Abs!AbsTypeOK'
    BY <1>0, <2>1 DEF Abs!AbsTypeOK, Abs!Outcomes
  <2>3. ticket'[m] = calls + 1 /\ outcome'[m] = "sent" /\ Len(queue') = 0
    BY <1>0, <2>1 DEF Abs!AbsTypeOK
  <2>4. ASSUME NEW i \in 1..Len(wire)
        PROVE  /\ wire[i] \in Msgs /\ ticket'[wire[i]] = ticket[wire[i]]
               /\ outcome'[wire[i]] = "sent" /\ ticket'[wire[i]] < ticket'[m]
    <3>1. wire[i] \in Msgs /\ outcome[wire[i]] = "sent"
      BY <1>0 DEF Abs!OrderInv, Abs!AbsTypeOK
    <3>2. ticket'[wire[i]] = ticket[wire[i]] /\ outcome'[wire[i]] = "sent"
      BY <1>0, <2>1, <3>1 DEF Abs!AbsTypeOK
    <3>3. ticket[wire[i]] \in Nat /\ calls \in Nat /\ ticket[wire[i]] <= calls
      BY <1>0, <3>1 DEF Abs!OrderInv, Abs!AbsTypeOK
    <3>4. QED
      BY <2>3, <3>1, <3>2, <3>3
  <2>5. Abs!Increasing(wire)'
    <3>1. \A i, j \in 1..Len(wire) : i < j => ticket'[wire[i]] < ticket'[wire[j]]
      BY <2>4 DEF Abs!OrderInv, Abs!Increasing
    <3>2. ticket' \in [Msgs -> Nat] /\ wire \in Seq(Msgs)
      BY <1>0, <2>2 DEF Abs!AbsTypeOK
    <3>3. \A i, j \in 1..Len(Append(wire, m)) :
             i < j => ticket'[Append(wire, m)[i]] < ticket'[Append(wire, m)[j]]
      BY <2>4, <3>1, <3>2, AppendOrder
    <3>4. QED
      BY <2>1, <3>3 DEF Abs!Increasing
  <2>6. \A i \in 1..Len(wire') : outcome'[wire'[i]] = "sent"
    <3> DEFINE X == {x \in Msgs : outcome'[x] = "sent"}
    <3>1. \A i \in 1..Len(wire) : wire[i] \in X
      BY <2>4
    <3>2. m \in X /\ wire \in Seq(Msgs)
      BY <1>0, <2>3 DEF Abs!AbsTypeOK
    <3> HIDE DEF X
    <3>3. \A i \in 1..Len(Append(wire, m)) : Append(wire, m)[i] \in X
      BY <3>1, <3>2, AppendElements
    <3>4. QED
      BY <2>1, <3>3 DEF X
  <2>7. \A x \in Msgs : ticket'[x] <= calls'
    BY <1>0, <2>1 DEF Abs!OrderInv, Abs!AbsTypeOK
  <2>8. \A j \in 1..Len(queue') : FALSE
    BY <2>3
  <2>9. QED
    BY <2>2, <2>5, <2>6, <2>7, <2>8 DEF Abs!OrderInv, Abs!Increasing
<1>2. ASSUME NEW m \in Msgs, Abs!Accept(m) PROVE Abs!OrderInv'
  <2>1. /\ queue' = Append(queue, m) /\ wire' = wire
        /\ outcome[m] = "new" /\ outcome' = [outcome EXCEPT ![m] = "queued"]
        /\ calls' = calls + 1 /\ ticket' = [ticket EXCEPT ![m] = calls + 1]
    BY <1>2 DEF Abs!Accept, Abs!Call
  <2>2. Abs!AbsTypeOK'
    BY <1>0, <2>1 DEF Abs!AbsTypeOK, Abs!Outcomes
  <2>3. ticket'[m] = calls + 1 /\ outcome'[m] = "queued"
    BY <1>0, <2>1 DEF Abs!AbsTypeOK
  <2>4. ASSUME NEW x \in Msgs, outcome[x] # "new"
        PROVE  /\ ticket'[x] = ticket[x] /\ outcome'[x] = outcome[x]
               /\ ticket'[x] < ticket'[m]
    <3>1. x # m
      BY <2>1, <2>4
    <3>2. ticket'[x] = ticket[x] /\ outcome'[x] = outcome[x]
      BY <1>0, <2>1, <3>1 DEF Abs!AbsTypeOK
    <3>3. ticket[x] \in Nat /\ calls \in Nat /\ ticket[x] <= calls
      BY <1>0 DEF Abs!AbsTypeOK, Abs!OrderInv
    <3>4. QED
      BY <2>3, <3>2, <3>3
  <2>5. /\ \A i \in 1..Len(queue) : queue[i] \in Msgs /\ outcome[queue[i]] = "queued"
        /\ \A i \in 1..Len(wire) : wire[i] \in Msgs /\ outcome[wire[i]] = "sent"
    BY <1>0 DEF Abs!OrderInv, Abs!AbsTypeOK
  <2>6. /\ \A i \in 1..Len(queue) : /\ ticket'[queue[i]] = ticket[queue[i]]
                                       /\ ticket'[queue[i]] < ticket'[m]
                                       /\ outcome'[queue[i]] = "queued"
        /\ \A i \in 1..Len(wire) : /\ ticket'[wire[i]] = ticket[wire[i]]
                                    /\ ticket'[wire[i]] < ticket'[m]
                                    /\ outcome'[wire[i]] = "sent"
    BY <2>4, <2>5
  <2>7. Abs!Increasing(queue)'
    <3>1. \A i, j \in 1..Len(queue) : i < j => ticket'[queue[i]] < ticket'[queue[j]]
      BY <2>6 DEF Abs!OrderInv, Abs!Increasing
    <3>2. ticket' \in [Msgs -> Nat] /\ queue \in Seq(Msgs)
      BY <1>0, <2>2 DEF Abs!AbsTypeOK
    <3>3. \A i, j \in 1..Len(Append(queue, m)) :
             i < j => ticket'[Append(queue, m)[i]] < ticket'[Append(queue, m)[j]]
      BY <2>6, <3>1, <3>2, AppendOrder
    <3>4. QED
      BY <2>1, <3>3 DEF Abs!Increasing
  <2>8. ASSUME NEW i \in 1..Len(wire)
        PROVE  \A j \in 1..Len(queue') : ticket'[wire[i]] < ticket'[queue'[j]]
    <3> DEFINE X == {x \in Msgs : ticket'[wire[i]] < ticket'[x]}
    <3>1. \A j \in 1..Len(queue) : queue[j] \in X
      BY <2>5, <2>6 DEF Abs!OrderInv
    <3>2. m \in X /\ queue \in Seq(Msgs)
      BY <1>0, <2>6 DEF Abs!AbsTypeOK
    <3> HIDE DEF X
    <3>3. \A j \in 1..Len(Append(queue, m)) : Append(queue, m)[j] \in X
      BY <3>1, <3>2, AppendElements
    <3>4. QED
      BY <2>1, <3>3 DEF X
  <2>9. \A j \in 1..Len(queue') : outcome'[queue'[j]] = "queued"
    <3> DEFINE X == {x \in Msgs : outcome'[x] = "queued"}
    <3>1. \A j \in 1..Len(queue) : queue[j] \in X
      BY <2>5, <2>6
    <3>2. m \in X /\ queue \in Seq(Msgs)
      BY <1>0, <2>3 DEF Abs!AbsTypeOK
    <3> HIDE DEF X
    <3>3. \A j \in 1..Len(Append(queue, m)) : Append(queue, m)[j] \in X
      BY <3>1, <3>2, AppendElements
    <3>4. QED
      BY <2>1, <3>3 DEF X
  <2>10. \A x \in Msgs : ticket'[x] <= calls'
    BY <1>0, <2>1 DEF Abs!OrderInv, Abs!AbsTypeOK
  <2>11. Abs!Increasing(wire)'
    BY <2>1, <2>6 DEF Abs!OrderInv, Abs!Increasing
  <2>12. QED
    BY <2>1, <2>2, <2>6, <2>7, <2>8, <2>9, <2>10, <2>11 DEF Abs!OrderInv
<1>3. ASSUME NEW m \in Msgs, Abs!Refuse(m) PROVE Abs!OrderInv'
  <2>1. /\ queue' = queue /\ wire' = wire
        /\ outcome[m] = "new" /\ outcome' = [outcome EXCEPT ![m] = "rejected"]
        /\ calls' = calls + 1 /\ ticket' = [ticket EXCEPT ![m] = calls + 1]
    BY <1>3 DEF Abs!Refuse, Abs!Call
  <2>2. Abs!AbsTypeOK'
    BY <1>0, <2>1 DEF Abs!AbsTypeOK, Abs!Outcomes
  <2>3. \A x \in Msgs : outcome[x] # "new" =>
                          ticket'[x] = ticket[x] /\ outcome'[x] = outcome[x]
    BY <1>0, <2>1 DEF Abs!AbsTypeOK
  <2>4. /\ \A i \in 1..Len(queue) : queue[i] \in Msgs /\ outcome[queue[i]] = "queued"
        /\ \A i \in 1..Len(wire) : wire[i] \in Msgs /\ outcome[wire[i]] = "sent"
    BY <1>0 DEF Abs!OrderInv, Abs!AbsTypeOK
  <2>5. /\ \A i \in 1..Len(queue) : /\ ticket'[queue[i]] = ticket[queue[i]]
                                       /\ outcome'[queue[i]] = "queued"
        /\ \A i \in 1..Len(wire) : /\ ticket'[wire[i]] = ticket[wire[i]]
                                    /\ outcome'[wire[i]] = "sent"
    BY <2>3, <2>4
  <2>6. \A x \in Msgs : ticket'[x] <= calls'
    BY <1>0, <2>1 DEF Abs!OrderInv, Abs!AbsTypeOK
  <2>7. QED
    BY <2>1, <2>2, <2>5, <2>6 DEF Abs!OrderInv, Abs!Increasing
<1>4. CASE Abs!SendHead
  <2> DEFINE h == Head(queue)
  <2>1. /\ queue # <<>> /\ queue' = Tail(queue) /\ wire' = Append(wire, h)
        /\ outcome' = [outcome EXCEPT ![h] = "sent"]
        /\ ticket' = ticket /\ calls' = calls
    BY <1>4 DEF Abs!SendHead
  <2>2. queue \in Seq(Msgs) /\ wire \in Seq(Msgs) /\ ticket \in [Msgs -> Nat]
    BY <1>0 DEF Abs!AbsTypeOK
  <2>3. /\ h = queue[1] /\ h \in Msgs /\ Len(queue) >= 1 /\ queue' \in Seq(Msgs)
        /\ Len(queue') = Len(queue) - 1
        /\ \A j \in 1..Len(queue') : queue'[j] = queue[j + 1]
    BY <1>0, <2>1, <2>2
  <2> HIDE DEF h
  <2>4. Abs!AbsTypeOK'
    <3>1. wire' \in Seq(Msgs) /\ outcome' \in [Msgs -> Abs!Outcomes]
      BY <1>0, <2>1, <2>2, <2>3 DEF Abs!AbsTypeOK, Abs!Outcomes
    <3>2. QED
      BY <1>0, <2>1, <2>3, <3>1 DEF Abs!AbsTypeOK
  <2>5. \A j \in 1..Len(queue') : j + 1 \in 1..Len(queue) /\ 1 < j + 1
    BY <1>0, <2>3
  <2>6. 1 \in 1..Len(queue)
    BY <1>0, <2>3
  <2>7. ASSUME NEW j \in 1..Len(queue')
        PROVE  /\ queue'[j] \in Msgs /\ ticket[h] < ticket[queue'[j]]
               /\ outcome[queue'[j]] = "queued"
               /\ \A i \in 1..Len(wire) : ticket[wire[i]] < ticket[queue'[j]]
    <3>1. queue'[j] = queue[j + 1] /\ j + 1 \in 1..Len(queue) /\ 1 < j + 1
      BY <2>3, <2>5
    <3>2. queue[j + 1] \in Msgs
      BY <2>2, <3>1
    <3>3. QED
      BY <2>3, <2>6, <3>1, <3>2 DEF Abs!OrderInv, Abs!Increasing
  <2>8. \A i \in 1..Len(wire) : wire[i] \in Msgs /\ ticket[wire[i]] < ticket[h]
    <3>1. \A i \in 1..Len(wire) : wire[i] \in Msgs
      BY <2>2
    <3>2. \A i \in 1..Len(wire) : ticket[wire[i]] < ticket[queue[1]]
      BY <2>6 DEF Abs!OrderInv
    <3>3. QED
      BY <2>3, <3>1, <3>2
  <2>9. Abs!Increasing(wire)'
    <3>1. \A i, j \in 1..Len(wire) : i < j => ticket[wire[i]] < ticket[wire[j]]
      BY DEF Abs!OrderInv, Abs!Increasing
    <3>2. \A i, j \in 1..Len(Append(wire, h)) :
             i < j => ticket[Append(wire, h)[i]] < ticket[Append(wire, h)[j]]
      BY <2>2, <2>3, <2>8, <3>1, AppendOrder
    <3>3. QED
      BY <2>1, <3>2 DEF Abs!Increasing
  <2>10. Abs!Increasing(queue)'
    <3>1. ASSUME NEW i \in 1..Len(queue'), NEW j \in 1..Len(queue'), i < j
          PROVE  ticket[queue'[i]] < ticket[queue'[j]]
      <4>1. /\ i + 1 \in 1..Len(queue) /\ j + 1 \in 1..Len(queue) /\ i + 1 < j + 1
            /\ queue'[i] = queue[i + 1] /\ queue'[j] = queue[j + 1]
        <5>1. i \in Int /\ j \in Int /\ i + 1 < j + 1
          BY <3>1
        <5> QED BY <2>3, <2>5, <5>1
      <4>2. QED
        BY <4>1 DEF Abs!OrderInv, Abs!Increasing
    <3>2. QED
      BY <2>1, <3>1 DEF Abs!Increasing
  <2>11. ASSUME NEW j \in 1..Len(queue')
         PROVE  \A i \in 1..Len(wire') : ticket[wire'[i]] < ticket[queue'[j]]
    <3> DEFINE X == {x \in Msgs : ticket[x] < ticket[queue'[j]]}
    <3>1. (\A i \in 1..Len(wire) : wire[i] \in X) /\ h \in X
      BY <2>3, <2>7, <2>8
    <3> HIDE DEF X
    <3>2. \A i \in 1..Len(Append(wire, h)) : Append(wire, h)[i] \in X
      BY <2>2, <2>3, <3>1, AppendElements
    <3>3. QED
      BY <2>1, <3>2 DEF X
  <2>12. \A i \in 1..Len(wire') : outcome'[wire'[i]] = "sent"
    <3> DEFINE X == {x \in Msgs : outcome'[x] = "sent"}
    <3>1. \A i \in 1..Len(wire) : wire[i] \in X
      BY <1>0, <2>1, <2>8 DEF Abs!OrderInv, Abs!AbsTypeOK
    <3>2. h \in X
      BY <1>0, <2>1, <2>3 DEF Abs!AbsTypeOK
    <3> HIDE DEF X
    <3>3. \A i \in 1..Len(Append(wire, h)) : Append(wire, h)[i] \in X
      BY <2>2, <2>3, <3>1, <3>2, AppendElements
    <3>4. QED
      BY <2>1, <3>3 DEF X
  <2>13. ASSUME NEW j \in 1..Len(queue') PROVE outcome'[queue'[j]] = "queued"
    <3>1. ticket[h] \in Nat /\ queue'[j] # h
      BY <2>2, <2>3, <2>7, SMTT(30)
    <3>2. QED
      BY <1>0, <2>1, <2>7, <3>1 DEF Abs!AbsTypeOK
  <2>14. \A x \in Msgs : ticket'[x] <= calls'
    BY <2>1 DEF Abs!OrderInv
  <2>15. QED
    BY <2>1, <2>4, <2>9, <2>10, <2>11, <2>12, <2>13, <2>14 DEF Abs!OrderInv
<1>5. CASE Abs!RejectHead
  BY <1>5, SMTT(30) DEF Abs!RejectHead, Abs!OrderInv, Abs!AbsTypeOK, Abs!Outcomes, Abs!Increasing
<1>6. CASE Abs!RejectAll
  <2>1. /\ queue' = <<>> /\ Len(queue') = 0 /\ UNCHANGED <<wire, ticket, calls>>
        /\ outcome' \in [Msgs -> Abs!Outcomes]
    BY <1>0, <1>6 DEF Abs!RejectAll, Abs!AbsTypeOK, Abs!Outcomes
  <2>2. ASSUME NEW i \in 1..Len(wire) PROVE outcome'[wire[i]] = "sent"
    <3>1. wire[i] \in Msgs /\ outcome[wire[i]] = "sent"
      BY <1>0 DEF Abs!OrderInv, Abs!AbsTypeOK
    <3>2. \A k \in 1..Len(queue) : queue[k] # wire[i]
      BY <3>1 DEF Abs!OrderInv
    <3> QED BY <1>6, <3>1, <3>2 DEF Abs!RejectAll
  <2>3. Abs!AbsTypeOK'
    BY <1>0, <2>1 DEF Abs!AbsTypeOK
  <2>4. \A j \in 1..Len(queue') : FALSE
    BY <2>1
  <2> QED BY <2>1, <2>2, <2>3, <2>4 DEF Abs!OrderInv, Abs!Increasing
<1>7. CASE UNCHANGED Abs!absVars
  BY <1>7 DEF Abs!absVars, Abs!OrderInv, Abs!AbsTypeOK, Abs!Outcomes, Abs!Increasing
<1>8. QED
  BY <1>1, <1>2, <1>3, <1>4, <1>5, <1>6, <1>7 DEF Abs!AbsNext

(* Payloads never overtake one another on the wire.                        *)
THEOREM NoOvertaking == Abs!AbsSpec => []Abs!CallOrder
<1>1. Abs!AbsInit => Abs!OrderInv
  BY DEF Abs!AbsInit, Abs!OrderInv, Abs!AbsTypeOK, Abs!Outcomes, Abs!Increasing
<1>2. Abs!OrderInv /\ [Abs!AbsNext]_(Abs!absVars) => Abs!OrderInv'
  BY OrderStep
<1>3. Abs!OrderInv => Abs!CallOrder
  BY DEF Abs!OrderInv, Abs!CallOrder
<1>4. QED
  BY <1>1, <1>2, <1>3, PTL DEF Abs!AbsSpec

(* So the queue's own wire is in call order: no burst, close listener or   *)
(* drain lets a later send() pass an earlier one.                          *)
COROLLARY QueueInOrder == QueueSpec => []Abs!CallOrder
BY Refinement, NoOvertaking, PTL DEF ImplementsOrderedDelivery
=============================================================================
