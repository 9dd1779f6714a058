-------------------------- MODULE BackpressureQueue --------------------------
(***************************************************************************)
(* lib/channel/backpressureQueue.ts: the queue in front of an              *)
(* RTCDataChannel.  send() hands a payload to the channel when it fits     *)
(* under the high-water mark and queues it otherwise; drain() is an async  *)
(* function that empties the queue in bursts, sleeping in                  *)
(* waitForDrainEvent between them.                                         *)
(*                                                                         *)
(* JavaScript runs one callback at a time.  A drain activation that is on  *)
(* the stack is  active ; the others sleep in  waiting .  Only the active  *)
(* activation may step while there is one, so an iteration of drain's loop *)
(* is one action and a whole burst is never interleaved with anything.     *)
(***************************************************************************)
EXTENDS Integers, Sequences

CONSTANTS
  Msgs,               \* the payloads, one for each send() call
  Size,               \* [Msgs -> Nat \ {0}]: payload.byteLength
  HIGH_WATER_MARK,    \* send() queues beyond this many bytes
  DRAIN_THRESHOLD,    \* drain() sends while bufferedAmount is at most this
  MaxSize,            \* the largest payload
  MaxClears           \* bound: how often clear() is called

ASSUME QueueConstants ==
  /\ HIGH_WATER_MARK \in Nat
  /\ DRAIN_THRESHOLD \in Nat
  /\ DRAIN_THRESHOLD <= HIGH_WATER_MARK
  /\ MaxSize \in Nat
  /\ MaxClears \in Nat
  /\ Size \in [Msgs -> Nat]
  /\ \A m \in Msgs : 0 < Size[m] /\ Size[m] <= MaxSize

VARIABLES
  outcome,            \* [Msgs -> Outcomes]: the promise returned by send()
  queue,              \* this.queue
  pendingBytes,       \* this.pendingBytes
  draining,           \* this.draining: 0 is false, 1 is true
  drainGeneration,    \* this.drainGeneration
  active,             \* generation of the drain() on the stack, 0 if none
  waiting,            \* generations of the drain()s in waitForDrainEvent
  readyState,         \* dc.readyState; "closed" once the close event ran
  bufferedAmount,     \* dc.bufferedAmount
  wire,               \* history: payloads accepted by dc.send, in order
  ticket, calls,      \* history: the order of the send() calls
  clears              \* the number of clear() calls

chanVars  == <<readyState, bufferedAmount, wire>>
drainVars == <<draining, drainGeneration, active, waiting>>
callVars  == <<ticket, calls>>
queueVars == <<outcome, queue, pendingBytes, drainVars, chanVars, callVars, clears>>

Outcomes == {"new", "queued", "sent", "rejected"}

Queued(m) == \E i \in 1..Len(queue) : queue[i] = m

QueueInit ==
  /\ outcome = [m \in Msgs |-> "new"]
  /\ queue = <<>>
  /\ pendingBytes = 0
  /\ draining = 0
  /\ drainGeneration = 0
  /\ active = 0
  /\ waiting = {}
  /\ readyState = "open"
  /\ bufferedAmount = 0
  /\ wire = <<>>
  /\ ticket = [m \in Msgs |-> 0]
  /\ calls = 0
  /\ clears = 0

-----------------------------------------------------------------------------
(* send() *)

SendCall(m) ==
  /\ active = 0
  /\ outcome[m] = "new"
  /\ calls' = calls + 1
  /\ ticket' = [ticket EXCEPT ![m] = calls + 1]
  /\ UNCHANGED clears

SendNotOpen(m) ==
  /\ SendCall(m)
  /\ readyState # "open"
  /\ outcome' = [outcome EXCEPT ![m] = "rejected"]
  /\ UNCHANGED <<queue, pendingBytes, drainVars, chanVars>>

(* Variant: only the byte count decides; a payload that fits overtakes the *)
(* queue.                                                                  *)
MustQueue_BytesOnly(m) ==
  bufferedAmount + pendingBytes + Size[m] > HIGH_WATER_MARK

(* Variant: the high-water mark is compared without the new payload.       *)
MustQueue_WithoutPayload(m) ==
  \/ Len(queue) > 0
  \/ bufferedAmount + pendingBytes > HIGH_WATER_MARK

MustQueue(m) ==
  \/ Len(queue) > 0
  \/ bufferedAmount + pendingBytes + Size[m] > HIGH_WATER_MARK

(* drain() is entered synchronously: the generation it takes is the one    *)
(* the queue has from now on.                                              *)
StartDrain ==
  IF draining = 1
  THEN UNCHANGED drainVars
  ELSE /\ draining' = 1
       /\ drainGeneration' = drainGeneration + 1
       /\ active' = drainGeneration + 1
       /\ UNCHANGED waiting

SendQueue(m) ==
  /\ SendCall(m)
  /\ readyState = "open"
  /\ MustQueue(m)
  /\ queue' = Append(queue, m)
  /\ pendingBytes' = pendingBytes + Size[m]
  /\ outcome' = [outcome EXCEPT ![m] = "queued"]
  /\ StartDrain
  /\ UNCHANGED chanVars

SendDirect(m) ==
  /\ SendCall(m)
  /\ readyState = "open"
  /\ ~MustQueue(m)
  /\ \/ /\ outcome' = [outcome EXCEPT ![m] = "sent"]
        /\ wire' = Append(wire, m)
        /\ bufferedAmount' = bufferedAmount + Size[m]
     \/ /\ outcome' = [outcome EXCEPT ![m] = "rejected"]    \* dc.send threw
        /\ UNCHANGED <<wire, bufferedAmount>>
  /\ UNCHANGED <<queue, pendingBytes, drainVars, readyState>>

Send(m) == SendNotOpen(m) \/ SendQueue(m) \/ SendDirect(m)

-----------------------------------------------------------------------------
(* drain(): one action per pass through the loop *)

(* Variant: the finally block resets draining whatever the generation.     *)
DrainExit_NoGenerationCheck ==
  /\ active # 0
  /\ queue = <<>> \/ active # drainGeneration
  /\ draining' = 0
  /\ active' = 0
  /\ UNCHANGED <<outcome, queue, pendingBytes, drainGeneration, waiting,
                 chanVars, callVars, clears>>

DrainExit ==
  /\ active # 0
  /\ queue = <<>> \/ active # drainGeneration
  /\ draining' = IF active = drainGeneration THEN 0 ELSE draining
  /\ active' = 0
  /\ UNCHANGED <<outcome, queue, pendingBytes, drainGeneration, waiting,
                 chanVars, callVars, clears>>

DrainSend ==
  /\ active # 0
  /\ queue # <<>> /\ active = drainGeneration
  /\ bufferedAmount <= DRAIN_THRESHOLD
  /\ queue' = Tail(queue)
  /\ pendingBytes' = pendingBytes - Size[Head(queue)]
  /\ \/ /\ readyState = "open"
        /\ outcome' = [outcome EXCEPT ![Head(queue)] = "sent"]
        /\ wire' = Append(wire, Head(queue))
        /\ bufferedAmount' = bufferedAmount + Size[Head(queue)]
     \/ /\ outcome' = [outcome EXCEPT ![Head(queue)] = "rejected"]
        /\ UNCHANGED <<wire, bufferedAmount>>
  /\ UNCHANGED <<drainVars, readyState, callVars, clears>>

DrainWait ==
  /\ active # 0
  /\ queue # <<>> /\ active = drainGeneration
  /\ bufferedAmount > DRAIN_THRESHOLD
  /\ waiting' = waiting \cup {active}
  /\ active' = 0
  /\ UNCHANGED <<outcome, queue, pendingBytes, draining, drainGeneration,
                 chanVars, callVars, clears>>

(* waitForDrainEvent resolves: bufferedamountlow, or the fallback timer,   *)
(* whichever runs first.  The timer always runs, so no event is needed.    *)
DrainWake(g) ==
  /\ active = 0
  /\ g \in waiting
  /\ waiting' = waiting \ {g}
  /\ active' = g
  /\ UNCHANGED <<outcome, queue, pendingBytes, draining, drainGeneration,
                 chanVars, callVars, clears>>

Drain == DrainExit \/ DrainSend \/ DrainWait

-----------------------------------------------------------------------------
(* clear() and the close listener of drain() *)

(* Variant: the byte counter is not reset with the queue.                  *)
RejectQueue_KeepBytes ==
  /\ outcome' = [m \in Msgs |-> IF Queued(m) THEN "rejected" ELSE outcome[m]]
  /\ queue' = <<>>
  /\ UNCHANGED pendingBytes

RejectQueue ==
  /\ outcome' = [m \in Msgs |-> IF Queued(m) THEN "rejected" ELSE outcome[m]]
  /\ queue' = <<>>
  /\ pendingBytes' = 0

(* Variant: clear() leaves draining set.                                   *)
Clear_KeepDraining ==
  /\ active = 0
  /\ clears < MaxClears
  /\ clears' = clears + 1
  /\ RejectQueue
  /\ drainGeneration' = drainGeneration + 1
  /\ UNCHANGED <<draining, active, waiting, chanVars, callVars>>

Clear ==
  /\ active = 0
  /\ clears < MaxClears
  /\ clears' = clears + 1
  /\ RejectQueue
  /\ drainGeneration' = drainGeneration + 1
  /\ draining' = 0
  /\ UNCHANGED <<active, waiting, chanVars, callVars>>

(* readyState leaves "open" before the close event is dispatched; a drain  *)
(* that wakes in between finds dc.send throwing.                           *)
ChannelClosing ==
  /\ active = 0
  /\ readyState = "open"
  /\ readyState' = "closing"
  /\ UNCHANGED <<outcome, queue, pendingBytes, drainVars, bufferedAmount, wire,
                 callVars, clears>>

(* onClose is registered exactly while a drain activation is alive.        *)
CloseEvent ==
  /\ active = 0
  /\ readyState = "closing"
  /\ readyState' = "closed"
  /\ IF waiting # {}
     THEN RejectQueue
     ELSE UNCHANGED <<outcome, queue, pendingBytes>>
  /\ UNCHANGED <<drainVars, bufferedAmount, wire, callVars, clears>>

(* The browser puts buffered bytes on the network.                         *)
BufferEmpties ==
  /\ active = 0
  /\ readyState = "open"
  /\ bufferedAmount > 0
  /\ bufferedAmount' = bufferedAmount - 1
  /\ UNCHANGED <<outcome, queue, pendingBytes, drainVars, readyState, wire,
                 callVars, clears>>

Wake == \E g \in waiting : DrainWake(g)

QueueNext ==
  \/ \E m \in Msgs : Send(m)
  \/ Drain
  \/ Wake
  \/ Clear
  \/ ChannelClosing
  \/ CloseEvent
  \/ BufferEmpties

QueueSpec == QueueInit /\ [][QueueNext]_queueVars

(* A callback runs to completion.  The event loop is fair to its tasks: a  *)
(* due fallback timer, the close event after the state change, and the     *)
(* update of bufferedAmount by an open channel that transmits all run,     *)
(* although each is held up again and again while another callback is on   *)
(* the stack; hence strong fairness.                                       *)
QueueFairness ==
  /\ WF_queueVars(Drain)
  /\ SF_queueVars(Wake)
  /\ SF_queueVars(CloseEvent)
  /\ SF_queueVars(BufferEmpties)

-----------------------------------------------------------------------------

QueueTypeOK ==
  /\ outcome \in [Msgs -> Outcomes]
  /\ queue \in Seq(Msgs)
  /\ pendingBytes \in Nat
  /\ draining \in {0, 1}
  /\ drainGeneration \in Nat
  /\ active \in Nat
  /\ waiting \in SUBSET Nat
  /\ readyState \in {"open", "closing", "closed"}
  /\ bufferedAmount \in Nat
  /\ wire \in Seq(Msgs)
  /\ ticket \in [Msgs -> Nat]
  /\ calls \in Nat
  /\ clears \in Nat

Alive == waiting \cup {active}

(* No stranded payload: while anything is queued, draining is set and the  *)
(* drain activation of the current generation is alive to send it.  After  *)
(* clear() an old activation still sleeps; it must neither keep a new one  *)
(* from starting nor switch the new one's flag off.                        *)
NoStrandedPayload == queue # <<>> => draining = 1 /\ drainGeneration \in Alive

(* One drainer: whenever draining is set there is an activation of the     *)
(* current generation, and the flag is off when there is none; so two      *)
(* activations never both believe they own the queue.                      *)
OneDrainer ==
  /\ draining = 1 <=> (drainGeneration \in Alive /\ drainGeneration # 0)
  /\ \A g \in Alive : g <= drainGeneration
  /\ active \notin waiting /\ 0 \notin waiting

QueuedBytes ==
  LET sum[i \in 0..Len(queue)] == IF i = 0 THEN 0 ELSE sum[i - 1] + Size[queue[i]]
  IN  sum[Len(queue)]

(* The byte counter that send() compares with the high-water mark is the   *)
(* size of what is queued, over every mix of bursts, clears and closes.    *)
PendingBytesExact == pendingBytes = QueuedBytes

(* Bounded buffer: what the browser buffers never exceeds the high-water   *)
(* mark, or one payload above the drain threshold when a payload is larger *)
(* than the gap between the two.                                           *)
BufferBounded ==
  \/ bufferedAmount <= HIGH_WATER_MARK
  \/ bufferedAmount <= DRAIN_THRESHOLD + MaxSize

(* A promise is pending exactly while its payload is in the queue.         *)
QueuedIffPending == \A m \in Msgs : outcome[m] = "queued" <=> Queued(m)

Abs == INSTANCE OrderedDelivery WITH pending <- queue

(* The queue implements OrderedDelivery: payloads reach the wire in call   *)
(* order and every call is settled once.                                   *)
ImplementsOrderedDelivery == Abs!AbsSpec

(* Every queued send() settles, resolved or rejected, as long as timers    *)
(* fire and the channel transmits or closes: none of the calls, of which   *)
(* there are finitely many, stays queued.                                  *)
EverySendSettles == []<>(\A m \in Msgs : outcome[m] # "queued")
=============================================================================
