---------------------------- MODULE CommandClient ----------------------------
(***************************************************************************)
(* lib/channel/commandClient.ts: commands to the phone, each with a        *)
(* sequence number, retried until a response with that number arrives or   *)
(* MAX_RETRIES transmissions went unanswered.                              *)
(*                                                                         *)
(* The numbers come from storage.session through an asynchronous get and   *)
(* an asynchronous set without a lock, so callers that overlap can read    *)
(* the same value.  storage.session serves accesses in the order in which  *)
(* they are made, so sets follow each other in the order of the gets.  The *)
(* maps pending and pendingTimeouts are keyed by number: here they are     *)
(* sets of calls, of which no two have the same number, and Map.set        *)
(* replaces the call that had it.  storage.session survives a restart of   *)
(* the service worker, the maps and the timers do not.                     *)
(***************************************************************************)
EXTENDS Integers

CONSTANTS
  Commands,       \* calls of sendCommand
  Pings,          \* calls of sendHeartbeatPing
  None,           \* no call
  MAX_RETRIES,    \* transmissions of a command
  ROTATION_THRESHOLD,   \* messages between key rotations
  MaxRestarts     \* bound: restarts of the service worker

Calls == Commands \cup Pings

ASSUME ClientConstants ==
  /\ MAX_RETRIES \in Nat \ {0}
  /\ ROTATION_THRESHOLD \in Nat \ {0}
  /\ MaxRestarts \in Nat
  /\ None \notin Calls
  /\ Commands \cap Pings = {}

VARIABLES
  pc,             \* where each call is, see CallStates
  seq,            \* the number a call read or has
  stored,         \* storage.session 'cmd:sequence'
  ahead,          \* calls between get and set when this one made its get
  msgCount,       \* storage.session 'cmd:msgCount'
  rotations,      \* history: keyRotationProvider.rotate calls
  entries,        \* pending: the calls the map holds
  controllers,    \* pendingTimeouts: the calls the map holds
  armed,          \* calls with a timer running
  attempts,       \* entry.attempts; 1 for a ping that was transmitted
  pingOpen,       \* pendingPingSeq, as the ping that set it
  answers,        \* responses of the phone; each may arrive any number of times
  answerOf,       \* history: whose response settled a call
  restarts

vars == <<pc, seq, stored, ahead, msgCount, rotations, entries, controllers,
          armed, attempts, pingOpen, answers, answerOf, restarts>>

CallStates == {"new", "writing", "signing", "rotating", "ready", "pending",
               "resolved", "rejected", "lost", "pinging", "pinged"}

Init ==
  /\ pc = [c \in Calls |-> "new"]
  /\ seq = [c \in Calls |-> 0]
  /\ stored = 0
  /\ ahead = [c \in Calls |-> {}]
  /\ msgCount = 0
  /\ rotations = 0
  /\ entries = {}
  /\ controllers = {}
  /\ armed = {}
  /\ attempts = [c \in Calls |-> 0]
  /\ pingOpen = None
  /\ answers = {}
  /\ answerOf = [c \in Calls |-> None]
  /\ restarts = 0

(* The calls of a map that do not have number n.                           *)
Without(map, n) == {c \in map : seq[c] # n}

-----------------------------------------------------------------------------
(* getNextSequence *)

SessionRefused(c) ==
  /\ c \in Commands
  /\ pc[c] = "new"
  /\ pc' = [pc EXCEPT ![c] = "rejected"]
  /\ UNCHANGED <<seq, stored, ahead, msgCount, rotations, entries, controllers,
                 armed, attempts, pingOpen, answers, answerOf, restarts>>

SequenceGet(c) ==
  /\ pc[c] = "new"
  /\ pc' = [pc EXCEPT ![c] = "writing"]
  /\ seq' = [seq EXCEPT ![c] = stored + 1]
  /\ ahead' = [ahead EXCEPT ![c] = {d \in Calls : pc[d] = "writing"}]
  /\ UNCHANGED <<stored, msgCount, rotations, entries, controllers, armed,
                 attempts, pingOpen, answers, answerOf, restarts>>

SequenceSet(c) ==
  /\ pc[c] = "writing"
  /\ \A d \in ahead[c] : pc[d] # "writing"
  /\ stored' = seq[c]
  /\ pc' = [pc EXCEPT ![c] = IF c \in Pings THEN "ready" ELSE "signing"]
  /\ UNCHANGED <<seq, ahead, msgCount, rotations, entries, controllers, armed,
                 attempts, pingOpen, answers, answerOf, restarts>>

-----------------------------------------------------------------------------
(* sendCommand after the number: sign, count, rotate, transmit *)

(* messageCountLock makes the read and the write of the count one step.    *)
CountMessage(c) ==
  /\ pc[c] = "signing"
  /\ msgCount' = msgCount + 1
  /\ pc' = [pc EXCEPT ![c] =
              IF (msgCount + 1) % ROTATION_THRESHOLD = 0 THEN "rotating" ELSE "ready"]
  /\ UNCHANGED <<seq, stored, ahead, rotations, entries, controllers, armed,
                 attempts, pingOpen, answers, answerOf, restarts>>

(* rotate() resolves, or throws and the command is rejected.               *)
RotateKey(c) ==
  /\ pc[c] = "rotating"
  /\ rotations' = rotations + 1
  /\ \E p \in {"ready", "rejected"} : pc' = [pc EXCEPT ![c] = p]
  /\ UNCHANGED <<seq, stored, ahead, msgCount, entries, controllers, armed, attempts,
                 pingOpen, answers, answerOf, restarts>>

(* sendCommandWithRetry registers the call and makes the first attempt.    *)
(* sendData may fail; the timer covers it.                                 *)
Transmit(c) ==
  /\ c \in Commands
  /\ pc[c] = "ready"
  /\ pc' = [pc EXCEPT ![c] = "pending"]
  /\ entries' = Without(entries, seq[c]) \cup {c}
  /\ controllers' = Without(controllers, seq[c]) \cup {c}
  /\ armed' = armed \cup {c}
  /\ attempts' = [attempts EXCEPT ![c] = 1]
  /\ UNCHANGED <<seq, stored, ahead, msgCount, rotations, pingOpen, answers,
                 answerOf, restarts>>

(* Some call with c's number is waiting, possibly another one.             *)
NumberPending(c) == \E e \in entries : seq[e] = seq[c]

(* Variant: the last attempt arms no further timer.                        *)
TimeoutRetry_NoLastTimer(c) ==
  /\ c \in Commands
  /\ c \in armed
  /\ NumberPending(c)
  /\ attempts[c] < MAX_RETRIES
  /\ attempts' = [attempts EXCEPT ![c] = @ + 1]
  /\ armed' = IF attempts[c] + 1 < MAX_RETRIES THEN armed ELSE armed \ {c}
  /\ UNCHANGED <<pc, seq, stored, ahead, msgCount, rotations, entries, controllers,
                 pingOpen, answers, answerOf, restarts>>

(* Variant: one attempt too many.                                          *)
TimeoutRetry_OffByOne(c) ==
  /\ c \in Commands
  /\ c \in armed
  /\ NumberPending(c)
  /\ attempts[c] <= MAX_RETRIES
  /\ attempts' = [attempts EXCEPT ![c] = @ + 1]
  /\ UNCHANGED <<pc, seq, stored, ahead, msgCount, rotations, entries, controllers,
                 armed, pingOpen, answers, answerOf, restarts>>

(* It transmits again and arms the next timer.                             *)
TimeoutRetry(c) ==
  /\ c \in Commands
  /\ c \in armed
  /\ NumberPending(c)
  /\ attempts[c] < MAX_RETRIES
  /\ attempts' = [attempts EXCEPT ![c] = @ + 1]
  /\ UNCHANGED <<pc, seq, stored, ahead, msgCount, rotations, entries, controllers,
                 armed, pingOpen, answers, answerOf, restarts>>

(* No attempt is left: the number is deleted from both maps, and reject()  *)
(* does nothing to a promise that a response to the same number settled.   *)
(* A timer that finds its number settled only ends.                        *)
TimeoutGiveUp(c) ==
  /\ c \in Commands
  /\ c \in armed
  /\ ~NumberPending(c) \/ attempts[c] >= MAX_RETRIES
  /\ armed' = armed \ {c}
  /\ entries' = Without(entries, seq[c])
  /\ controllers' = IF NumberPending(c) THEN Without(controllers, seq[c])
                    ELSE controllers
  /\ pc' = [pc EXCEPT ![c] =
              IF @ = "pending" /\ NumberPending(c) THEN "rejected" ELSE @]
  /\ UNCHANGED <<seq, stored, ahead, msgCount, rotations, attempts, pingOpen,
                 answers, answerOf, restarts>>

Timeout(c) == TimeoutRetry(c) \/ TimeoutGiveUp(c)

-----------------------------------------------------------------------------
(* sendHeartbeatPing shares the numbers and the controllers *)

PingTransmit(p) ==
  /\ p \in Pings
  /\ pc[p] = "ready"
  /\ pc' = [pc EXCEPT ![p] = "pinging"]
  /\ pingOpen' = p
  /\ attempts' = [attempts EXCEPT ![p] = 1]
  /\ UNCHANGED <<seq, stored, ahead, msgCount, rotations, entries, controllers,
                 armed, answers, answerOf, restarts>>

(* The timer starts when sendData has returned; the pong may be there.     *)
PingArm(p) ==
  /\ pc[p] = "pinging"
  /\ pc' = [pc EXCEPT ![p] = "pinged"]
  /\ controllers' = Without(controllers, seq[p]) \cup {p}
  /\ armed' = armed \cup {p}
  /\ UNCHANGED <<seq, stored, ahead, msgCount, rotations, entries, attempts,
                 pingOpen, answers, answerOf, restarts>>

(* The timer of a ping counts a miss if no later ping replaced it.         *)
PingTimeout(p) ==
  /\ p \in Pings
  /\ p \in armed
  /\ armed' = armed \ {p}
  /\ IF pingOpen # None /\ seq[pingOpen] = seq[p]
     THEN /\ pingOpen' = None
          /\ controllers' = Without(controllers, seq[p])
     ELSE UNCHANGED <<pingOpen, controllers>>
  /\ UNCHANGED <<pc, seq, stored, ahead, msgCount, rotations, entries, attempts,
                 answers, answerOf, restarts>>

-----------------------------------------------------------------------------
(* The phone answers a number once; a repeated number gets the same        *)
(* response again.                                                         *)

Transmitted(c) == attempts[c] > 0

PhoneAnswer(c, err) ==
  /\ Transmitted(c)
  /\ \A r \in answers : seq[r.of] # seq[c]
  /\ answers' = answers \cup {[of |-> c, err |-> err]}
  /\ UNCHANGED <<pc, seq, stored, ahead, msgCount, rotations, entries, controllers,
                 armed, attempts, pingOpen, answerOf, restarts>>

(* The calls handleIncomingResponse settles.                               *)
Settled(r) == {e \in entries : seq[e] = seq[r.of]}

(* A response also ends the timer whose controller has its number; a pong  *)
(* does so for the open ping and then is looked up in pending as well.     *)
Deliver(r) ==
  LET pong    == r.of \in Pings /\ pingOpen # None /\ seq[pingOpen] = seq[r.of]
      number  == seq[r.of]
      settled == Settled(r)
      ended   == {c \in controllers : seq[c] = number}
  IN /\ r \in answers
     /\ settled # {} \/ pong
     /\ pingOpen' = IF pong THEN None ELSE pingOpen
     /\ controllers' = controllers \ ended
     /\ armed' = armed \ ended
     /\ entries' = entries \ settled
     /\ pc' = [c \in Calls |->
                 IF c \in settled
                 THEN IF r.err = 1 THEN "rejected" ELSE "resolved"
                 ELSE pc[c]]
     /\ answerOf' = [c \in Calls |-> IF c \in settled THEN r.of ELSE answerOf[c]]
     /\ UNCHANGED <<seq, stored, ahead, msgCount, rotations, attempts, answers,
                    restarts>>

-----------------------------------------------------------------------------
(* The service worker is stopped and started again. *)

(* Variant: the counter is kept in memory and starts again.                *)
Restart_CounterLost ==
  /\ restarts < MaxRestarts
  /\ restarts' = restarts + 1
  /\ stored' = 0
  /\ pc' = [c \in Calls |->
              IF pc[c] \in {"writing", "signing", "rotating", "ready", "pinging",
                           "pending"}
              THEN "lost" ELSE pc[c]]
  /\ entries' = {} /\ controllers' = {} /\ armed' = {} /\ pingOpen' = None
  /\ UNCHANGED <<seq, ahead, msgCount, rotations, attempts, answers, answerOf>>

Restart ==
  /\ restarts < MaxRestarts
  /\ restarts' = restarts + 1
  /\ pc' = [c \in Calls |->
              IF pc[c] \in {"writing", "signing", "rotating", "ready", "pinging",
                           "pending"}
              THEN "lost" ELSE pc[c]]
  /\ entries' = {} /\ controllers' = {} /\ armed' = {} /\ pingOpen' = None
  /\ UNCHANGED <<seq, stored, ahead, msgCount, rotations, attempts, answers,
                 answerOf>>

CallStep(c) ==
  \/ SequenceGet(c) \/ SequenceSet(c) \/ CountMessage(c) \/ RotateKey(c)
  \/ Transmit(c) \/ PingTransmit(c) \/ PingArm(c)

Next ==
  \/ \E c \in Calls : CallStep(c) \/ SessionRefused(c)
  \/ \E c \in Calls : Timeout(c) \/ PingTimeout(c)
  \/ \E c \in Calls, err \in {0, 1} : PhoneAnswer(c, err)
  \/ \E r \in answers : Deliver(r)
  \/ Restart

Spec == Init /\ [][Next]_vars

(* Awaited storage, signing and rotation come back and timers fire; nobody *)
(* owes a call, and the phone and the network owe nothing.                 *)
CommandFairness ==
  \A c \in Calls : WF_vars((pc[c] # "new" /\ CallStep(c)) \/ Timeout(c))
FairSpec == Spec /\ CommandFairness

-----------------------------------------------------------------------------

TypeOK ==
  /\ pc \in [Calls -> CallStates]
  /\ seq \in [Calls -> Nat]
  /\ ahead \in [Calls -> SUBSET Calls]
  /\ stored \in Nat /\ msgCount \in Nat /\ rotations \in Nat
  /\ entries \in SUBSET Commands
  /\ controllers \in SUBSET Calls
  /\ armed \in SUBSET Calls
  /\ attempts \in [Calls -> 0..MAX_RETRIES]
  /\ pingOpen \in Pings \cup {None}
  /\ answers \in SUBSET [of : Calls, err : {0, 1}]
  /\ answerOf \in [Calls -> Calls \cup {None}]
  /\ restarts \in 0..MaxRestarts

(* Two calls were between the get and the set of getNextSequence together. *)
Beside(c, d) == c \in ahead[d] \/ d \in ahead[c]

(* A response settles the command it answers, or one that drew its number  *)
(* beside that one: never a command that drew its number later, not as a   *)
(* pong, not as a late response to a command that was given up, and not as *)
(* one from before a restart of the service worker.                        *)
ResponseMatches ==
  \A c \in Calls : answerOf[c] = None \/ answerOf[c] = c \/ Beside(c, answerOf[c])

(* No orphan: a command that waits is in both maps under its number and    *)
(* its timer runs, so it will be retried or rejected, unless a call that   *)
(* drew the same number beside it was transmitted too; and whatever calls  *)
(* overlap, an entry of the pending map is of a waiting command and has    *)
(* its timer.                                                              *)
NoOrphan ==
  /\ \A c \in Commands : pc[c] = "pending" =>
       \/ c \in entries /\ c \in controllers
       \/ \E d \in Calls : d # c /\ Transmitted(d) /\ seq[d] = seq[c] /\ Beside(c, d)
  /\ \A c \in entries : pc[c] = "pending" /\ c \in armed

(* Every command that was transmitted and drew its number beside no other  *)
(* call settles, by a response or when its attempts are exhausted: none of *)
(* the finitely many commands stays pending.                               *)
LoneCommandSettles ==
  []<>(\A c \in Commands : pc[c] = "pending" => \E d \in Calls : Beside(c, d))

(* Every command that was transmitted settles: "MAX_RETRIES is exhausted:  *)
(* the command promise shall reject".                                      *)
EveryCommandSettles == []<>(\A c \in Commands : pc[c] # "pending")
=============================================================================
