------------------------------ MODULE Heartbeat ------------------------------
(***************************************************************************)
(* The heartbeat of lib/channel/commandClient.ts: a ping every             *)
(* HEARTBEAT_INTERVAL_MS while no command is sent, a timer for the open    *)
(* ping, and onTransportDead after MAX_MISSED_PINGS misses.                *)
(*                                                                         *)
(* Time is counted in ticks.  Whatever is due happens before the next      *)
(* tick, and awaiting storage or sendData takes less than a tick.          *)
(*                                                                         *)
(* pendingPingSeq names the open ping.  The timer and the pong of an       *)
(* earlier ping find another number there and change nothing, so only the  *)
(* timer and the pong of the open ping are state.                          *)
(***************************************************************************)
EXTENDS Integers

CONSTANTS
  Interval,      \* HEARTBEAT_INTERVAL_MS in ticks
  Timeouts,      \* values of getRto() * MAX_RETRIES in ticks
  Latency,       \* the pong of a reachable phone takes at most this long
  Horizon,       \* bound: the clock  quiet  stops here
  MaxMissed      \* bound: no command is sent after this many misses

MAX_MISSED_PINGS == 3

ASSUME HeartbeatConstants ==
  /\ Interval \in Nat \ {0}
  /\ Latency \in Nat
  /\ Timeouts \in SUBSET Nat
  /\ \A t \in Timeouts : Latency < t   \* a slower phone counts as out of reach
  /\ Horizon \in Nat
  /\ MaxMissed \in Nat

VARIABLES
  running, beat,    \* heartbeatTimer: 1 if set; ticks until it fires
  idle,             \* ticks since lastCommandTime, at most Interval
  phase,            \* sendHeartbeatPing: rest, number, send
  open,             \* 1: pendingPingSeq is the last ping's number, 0: null
  pingTimer, left,      \* the timer of the open ping: 1 if set; ticks left
  missed,           \* missedPings
  pong, due,        \* 1: a pong to the open ping is under way; ticks left
  phone,            \* 1: the phone is reachable
  declared,         \* 1: onTransportDead was called since the last command and
                    \* the last pong
  lost,             \* history: pings in a row that or whose pongs got lost,
                    \* up to 3
  quiet, pings,     \* history: ticks the phone was out of reach since the
                    \* last command, and pings in that time, up to 4
  slow              \* history: 1 if one of them got an interval or more to wait

timerVars == <<running, beat, idle>>
pingVars  == <<phase, open, pingTimer, left, missed, declared>>
wireVars  == <<pong, due>>
histVars  == <<lost, quiet, pings, slow>>
heartbeatVars == <<timerVars, pingVars, wireVars, phone, histVars>>

HeartbeatInit ==
  /\ running = 0 /\ beat = Interval /\ idle = Interval
  /\ phase = "rest" /\ open = 0 /\ pingTimer = 0 /\ left = 0 /\ missed = 0
  /\ pong = 0 /\ due = 0
  /\ phone = 1
  /\ declared = 0
  /\ lost = 0 /\ pings = 0 /\ quiet = 0 /\ slow = 0

(* n, but not more than max.                                              *)
UpTo(max, n) == IF n <= max THEN n ELSE max

(* The clock of the history variables starts anew.                         *)
CountAnew == quiet' = 0 /\ pings' = 0 /\ slow' = 0

(* sendCommand of anything but a ping: startHeartbeat clears the interval  *)
(* timer and sets it again.  A ping being sent goes on.                    *)
Command ==
  /\ missed <= MaxMissed
  /\ idle' = 0
  /\ running' = 1
  /\ beat' = Interval
  /\ declared' = 0
  /\ CountAnew
  /\ UNCHANGED <<phase, open, pingTimer, left, missed, wireVars, phone, lost>>

(* sendPing: the time of the command is noted and the timer goes on, so    *)
(* that it may find a recent command.                                      *)
SendPing ==
  /\ idle' = 0
  /\ CountAnew
  /\ UNCHANGED <<running, beat, pingVars, wireVars, phone, lost>>

(* Date.now() - lastCommandTime < HEARTBEAT_INTERVAL_MS *)
Recent == idle < Interval

(* The interval timer fires; a recent command makes the ping unnecessary.  *)
IntervalFires ==
  /\ running = 1
  /\ beat = 0
  /\ phase = "rest"
  /\ beat' = Interval
  /\ phase' = IF Recent THEN "rest" ELSE "number"
  /\ UNCHANGED <<running, idle, open, pingTimer, left, missed, declared, wireVars,
                 phone, histVars>>

(* getNextSequence returned: the ping replaces the open one and goes out.  *)
PingSend ==
  /\ phase = "number"
  /\ phase' = "send"
  /\ open' = 1
  /\ pingTimer' = 0
  /\ pong' = phone
  /\ due' = IF phone = 1 THEN Latency ELSE 0
  /\ lost' = IF phone = 1 THEN lost ELSE UpTo(3, lost + 1)
  /\ pings' = IF phone = 1 THEN 0 ELSE UpTo(4, pings + 1)
  /\ UNCHANGED <<timerVars, left, missed, phone, declared, quiet, slow>>

(* sendData returned: the timer starts.  If the pong was faster the timer  *)
(* will find pendingPingSeq null.                                          *)
StartPingTimer ==
  /\ phase = "send"
  /\ phase' = "rest"
  /\ pingTimer' = open
  /\ left' \in Timeouts
  /\ slow' = IF left' >= Interval THEN 1 ELSE slow
  /\ UNCHANGED <<timerVars, open, missed, declared, wireVars, phone, lost, quiet, pings>>

(* Variant: the pong does not start the count anew.                        *)
Pong_KeepCount ==
  /\ pong = 1
  /\ pong' = 0
  /\ open' = 0
  /\ pingTimer' = 0
  /\ lost' = 0
  /\ declared' = 0
  /\ UNCHANGED <<timerVars, phase, left, missed, due, phone, quiet, pings, slow>>

(* handleIncomingResponse on a pong; a late one finds pendingPingSeq null. *)
Pong ==
  /\ pong = 1
  /\ pong' = 0
  /\ open' = 0
  /\ pingTimer' = 0
  /\ missed' = IF open = 1 THEN 0 ELSE missed
  /\ declared' = 0
  /\ lost' = 0
  /\ UNCHANGED <<timerVars, phase, left, due, phone, quiet, pings, slow>>

(* Variant: one miss more is needed.                                       *)
PingMissed_OneMore ==
  /\ pingTimer = 1
  /\ left = 0
  /\ open' = 0
  /\ pingTimer' = 0
  /\ missed' = missed + 1
  /\ IF missed + 1 > MAX_MISSED_PINGS
     THEN running' = 0 /\ declared' = 1
     ELSE UNCHANGED <<running, declared>>
  /\ UNCHANGED <<beat, idle, phase, left, wireVars, phone, histVars>>

(* The timer of the open ping.                                             *)
PingMissed ==
  /\ pingTimer = 1
  /\ left = 0
  /\ open' = 0
  /\ pingTimer' = 0
  /\ missed' = missed + 1
  /\ IF missed + 1 >= MAX_MISSED_PINGS
     THEN running' = 0 /\ declared' = 1
     ELSE UNCHANGED <<running, declared>>
  /\ UNCHANGED <<beat, idle, phase, left, wireVars, phone, histVars>>

(* The phone goes out of reach; a pong under way may or may not make it.   *)
PhoneLost ==
  /\ phone = 1
  /\ phone' = 0
  /\ pong' \in {0, pong}
  /\ lost' = IF pong' = pong THEN lost ELSE UpTo(3, lost + 1)
  /\ CountAnew
  /\ UNCHANGED <<timerVars, pingVars, due>>

PhoneBack ==
  /\ phone = 0
  /\ phone' = 1
  /\ CountAnew
  /\ UNCHANGED <<timerVars, pingVars, wireVars, lost>>

(* All that is due has happened.                                           *)
NothingDue ==
  /\ phase = "rest"
  /\ running = 1 => beat > 0
  /\ pingTimer = 1 => left > 0
  /\ pong = 1 => due > 0

Tick ==
  /\ NothingDue
  /\ beat' = IF running = 1 THEN beat - 1 ELSE beat
  /\ left' = IF pingTimer = 1 THEN left - 1 ELSE left
  /\ due' = IF pong = 1 THEN due - 1 ELSE due
  /\ idle' = IF idle < Interval THEN idle + 1 ELSE idle
  /\ quiet' = IF phone = 0 /\ quiet < Horizon THEN quiet + 1 ELSE quiet
  /\ UNCHANGED <<running, phase, open, pingTimer, missed, pong, phone, declared,
                 lost, pings, slow>>

Client == IntervalFires \/ PingSend \/ StartPingTimer \/ Pong \/ PingMissed

HeartbeatNext == Command \/ SendPing \/ Client \/ PhoneLost \/ PhoneBack \/ Tick

HeartbeatSpec == HeartbeatInit /\ [][HeartbeatNext]_heartbeatVars

(* What is due happens and time goes on.                                   *)
HeartbeatFairSpec == HeartbeatSpec /\ WF_heartbeatVars(Client) /\ WF_heartbeatVars(Tick)

-----------------------------------------------------------------------------

Flags == {0, 1}

HeartbeatTypeOK ==
  /\ running \in Flags /\ beat \in 0..Interval /\ idle \in 0..Interval
  /\ phase \in {"rest", "number", "send"}
  /\ open \in Flags /\ pingTimer \in Flags /\ left \in Nat
  /\ missed \in Nat
  /\ pong \in Flags /\ due \in 0..Latency
  /\ phone \in Flags /\ declared \in Flags
  /\ lost \in 0..3 /\ pings \in 0..4 /\ quiet \in 0..Horizon /\ slow \in Flags

(* No false alarm: onTransportDead is called only when the last three      *)
(* pings or their pongs were all lost, however long their timeouts.  An    *)
(* answered ping starts the count anew, and neither a command nor an       *)
(* earlier alarm makes a miss count twice.                                 *)
NoFalseAlarm == declared = 1 => lost = MAX_MISSED_PINGS

(* The longest wait: three intervals, one more that a ping command costs,  *)
(* and the timeout of the third ping.                                      *)
Longest(t) == (MAX_MISSED_PINGS + 1) * Interval + t

(* Detection bound: a heartbeat that still runs has been without phone and *)
(* without command for four intervals and one ping timeout at most, unless *)
(* a ping got an interval or more to wait and the next may replace it.     *)
DetectionBound ==
  running = 1 /\ phone = 0 /\ slow = 0 =>
    quiet <= Longest(0) \/ \E t \in Timeouts : t < Interval /\ quiet <= Longest(t)

(* "When 3 consecutive pings are not answered within the adaptive RTO the  *)
(* transport shall be declared dead": the heartbeat of an idle client does *)
(* not run for ever without a phone.                                       *)
DeadPhoneDeclared == []<>(phone = 1 \/ running = 0 \/ idle < Interval)
=============================================================================
