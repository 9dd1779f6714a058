--------------------------- MODULE HeartbeatProofs ---------------------------
(***************************************************************************)
(* Proofs about Heartbeat for every interval and every set of ping         *)
(* timeouts above the latency of the phone: no false alarm, and a lost     *)
(* phone is declared dead in bounded time unless pings wait an interval.   *)
(***************************************************************************)
EXTENDS Heartbeat, TLAPS

(* The open ping has its timer as soon as it was sent, and a pong under    *)
(* way arrives before that runs out.                                       *)
PingInv ==
  /\ phase = "send" => pingTimer = 0 /\ (open = 1 \/ pong = 0)
  /\ open = 1 /\ phase # "send" => pingTimer = 1
  /\ pingTimer = 1 => open = 1
  /\ pong = 1 => open = 1
  /\ pong = 1 /\ pingTimer = 1 => due < left
  /\ phase # "rest" /\ running = 1 => beat = Interval

(* The history of a loss is no older than the last command.                *)
IdleInv == quiet <= idle \/ idle = Interval

(* Misses are pings that got lost, or whose pong did.                      *)
MissInv ==
  /\ missed = 0 \/ lost >= 1
  /\ missed <= 1 \/ lost >= 2
  /\ missed <= 2 \/ lost = 3
  /\ open = 1 /\ pong = 0 => /\ lost >= 1
                             /\ missed = 0 \/ lost >= 2
                             /\ missed <= 1 \/ lost = 3

(* Pings since the loss are misses, up to the open one, which is settled   *)
(* before the next; the clock is at most two intervals ahead of them.      *)
LossInv ==
  running = 1 /\ phone = 0 /\ slow = 0 =>
    /\ pings >= 1 => pong = 0
    /\ pings >= 1 /\ pingTimer = 1 => left < beat
    /\ pings >= 1 /\ phase = "number" => open = 0
    /\ pings <= missed + open
    /\ pings >= 1 /\ open = 0 => missed <= 2
    /\ pings <= 3
    /\ pings = 3 => open = 1
    /\ phase = "number" => quiet <= 4 * Interval
    /\ phase = "number" /\ pings <= 1 => quiet <= 3 * Interval
    /\ phase = "number" /\ pings = 0 => quiet <= 2 * Interval
    /\ phase # "number" /\ pings = 0 => quiet + beat <= 2 * Interval
    /\ phase # "number" /\ pings = 1 => quiet + beat <= 3 * Interval
    /\ phase # "number" /\ pings = 2 => quiet + beat <= 4 * Interval
    /\ pings = 3 /\ phase = "send" => quiet <= 4 * Interval
    /\ pings = 3 /\ pingTimer = 1 =>
         \E t \in Timeouts : t < Interval /\ quiet + left <= 4 * Interval + t

HInv == HeartbeatTypeOK /\ PingInv /\ IdleInv /\ MissInv /\ NoFalseAlarm /\ LossInv

(* A clock that advances and a timer that runs down.                       *)
LEMMA RunDown ==
  ASSUME NEW q \in Int, NEW r \in Int, NEW n \in Int, NEW m \in Int,
         r <= q + 1, m = n - 1
  PROVE  r + m <= q + n
  OBVIOUS

LEMMA AddRight ==
  ASSUME NEW q \in Int, NEW b \in Int, NEW n \in Int, q <= b
  PROVE  q + n <= b + n
  OBVIOUS

LEMMA InitH == HeartbeatInit => HInv
  BY HeartbeatConstants
  DEF HeartbeatInit, HInv, HeartbeatTypeOK, Flags, PingInv, IdleInv, MissInv, NoFalseAlarm, LossInv

LEMMA StepH == ASSUME HInv, [HeartbeatNext]_heartbeatVars PROVE HInv'
<1> USE HeartbeatConstants DEF HInv, MAX_MISSED_PINGS, UpTo, Flags, timerVars,
        pingVars, wireVars, histVars, CountAnew
<1>1. CASE Command
  <2>1. HeartbeatTypeOK'
    BY <1>1 DEF Command, HeartbeatTypeOK
  <2>2. PingInv' /\ IdleInv' /\ MissInv' /\ NoFalseAlarm' /\ LossInv'
    BY <1>1 DEF Command, HeartbeatTypeOK, PingInv, IdleInv, MissInv, NoFalseAlarm, LossInv
  <2>3. QED
    BY <2>1, <2>2
<1>1a. CASE SendPing
  <2>1. HeartbeatTypeOK'
    BY <1>1a DEF SendPing, HeartbeatTypeOK
  <2>2. PingInv' /\ IdleInv' /\ MissInv' /\ NoFalseAlarm' /\ LossInv'
    BY <1>1a DEF SendPing, HeartbeatTypeOK, PingInv, IdleInv, MissInv, NoFalseAlarm, LossInv
  <2>3. QED
    BY <2>1, <2>2
<1>2. CASE IntervalFires
  <2>1. HeartbeatTypeOK'
    BY <1>2 DEF IntervalFires, HeartbeatTypeOK
  <2>2. PingInv' /\ IdleInv' /\ MissInv' /\ NoFalseAlarm'
    BY <1>2 DEF IntervalFires, HeartbeatTypeOK, PingInv, IdleInv, MissInv, NoFalseAlarm
  <2>3. LossInv'
    <3> SUFFICES ASSUME running' = 1, phone' = 0, slow' = 0 PROVE LossInv'
      BY DEF LossInv
    <3>1. /\ running = 1 /\ phone = 0 /\ slow = 0 /\ phase = "rest" /\ beat = 0 /\ beat' = Interval
          /\ UNCHANGED <<open, pingTimer, left, missed, pong, pings, quiet>>
      BY <1>2 DEF IntervalFires
    <3>2. pings >= 1 => open = 0 /\ pingTimer = 0 /\ pong = 0
      BY <3>1 DEF LossInv, PingInv, HeartbeatTypeOK
    <3>3. CASE Recent
      <4>1. phase' = "rest" /\ quiet < Interval
        BY <1>2, <3>3 DEF IntervalFires, Recent, IdleInv, HeartbeatTypeOK
      <4>2. quiet' + beat' <= 2 * Interval
        BY <3>1, <4>1 DEF HeartbeatTypeOK
      <4> QED BY <3>1, <3>2, <4>1, <4>2 DEF LossInv, HeartbeatTypeOK
    <3>4. CASE ~Recent
      <4>1. phase' = "number"
        BY <1>2, <3>4 DEF IntervalFires
      <4> QED BY <3>1, <3>2, <4>1 DEF LossInv, HeartbeatTypeOK
    <3> QED BY <3>3, <3>4
  <2>5. QED
    BY <2>1, <2>2, <2>3
<1>3. CASE PingSend
  <2>1. HeartbeatTypeOK'
    BY <1>3 DEF PingSend, HeartbeatTypeOK
  <2>2. PingInv' /\ IdleInv' /\ MissInv' /\ NoFalseAlarm'
    BY <1>3 DEF PingSend, HeartbeatTypeOK, PingInv, IdleInv, MissInv, NoFalseAlarm
  <2>3. LossInv'
    BY <1>3 DEF PingSend, HeartbeatTypeOK, PingInv, LossInv
  <2>4. QED
    BY <2>1, <2>2, <2>3
<1>4. CASE StartPingTimer
  <2>1. HeartbeatTypeOK'
    BY <1>4 DEF StartPingTimer, HeartbeatTypeOK
  <2>2. left' \in Timeouts /\ left' \in Nat /\ Latency < left'
    BY <1>4 DEF StartPingTimer
  <2>3. PingInv' /\ IdleInv' /\ MissInv' /\ NoFalseAlarm'
    BY <1>4, <2>2 DEF StartPingTimer, HeartbeatTypeOK, PingInv, IdleInv, MissInv, NoFalseAlarm
  <2>4. LossInv'
    <3> SUFFICES ASSUME running' = 1, phone' = 0, slow' = 0 PROVE LossInv'
      BY DEF LossInv
    <3>1. /\ running = 1 /\ phone = 0 /\ phase = "send" /\ phase' = "rest"
          /\ open' = open /\ pingTimer' = open /\ missed' = missed /\ pong' = pong
          /\ pings' = pings /\ beat' = beat /\ quiet' = quiet /\ beat = Interval
      BY <1>4 DEF StartPingTimer, PingInv
    <3>2. slow = 0 /\ left' < Interval
      BY <1>4, <2>2 DEF StartPingTimer
    <3>3. pings = 3 => quiet' + left' <= 4 * Interval + left'
      <4>1. pings = 3 => quiet' <= 4 * Interval
        BY <3>1, <3>2 DEF LossInv
      <4>2. quiet' \in Int /\ left' \in Int /\ 4 * Interval \in Int
        BY <2>1 DEF HeartbeatTypeOK
      <4>3. QED
        BY <4>1, <4>2, AddRight
    <3>4. pings = 3 => \E t \in Timeouts : t < Interval /\ quiet' + left' <= 4 * Interval + t
      BY <2>2, <3>2, <3>3
    <3>5. QED
      BY <3>1, <3>2, <3>4 DEF LossInv, HeartbeatTypeOK
  <2>5. QED
    BY <2>1, <2>3, <2>4
<1>5. CASE Pong
  <2>1. HeartbeatTypeOK'
    BY <1>5 DEF Pong, HeartbeatTypeOK
  <2>2. PingInv' /\ IdleInv' /\ MissInv' /\ NoFalseAlarm'
    BY <1>5 DEF Pong, HeartbeatTypeOK, PingInv, IdleInv, MissInv, NoFalseAlarm
  <2>3. LossInv'
    BY <1>5 DEF Pong, HeartbeatTypeOK, PingInv, LossInv
  <2>4. QED
    BY <2>1, <2>2, <2>3
<1>6. CASE PingMissed
  <2>1. HeartbeatTypeOK'
    BY <1>6 DEF PingMissed, HeartbeatTypeOK
  <2>2. pong = 0
    BY <1>6 DEF PingMissed, HeartbeatTypeOK, PingInv
  <2>3. PingInv' /\ IdleInv' /\ MissInv' /\ NoFalseAlarm'
    BY <1>6, <2>2 DEF PingMissed, HeartbeatTypeOK, PingInv, IdleInv, MissInv, NoFalseAlarm
  <2>4. LossInv'
    BY <1>6, <2>2 DEF PingMissed, HeartbeatTypeOK, PingInv, LossInv
  <2>5. QED
    BY <2>1, <2>3, <2>4
<1>7. CASE PhoneLost
  <2>1. HeartbeatTypeOK'
    BY <1>7 DEF PhoneLost, HeartbeatTypeOK
  <2>2. PingInv' /\ IdleInv' /\ MissInv' /\ NoFalseAlarm'
    BY <1>7 DEF PhoneLost, HeartbeatTypeOK, PingInv, IdleInv, MissInv, NoFalseAlarm
  <2>3. LossInv'
    BY <1>7 DEF PhoneLost, HeartbeatTypeOK, PingInv, LossInv
  <2>4. QED
    BY <2>1, <2>2, <2>3
<1>8. CASE PhoneBack
  BY <1>8 DEF PhoneBack, HeartbeatTypeOK, PingInv, IdleInv, MissInv, NoFalseAlarm, LossInv
<1>9. CASE Tick
  <2>1. HeartbeatTypeOK'
    BY <1>9 DEF Tick, NothingDue, HeartbeatTypeOK
  <2>2. PingInv' /\ IdleInv' /\ MissInv' /\ NoFalseAlarm'
    BY <1>9 DEF Tick, NothingDue, HeartbeatTypeOK, PingInv, IdleInv, MissInv, NoFalseAlarm
  <2>3. quiet' <= quiet + 1 /\ quiet' \in Nat
    BY <1>9 DEF Tick, HeartbeatTypeOK
  <2>4. LossInv'
    <3> SUFFICES ASSUME running' = 1, phone' = 0, slow' = 0 PROVE LossInv'
      BY DEF LossInv
    <3>1. /\ running = 1 /\ phone = 0 /\ slow = 0 /\ phase' = phase /\ phase = "rest"
          /\ open' = open /\ pingTimer' = pingTimer /\ missed' = missed /\ pong' = pong
          /\ pings' = pings /\ beat' = beat - 1
          /\ pingTimer = 1 => left' = left - 1
      BY <1>9 DEF Tick, NothingDue
    <3>2. pings = 3 /\ pingTimer = 1 =>
            \E t \in Timeouts : t < Interval /\ quiet' + left' <= 4 * Interval + t
      <4> SUFFICES ASSUME pings = 3, pingTimer = 1
                   PROVE \E t \in Timeouts : t < Interval /\ quiet' + left' <= 4 * Interval + t
        OBVIOUS
      <4>1. PICK t \in Timeouts : t < Interval /\ quiet + left <= 4 * Interval + t
        BY <3>1 DEF LossInv
      <4>2. quiet' + left' <= quiet + left
        <5>1. /\ left' = left - 1 /\ left \in Int /\ left' \in Int
              /\ quiet \in Int /\ quiet' \in Int
          BY <2>1, <2>3, <3>1 DEF HeartbeatTypeOK
        <5>2. QED
          BY <2>3, <5>1, RunDown
      <4>3. t \in Nat /\ quiet + left \in Nat /\ quiet' + left' \in Int
        BY <2>1, <4>1 DEF HeartbeatTypeOK
      <4>4. quiet' + left' <= 4 * Interval + t
        BY <4>1, <4>2, <4>3
      <4>5. QED
        BY <4>1, <4>4
    <3>3. quiet' + beat' <= quiet + beat
      <4>1. beat \in Int /\ beat' \in Int /\ quiet \in Int /\ quiet' \in Int
        BY <2>1, <2>3 DEF HeartbeatTypeOK
      <4>2. QED
        BY <2>3, <3>1, <4>1, RunDown
    <3>4. quiet + beat \in Int /\ quiet' + beat' \in Int
      BY <2>1 DEF HeartbeatTypeOK
    <3>5. /\ pings' = 0 => quiet' + beat' <= 2 * Interval
          /\ pings' = 1 => quiet' + beat' <= 3 * Interval
          /\ pings' = 2 => quiet' + beat' <= 4 * Interval
      BY <3>1, <3>3, <3>4 DEF LossInv
    <3>6. pings' >= 1 /\ pingTimer' = 1 => left' < beat'
      BY <2>1, <3>1 DEF LossInv, HeartbeatTypeOK
    <3>7. QED
      BY <3>1, <3>2, <3>5, <3>6 DEF LossInv
  <2>5. QED
    BY <2>1, <2>2, <2>4
<1>10. CASE UNCHANGED heartbeatVars
  BY <1>10 DEF heartbeatVars, HeartbeatTypeOK, PingInv, IdleInv, MissInv, NoFalseAlarm, LossInv
<1>11. QED
  BY <1>1, <1>1a, <1>2, <1>3, <1>4, <1>5, <1>6, <1>7, <1>8, <1>9, <1>10 DEF HeartbeatNext, Client

LEMMA HeartbeatInvariant == HeartbeatSpec => []HInv
<1>1. HInv /\ [HeartbeatNext]_heartbeatVars => HInv'
  BY StepH
<1>2. QED
  BY <1>1, InitH, PTL DEF HeartbeatSpec

(* An alarm is never false: onTransportDead is called only after three     *)
(* lost pings in a row, for every interval and all timeouts, those that    *)
(* let a ping replace an open one included.                                *)
THEOREM AlarmsAreTrue == HeartbeatSpec => []NoFalseAlarm
<1>1. HInv => NoFalseAlarm
  BY DEF HInv
<1>2. QED
  BY <1>1, HeartbeatInvariant, PTL

(* A lost phone is declared dead after four intervals and one timeout, for *)
(* all timeouts, as long as none of its pings got an interval or more.     *)
THEOREM DetectedInTime == HeartbeatSpec => []DetectionBound
<1>1. HInv => DetectionBound
  <2> SUFFICES ASSUME HInv, running = 1, phone = 0, slow = 0, ~(quiet <= Longest(0))
               PROVE \E t \in Timeouts : t < Interval /\ quiet <= Longest(t)
    BY DEF DetectionBound
  <2>1. ~(quiet <= 4 * Interval)
    BY HeartbeatConstants DEF Longest, MAX_MISSED_PINGS
  <2>2. CASE pings = 3 /\ pingTimer = 1
    <3>1. PICK t \in Timeouts : t < Interval /\ quiet + left <= 4 * Interval + t
      BY <2>2 DEF HInv, LossInv
    <3>2. t \in Nat
      BY HeartbeatConstants
    <3>3. quiet <= Longest(t)
      BY <3>1, <3>2, HeartbeatConstants DEF Longest, MAX_MISSED_PINGS, HInv, HeartbeatTypeOK
    <3>4. QED
      BY <3>1, <3>3
  <2>3. CASE ~(pings = 3 /\ pingTimer = 1)
    BY <2>1, <2>3, HeartbeatConstants DEF HInv, HeartbeatTypeOK, PingInv, LossInv
  <2>4. QED
    BY <2>2, <2>3
<1>2. QED
  BY <1>1, HeartbeatInvariant, PTL
=============================================================================
