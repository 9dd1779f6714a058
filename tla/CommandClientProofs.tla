------------------------ MODULE CommandClientProofs ------------------------
(***************************************************************************)
(* Proofs about CommandClient, whose callers may overlap in                *)
(* getNextSequence: for any number of commands, pings, retries and         *)
(* restarts, calls with the same number drew it beside each other, so a    *)
(* response settles the command it answers or one beside it, and only a    *)
(* call beside a waiting command can take its map entry away.              *)
(***************************************************************************)
EXTENDS CommandClient, TLAPS

(* Calls whose number was stored and may be in use.                        *)
Numbered(c) ==
  \/ pc[c] \in {"signing", "rotating", "ready", "pending"}
  \/ attempts[c] > 0

InUse(c) == pc[c] = "writing" \/ Numbered(c)

Types ==
  /\ pc \in [Calls -> CallStates]
  /\ seq \in [Calls -> Nat]
  /\ stored \in Nat
  /\ ahead \in [Calls -> SUBSET Calls]
  /\ attempts \in [Calls -> Nat]
  /\ answerOf \in [Calls -> Calls \cup {None}]
  /\ entries \in SUBSET Commands
  /\ controllers \in SUBSET Calls
  /\ armed \in SUBSET Calls
  /\ pingOpen \in Pings \cup {None}
  /\ answers \in SUBSET [of : Calls, err : {0, 1}]

(* The callers between get and set hold the stored number or the next, in  *)
(* the order of their gets; other numbers in use are at most the stored    *)
(* one; and calls that share a number drew it beside each other.           *)
NumberInv ==
  /\ \A c \in Calls : pc[c] \in {"new", "writing"} => attempts[c] = 0
  /\ \A c \in Calls : pc[c] = "writing" => seq[c] \in {stored, stored + 1}
  /\ \A c, d \in Calls : pc[c] = "writing" /\ pc[d] = "writing" =>
       c = d \/ Beside(c, d)
  /\ \A c, d \in Calls : pc[c] = "writing" /\ pc[d] = "writing" /\ d \in ahead[c] =>
       seq[d] <= seq[c]
  /\ \A c, d \in Calls : pc[c] = "new" => c \notin ahead[d]
  /\ \A c \in Calls : Numbered(c) => seq[c] <= stored
  /\ \A c, d \in Calls : InUse(c) /\ InUse(d) /\ seq[c] = seq[d] =>
       c = d \/ Beside(c, d)

(* Timers and responses belong to calls that were transmitted.             *)
UseInv ==
  /\ \A c \in armed : Transmitted(c)
  /\ \A c \in Calls : pc[c] \in {"pinging", "pending"} => Transmitted(c)
  /\ \A r \in answers : Transmitted(r.of)
  /\ pingOpen # None => Transmitted(pingOpen)
  /\ \A c \in Calls : answerOf[c] # None => Transmitted(c) /\ Transmitted(answerOf[c])

ClientInv == Types /\ NumberInv /\ UseInv /\ NoOrphan /\ ResponseMatches

LEMMA InitClient == Init => ClientInv
<1> SUFFICES ASSUME Init PROVE ClientInv
  OBVIOUS
<1>1. Types
  BY DEF Init, Types, CallStates
<1>2. \A c \in Calls : /\ pc[c] = "new" /\ attempts[c] = 0 /\ answerOf[c] = None
                       /\ ahead[c] = {}
  BY DEF Init
<1>3. NumberInv
  BY <1>2 DEF NumberInv, Numbered, InUse
<1>4. UseInv
  BY <1>2 DEF Init, UseInv
<1>5. NoOrphan /\ ResponseMatches
  BY <1>2 DEF Init, NoOrphan, ResponseMatches, Calls
<1>6. QED
  BY <1>1, <1>3, <1>4, <1>5 DEF ClientInv

LEMMA StepSessionRefused ==
  ASSUME ClientInv, NEW c \in Calls, SessionRefused(c) PROVE ClientInv'
<1> USE ClientConstants DEF ClientInv
<1>1. /\ seq' = seq /\ stored' = stored /\ ahead' = ahead /\ attempts' = attempts
      /\ answerOf' = answerOf /\ entries' = entries
      /\ controllers' = controllers /\ armed' = armed /\ pingOpen' = pingOpen
      /\ answers' = answers
  BY DEF SessionRefused
<1>2. Types'
  BY <1>1 DEF SessionRefused, Types, CallStates, Calls, Without
<1>3. NumberInv'
  BY <1>1 DEF SessionRefused, Types, NumberInv, Numbered, InUse, Beside, CallStates, Calls
<1>4. UseInv'
  BY <1>1 DEF SessionRefused, Types, UseInv, Transmitted, Calls
<1>5. NoOrphan'
  BY <1>1 DEF SessionRefused, Types, NoOrphan, Numbered, InUse, Beside, NumberInv, Without,
     Calls, NumberPending, UseInv, Transmitted
<1>6. ResponseMatches'
  BY <1>1 DEF Beside, SessionRefused, ResponseMatches
<1>7. QED
  BY <1>2, <1>3, <1>4, <1>5, <1>6

(* Who reads the stored number shares the next one only with callers that  *)
(* are between get and set, and those are ahead of it.                     *)
LEMMA StepSequenceGet ==
  ASSUME ClientInv, NEW c \in Calls, SequenceGet(c) PROVE ClientInv'
<1> USE ClientConstants DEF ClientInv
<1>1. /\ stored' = stored /\ attempts' = attempts /\ answerOf' = answerOf
      /\ entries' = entries /\ controllers' = controllers /\ armed' = armed
      /\ pingOpen' = pingOpen /\ answers' = answers
  BY DEF SequenceGet
<1>2. /\ pc' = [pc EXCEPT ![c] = "writing"] /\ pc[c] = "new"
      /\ seq' = [seq EXCEPT ![c] = stored + 1]
      /\ ahead' = [ahead EXCEPT ![c] = {d \in Calls : pc[d] = "writing"}]
  BY DEF SequenceGet
<1>3. Types'
  BY <1>1, <1>2 DEF Types, CallStates
<1>4. /\ pc'[c] = "writing" /\ seq'[c] = stored + 1
      /\ ahead'[c] = {d \in Calls : pc[d] = "writing"}
      /\ \A d \in Calls : d # c =>
           pc'[d] = pc[d] /\ seq'[d] = seq[d] /\ ahead'[d] = ahead[d]
  BY <1>2 DEF Types
<1>5. /\ attempts[c] = 0 /\ ~Numbered(c) /\ ~Numbered(c)'
      /\ \A d \in Calls : d # c => (Numbered(d)' <=> Numbered(d))
      /\ \A d, e \in Calls : d # c /\ e # c => (Beside(d, e)' <=> Beside(d, e))
  BY <1>1, <1>2, <1>4 DEF NumberInv, Numbered, Beside
<1>6. NumberInv'
  <2>1. \A d \in Calls : /\ pc'[d] \in {"new", "writing"} => attempts'[d] = 0
                         /\ pc'[d] = "writing" => seq'[d] \in {stored', stored' + 1}
                         /\ Numbered(d)' => seq'[d] <= stored'
    BY <1>1, <1>4, <1>5 DEF NumberInv
  <2>2. \A d \in Calls : pc'[d] = "writing" => d = c \/ (Beside(c, d)' /\ Beside(d, c)')
    BY <1>4 DEF Beside
  <2>3. \A d, e \in Calls : pc'[d] = "writing" /\ pc'[e] = "writing" =>
          d = e \/ Beside(d, e)'
    BY <1>4, <1>5, <2>2 DEF NumberInv
  <2>4. \A d, e \in Calls :
          pc'[d] = "writing" /\ pc'[e] = "writing" /\ e \in ahead'[d] =>
            seq'[e] <= seq'[d]
    <3> SUFFICES ASSUME NEW d \in Calls, NEW e \in Calls, pc'[d] = "writing",
                        pc'[e] = "writing", e \in ahead'[d]
                 PROVE  seq'[e] <= seq'[d]
      OBVIOUS
    <3>1. CASE d = c
      BY <1>4, <3>1 DEF NumberInv, Types
    <3>2. CASE d # c /\ e = c
      <4>1. e \in ahead[d] /\ pc[d] = "writing"
        BY <1>4, <3>2
      <4>2. QED
        BY <1>2, <1>4, <3>2, <4>1 DEF NumberInv
    <3>3. CASE d # c /\ e # c
      BY <1>4, <3>3 DEF NumberInv
    <3>4. QED
      BY <3>1, <3>2, <3>3
  <2>5. \A d, e \in Calls : InUse(d)' /\ InUse(e)' /\ seq'[d] = seq'[e] =>
          d = e \/ Beside(d, e)'
    <3>1. \A d \in Calls : d # c /\ InUse(d)' /\ seq'[d] = stored + 1 =>
            pc[d] = "writing"
      BY <1>4, <1>5 DEF NumberInv, InUse, Types
    <3>2. QED
      BY <1>4, <1>5, <2>2, <3>1 DEF NumberInv, InUse
  <2>6. \A d, e \in Calls : pc'[d] = "new" => d \notin ahead'[e]
    BY <1>4 DEF NumberInv
  <2>7. QED
    BY <2>1, <2>3, <2>4, <2>5, <2>6 DEF NumberInv
<1>7. UseInv'
  BY <1>1, <1>4 DEF UseInv, Transmitted
<1>8. NoOrphan'
  <2>1. \A d \in Calls : Transmitted(d) => d # c
    BY <1>5 DEF Transmitted
  <2>2. \A d \in entries : d # c /\ d \in Calls
    BY <1>2 DEF NoOrphan, Types, Calls
  <2>3. QED
    BY <1>1, <1>4, <1>5, <2>1, <2>2 DEF NoOrphan, Transmitted, Calls
<1>9. ResponseMatches'
  <2>1. \A d \in Calls : answerOf[d] # None =>
          d # c /\ answerOf[d] # c /\ answerOf[d] \in Calls
    BY <1>5 DEF UseInv, Transmitted, Types
  <2>2. QED
    BY <1>1, <1>5, <2>1 DEF ResponseMatches
<1>10. QED
  BY <1>3, <1>6, <1>7, <1>8, <1>9

LEMMA StepSequenceSet ==
  ASSUME ClientInv, NEW c \in Calls, SequenceSet(c) PROVE ClientInv'
<1> USE ClientConstants DEF ClientInv
<1>1. /\ seq' = seq /\ ahead' = ahead /\ attempts' = attempts /\ answerOf' = answerOf
      /\ entries' = entries /\ controllers' = controllers /\ armed' = armed
      /\ pingOpen' = pingOpen /\ answers' = answers
  BY DEF SequenceSet
<1>2. Types'
  BY <1>1 DEF SequenceSet, Types, CallStates, Calls, Without
<1>3. NumberInv'
  BY <1>1 DEF SequenceSet, Types, NumberInv, Numbered, InUse, Beside, CallStates, Calls
<1>4. UseInv'
  BY <1>1 DEF SequenceSet, Types, UseInv, Transmitted, Calls
<1>5. NoOrphan'
  BY <1>1 DEF SequenceSet, Types, NoOrphan, Numbered, InUse, Beside, NumberInv, Without,
     Calls, NumberPending, UseInv, Transmitted
<1>6. ResponseMatches'
  BY <1>1 DEF Beside, SequenceSet, ResponseMatches
<1>7. QED
  BY <1>2, <1>3, <1>4, <1>5, <1>6

LEMMA StepCountMessage ==
  ASSUME ClientInv, NEW c \in Calls, CountMessage(c) PROVE ClientInv'
<1> USE ClientConstants DEF ClientInv
<1>1. /\ seq' = seq /\ stored' = stored /\ ahead' = ahead /\ attempts' = attempts
      /\ answerOf' = answerOf /\ entries' = entries
      /\ controllers' = controllers /\ armed' = armed /\ pingOpen' = pingOpen
      /\ answers' = answers
  BY DEF CountMessage
<1>2. Types'
  BY <1>1 DEF CountMessage, Types, CallStates, Calls, Without
<1>3. NumberInv'
  BY <1>1 DEF CountMessage, Types, NumberInv, Numbered, InUse, Beside, CallStates, Calls
<1>4. UseInv'
  BY <1>1 DEF CountMessage, Types, UseInv, Transmitted, Calls
<1>5. NoOrphan'
  BY <1>1 DEF CountMessage, Types, NoOrphan, Numbered, InUse, Beside, NumberInv, Without,
     Calls, NumberPending, UseInv, Transmitted
<1>6. ResponseMatches'
  BY <1>1 DEF Beside, CountMessage, ResponseMatches
<1>7. QED
  BY <1>2, <1>3, <1>4, <1>5, <1>6

LEMMA StepRotateKey ==
  ASSUME ClientInv, NEW c \in Calls, RotateKey(c) PROVE ClientInv'
<1> USE ClientConstants DEF ClientInv
<1>1. /\ seq' = seq /\ stored' = stored /\ ahead' = ahead /\ attempts' = attempts
      /\ answerOf' = answerOf /\ entries' = entries
      /\ controllers' = controllers /\ armed' = armed /\ pingOpen' = pingOpen
      /\ answers' = answers
  BY DEF RotateKey
<1>2. Types'
  BY <1>1 DEF RotateKey, Types, CallStates, Calls, Without
<1>3. NumberInv'
  BY <1>1 DEF RotateKey, Types, NumberInv, Numbered, InUse, Beside, CallStates, Calls
<1>4. UseInv'
  BY <1>1 DEF RotateKey, Types, UseInv, Transmitted, Calls
<1>5. NoOrphan'
  BY <1>1 DEF RotateKey, Types, NoOrphan, Numbered, InUse, Beside, NumberInv, Without, Calls,
     NumberPending, UseInv, Transmitted
<1>6. ResponseMatches'
  BY <1>1 DEF Beside, RotateKey, ResponseMatches
<1>7. QED
  BY <1>2, <1>3, <1>4, <1>5, <1>6

LEMMA StepTransmit ==
  ASSUME ClientInv, NEW c \in Calls, Transmit(c) PROVE ClientInv'
<1> USE ClientConstants DEF ClientInv
<1>1. /\ seq' = seq /\ stored' = stored /\ ahead' = ahead /\ answerOf' = answerOf
      /\ pingOpen' = pingOpen /\ answers' = answers
  BY DEF Transmit
<1>2. Types'
  BY <1>1 DEF Transmit, Types, CallStates, Calls, Without
<1>3. NumberInv'
  BY <1>1 DEF Transmit, Types, NumberInv, Numbered, InUse, Beside, CallStates, Calls
<1>4. UseInv'
  BY <1>1 DEF Transmit, Types, UseInv, Transmitted, Calls
<1>5. NoOrphan'
  BY <1>1 DEF Transmit, Types, NoOrphan, Numbered, InUse, Beside, NumberInv, Without, Calls,
     NumberPending, UseInv, Transmitted
<1>6. ResponseMatches'
  BY <1>1 DEF Beside, Transmit, ResponseMatches
<1>7. QED
  BY <1>2, <1>3, <1>4, <1>5, <1>6

LEMMA StepTimeoutRetry ==
  ASSUME ClientInv, NEW c \in Calls, TimeoutRetry(c) PROVE ClientInv'
<1> USE ClientConstants DEF ClientInv
<1>1. /\ pc' = pc /\ seq' = seq /\ stored' = stored /\ ahead' = ahead /\ answerOf' = answerOf
      /\ entries' = entries /\ controllers' = controllers /\ armed' = armed
      /\ pingOpen' = pingOpen /\ answers' = answers
  BY DEF TimeoutRetry
<1>2. Types'
  BY <1>1 DEF TimeoutRetry, Types, CallStates, Calls, Without
<1>3. NumberInv'
  BY <1>1 DEF TimeoutRetry, Types, NumberInv, Numbered, InUse, Beside, UseInv, Transmitted, Calls
<1>4. UseInv'
  BY <1>1 DEF TimeoutRetry, Types, UseInv, Transmitted, Calls
<1>5. NoOrphan'
  BY <1>1 DEF TimeoutRetry, Types, NoOrphan, Numbered, InUse, Beside, NumberInv, Without,
     Calls, NumberPending, UseInv, Transmitted
<1>6. ResponseMatches'
  BY <1>1 DEF Beside, TimeoutRetry, ResponseMatches
<1>7. QED
  BY <1>2, <1>3, <1>4, <1>5, <1>6

LEMMA StepTimeoutGiveUp ==
  ASSUME ClientInv, NEW c \in Calls, TimeoutGiveUp(c) PROVE ClientInv'
<1> USE ClientConstants DEF ClientInv
<1>1. /\ seq' = seq /\ stored' = stored /\ ahead' = ahead /\ attempts' = attempts
      /\ answerOf' = answerOf /\ pingOpen' = pingOpen /\ answers' = answers
  BY DEF TimeoutGiveUp
<1>2. Types'
  BY <1>1 DEF TimeoutGiveUp, Types, CallStates, Calls, Without
<1>3. NumberInv'
  BY <1>1 DEF TimeoutGiveUp, Types, NumberInv, Numbered, InUse, Beside, CallStates, Calls
<1>4. UseInv'
  BY <1>1 DEF TimeoutGiveUp, Types, UseInv, Transmitted, Calls
<1>5. NoOrphan'
  BY <1>1 DEF TimeoutGiveUp, Types, NoOrphan, Numbered, InUse, Beside, NumberInv, Without,
     Calls, NumberPending, UseInv, Transmitted
<1>6. ResponseMatches'
  BY <1>1 DEF Beside, TimeoutGiveUp, ResponseMatches
<1>7. QED
  BY <1>2, <1>3, <1>4, <1>5, <1>6

LEMMA StepPingTransmit ==
  ASSUME ClientInv, NEW c \in Calls, PingTransmit(c) PROVE ClientInv'
<1> USE ClientConstants DEF ClientInv
<1>1. /\ seq' = seq /\ stored' = stored /\ ahead' = ahead /\ answerOf' = answerOf
      /\ entries' = entries /\ controllers' = controllers /\ armed' = armed
      /\ answers' = answers
  BY DEF PingTransmit
<1>2. Types'
  BY <1>1 DEF PingTransmit, Types, CallStates, Calls, Without
<1>3. NumberInv'
  BY <1>1 DEF PingTransmit, Types, NumberInv, Numbered, InUse, Beside, CallStates, Calls
<1>4. UseInv'
  BY <1>1 DEF PingTransmit, Types, UseInv, Transmitted, Calls
<1>5. NoOrphan'
  BY <1>1 DEF PingTransmit, Types, NoOrphan, Numbered, InUse, Beside, NumberInv, Without,
     Calls, NumberPending, UseInv, Transmitted
<1>6. ResponseMatches'
  BY <1>1 DEF Beside, PingTransmit, ResponseMatches
<1>7. QED
  BY <1>2, <1>3, <1>4, <1>5, <1>6

LEMMA StepPingArm ==
  ASSUME ClientInv, NEW c \in Calls, PingArm(c) PROVE ClientInv'
<1> USE ClientConstants DEF ClientInv
<1>1. /\ seq' = seq /\ stored' = stored /\ ahead' = ahead /\ attempts' = attempts
      /\ answerOf' = answerOf /\ entries' = entries /\ pingOpen' = pingOpen
      /\ answers' = answers
  BY DEF PingArm
<1>2. Types'
  BY <1>1 DEF PingArm, Types, CallStates, Calls, Without
<1>3. NumberInv'
  BY <1>1 DEF PingArm, Types, NumberInv, Numbered, InUse, Beside, CallStates, Calls
<1>4. UseInv'
  BY <1>1 DEF PingArm, Types, UseInv, Transmitted, Calls
<1>5. NoOrphan'
  BY <1>1 DEF PingArm, Types, NoOrphan, Numbered, InUse, Beside, NumberInv, Without, Calls,
     NumberPending, UseInv, Transmitted
<1>6. ResponseMatches'
  BY <1>1 DEF Beside, PingArm, ResponseMatches
<1>7. QED
  BY <1>2, <1>3, <1>4, <1>5, <1>6

LEMMA StepPingTimeout ==
  ASSUME ClientInv, NEW c \in Calls, PingTimeout(c) PROVE ClientInv'
<1> USE ClientConstants DEF ClientInv
<1>1. /\ pc' = pc /\ seq' = seq /\ stored' = stored /\ ahead' = ahead /\ attempts' = attempts
      /\ answerOf' = answerOf /\ entries' = entries /\ answers' = answers
  BY DEF PingTimeout
<1>2. Types'
  BY <1>1 DEF PingTimeout, Types, CallStates, Calls, Without
<1>3. NumberInv'
  BY <1>1 DEF PingTimeout, Types, NumberInv, Numbered, InUse, Beside, CallStates, Calls
<1>4. UseInv'
  BY <1>1 DEF PingTimeout, Types, UseInv, Transmitted, Calls
<1>5. NoOrphan'
  BY <1>1 DEF PingTimeout, Types, NoOrphan, Numbered, InUse, Beside, NumberInv, Without,
     Calls, NumberPending, UseInv, Transmitted
<1>6. ResponseMatches'
  BY <1>1 DEF Beside, PingTimeout, ResponseMatches
<1>7. QED
  BY <1>2, <1>3, <1>4, <1>5, <1>6

LEMMA StepPhoneAnswer ==
  ASSUME ClientInv, NEW c \in Calls, NEW err \in {0, 1}, PhoneAnswer(c, err)
  PROVE  ClientInv'
<1> USE DEF ClientInv
<1>1. /\ pc' = pc /\ seq' = seq /\ stored' = stored /\ ahead' = ahead /\ attempts' = attempts
      /\ answerOf' = answerOf /\ entries' = entries /\ armed' = armed
      /\ controllers' = controllers /\ pingOpen' = pingOpen
      /\ answers' = answers \cup {[of |-> c, err |-> err]} /\ Transmitted(c)
  BY DEF PhoneAnswer
<1>2. Types'
  BY <1>1 DEF Types
<1>3. NumberInv' /\ NoOrphan' /\ ResponseMatches'
  BY <1>1 DEF NumberInv, Numbered, InUse, Beside, NoOrphan, ResponseMatches,
     Transmitted
<1>4. UseInv'
  <2>1. \A r \in answers' : Transmitted(r.of)
    BY <1>1 DEF UseInv
  <2>2. QED
    BY <1>1, <2>1 DEF UseInv, Transmitted
<1>5. QED
  BY <1>2, <1>3, <1>4

(* The response finds at most the call it answers or one beside it.        *)
LEMMA StepDeliver ==
  ASSUME ClientInv, NEW r \in answers, Deliver(r) PROVE ClientInv'
<1> USE DEF ClientInv
<1> DEFINE a == r.of
           ended == {c \in controllers : seq[c] = seq[a]}
<1>1. a \in Calls /\ Transmitted(a) /\ Numbered(a)
  BY DEF Types, UseInv, Transmitted, Numbered
<1>2. \A e \in entries : e \in Calls /\ pc[e] = "pending" /\ Numbered(e)
  BY DEF Types, NoOrphan, Numbered, Calls
<1>3. \A e \in Settled(r) : e \in entries /\ (e = a \/ Beside(e, a))
  BY <1>1, <1>2 DEF Settled, NumberInv, InUse
<1>4. /\ seq' = seq /\ stored' = stored /\ ahead' = ahead /\ attempts' = attempts /\ answers' = answers
      /\ controllers' = controllers \ ended /\ armed' = armed \ ended
      /\ entries' = entries \ Settled(r)
      /\ pingOpen' = None \/ pingOpen' = pingOpen
  BY DEF Deliver
<1>5. /\ pc' = [c \in Calls |-> IF c \in Settled(r)
                                THEN IF r.err = 1 THEN "rejected" ELSE "resolved"
                                ELSE pc[c]]
      /\ answerOf' = [c \in Calls |-> IF c \in Settled(r) THEN a ELSE answerOf[c]]
  BY DEF Deliver
<1>6. \A c \in Calls :
        /\ c \in Settled(r) => pc'[c] \in {"rejected", "resolved"} /\ answerOf'[c] = a
        /\ c \notin Settled(r) => pc'[c] = pc[c] /\ answerOf'[c] = answerOf[c]
  BY <1>3, <1>5
<1>7. Types'
  BY <1>1, <1>4, <1>5 DEF Types, CallStates
<1>8. \A c \in Calls : c \in Settled(r) => pc[c] = "pending"
  BY <1>2, <1>3
<1>9. \A c \in Calls : Transmitted(c) => Transmitted(c)'
  BY <1>4, <1>6, <1>8 DEF Transmitted
<1>10. NumberInv'
  BY <1>4, <1>6, <1>8 DEF NumberInv, Numbered, InUse, Beside, Types
<1>11. UseInv'
  <2>1. \A c \in Calls : Transmitted(c) => attempts'[c] > 0
    BY <1>9 DEF Transmitted
  <2>2. pingOpen' # None => attempts'[pingOpen'] > 0
    BY <1>4, <2>1 DEF UseInv, Types, Calls
  <2>3. \A c \in armed' : attempts'[c] > 0
    BY <1>4, <2>1 DEF UseInv, Types
  <2>4. \A q \in answers' : attempts'[q.of] > 0
    BY <1>4, <2>1 DEF UseInv, Types
  <2>5. \A c \in Calls : pc'[c] \in {"pinging", "pending"} => attempts'[c] > 0
    BY <1>6, <2>1 DEF UseInv
  <2>6. \A c \in Calls : answerOf'[c] # None =>
          attempts'[c] > 0 /\ attempts'[answerOf'[c]] > 0
    BY <1>1, <1>6, <1>8, <2>1 DEF UseInv, Types
  <2>7. QED
    BY <2>2, <2>3, <2>4, <2>5, <2>6 DEF UseInv, Transmitted
<1>12. NoOrphan'
  <2>1. ASSUME NEW c \in Commands, pc'[c] = "pending"
        PROVE  \/ c \in entries' /\ c \in controllers'
               \/ \E d \in Calls : /\ d # c /\ Transmitted(d)' /\ seq'[d] = seq'[c]
                                  /\ Beside(c, d)'
    <3>1. pc[c] = "pending" /\ c \notin Settled(r)
      BY <1>6, <2>1 DEF Calls
    <3>2. c \in entries => seq[c] # seq[a]
      BY <3>1 DEF Settled
    <3>3. CASE c \in entries /\ c \in controllers
      BY <1>4, <3>1, <3>2, <3>3
    <3>4. CASE ~(c \in entries /\ c \in controllers)
      BY <1>4, <1>9, <3>1, <3>4 DEF NoOrphan, Beside
    <3>5. QED
      BY <3>3, <3>4
  <2>2. ASSUME NEW c \in entries' PROVE pc'[c] = "pending" /\ c \in armed'
    <3>1. c \in entries /\ c \notin Settled(r) /\ c \in Calls
      BY <1>2, <1>4
    <3>2. seq[c] # seq[a]
      BY <3>1 DEF Settled
    <3>3. QED
      BY <1>4, <1>6, <3>1, <3>2 DEF NoOrphan
  <2>3. QED
    BY <2>1, <2>2 DEF NoOrphan
<1>13. ResponseMatches'
  BY <1>3, <1>4, <1>6 DEF ResponseMatches, Beside
<1>14. QED
  BY <1>7, <1>10, <1>11, <1>12, <1>13

LEMMA StepRestart == ASSUME ClientInv, Restart PROVE ClientInv'
<1> USE DEF ClientInv
<1>1. /\ seq' = seq /\ stored' = stored /\ ahead' = ahead /\ attempts' = attempts /\ answers' = answers
      /\ answerOf' = answerOf /\ entries' = {} /\ controllers' = {} /\ armed' = {}
      /\ pingOpen' = None
  BY DEF Restart
<1>2. pc' = [c \in Calls |->
               IF pc[c] \in {"writing", "signing", "rotating", "ready", "pinging",
                           "pending"}
               THEN "lost" ELSE pc[c]]
  BY DEF Restart
<1>3. \A c \in Calls : pc'[c] = "lost" \/ (pc'[c] = pc[c]
         /\ pc[c] \notin {"writing", "signing", "rotating", "ready", "pinging",
                      "pending"})
  BY <1>2
<1>5. Types'
  BY <1>1, <1>2 DEF Types, CallStates
<1>6. NumberInv'
  BY <1>1, <1>3 DEF NumberInv, Numbered, InUse, Beside, Types
<1>7. UseInv'
  BY <1>1, <1>3 DEF UseInv, Transmitted, Types
<1>8. NoOrphan' /\ ResponseMatches'
  BY <1>1, <1>3 DEF NoOrphan, ResponseMatches, Beside, Calls
<1>9. QED
  BY <1>5, <1>6, <1>7, <1>8

(* The invariant holds throughout.                                         *)
THEOREM ClientInvariant == Spec => []ClientInv
<1>1. Init => ClientInv
  BY InitClient
<1>2. ClientInv /\ [Next]_vars => ClientInv'
  <2> SUFFICES ASSUME ClientInv, [Next]_vars PROVE ClientInv'
    OBVIOUS
  <2>1. ASSUME NEW c \in Calls, CallStep(c) \/ SessionRefused(c) PROVE ClientInv'
    BY <2>1, StepSequenceGet, StepSequenceSet, StepCountMessage, StepRotateKey,
       StepTransmit, StepPingTransmit, StepPingArm, StepSessionRefused DEF CallStep
  <2>2. ASSUME NEW c \in Calls, Timeout(c) \/ PingTimeout(c) PROVE ClientInv'
    BY <2>2, StepTimeoutRetry, StepTimeoutGiveUp,
       StepPingTimeout DEF Timeout
  <2>3. ASSUME NEW c \in Calls, NEW err \in {0, 1}, PhoneAnswer(c, err)
        PROVE  ClientInv'
    BY <2>3, StepPhoneAnswer
  <2>4. ASSUME NEW r \in answers, Deliver(r) PROVE ClientInv'
    BY <2>4, StepDeliver
  <2>5. CASE Restart
    BY <2>5, StepRestart
  <2>6. CASE UNCHANGED vars
    BY <2>6 DEF vars, ClientInv, Types, NumberInv, Numbered, InUse, Beside, UseInv, Transmitted,
                NoOrphan, ResponseMatches
  <2>7. QED
    BY <2>1, <2>2, <2>3, <2>4, <2>5, <2>6 DEF Next
<1>3. QED
  BY <1>1, <1>2, PTL DEF Spec

(* No cross-talk but between calls that overlapped in getNextSequence,     *)
(* also after retries, give-ups, pings and restarts of the service worker. *)
THEOREM NoCrossTalk == Spec => []ResponseMatches
<1>1. ClientInv => ResponseMatches
  BY DEF ClientInv
<1>2. QED
  BY <1>1, ClientInvariant, PTL

(* A waiting command has its entry, its controller and its timer, unless a *)
(* call that overlapped with it in getNextSequence has its number.         *)
THEOREM NothingOrphaned == Spec => []NoOrphan
<1>1. ClientInv => NoOrphan
  BY DEF ClientInv
<1>2. QED
  BY <1>1, ClientInvariant, PTL

(* Every variable has its type: in particular no command is transmitted    *)
(* more than MAX_RETRIES times.                                            *)
THEOREM ClientTyped == Spec => []TypeOK
<1> USE ClientConstants DEF Calls
<1>1. Init => TypeOK
  BY DEF Init, TypeOK, CallStates
<1>2. TypeOK /\ [Next]_vars => TypeOK'
  <2> SUFFICES ASSUME TypeOK, [Next]_vars PROVE TypeOK'
    OBVIOUS
  <2> USE DEF TypeOK
  <2>1. ASSUME NEW c \in Calls, SessionRefused(c) \/ SequenceGet(c) \/ SequenceSet(c)
        PROVE  TypeOK'
    BY <2>1 DEF SessionRefused, SequenceGet, SequenceSet, CallStates
  <2>2. ASSUME NEW c \in Calls, CountMessage(c) \/ RotateKey(c) PROVE TypeOK'
    <3>1. pc' \in [Calls -> CallStates]
      BY <2>2 DEF CountMessage, RotateKey, CallStates
    <3> QED BY <2>2, <3>1 DEF CountMessage, RotateKey
  <2>3. ASSUME NEW c \in Calls, Transmit(c) PROVE TypeOK'
    BY <2>3 DEF Transmit, Without, CallStates
  <2>4. ASSUME NEW c \in Calls, PingTransmit(c) \/ PingArm(c) PROVE TypeOK'
    BY <2>4 DEF PingTransmit, PingArm, Without, CallStates
  <2>5. ASSUME NEW c \in Calls, TimeoutRetry(c) PROVE TypeOK'
    BY <2>5 DEF TimeoutRetry
  <2>6. ASSUME NEW c \in Calls, TimeoutGiveUp(c) PROVE TypeOK'
    <3>1. pc' \in [Calls -> CallStates]
      BY <2>6 DEF TimeoutGiveUp, CallStates
    <3> QED BY <2>6, <3>1 DEF TimeoutGiveUp, Without
  <2>7. ASSUME NEW c \in Calls, PingTimeout(c) PROVE TypeOK'
    BY <2>7 DEF PingTimeout, Without
  <2>8. ASSUME NEW c \in Calls, NEW err \in {0, 1}, PhoneAnswer(c, err) PROVE TypeOK'
    BY <2>8 DEF PhoneAnswer
  <2>9. ASSUME NEW r \in answers, Deliver(r) PROVE TypeOK'
    <3>1. pc' \in [Calls -> CallStates] /\ answerOf' \in [Calls -> Calls \cup {None}]
      BY <2>9 DEF Deliver, CallStates
    <3>2. /\ controllers' \subseteq controllers /\ armed' \subseteq armed
          /\ entries' \subseteq entries /\ pingOpen' \in {pingOpen, None}
      BY <2>9 DEF Deliver
    <3>3. UNCHANGED <<seq, stored, ahead, msgCount, rotations, attempts, answers, restarts>>
      BY <2>9 DEF Deliver
    <3> QED BY <3>1, <3>2, <3>3
  <2>10. CASE Restart
    BY <2>10 DEF Restart, CallStates
  <2>11. CASE UNCHANGED vars
    BY <2>11 DEF vars
  <2> QED BY <2>1, <2>2, <2>3, <2>4, <2>5, <2>6, <2>7, <2>8, <2>9, <2>10, <2>11
        DEF Next, CallStep, Timeout
<1> QED BY <1>1, <1>2, PTL DEF Spec
=============================================================================
