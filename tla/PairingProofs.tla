--------------------------- MODULE PairingProofs ---------------------------
(* How a phone is paired, for any phones, codes, sockets and calls of the  *)
(* popup: the coordinator's stored pairing (Pairing), and below it the     *)
(* rooms of the signaling server and the offscreen document's connection   *)
(* (WebRtcLink).                                                           *)
EXTENDS Pairing, WebRtcLink, TLAPS

-----------------------------------------------------------------------------
(* The popup's calls *)

MaybeKey == Keys \cup {NoKey}

CallKinds == {"none", "start", "confirm", "reject"}
Stops == {"idle", "yes", "no", "creating", "sending", "closing", "checking", "stored",
          "adding", "added", "removing", "emoji"}
CallRecords == [op : CallKinds, at : Stops, id : MaybeKey, page : {0, 1}]

(* Where a call of each kind may be.                                       *)
Sound(x) ==
  \/ x = Idle
  \/ x.op = "start" /\ x.at \in {"creating", "sending", "closing", "yes", "no"}
  \/ /\ x.op = "confirm"
     /\ \/ x.at \in {"checking", "stored", "adding", "added", "removing", "closing"}
           /\ x.id # NoKey
        \/ x.at \in {"yes", "no"}
  \/ x.op = "reject" /\ x.at \in {"emoji", "removing", "closing", "yes", "no"}

CallsOK == calls \in [Calls -> CallRecords] /\ \A c \in Calls : Sound(calls[c])

LEMMA IdleCall == Idle \in CallRecords /\ Idle.op = "none" /\ Idle.at = "idle" /\ Sound(Idle)
BY DEF Idle, CallRecords, CallKinds, Stops, MaybeKey, Sound

(* What a step does to the calls: c becomes x, the others are as before.   *)
Becomes(c, x) ==
  /\ calls' \in [Calls -> CallRecords]
  /\ calls'[c] = x
  /\ \A b \in Calls \ {c} : calls'[b] = calls[b]

LEMMA CallSet ==
  ASSUME CallsOK, NEW c \in Calls, NEW x \in CallRecords, calls' = [calls EXCEPT ![c] = x]
  PROVE  Becomes(c, x)
BY DEF CallsOK, Becomes

LEMMA CallGoes ==
  ASSUME CallsOK, NEW c \in Calls, NEW at \in Stops, Goto(c, at)
  PROVE  Becomes(c, [calls[c] EXCEPT !.at = at])
BY DEF CallsOK, Becomes, Goto, CallRecords

LEMMA CallReplies ==
  ASSUME CallsOK, NEW c \in Calls, NEW at \in Replies, Reply(c, at)
  PROVE  \E x \in {Idle, [calls[c] EXCEPT !.at = at]} : Becomes(c, x)
<1>1. CASE calls[c].page = 1
  <2>1. calls' = [calls EXCEPT ![c] = [calls[c] EXCEPT !.at = at]]
    BY <1>1 DEF Reply
  <2>2. [calls[c] EXCEPT !.at = at] \in CallRecords
    BY DEF CallsOK, CallRecords, Replies, Stops
  <2> QED BY <2>1, <2>2, CallSet
<1>2. CASE calls[c].page # 1
  <2>1. calls' = [calls EXCEPT ![c] = Idle]
    BY <1>2 DEF Reply
  <2> QED BY <2>1, IdleCall, CallSet
<1> QED BY <1>1, <1>2

(* A confirmation that has written pairing:device and is not done with it; *)
(* a rejection that has yet to remove it.                                  *)
Undecided(x) == x.op = "confirm" /\ x.at \in {"stored", "adding", "removing"}
Rejecting(x) == x.op = "reject" /\ x.at \in {"emoji", "removing"}

(* The record x may take the place of the record y of a call without any   *)
(* duty being forgotten.                                                   *)
Dutiful(y, x) ==
  /\ Undecided(y) => Undecided(x) /\ x.id = y.id
  /\ Rejecting(y) => Rejecting(x)

-----------------------------------------------------------------------------
(* The invariant of a pairing *)

PairingTypes ==
  /\ panel \in PanelStates
  /\ poll \in {"none", "paired", "emoji", "nothing"}
  /\ active \in {0, 1} /\ doc \in {0, 1} /\ created \in {0, 1} /\ created <= doc
  /\ flow \in {"none", "waiting", "storing", "removing", "closing"}
  /\ pk \in MaybeKey /\ dev \in MaybeKey \cup {EmptyKey} /\ owner \in MaybeKey
  /\ registry \subseteq Keys /\ revoking \in MaybeKey
  /\ session \in {0, 1} /\ emoji \in {0, 1} /\ passkey \in {0, 1} /\ rejected \in {0, 1}

(* The device whose confirmation wrote pairing:device is registered and    *)
(* not being revoked, or that confirmation is still going to register it   *)
(* or to undo the write.                                                   *)
OwnerInv ==
  \/ owner = NoKey
  \/ owner \in registry /\ owner # revoking
  \/ \E c \in Calls : Undecided(calls[c]) /\ calls[c].id = owner

(* A rejection takes the key a confirmation would store, and what is       *)
(* stored already is still going to be removed by it.                      *)
RejectInv ==
  rejected = 1 =>
    /\ pk = NoKey
    /\ dev \in Keys => \E c \in Calls : Rejecting(calls[c])

PairingInv == PairingTypes /\ CallsOK /\ OwnerInv /\ RejectInv

LEMMA DutiesKept ==
  ASSUME PairingInv, NEW c \in Calls, NEW x, Becomes(c, x), Sound(x), Dutiful(calls[c], x),
         UNCHANGED <<dev, owner, rejected, revoking>>, registry \subseteq registry',
         pk' \in {pk, NoKey}
  PROVE  CallsOK' /\ OwnerInv' /\ RejectInv'
<1>1. CallsOK'
  BY DEF PairingInv, CallsOK, Becomes
<1>2. OwnerInv'
  BY DEF PairingInv, OwnerInv, Becomes, Dutiful
<1>3. RejectInv'
  BY DEF PairingInv, RejectInv, Becomes, Dutiful
<1> QED BY <1>1, <1>2, <1>3

LEMMA DutiesUntouched ==
  ASSUME PairingInv, UNCHANGED <<calls, dev, owner, registry, revoking>>,
         \/ rejected' = rejected /\ pk' \in {pk, NoKey}
         \/ rejected' = 0
  PROVE  CallsOK' /\ OwnerInv' /\ RejectInv'
BY DEF PairingInv, CallsOK, OwnerInv, RejectInv

LEMMA CallsRemoved ==
  ASSUME PairingInv, NEW c \in Calls, NEW x, Becomes(c, x), Sound(x), RemoveStored,
         UNCHANGED <<rejected, pk>>
  PROVE  CallsOK' /\ OwnerInv' /\ RejectInv'
BY PairingAssumption DEF PairingInv, CallsOK, OwnerInv, RejectInv, RemoveStored, Becomes

-----------------------------------------------------------------------------
(* The actions *)

LEMMA PanelStep ==
  ASSUME PairingInv, NEW c \in Calls,
         StartPairing(c) \/ HandleConfirmMatch(c) \/ HandleRejectMatch(c) \/ Answered(c)
  PROVE  PairingInv'
<1>0. PairingTypes /\ CallsOK /\ calls[c] \in CallRecords
  BY DEF PairingInv, CallsOK
<1>1. PairingTypes'
  <2>1. panel' \in PanelStates /\ poll' \in {poll, "none"}
    <3>1. CASE Answered(c)
      <4>1. calls[c].at \in {"yes", "no"} /\ Sound(calls[c])
        BY <1>0, <3>1 DEF Answered, Replies, CallsOK
      <4>2. calls[c].op \in {"start", "confirm", "reject"}
        BY <4>1, IdleCall DEF Sound
      <4> QED BY <1>0, <3>1, <4>2 DEF Answered, PairingTypes, PanelStates
    <3>2. CASE ~Answered(c)
      BY <1>0, <3>2 DEF StartPairing, HandleConfirmMatch, HandleRejectMatch, PairingTypes,
        PanelStates, panelVars
    <3> QED BY <3>1, <3>2
  <2>2. active' \in {0, 1} /\ pk' \in {pk, NoKey} /\ rejected' \in {0, 1}
    BY <1>0 DEF StartPairing, HandleConfirmMatch, HandleRejectMatch, Answered, PairingTypes,
      handshakeVars
  <2>3. UNCHANGED <<docVars, flow, session, emoji, storedVars, passkey>>
    BY DEF StartPairing, HandleConfirmMatch, HandleRejectMatch, Answered, handshakeVars
  <2> QED BY <1>0, <2>1, <2>2, <2>3 DEF PairingTypes, MaybeKey, docVars, storedVars
<1>2. CASE StartPairing(c)
  <2>1. PICK at \in {"no", "creating"} :
          calls[c] = Idle /\ calls' = [calls EXCEPT ![c] = NewCall("start", at, NoKey)]
    BY <1>2 DEF StartPairing, Send
  <2>2. NewCall("start", at, NoKey) \in CallRecords /\ Sound(NewCall("start", at, NoKey))
    BY DEF NewCall, CallRecords, CallKinds, Stops, MaybeKey, Sound
  <2>3. Dutiful(calls[c], NewCall("start", at, NoKey))
    BY <2>1, IdleCall DEF Dutiful, Undecided, Rejecting
  <2>4. UNCHANGED <<dev, owner, rejected, registry, revoking, pk>>
    BY <1>2 DEF StartPairing, handshakeVars, storedVars
  <2> QED BY <1>0, <1>1, <2>1, <2>2, <2>3, <2>4, CallSet, DutiesKept DEF PairingInv
<1>3. CASE HandleConfirmMatch(c)
  <2>1. calls[c] = Idle /\ calls' = [calls EXCEPT ![c] = ConfirmCall]
    BY <1>3 DEF HandleConfirmMatch, Send
  <2>2. ConfirmCall \in CallRecords /\ Sound(ConfirmCall)
    BY <1>0 DEF ConfirmCall, NewCall, CallRecords, CallKinds, Stops, MaybeKey, Sound, PairingTypes
  <2>3. Dutiful(calls[c], ConfirmCall)
    BY <2>1, IdleCall DEF Dutiful, Undecided, Rejecting
  <2>4. UNCHANGED <<dev, owner, rejected, registry, revoking, pk>>
    BY <1>3 DEF HandleConfirmMatch, handshakeVars, storedVars
  <2> QED BY <1>0, <1>1, <2>1, <2>2, <2>3, <2>4, CallSet, DutiesKept DEF PairingInv
<1>4. CASE HandleRejectMatch(c)
  <2> DEFINE x == NewCall("reject", "emoji", NoKey)
  <2>1. calls[c] = Idle /\ calls' = [calls EXCEPT ![c] = x]
    BY <1>4 DEF HandleRejectMatch, Send
  <2>2. x \in CallRecords /\ Sound(x) /\ Rejecting(x)
    BY DEF NewCall, CallRecords, CallKinds, Stops, MaybeKey, Sound, Rejecting
  <2> HIDE DEF x
  <2>3. Becomes(c, x) /\ ~Undecided(calls[c])
    BY <1>0, <2>1, <2>2, IdleCall, CallSet DEF Undecided
  <2>4. UNCHANGED <<dev, owner, registry, revoking>> /\ pk' = NoKey
    BY <1>4 DEF HandleRejectMatch, storedVars
  <2>5. CallsOK'
    BY <1>0, <2>2, <2>3 DEF CallsOK, Becomes
  <2>6. OwnerInv'
    BY <2>3, <2>4 DEF PairingInv, OwnerInv, Becomes
  <2>7. RejectInv'
    BY <2>2, <2>3, <2>4 DEF RejectInv, Becomes
  <2> QED BY <1>1, <2>5, <2>6, <2>7 DEF PairingInv
<1>5. CASE Answered(c)
  <2>1. calls[c].at \in {"yes", "no"} /\ calls' = [calls EXCEPT ![c] = Idle]
    BY <1>5 DEF Answered, Replies
  <2>2. Dutiful(calls[c], Idle)
    BY <2>1 DEF Dutiful, Undecided, Rejecting
  <2>3. UNCHANGED <<dev, owner, rejected, registry, revoking, pk>>
    BY <1>5 DEF Answered, handshakeVars, storedVars
  <2> QED BY <1>0, <1>1, <2>1, <2>2, <2>3, IdleCall, CallSet, DutiesKept DEF PairingInv
<1> QED BY <1>2, <1>3, <1>4, <1>5

LEMMA StartStep ==
  ASSUME PairingInv, NEW c \in Calls, StartCreates(c) \/ StartSends(c) \/ StartCloses(c)
  PROVE  PairingInv'
<1>0. PairingTypes /\ CallsOK /\ calls[c] \in CallRecords
  BY DEF PairingInv, CallsOK
<1>1. PairingTypes'
  <2>1. active' \in {0, 1} /\ doc' \in {0, 1} /\ created' \in {0, 1} /\ created' <= doc'
    BY <1>0 DEF StartCreates, StartSends, StartCloses, CreateOffscreenDocument,
      CloseOffscreenDocument, HasOffscreenDocument, PairingTypes, docVars
  <2> QED BY <1>0, <2>1 DEF StartCreates, StartSends, StartCloses, PairingTypes, panelVars,
        handshakeVars, storedVars
<1>2. calls[c].op = "start" /\ UNCHANGED <<dev, owner, rejected, registry, revoking, pk>>
  BY DEF StartCreates, StartSends, StartCloses, At, handshakeVars, storedVars
<1>3. PICK x \in {Idle, [calls[c] EXCEPT !.at = "yes"], [calls[c] EXCEPT !.at = "no"],
                  [calls[c] EXCEPT !.at = "sending"], [calls[c] EXCEPT !.at = "closing"]} :
        Becomes(c, x)
  <2>1. \/ Goto(c, "sending") \/ Goto(c, "closing") \/ Reply(c, "yes") \/ Reply(c, "no")
    BY DEF StartCreates, StartSends, StartCloses
  <2>2. CASE Goto(c, "sending")
    BY <1>0, <2>2, CallGoes DEF Stops
  <2>3. CASE Goto(c, "closing")
    BY <1>0, <2>3, CallGoes DEF Stops
  <2>4. CASE Reply(c, "yes")
    BY <1>0, <2>4, CallReplies DEF Replies
  <2>5. CASE Reply(c, "no")
    BY <1>0, <2>5, CallReplies DEF Replies
  <2> QED BY <2>1, <2>2, <2>3, <2>4, <2>5
<1>4. Sound(x) /\ Dutiful(calls[c], x)
  <2>1. Sound(x)
    BY <1>0, <1>2, <1>3, IdleCall DEF Sound, CallRecords
  <2> QED BY <1>2, <2>1 DEF Dutiful, Undecided, Rejecting
<1> QED BY <1>1, <1>2, <1>3, <1>4, DutiesKept DEF PairingInv

LEMMA RejectStep ==
  ASSUME PairingInv, NEW c \in Calls, RejectRemovesEmoji(c) \/ CallRemoves(c) \/ CallCloses(c)
  PROVE  PairingInv'
<1>0. PairingTypes /\ CallsOK /\ calls[c] \in CallRecords /\ Sound(calls[c])
  BY DEF PairingInv, CallsOK
<1>1. PairingTypes'
  <2>1. active' \in {0, 1} /\ doc' \in {0, 1} /\ created' \in {0, 1} /\ created' <= doc'
    BY <1>0 DEF RejectRemovesEmoji, CallRemoves, CallCloses, CloseSession,
      CloseOffscreenDocument, HasOffscreenDocument, PairingTypes, docVars
  <2> QED BY <1>0, <2>1 DEF RejectRemovesEmoji, CallRemoves, CallCloses, RemoveStored,
        PairingTypes, MaybeKey, panelVars, handshakeVars, storedVars
<1>2. CASE RejectRemovesEmoji(c)
  <2> DEFINE x == [calls[c] EXCEPT !.at = "removing"]
  <2>1. calls[c].op = "reject" /\ UNCHANGED <<dev, owner, rejected, registry, revoking, pk>> /\ Becomes(c, x)
    BY <1>0, <1>2, CallGoes DEF RejectRemovesEmoji, At, storedVars, Stops
  <2>2. x.op = "reject" /\ x.at = "removing"
    BY <1>0, <2>1 DEF CallRecords
  <2> HIDE DEF x
  <2>3. Sound(x) /\ Dutiful(calls[c], x)
    BY <2>1, <2>2 DEF Sound, Dutiful, Undecided, Rejecting
  <2> QED BY <1>1, <2>1, <2>3, DutiesKept DEF PairingInv
<1>3. CASE CallRemoves(c)
  <2> DEFINE x == [calls[c] EXCEPT !.at = "closing"]
  <2>1. calls[c].at = "removing" /\ RemoveStored /\ UNCHANGED <<rejected, pk>> /\ Becomes(c, x)
    BY <1>0, <1>3, CallGoes DEF CallRemoves, handshakeVars, Stops
  <2>2. x.op = calls[c].op /\ x.at = "closing" /\ x.id = calls[c].id
    BY <1>0, <2>1 DEF CallRecords
  <2> HIDE DEF x
  <2>3. Sound(x)
    BY <1>0, <2>1, <2>2, IdleCall DEF Sound
  <2> QED BY <1>1, <2>1, <2>3, CallsRemoved DEF PairingInv
<1>4. CASE CallCloses(c)
  <2>1. /\ calls[c].op # "start" /\ calls[c].at = "closing"
        /\ UNCHANGED <<dev, owner, rejected, registry, revoking, pk>>
    BY <1>4 DEF CallCloses, handshakeVars, storedVars
  <2>2. PICK x \in {Idle, [calls[c] EXCEPT !.at = "yes"], [calls[c] EXCEPT !.at = "no"]} :
          Becomes(c, x)
    <3>1. Reply(c, "yes") \/ Reply(c, "no")
      BY <1>4 DEF CallCloses
    <3> QED BY <1>0, <3>1, CallReplies DEF Replies
  <2>3. Sound(x)
    BY <1>0, <2>1, <2>2, IdleCall DEF Sound, CallRecords
  <2>4. Dutiful(calls[c], x)
    BY <2>1 DEF Dutiful, Undecided, Rejecting
  <2> QED BY <1>1, <2>1, <2>2, <2>3, <2>4, DutiesKept DEF PairingInv
<1> QED BY <1>2, <1>3, <1>4

(* A call that gives up what it wrote, or what it was to remove: the       *)
(* history no longer counts it.                                            *)
LEMMA GivesUpStep ==
  ASSUME PairingInv, NEW c \in Calls, ClearFails(c) \/ ConfirmThrows(c)
  PROVE  PairingInv'
<1>0. PairingTypes /\ CallsOK /\ calls[c] \in CallRecords /\ Sound(calls[c])
  BY DEF PairingInv, CallsOK
<1>1. UNCHANGED <<panel, poll, active, doc, created, flow, pk, session, emoji, passkey, dev,
                  registry, revoking>>
  BY DEF ClearFails, ConfirmThrows, panelVars, docVars, handshakeVars
<1>2. calls[c].op \in {"confirm", "reject"} /\ calls[c].at \in {"adding", "emoji", "removing"}
  BY <1>0, IdleCall DEF ClearFails, ConfirmThrows, At, Sound
<1>3. PICK x \in {Idle, [calls[c] EXCEPT !.at = "yes"], [calls[c] EXCEPT !.at = "no"]} :
        Becomes(c, x)
  <2>1. Reply(c, "yes") \/ Reply(c, "no")
    BY DEF ClearFails, ConfirmThrows
  <2> QED BY <1>0, <2>1, CallReplies DEF Replies
<1>4. Sound(x)
  BY <1>0, <1>2, <1>3, IdleCall DEF Sound, CallRecords
<1>5. CallsOK'
  BY <1>0, <1>3, <1>4 DEF CallsOK, Becomes
<1>6. CASE calls[c].op = "reject"
  <2>0. ClearFails(c)
    BY <1>6 DEF ConfirmThrows, At
  <2>1. rejected' = 0 /\ UNCHANGED owner
    BY <1>6, <2>0 DEF ClearFails
  <2>2. PairingTypes'
    BY <1>0, <1>1, <2>1 DEF PairingTypes
  <2>3. OwnerInv'
    BY <1>1, <1>3, <1>6, <2>1 DEF PairingInv, OwnerInv, Becomes, Undecided
  <2> QED BY <1>5, <2>1, <2>2, <2>3 DEF PairingInv, RejectInv
<1>7. CASE calls[c].op = "confirm"
  <2>1. UNCHANGED rejected /\ Disowned(c)
    BY <1>7 DEF ClearFails, ConfirmThrows
  <2>2. owner' = NoKey \/ (owner' = owner /\ owner # calls[c].id)
    <3>1. CASE owner = calls[c].id
      BY <2>1, <3>1 DEF Disowned
    <3>2. CASE owner # calls[c].id
      BY <2>1, <3>2 DEF Disowned
    <3> QED BY <3>1, <3>2
  <2>3. PairingTypes'
    BY <1>0, <1>1, <2>1, <2>2 DEF PairingTypes, MaybeKey
  <2>4. OwnerInv'
    BY <1>1, <1>3, <2>2 DEF PairingInv, OwnerInv, Becomes
  <2>5. RejectInv'
    BY <1>1, <1>3, <1>7, <2>1 DEF PairingInv, RejectInv, Becomes, Rejecting
  <2> QED BY <1>5, <2>3, <2>4, <2>5 DEF PairingInv
<1> QED BY <1>2, <1>6, <1>7

LEMMA ConfirmStep ==
  ASSUME PairingInv, NEW c \in Calls,
         ConfirmChecks(c) \/ ConfirmStored(c) \/ ConfirmAdds(c) \/ ConfirmFinishes(c)
  PROVE  PairingInv'
<1>0. PairingTypes /\ CallsOK /\ calls[c] \in CallRecords /\ Sound(calls[c])
  BY DEF PairingInv, CallsOK
<1>1. calls[c].op = "confirm" /\ calls[c].id \in MaybeKey
  BY <1>0 DEF ConfirmChecks, ConfirmStored, ConfirmAdds, ConfirmFinishes, At, CallRecords
<1>2. calls[c].at \in {"checking", "stored", "adding", "added"} /\ calls[c].id # NoKey
  BY <1>0, <1>1, IdleCall DEF ConfirmChecks, ConfirmStored, ConfirmAdds, ConfirmFinishes, At, Sound
<1>3. PairingTypes'
  BY <1>0, <1>1, <1>2 DEF ConfirmChecks, ConfirmStored, ConfirmAdds, ConfirmFinishes,
    PairingTypes, MaybeKey, panelVars, docVars, handshakeVars, storedVars
<1>4. ASSUME NEW at \in {"stored", "adding", "added", "removing"}
      PROVE  LET x == [calls[c] EXCEPT !.at = at]
             IN  x.op = "confirm" /\ x.at = at /\ x.id = calls[c].id /\ Sound(x)
  BY <1>0, <1>1, <1>2 DEF CallRecords, Sound
<1>5. ASSUME NEW x \in {Idle, [calls[c] EXCEPT !.at = "yes"], [calls[c] EXCEPT !.at = "no"]}
      PROVE  Sound(x)
  BY <1>0, <1>1, IdleCall DEF CallRecords, Sound
<1>6. CASE ConfirmChecks(c)
  <2>1. /\ UNCHANGED <<rejected, registry, revoking, pk>> /\ calls[c].at = "checking"
        /\ ~Undecided(calls[c]) /\ ~Rejecting(calls[c])
    BY <1>1, <1>6 DEF ConfirmChecks, At, handshakeVars, Undecided, Rejecting
  <2>2. CASE Reply(c, "no") /\ UNCHANGED <<dev, owner>>
    <3>1. PICK x \in {Idle, [calls[c] EXCEPT !.at = "no"]} : Becomes(c, x)
      BY <1>0, <2>2, CallReplies DEF Replies
    <3> QED BY <1>3, <1>5, <2>1, <2>2, <3>1, DutiesKept DEF PairingInv, Dutiful
  <2>3. CASE Goto(c, "stored") /\ owner' = calls[c].id /\ pk # NoKey
    <3> DEFINE x == [calls[c] EXCEPT !.at = "stored"]
    <3>1. Becomes(c, x) /\ x.op = "confirm" /\ x.at = "stored" /\ x.id = calls[c].id /\ Sound(x)
      BY <1>0, <1>4, <2>3, CallGoes DEF Stops
    <3> HIDE DEF x
    <3>2. CallsOK'
      BY <1>0, <3>1 DEF CallsOK, Becomes
    <3>3. OwnerInv'
      BY <2>3, <3>1 DEF OwnerInv, Becomes, Undecided
    <3>4. RejectInv'
      BY <2>1, <2>3 DEF PairingInv, RejectInv
    <3> QED BY <1>3, <3>2, <3>3, <3>4 DEF PairingInv
  <2> QED BY <1>6, <2>2, <2>3 DEF ConfirmChecks, CanComplete
<1>7. CASE ConfirmStored(c)
  <2> DEFINE x == [calls[c] EXCEPT !.at = "adding"]
  <2>1. UNCHANGED <<dev, owner, rejected, registry, revoking, pk>> /\ Becomes(c, x)
    BY <1>0, <1>7, CallGoes DEF ConfirmStored, handshakeVars, storedVars, Stops
  <2>2. x.op = "confirm" /\ x.at = "adding" /\ x.id = calls[c].id /\ Sound(x)
    BY <1>4
  <2> HIDE DEF x
  <2>3. Dutiful(calls[c], x)
    BY <1>1, <2>2 DEF Dutiful, Undecided, Rejecting
  <2> QED BY <1>3, <2>1, <2>2, <2>3, DutiesKept DEF PairingInv
<1>8. CASE ConfirmAdds(c)
  <2>1. UNCHANGED <<dev, owner, rejected, revoking, pk>> /\ revoking = NoKey
    BY <1>8 DEF ConfirmAdds, handshakeVars
  <2>2. CASE registry' = registry \cup {calls[c].id} /\ Goto(c, "added")
    <3> DEFINE x == [calls[c] EXCEPT !.at = "added"]
    <3>1. Becomes(c, x) /\ Sound(x)
      BY <1>0, <1>4, <2>2, CallGoes DEF Stops
    <3> HIDE DEF x
    <3>2. CallsOK'
      BY <1>0, <3>1 DEF CallsOK, Becomes
    <3>3. OwnerInv'
      BY <1>2, <2>1, <2>2, <3>1 DEF PairingInv, OwnerInv, Becomes
    <3>4. RejectInv'
      BY <1>1, <2>1, <3>1 DEF PairingInv, RejectInv, Becomes, Rejecting
    <3> QED BY <1>3, <3>2, <3>3, <3>4 DEF PairingInv
  <2>3. CASE Goto(c, "removing") /\ UNCHANGED registry
    <3> DEFINE x == [calls[c] EXCEPT !.at = "removing"]
    <3>1. Becomes(c, x) /\ x.op = "confirm" /\ x.at = "removing" /\ x.id = calls[c].id /\ Sound(x)
      BY <1>0, <1>4, <2>3, CallGoes DEF Stops
    <3> HIDE DEF x
    <3>2. Dutiful(calls[c], x)
      BY <1>1, <3>1 DEF Dutiful, Undecided, Rejecting
    <3> QED BY <1>3, <2>1, <2>3, <3>1, <3>2, DutiesKept DEF PairingInv
  <2> QED BY <1>8, <2>2, <2>3 DEF ConfirmAdds, AddFailed
<1>9. CASE ConfirmFinishes(c)
  <2>1. /\ UNCHANGED <<dev, owner, rejected, registry, revoking>>
        /\ pk' \in {pk, NoKey} /\ calls[c].at = "added"
    BY <1>9 DEF ConfirmFinishes, storedVars, At
  <2>2. PICK x \in {Idle, [calls[c] EXCEPT !.at = "yes"], [calls[c] EXCEPT !.at = "no"]} :
          Becomes(c, x)
    <3>1. Reply(c, "yes") \/ Reply(c, "no")
      BY <1>9 DEF ConfirmFinishes
    <3> QED BY <1>0, <3>1, CallReplies DEF Replies
  <2>3. Dutiful(calls[c], x)
    BY <2>1 DEF Dutiful, Undecided, Rejecting
  <2> QED BY <1>3, <1>5, <2>1, <2>2, <2>3, DutiesKept DEF PairingInv
<1> QED BY <1>6, <1>7, <1>8, <1>9

LEMMA FlowStep ==
  ASSUME PairingInv,
         \/ CheckSession \/ PollArrives \/ QrExpires \/ HandleReset \/ OpenPopup
         \/ FlowBegins \/ FlowStores \/ HandshakeFails \/ FlowCloses
         \/ \E k \in Keys : HandshakeDone(k)
         \/ PasskeyReported \/ PasskeyPageCloses \/ UNCHANGED pairingVars
  PROVE  PairingInv'
<1>0. PairingTypes
  BY DEF PairingInv
<1>1. /\ UNCHANGED <<calls, dev, owner, registry, revoking>>
      /\ \/ rejected' = rejected /\ pk' \in {pk, NoKey}
         \/ rejected' = 0 /\ pk' \in Keys
  BY DEF CheckSession, PollArrives, QrExpires, HandleReset, OpenPopup, PanelTo, FlowBegins,
    FlowStores, HandshakeFails, FlowCloses, HandshakeDone, PasskeyReported, PasskeyPageCloses,
    pairingVars, handshakeVars, storedVars
<1>2. panel' \in PanelStates /\ poll' \in {"none", "paired", "emoji", "nothing"}
  BY <1>0 DEF CheckSession, PollArrives, QrExpires, HandleReset, OpenPopup, PanelTo, FlowBegins,
    FlowStores, HandshakeFails, FlowCloses, HandshakeDone, PasskeyReported, PasskeyPageCloses,
    pairingVars, panelVars, PairingTypes, PanelStates
<1>3. active' \in {0, 1} /\ doc' \in {0, 1} /\ created' \in {0, 1} /\ created' <= doc'
  BY <1>0 DEF CheckSession, PollArrives, QrExpires, HandleReset, OpenPopup, PanelTo, FlowBegins,
    FlowStores, HandshakeFails, FlowCloses, HandshakeDone, PasskeyReported, PasskeyPageCloses,
    pairingVars, docVars, PairingTypes, CloseSession, CloseOffscreenDocument, HasOffscreenDocument
<1>4. /\ flow' \in {"none", "waiting", "storing", "removing", "closing"}
      /\ session' \in {0, 1} /\ emoji' \in {0, 1} /\ passkey' \in {0, 1}
  BY <1>0 DEF CheckSession, PollArrives, QrExpires, HandleReset, OpenPopup, PanelTo, FlowBegins,
    FlowStores, HandshakeFails, FlowCloses, HandshakeDone, PasskeyReported, PasskeyPageCloses,
    pairingVars, handshakeVars, PairingTypes
<1>5. PairingTypes'
  BY <1>0, <1>1, <1>2, <1>3, <1>4 DEF PairingTypes, MaybeKey
<1>6. CallsOK' /\ OwnerInv' /\ RejectInv'
  BY <1>1, DutiesUntouched
<1> QED BY <1>5, <1>6 DEF PairingInv

LEMMA FlowRemovesStep ==
  ASSUME PairingInv, FlowRemoves
  PROVE  PairingInv'
<1>1. PairingTypes'
  BY DEF PairingInv, PairingTypes, FlowRemoves, RemoveStored, MaybeKey, panelVars, docVars,
         storedVars
<1>2. CASE RemoveStored
  BY <1>1, <1>2, PairingAssumption
     DEF PairingInv, CallsOK, OwnerInv, RejectInv, FlowRemoves, RemoveStored
<1>3. CASE UNCHANGED storedVars
  <2>1. UNCHANGED <<calls, dev, owner, registry, revoking, rejected, pk>>
    BY <1>3 DEF FlowRemoves, storedVars
  <2> QED BY <1>1, <2>1, DutiesUntouched DEF PairingInv
<1> QED BY <1>2, <1>3 DEF FlowRemoves

(* revokeDevice: what it writes over is no longer anybody's, and what a    *)
(* confirmation has written since is that confirmation's to register.      *)
LEMMA RevokeStep ==
  ASSUME PairingInv, RevokeEnds \/ \E k \in Keys : RevokeDevice(k)
  PROVE  PairingInv'
<1>1. UNCHANGED <<panel, poll, calls, active, doc, created, flow, pk, session, emoji, passkey,
                  rejected>>
  BY DEF RevokeEnds, RevokeDevice, panelVars, docVars, handshakeVars
<1>2. CASE RevokeEnds
  <2>1. UNCHANGED <<dev, owner>> /\ revoking' = NoKey
    BY <1>2 DEF RevokeEnds
  <2>2. registry' \subseteq registry /\ registry \ {revoking} \subseteq registry'
    BY <1>2 DEF RevokeEnds
  <2>3. PairingTypes'
    BY <1>1, <2>1, <2>2 DEF PairingInv, PairingTypes, MaybeKey
  <2>4. OwnerInv'
    BY <1>1, <2>1, <2>2 DEF PairingInv, OwnerInv
  <2> QED BY <1>1, <2>1, <2>3, <2>4 DEF PairingInv, CallsOK, RejectInv
<1>3. ASSUME NEW k \in Keys, RevokeDevice(k) PROVE PairingInv'
  <2>1. dev' = EmptyKey /\ owner' = NoKey /\ revoking' = k /\ UNCHANGED registry
    BY <1>3 DEF RevokeDevice
  <2>2. PairingTypes'
    BY <1>1, <2>1 DEF PairingInv, PairingTypes, MaybeKey
  <2>3. RejectInv'
    BY <1>1, <2>1, PairingAssumption DEF PairingInv, RejectInv
  <2> QED BY <1>1, <2>1, <2>2, <2>3 DEF PairingInv, CallsOK, OwnerInv
<1> QED BY <1>2, <1>3

(* The popup closes: its calls run on.                                     *)
LEMMA ClosePopupStep ==
  ASSUME PairingInv, ClosePopup
  PROVE  PairingInv'
<1>0. PairingTypes /\ CallsOK
  BY DEF PairingInv
<1>1. PairingTypes'
  BY <1>0 DEF ClosePopup, PanelTo, PairingTypes, PanelStates, docVars, handshakeVars, storedVars
<1>2. ASSUME NEW c \in Calls
      PROVE  calls'[c] \in CallRecords /\ Sound(calls'[c]) /\ Dutiful(calls[c], calls'[c])
  <2>0. calls[c] \in CallRecords /\ Sound(calls[c])
    BY <1>0 DEF CallsOK
  <2>1. CASE calls[c].at \in Replies \cup {"idle"}
    <3>1. calls'[c] = Idle
      BY <2>1 DEF ClosePopup
    <3> QED BY <2>1, <3>1, IdleCall DEF Replies, Dutiful, Undecided, Rejecting
  <2>2. CASE calls[c].at \notin Replies \cup {"idle"}
    <3>1. calls'[c] = [calls[c] EXCEPT !.page = 0]
      BY <2>2 DEF ClosePopup
    <3>2. /\ calls'[c] \in CallRecords /\ calls'[c].op = calls[c].op
          /\ calls'[c].at = calls[c].at /\ calls'[c].id = calls[c].id
      BY <2>0, <3>1 DEF CallRecords
    <3> QED BY <2>0, <2>2, <3>2, IdleCall DEF Sound, Dutiful, Undecided, Rejecting
  <2> QED BY <2>1, <2>2
<1>3. CallsOK'
  <2>1. calls' = [c \in Calls |-> calls'[c]]
    BY DEF ClosePopup
  <2> QED BY <1>2, <2>1 DEF CallsOK
<1>4. UNCHANGED <<dev, owner, registry, revoking, rejected, pk>>
  BY DEF ClosePopup, PanelTo, handshakeVars, storedVars
<1>5. OwnerInv'
  BY <1>2, <1>4 DEF PairingInv, OwnerInv, Dutiful
<1>6. RejectInv'
  BY <1>2, <1>4 DEF PairingInv, RejectInv, Dutiful
<1> QED BY <1>1, <1>3, <1>5, <1>6 DEF PairingInv

LEMMA WorkerStep ==
  ASSUME PairingInv, Restart
  PROVE  PairingInv'
<1>0. PairingTypes /\ CallsOK
  BY DEF PairingInv
<1>1. PairingTypes'
  BY <1>0 DEF Restart, PairingTypes, MaybeKey
<1>2. ASSUME NEW c \in Calls PROVE calls'[c] \in CallRecords /\ Sound(calls'[c])
  <2>0. calls[c] \in CallRecords /\ Sound(calls[c])
    BY <1>0 DEF CallsOK
  <2>1. CASE calls[c].page = 0
    BY <2>1, IdleCall DEF Restart
  <2>2. CASE calls[c].page # 0
    <3>1. PICK at \in {"yes", "no"} : calls'[c] = [calls[c] EXCEPT !.at = at]
      BY <2>2 DEF Restart
    <3>2. calls'[c] \in CallRecords /\ calls'[c].op = calls[c].op /\ calls'[c].at = at
      BY <2>0, <3>1 DEF CallRecords, Stops
    <3>3. calls[c].op \in {"start", "confirm", "reject"}
      BY <2>0, <2>2 DEF Sound, Idle
    <3> QED BY <3>2, <3>3 DEF Sound
  <2> QED BY <2>1, <2>2
<1>3. CallsOK'
  <2>1. calls' = [c \in Calls |-> calls'[c]]
    BY DEF Restart
  <2> QED BY <1>2, <2>1 DEF CallsOK
<1>4. OwnerInv' /\ RejectInv'
  BY DEF Restart, OwnerInv, RejectInv
<1> QED BY <1>1, <1>3, <1>4 DEF PairingInv

LEMMA PairingInvariant == PairingSpec => []PairingInv
<1>1. PairingInit => PairingInv
  <2> SUFFICES ASSUME PairingInit PROVE PairingInv
    OBVIOUS
  <2>1. PairingTypes
    BY DEF PairingInit, PairingTypes, PanelStates, MaybeKey
  <2>2. CallsOK
    BY IdleCall DEF PairingInit, CallsOK
  <2> QED BY <2>1, <2>2 DEF PairingInit, PairingInv, OwnerInv, RejectInv
<1>2. PairingInv /\ [PairingNext]_pairingVars => PairingInv'
  BY PanelStep, StartStep, RejectStep, GivesUpStep, ConfirmStep, FlowStep, FlowRemovesStep,
    ClosePopupStep, RevokeStep, WorkerStep DEF PairingNext
<1> QED BY <1>1, <1>2, PTL DEF PairingSpec

(* Every variable of the pairing has its type, and a confirmation in       *)
(* progress was made for a key that was pending: confirmSasMatch's guard   *)
(* holds for every number of overlapping calls.                            *)
THEOREM PairingTyped == PairingSpec => []PairingTypeOK
<1>1. PairingInv => PairingTypeOK
  <2> SUFFICES ASSUME PairingInv PROVE PairingTypeOK
    OBVIOUS
  <2>1. ASSUME NEW c \in Calls, calls[c] # Idle
        PROVE  /\ calls[c].op \in DOMAIN Steps
               /\ calls[c].at \in Steps[calls[c].op] \cup Replies
               /\ calls[c].page \in {0, 1}
               /\ calls[c].id \in Keys \cup {NoKey}
               /\ calls[c].op = "confirm" /\ calls[c].at \in Steps.confirm => calls[c].id # NoKey
    <3>1. calls[c] \in CallRecords /\ Sound(calls[c])
      BY DEF PairingInv, CallsOK
    <3>2. /\ DOMAIN Steps = {"start", "confirm", "reject"}
          /\ Steps["start"] = {"creating", "sending", "closing"}
          /\ Steps["confirm"] = {"checking", "stored", "adding", "added", "removing", "closing"}
          /\ Steps["reject"] = {"emoji", "removing", "closing"}
      BY DEF Steps
    <3> QED BY <2>1, <3>1, <3>2 DEF Sound, CallRecords, MaybeKey, Replies
  <2> QED BY <2>1 DEF PairingInv, PairingTypes, PairingTypeOK, MaybeKey
<1> QED BY <1>1, PairingInvariant, PTL

(* A stored pairing is one the registry knows, once no confirmation is     *)
(* between its two writes, for any number of overlapping confirmations,    *)
(* rejections, revocations, failing handshakes and restarts; a             *)
(* confirmation that gave up before its rollback does not count.           *)
THEOREM StoredIsRegistered == PairingSpec => []PairedRegistered
<1>1. PairingInv => PairedRegistered
  BY DEF PairingInv, OwnerInv, PairedRegistered, ConfirmOpen, Undecided
<1> QED BY <1>1, PairingInvariant, PTL

(* After a rejection has run, and its removal did not fail, no pairing     *)
(* with a phone is stored, however many confirmations were in flight when  *)
(* it began.                                                               *)
THEOREM RejectionFinal == PairingSpec => []RejectFinal
<1>1. PairingInv => RejectFinal
  BY DEF PairingInv, RejectInv, RejectFinal, Rejecting, Steps
<1> QED BY <1>1, PairingInvariant, PTL

-----------------------------------------------------------------------------
(* The signaling server: its invariant, and what each of its handlers does *)
(* to it whoever calls it.                                                 *)

ServerInv == ServerTypeOK /\ RoomsExact

RoomRecords == [exists : {0, 1}, peers : SUBSET Sockets, timeout : {0, 1}]

(* RoomsExact for one room, in terms of what it depends on.                *)
RoomExact(room, here, open, nonce) ==
  /\ here = room.peers
  /\ here \in SUBSET open
  /\ room.peers # {} => room.exists = 1 /\ room.timeout = 0 /\ nonce # None
  /\ room.exists = 1 /\ room.peers = {} => room.timeout = 1

LEMMA ServerFacts ==
  ASSUME ServerInv, NEW r \in RoomIds
  PROVE  /\ rooms[r] \in RoomRecords
         /\ RoomExact(rooms[r], joined[r], connected, roomMetadata[r])
BY DEF ServerInv, ServerTypeOK, RoomsExact, RoomRecords, RoomExact

LEMMA LeftRoom ==
  ASSUME ServerInv, NEW gone, NEW r \in RoomIds
  PROVE  /\ LeaveRooms(gone)[r] \in RoomRecords
         /\ RoomExact(LeaveRooms(gone)[r], joined[r] \ gone, connected \ gone, roomMetadata[r])
<1> DEFINE left == rooms[r].peers \ gone
           room == LeaveRooms(gone)[r]
<1>1. rooms[r] \in RoomRecords /\ RoomExact(rooms[r], joined[r], connected, roomMetadata[r])
  BY ServerFacts
<1>2. CASE left = rooms[r].peers
  <2>1. room = rooms[r]
    BY <1>2 DEF LeaveRooms
  <2> QED BY <1>1, <1>2, <2>1 DEF RoomExact
<1>3. CASE left # rooms[r].peers
  <2>1. room = [rooms[r] EXCEPT !.peers = left, !.timeout = IF left = {} THEN 1 ELSE @]
    BY <1>3 DEF LeaveRooms
  <2>2. /\ room \in RoomRecords /\ room.peers = left /\ room.exists = rooms[r].exists
        /\ room.timeout = IF left = {} THEN 1 ELSE rooms[r].timeout
    BY <1>1, <2>1 DEF RoomRecords
  <2>3. rooms[r].peers # {}
    BY <1>3
  <2>4. RoomExact(room, joined[r] \ gone, connected \ gone, roomMetadata[r])
    <3> HIDE DEF room
    <3> QED BY <1>1, <2>2, <2>3 DEF RoomExact
  <2> QED BY <2>2, <2>4
<1> QED BY <1>2, <1>3

LEMMA ServerDisconnect ==
  ASSUME ServerInv, NEW gone, Disconnect(gone), UNCHANGED roomMetadata,
         revokedDevices' \in SUBSET Devices,
         \A s \in connected \ gone : query[s].deviceId \notin revokedDevices'
  PROVE  ServerInv'
<1>1. \A r \in RoomIds : /\ rooms'[r] \in RoomRecords /\ joined'[r] = joined[r] \ gone
                         /\ RoomExact(rooms'[r], joined'[r], connected', roomMetadata'[r])
  BY LeftRoom DEF Disconnect
<1>2. rooms' \in [RoomIds -> RoomRecords]
  <2>1. rooms' = [r \in RoomIds |-> rooms'[r]]
    BY DEF Disconnect, LeaveRooms
  <2> QED BY <1>1, <2>1
<1>3. query' \in [Sockets -> Queries]
  BY DEF ServerInv, ServerTypeOK, Disconnect, NoQuery, Queries
<1>4. ServerTypeOK'
  BY <1>2, <1>3 DEF ServerInv, ServerTypeOK, Disconnect, RoomRecords
<1>5. \A s \in connected' : query'[s].deviceId \notin revokedDevices'
  BY DEF ServerInv, ServerTypeOK, Disconnect
<1>6. RoomsExact'
  BY <1>1, <1>5 DEF RoomsExact, RoomExact, IsDeviceRevoked
<1> QED BY <1>4, <1>6 DEF ServerInv

LEMMA ServerEnter ==
  ASSUME ServerInv, NEW s \in connected, NEW r \in RoomIds, EnterRoom(s, r),
         UNCHANGED <<connected, query, revokedDevices>>,
         roomMetadata' \in [RoomIds -> Nonces \cup {None}], roomMetadata'[r] # None,
         \A q \in RoomIds \ {r} : roomMetadata'[q] = roomMetadata[q]
  PROVE  ServerInv'
<1> DEFINE room == [exists |-> 1, peers |-> rooms[r].peers \cup {s}, timeout |-> 0]
<1>1. rooms[r] \in RoomRecords /\ RoomExact(rooms[r], joined[r], connected, roomMetadata[r])
  BY ServerFacts
<1>2. s \in Sockets
  BY DEF ServerInv, ServerTypeOK
<1>3. room \in RoomRecords
  BY <1>1, <1>2 DEF RoomRecords
<1>4. rooms' \in [RoomIds -> RoomRecords] /\ rooms' = [rooms EXCEPT ![r] = room]
  BY <1>3 DEF EnterRoom, ServerInv, ServerTypeOK, RoomRecords
<1>5. joined' \in [RoomIds -> SUBSET Sockets] /\ joined' = [joined EXCEPT ![r] = @ \cup {s}]
  BY <1>2 DEF EnterRoom, ServerInv, ServerTypeOK
<1>6. ServerTypeOK'
  BY <1>4, <1>5 DEF ServerInv, ServerTypeOK, RoomRecords
<1>7. RoomExact(room, joined[r] \cup {s}, connected, roomMetadata'[r])
  BY <1>1 DEF RoomExact
<1> HIDE DEF room
<1>8. \A q \in RoomIds : RoomExact(rooms'[q], joined'[q], connected, roomMetadata'[q])
  BY <1>4, <1>5, <1>7, ServerFacts DEF ServerInv, ServerTypeOK
<1>9. RoomsExact'
  BY <1>8 DEF ServerInv, RoomsExact, RoomExact, IsDeviceRevoked
<1> QED BY <1>6, <1>9 DEF ServerInv

LEMMA ServerConnection ==
  ASSUME ServerInv, NEW s \in Sockets, NEW q \in Queries, Connection(s, q)
  PROVE  ServerInv'
<1>1. ServerTypeOK'
  BY DEF ServerInv, ServerTypeOK, Connection
<1>2. RoomsExact'
  BY DEF ServerInv, ServerTypeOK, RoomsExact, Connection, IsDeviceRevoked
<1> QED BY <1>1, <1>2 DEF ServerInv

LEMMA ServerLost ==
  ASSUME ServerInv, NEW s, ConnectionLost(s)
  PROVE  ServerInv'
BY ServerDisconnect DEF ConnectionLost, ServerInv, ServerTypeOK, RoomsExact, IsDeviceRevoked

LEMMA ServerRegister ==
  ASSUME ServerInv, NEW s, NEW code \in SasCodes, NEW nonce \in Nonces,
         RegisterRoom(s, code, nonce)
  PROVE  ServerInv'
<1>1. RoomOf(code) \in RoomIds
  BY DEF RoomIds
<1>2. /\ roomMetadata' \in [RoomIds -> Nonces \cup {None}] /\ roomMetadata'[RoomOf(code)] = nonce
      /\ \A q \in RoomIds \ {RoomOf(code)} : roomMetadata'[q] = roomMetadata[q]
  BY <1>1 DEF ServerInv, ServerTypeOK, RegisterRoom
<1> QED BY <1>1, <1>2, ServerEnter, SocketsAssumption DEF RegisterRoom

LEMMA ServerJoin ==
  ASSUME ServerInv, NEW s, NEW code \in SasCodes, JoinRoom(s, code)
  PROVE  ServerInv'
<1>1. RoomOf(code) \in RoomIds
  BY DEF RoomIds
<1>2. CASE VerifyCommitment(s, RoomOf(code))
  BY <1>1, <1>2, ServerEnter DEF JoinRoom, VerifyCommitment, ServerInv, ServerTypeOK
<1>3. CASE ~VerifyCommitment(s, RoomOf(code))
  BY <1>3, ServerDisconnect DEF JoinRoom, ServerInv, ServerTypeOK, RoomsExact, IsDeviceRevoked
<1> QED BY <1>2, <1>3

LEMMA ServerCleanup ==
  ASSUME ServerInv, NEW r \in RoomIds, CleanupRoom(r)
  PROVE  ServerInv'
<1>1. rooms[r] \in RoomRecords /\ RoomExact(rooms[r], joined[r], connected, roomMetadata[r])
  BY ServerFacts
<1>2. joined[r] = {}
  BY <1>1 DEF CleanupRoom, RoomExact
<1>3. NoRoom \in RoomRecords /\ RoomExact(NoRoom, {}, connected, None)
  BY DEF NoRoom, RoomRecords, RoomExact
<1>4. ServerTypeOK'
  BY <1>3 DEF ServerInv, ServerTypeOK, CleanupRoom, RoomRecords
<1>5. \A q \in RoomIds : RoomExact(rooms'[q], joined'[q], connected', roomMetadata'[q])
  BY <1>2, <1>3, ServerFacts DEF ServerInv, ServerTypeOK, CleanupRoom
<1>6. RoomsExact'
  BY <1>5 DEF ServerInv, RoomsExact, RoomExact, IsDeviceRevoked, CleanupRoom
<1> QED BY <1>4, <1>6 DEF ServerInv

LEMMA ServerRevocation ==
  ASSUME ServerInv, NEW d \in Devices, Revoke(d) \/ RevocationExpires(d)
  PROVE  ServerInv'
<1>1. CASE Revoke(d)
  <2> DEFINE gone == {s \in connected : query[s].deviceId = d}
  <2>1. Disconnect(gone) /\ UNCHANGED roomMetadata /\ revokedDevices' = revokedDevices \cup {d}
    BY <1>1 DEF Revoke
  <2>2. \A s \in connected \ gone : query[s].deviceId \notin revokedDevices'
    BY <2>1 DEF ServerInv, RoomsExact, IsDeviceRevoked
  <2>3. revokedDevices' \in SUBSET Devices
    BY <2>1 DEF ServerInv, ServerTypeOK
  <2> HIDE DEF gone
  <2> QED BY <2>1, <2>2, <2>3, ServerDisconnect
<1>2. CASE RevocationExpires(d)
  BY <1>2 DEF RevocationExpires, ServerInv, ServerTypeOK, RoomsExact, IsDeviceRevoked
<1> QED BY <1>1, <1>2

-----------------------------------------------------------------------------
(* The offscreen document and its client sockets *)

MaybeCode == SasCodes \cup {None}
Events == {"register-room", "join-room"} \X MaybeCode
Clients == [st : {"closed", "connecting", "open"}, code : MaybeCode, out : Seq(Events)]

LinkTypes ==
  /\ pc \in [state : {"none", "new", "connected", "lost"}, relay : {0, 1}]
  /\ socket \in ExtSockets \cup {None}
  /\ sasCode \in MaybeCode
  /\ fetching \in [Fetches -> 0..MaxFetches]

(* A client socket is open exactly while the server counts it as connected *)
(* and names no device there, so that no revocation closes it.             *)
ClientsOK ==
  /\ client \in [ExtSockets -> Clients]
  /\ \A s \in ExtSockets : query[s] = NoQuery /\ (client[s].st = "open" <=> s \in connected)

(* After a disconnect with nothing awaited no continuation is left that    *)
(* could make a peer connection again.                                     *)
CalmInv ==
  calm = 1 => pc = NoPc /\ reconnectTimer = 0 /\ \A k \in Fetches : fetching[k] = 0

LinkInv == ServerInv /\ LinkTypes /\ ClientsOK /\ CalmInv

LEMMA NoneFacts ==
  /\ NoQuery \in Queries /\ NoQuery.deviceId = None /\ NoClient \in Clients
  /\ NoClient.st = "closed" /\ ExtSockets \subseteq Sockets /\ None \notin ExtSockets
BY SocketsAssumption DEF NoQuery, Queries, NoClient, Clients, MaybeCode

LEMMA Emitted ==
  ASSUME NEW cl \in [ExtSockets -> Clients], NEW event \in Events,
         socket \in ExtSockets \cup {None}
  PROVE  /\ Emit(cl, event) \in [ExtSockets -> Clients]
         /\ \A s \in ExtSockets : Emit(cl, event)[s].st = cl[s].st
<1>1. CASE Emit(cl, event) = cl
  BY <1>1
<1>2. CASE Emit(cl, event) # cl
  <2>1. /\ socket \in ExtSockets
        /\ Emit(cl, event) = [cl EXCEPT ![socket].out = Append(@, event)]
    BY <1>2 DEF Emit
  <2> DEFINE x == [cl[socket] EXCEPT !.out = Append(@, event)]
  <2>2. x \in Clients /\ x.st = cl[socket].st
    <3>1. cl[socket] \in Clients /\ cl[socket].out \in Seq(Events)
      BY <2>1 DEF Clients
    <3>2. Append(cl[socket].out, event) \in Seq(Events)
      BY <3>1
    <3> QED BY <3>1, <3>2 DEF Clients
  <2>3. Emit(cl, event) = [cl EXCEPT ![socket] = x]
    BY <2>1
  <2> HIDE DEF x
  <2> QED BY <2>1, <2>2, <2>3
<1> QED BY <1>1, <1>2

(* A client socket that loses its connection forgets what it had to send.  *)
Reset(s, st) == [st |-> st, code |-> client[s].code, out |-> <<>>]

LEMMA ClientReset ==
  ASSUME ClientsOK, NEW s \in ExtSockets, NEW st \in {"closed", "connecting"}
  PROVE  /\ [client EXCEPT ![s] = Reset(s, st)] \in [ExtSockets -> Clients]
         /\ Reset(s, st).st = st
<1>1. client[s].code \in MaybeCode
  BY DEF ClientsOK, Clients
<1>2. Reset(s, st) \in Clients /\ Reset(s, st).st = st
  BY <1>1 DEF Clients, Reset
<1> QED BY <1>2 DEF ClientsOK

(* Connections are closed on the server, and the client sockets with them. *)
LEMMA ClientsClosed ==
  ASSUME LinkInv, NEW gone, Disconnect(gone), UNCHANGED <<roomMetadata, revokedDevices>>,
         client' \in [ExtSockets -> Clients],
         \A s \in ExtSockets \cap gone : client'[s].st # "open",
         \A s \in ExtSockets \ gone : client'[s].st = client[s].st
  PROVE  ServerInv' /\ ClientsOK'
<1>1. ServerInv'
  BY ServerDisconnect DEF LinkInv, ServerInv, ServerTypeOK, RoomsExact, IsDeviceRevoked
<1>2. ASSUME NEW s \in ExtSockets
      PROVE  query'[s] = NoQuery /\ (client'[s].st = "open" <=> s \in connected')
  BY NoneFacts DEF LinkInv, ClientsOK, Disconnect
<1> QED BY <1>1, <1>2 DEF ClientsOK

LEMMA SignalingConnected ==
  ASSUME LinkInv, ConnectSignaling
  PROVE  ServerInv' /\ ClientsOK' /\ socket' \in ExtSockets
<1>1. PICK s \in ExtSockets \ {socket} :
        /\ socket' = s
        /\ client' = [client EXCEPT ![s] = [st |-> "connecting", code |-> sasCode, out |-> <<>>]]
        /\ Disconnect({s})
        /\ UNCHANGED <<roomMetadata, revokedDevices>>
  BY DEF ConnectSignaling
<1> DEFINE x == [st |-> "connecting", code |-> sasCode, out |-> <<>>]
<1>2. x \in Clients /\ x.st = "connecting"
  BY DEF LinkInv, LinkTypes, Clients
<1> HIDE DEF x
<1>3. client' = [client EXCEPT ![s] = x]
  BY <1>1 DEF x
<1>4. /\ client' \in [ExtSockets -> Clients] /\ client'[s].st = "connecting"
      /\ \A t \in ExtSockets \ {s} : client'[t] = client[t]
  BY <1>1, <1>2, <1>3 DEF LinkInv, ClientsOK
<1> QED BY <1>1, <1>4, ClientsClosed

-----------------------------------------------------------------------------
(* Its actions *)

LEMMA FetchStep ==
  ASSUME LinkInv, NEW k \in Fetches, FetchFor(k) \/ Fetched(k)
  PROVE  fetching' \in [Fetches -> 0..MaxFetches]
BY SocketsAssumption DEF LinkInv, LinkTypes, FetchFor, Fetched

LEMMA SocketConnectsStep ==
  ASSUME LinkInv, NEW s \in ExtSockets, SocketConnects(s)
  PROVE  LinkInv'
<1> DEFINE code == client[s].code
           open == [client EXCEPT ![s].st = "open"]
           first == IF sasCode # None THEN Emit(open, <<"register-room", code>>) ELSE open
<1>0. LinkTypes /\ ClientsOK /\ ServerInv /\ client[s] \in Clients
  BY DEF LinkInv, ClientsOK
<1>1. code \in MaybeCode /\ <<"register-room", code>> \in Events /\ <<"join-room", code>> \in Events
  BY <1>0 DEF Clients, Events
<1>2. /\ open \in [ExtSockets -> Clients] /\ open[s].st = "open"
      /\ \A t \in ExtSockets \ {s} : open[t].st = client[t].st
  BY <1>0 DEF ClientsOK, Clients
<1> HIDE DEF code, open
<1>3. first \in [ExtSockets -> Clients] /\ \A t \in ExtSockets : first[t].st = open[t].st
  BY <1>0, <1>1, <1>2, Emitted DEF LinkTypes
<1>4. client' = Emit(first, <<"join-room", code>>)
  BY DEF SocketConnects, code, open
<1> HIDE DEF first
<1>5. client' \in [ExtSockets -> Clients] /\ \A t \in ExtSockets : client'[t].st = open[t].st
  BY <1>0, <1>1, <1>3, <1>4, Emitted DEF LinkTypes
<1>6. Connection(s, NoQuery) /\ UNCHANGED <<peerVars, socket, sasCode, fetching, calm>>
  BY DEF SocketConnects
<1>7. ServerInv'
  BY <1>0, <1>6, ServerConnection, NoneFacts
<1>8. ClientsOK'
  BY <1>0, <1>2, <1>5, <1>6, NoneFacts DEF ClientsOK, Connection, ServerInv, ServerTypeOK
<1> QED BY <1>6, <1>7, <1>8 DEF LinkInv, LinkTypes, CalmInv, peerVars

LEMMA ServerHandlesStep ==
  ASSUME LinkInv, NEW s \in ExtSockets, ServerHandles(s)
  PROVE  LinkInv'
<1> DEFINE event == Head(client[s].out)
           code == event[2]
           cl == [client EXCEPT ![s].out = Tail(@)]
           shut == [client EXCEPT ![s] = [st |-> "closed", code |-> @.code, out |-> <<>>]]
<1>0. LinkTypes /\ ClientsOK /\ ServerInv /\ client[s] \in Clients /\ s \in connected
  BY DEF LinkInv, ClientsOK, ServerHandles
<1>1. client[s].out \in Seq(Events) /\ client[s].out # <<>>
  BY <1>0 DEF Clients, ServerHandles
<1>2. event \in Events /\ code \in MaybeCode /\ Tail(client[s].out) \in Seq(Events)
  BY <1>1 DEF Events
<1>3. /\ cl \in [ExtSockets -> Clients]
      /\ \A t \in ExtSockets : cl[t].st = client[t].st
  BY <1>0, <1>2 DEF ClientsOK, Clients
<1>4. /\ shut \in [ExtSockets -> Clients] /\ shut[s].st = "closed"
      /\ \A t \in ExtSockets \ {s} : shut[t].st = client[t].st
  <2>1. shut = [client EXCEPT ![s] = Reset(s, "closed")]
    BY DEF Reset
  <2> HIDE DEF shut
  <2> QED BY <1>0, <2>1, ClientReset DEF ClientsOK
<1>5. UNCHANGED <<peerVars, socket, sasCode, fetching, calm>>
  BY DEF ServerHandles
<1>6. ServerInv' /\ ClientsOK'
  <2>1. \/ /\ code # None /\ \E nonce \in Nonces : RegisterRoom(s, code, nonce)
           /\ client' = cl
        \/ /\ code # None /\ JoinRoom(s, code)
           /\ client' = IF VerifyCommitment(s, RoomOf(code)) THEN cl ELSE shut
        \/ client' = cl /\ UNCHANGED serverVars
    BY DEF ServerHandles
  <2>2. code # None => code \in SasCodes
    BY <1>2 DEF MaybeCode
  <2> HIDE DEF code, event, cl, shut
  <2>3. CASE /\ code # None /\ client' = cl
             /\ \E nonce \in Nonces : RegisterRoom(s, code, nonce)
    <3>1. ServerInv'
      BY <1>0, <2>2, <2>3, ServerRegister
    <3> QED BY <1>0, <1>3, <2>3, <3>1 DEF ClientsOK, RegisterRoom
  <2>4. CASE /\ code # None /\ JoinRoom(s, code) /\ VerifyCommitment(s, RoomOf(code))
             /\ client' = cl
    <3>1. ServerInv'
      BY <1>0, <2>2, <2>4, ServerJoin
    <3> QED BY <1>0, <1>3, <2>4, <3>1 DEF ClientsOK, JoinRoom
  <2>5. CASE /\ code # None /\ JoinRoom(s, code) /\ ~VerifyCommitment(s, RoomOf(code))
             /\ client' = shut
    <3>1. Disconnect({s}) /\ UNCHANGED <<roomMetadata, revokedDevices>>
      BY <2>5 DEF JoinRoom
    <3> QED BY <1>4, <2>5, <3>1, ClientsClosed
  <2>6. CASE client' = cl /\ UNCHANGED serverVars
    <3>1. ServerInv'
      BY <1>0, <2>6 DEF ServerInv, ServerTypeOK, RoomsExact, IsDeviceRevoked, serverVars
    <3> QED BY <1>0, <1>3, <2>6, <3>1 DEF ClientsOK, serverVars
  <2> QED BY <2>1, <2>3, <2>4, <2>5, <2>6
<1> QED BY <1>5, <1>6 DEF LinkInv, LinkTypes, CalmInv, peerVars

LEMMA ClientDropsStep ==
  ASSUME LinkInv, NEW s \in ExtSockets, ClientDrops(s)
  PROVE  LinkInv'
<1>1. /\ client' \in [ExtSockets -> Clients] /\ client'[s].st = "connecting"
      /\ \A t \in ExtSockets \ {s} : client'[t] = client[t]
  <2>1. client' = [client EXCEPT ![s] = Reset(s, "connecting")]
    BY DEF ClientDrops, Reset
  <2> QED BY <2>1, ClientReset DEF LinkInv, ClientsOK
<1>2. ServerInv' /\ ClientsOK'
  BY <1>1, ClientsClosed DEF ClientDrops, ConnectionLost
<1> QED BY <1>2 DEF LinkInv, LinkTypes, CalmInv, ClientDrops, peerVars

(* What leaves the server and the client sockets alone.                    *)
LEMMA PeerStep ==
  ASSUME LinkInv,
         \/ \E code \in SasCodes : WebrtcStartPairing(code)
         \/ \E state \in {"connected", "lost"} : ConnectionStateChange(state)
         \/ AbandonedStateChange \/ RelayFallback \/ ReconnectFires \/ UNCHANGED vars
  PROVE  LinkInv'
<1>1. UNCHANGED <<serverVars, client, socket>>
  BY DEF WebrtcStartPairing, ConnectionStateChange, AbandonedStateChange, RelayFallback,
    ReconnectFires, signalVars, vars
<1>2. ServerInv' /\ ClientsOK'
  BY <1>1 DEF LinkInv, ServerInv, ServerTypeOK, RoomsExact, IsDeviceRevoked, serverVars, ClientsOK
<1>3. fetching' \in [Fetches -> 0..MaxFetches]
  BY FetchStep DEF WebrtcStartPairing, ConnectionStateChange, AbandonedStateChange,
    RelayFallback, ReconnectFires, vars, Fetches, LinkInv, LinkTypes
<1>4. LinkTypes'
  BY <1>1, <1>3 DEF LinkInv, LinkTypes, MaybeCode, WebrtcStartPairing, ConnectionStateChange,
    AbandonedStateChange, RelayFallback, ReconnectFires, NewPc, signalVars, peerVars, vars
<1>5. CalmInv'
  BY DEF LinkInv, CalmInv, WebrtcStartPairing, ConnectionStateChange, AbandonedStateChange,
    RelayFallback, ReconnectFires, Live, NoPc, NewPc, peerVars, vars
<1> QED BY <1>2, <1>4, <1>5 DEF LinkInv

(* What runs after a fetch of credentials.                                 *)
LEMMA ContinueStep ==
  ASSUME LinkInv, StartContinues \/ ReconnectContinues
  PROVE  LinkInv'
<1>1. PICK k \in Fetches : Fetched(k)
  BY DEF StartContinues, ReconnectContinues, Fetches
<1>2. ConnectSignaling /\ pc' = NewPc(0) /\ UNCHANGED <<sasCode, calm>>
  BY DEF StartContinues, ReconnectContinues
<1>3. ServerInv' /\ ClientsOK' /\ socket' \in ExtSockets
  BY <1>2, SignalingConnected
<1>4. LinkTypes'
  BY <1>1, <1>2, <1>3, FetchStep DEF LinkInv, LinkTypes, NewPc
<1>5. fetching[k] > 0
  BY <1>1 DEF Fetched
<1>6. CalmInv'
  BY <1>2, <1>5 DEF LinkInv, CalmInv
<1> QED BY <1>3, <1>4, <1>6 DEF LinkInv

LEMMA ClosingStep ==
  ASSUME LinkInv, DisconnectMessage \/ DocumentReplaced
  PROVE  LinkInv'
<1>1. /\ pc' = NoPc /\ socket' = None /\ sasCode' = None /\ reconnectTimer' = 0
      /\ UNCHANGED <<roomMetadata, revokedDevices>>
  BY DEF DisconnectMessage, DocumentReplaced, Cleared
<1>2. LinkTypes' /\ CalmInv'
  <2>1. CASE DisconnectMessage
    BY <1>1, <2>1 DEF LinkInv, LinkTypes, CalmInv, DisconnectMessage, NoPc, MaybeCode
  <2>2. CASE DocumentReplaced
    BY <1>1, <2>2, SocketsAssumption DEF LinkTypes, CalmInv, DocumentReplaced, NoPc, MaybeCode
  <2> QED BY <2>1, <2>2
<1>3. PICK gone : /\ Disconnect(gone)
                  /\ client' = [s \in ExtSockets |-> IF s \in gone THEN NoClient ELSE client[s]]
  <2>1. CASE DisconnectMessage
    BY <2>1 DEF DisconnectMessage
  <2>2. CASE DocumentReplaced
    BY <2>2 DEF DocumentReplaced
  <2> QED BY <2>1, <2>2
<1>4. client' \in [ExtSockets -> Clients]
  BY <1>3, NoneFacts DEF LinkInv, ClientsOK
<1>5. \A s \in ExtSockets : client'[s] = IF s \in gone THEN NoClient ELSE client[s]
  BY <1>3
<1>6. ServerInv' /\ ClientsOK'
  BY <1>1, <1>3, <1>4, <1>5, NoneFacts, ClientsClosed
<1> QED BY <1>2, <1>6 DEF LinkInv

LEMMA ElsewhereStep ==
  ASSUME LinkInv, Elsewhere
  PROVE  LinkInv'
<1>0. ServerInv /\ ServerTypeOK /\ ClientsOK /\ UNCHANGED <<peerVars, signalVars, fetching, calm>>
  BY DEF LinkInv, ServerInv, Elsewhere
<1>1. PhoneSockets \subseteq Sockets /\ PhoneQueries \subseteq Queries
  BY SocketsAssumption
<1>2. ServerInv'
  BY <1>0, <1>1, ServerConnection, ServerLost, ServerJoin, ServerRegister, ServerCleanup,
     ServerRevocation
     DEF Elsewhere
<1>3. ASSUME NEW s \in ExtSockets
      PROVE  query'[s] = query[s] /\ (s \in connected' <=> s \in connected)
  <2>1. s \in Sockets /\ s \notin PhoneSockets /\ query[s].deviceId \notin Devices
    BY <1>0, NoneFacts, SocketsAssumption DEF ClientsOK
  <2>2. ASSUME NEW gone, s \notin gone, Disconnect(gone)
        PROVE  query'[s] = query[s] /\ (s \in connected' <=> s \in connected)
    BY <2>1, <2>2 DEF Disconnect
  <2>3. CASE \E p \in PhoneSockets, q \in PhoneQueries : Connection(p, q)
    BY <1>0, <2>1, <2>3 DEF Connection, ServerTypeOK
  <2>4. CASE \E p \in PhoneSockets : ConnectionLost(p)
    BY <2>1, <2>2, <2>4 DEF ConnectionLost
  <2>5. CASE \E p \in PhoneSockets, code \in SasCodes : JoinRoom(p, code)
    BY <2>1, <2>2, <2>5 DEF JoinRoom
  <2>5a. CASE \E p \in PhoneSockets, code \in SasCodes, nonce \in Nonces :
                RegisterRoom(p, code, nonce)
    BY <2>5a DEF RegisterRoom
  <2>6. CASE \E r \in RoomIds : CleanupRoom(r)
    BY <2>6 DEF CleanupRoom
  <2>7. CASE \E d \in Devices : Revoke(d)
    <3>1. PICK d \in Devices : Disconnect({t \in connected : query[t].deviceId = d})
      BY <2>7 DEF Revoke
    <3>2. s \notin {t \in connected : query[t].deviceId = d}
      BY <2>1
    <3> QED BY <2>2, <3>1, <3>2
  <2>8. CASE \E d \in Devices : RevocationExpires(d)
    BY <2>8 DEF RevocationExpires
  <2> QED BY <2>3, <2>4, <2>5, <2>5a, <2>6, <2>7, <2>8 DEF Elsewhere
<1>4. ClientsOK'
  BY <1>0, <1>3 DEF ClientsOK, signalVars
<1> QED BY <1>0, <1>2, <1>4 DEF LinkInv, LinkTypes, CalmInv, peerVars, signalVars

LEMMA LinkInvariant == Spec => []LinkInv
<1>1. Init => LinkInv
  <2> SUFFICES ASSUME Init PROVE LinkInv
    OBVIOUS
  <2>1. ServerInv
    BY NoneFacts DEF Init, ServerInit, ServerInv, ServerTypeOK, RoomsExact, NoRoom, IsDeviceRevoked
  <2>2. LinkTypes /\ CalmInv
    BY SocketsAssumption DEF Init, LinkTypes, CalmInv, NoPc, MaybeCode
  <2>3. ClientsOK
    BY NoneFacts DEF Init, ServerInit, ClientsOK
  <2> QED BY <2>1, <2>2, <2>3 DEF LinkInv
<1>2. LinkInv /\ [Next]_vars => LinkInv'
  BY SocketConnectsStep, ServerHandlesStep, ClientDropsStep, PeerStep, ContinueStep,
    ClosingStep, ElsewhereStep DEF Next
<1> QED BY <1>1, <1>2, PTL DEF Spec

(* Every variable of the link has its type, and a client socket is open    *)
(* exactly while the server has its connection, through refused joins,     *)
(* drops, replaced documents and revocations, for any number of sockets.   *)
THEOREM LinkTyped == Spec => []TypeOK
<1>1. LinkInv => TypeOK
  BY DEF LinkInv, ServerInv, LinkTypes, ClientsOK, TypeOK, MaybeCode, Clients
<1> QED BY <1>1, LinkInvariant, PTL

(* The server's rooms, relays, metadata, timers and connections agree, for *)
(* any sockets, codes, nonces and devices: no relay reaches a socket that  *)
(* is gone or revoked and no room in use is cleaned up.                    *)
THEOREM RoomsAgree == Spec => []RoomsExact
<1>1. LinkInv => RoomsExact
  BY DEF LinkInv, ServerInv
<1> QED BY <1>1, LinkInvariant, PTL

(* webrtc-disconnect is final, for any number of fetches in flight and any *)
(* number of sockets that earlier attempts left open.                      *)
THEOREM DisconnectIsFinal == Spec => []DisconnectFinal
<1>1. LinkInv => DisconnectFinal
  BY DEF LinkInv, CalmInv, DisconnectFinal, Live, NoPc, Fetches
<1> QED BY <1>1, LinkInvariant, PTL
=============================================================================
