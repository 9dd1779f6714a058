------------------------------ MODULE Pairing -------------------------------
(* Pairing a phone: the popup's PairingPanel, the background's pairing     *)
(* service and coordinator, and the page that creates the passkey.         *)
(*                                                                         *)
(* The background is one JavaScript context.  A handler runs from await to *)
(* await, and each such piece is an action, so two calls of the popup, the *)
(* Noise handshake and the passkey page interleave at the awaits.  Storage *)
(* and the offscreen document survive a restart of the worker, module      *)
(* variables do not.  A phone is its static key; the device identifier is  *)
(* a hash of that key and stands for it.                                   *)
EXTENDS Integers, FiniteSets

CONSTANTS
  Keys,        \* static keys of phones
  NoKey,       \* null
  EmptyKey,    \* the remote key of the pairing that revokeDevice writes
  Calls,       \* bound: calls of the popup in flight at a time
  MaxDevices   \* MAX_DEVICES

ASSUME PairingAssumption ==
  /\ NoKey \notin Keys /\ EmptyKey \notin Keys \cup {NoKey}
  /\ MaxDevices \in Nat \ {0}

VARIABLES
  panel,      \* pairingState of the popup's store, or "closed"
  poll,       \* the answer to check-session on its way to the panel
  calls,      \* the popup's calls in the background
  active,     \* activeSession
  doc,        \* the offscreen document exists
  created,    \* offscreenCreated, what the background thinks of that
  flow,       \* startPairingFlow
  pk,         \* pendingRemoteStaticPk
  session,    \* currentSession
  emoji,      \* pairing:emojiSas in storage.session
  dev,        \* pairing:device in storage.session: the remote key
  registry,   \* the registered devices
  revoking,   \* the device of revokeDevice, which holds the registry lock
  passkey,    \* an auth.html?mode=passkey-create page is open
  owner,      \* history: the device whose confirmation wrote dev
  rejected    \* history: the user rejected, no handshake since

panelVars == <<panel, poll>>
docVars == <<doc, created>>
handshakeVars == <<flow, pk, session, emoji>>
storedVars == <<dev, registry, revoking, owner>>
pairingVars == <<panelVars, calls, active, docVars, handshakeVars, storedVars,
          passkey, rejected>>

PanelStates == {"unpaired", "displaying_qr", "awaiting_sas_confirmation",
                "paired", "error", "closed"}
Idle == [op |-> "none", at |-> "idle", id |-> NoKey, page |-> 0]
NewCall(op, at, id) == [op |-> op, at |-> at, id |-> id, page |-> 1]
Steps == [start |-> {"creating", "sending", "closing"},
          confirm |-> {"checking", "stored", "adding", "added", "removing", "closing"},
          reject |-> {"emoji", "removing", "closing"}]
Replies == {"yes", "no"}

PairingInit ==
  /\ panel = "unpaired" /\ poll = "none"
  /\ calls = [c \in Calls |-> Idle]
  /\ active = 0 /\ doc = 0 /\ created = 0
  /\ flow = "none" /\ pk = NoKey /\ session = 0 /\ emoji = 0
  /\ dev = NoKey /\ registry = {} /\ revoking = NoKey /\ passkey = 0
  /\ owner = NoKey /\ rejected = 0

(* Call c is at a step of its handler, and moves on; a call whose popup is *)
(* gone has nobody to answer.                                              *)
At(c, op, at) == calls[c].op = op /\ calls[c].at = at
Goto(c, at) == calls' = [calls EXCEPT ![c].at = at]
Reply(c, answer) ==
  calls' = [calls EXCEPT ![c] = IF @.page = 1 THEN [@ EXCEPT !.at = answer] ELSE Idle]

-----------------------------------------------------------------------------
(* The panel *)

(* One of the panel's buttons sends a message, and the handler runs to its *)
(* first await.                                                            *)
Send(c, call) == calls[c] = Idle /\ calls' = [calls EXCEPT ![c] = call]

StartPairing(c) ==
  /\ panel = "unpaired" /\ panel' = "displaying_qr"
  /\ IF active = 1 THEN Send(c, NewCall("start", "no", NoKey)) /\ UNCHANGED active
                   ELSE Send(c, NewCall("start", "creating", NoKey)) /\ active' = 1
  /\ UNCHANGED <<poll, docVars, handshakeVars, storedVars, passkey, rejected>>

(* Variant: confirmSasMatch without its first guard.                       *)
ConfirmCall_Unguarded == NewCall("confirm", "checking", pk)
ConfirmCall == IF pk = NoKey THEN NewCall("confirm", "no", NoKey)
                            ELSE NewCall("confirm", "checking", pk)

HandleConfirmMatch(c) ==
  /\ panel = "awaiting_sas_confirmation"
  /\ Send(c, ConfirmCall)
  /\ UNCHANGED <<panelVars, active, docVars, handshakeVars, storedVars, passkey, rejected>>

(* Variant: the pending key outlives the rejection.                        *)
HandleRejectMatch_KeyKept(c) ==
  /\ panel = "awaiting_sas_confirmation"
  /\ Send(c, NewCall("reject", "emoji", NoKey))
  /\ rejected' = 1
  /\ UNCHANGED <<panelVars, active, docVars, handshakeVars, storedVars, passkey>>

HandleRejectMatch(c) ==
  /\ panel = "awaiting_sas_confirmation"
  /\ Send(c, NewCall("reject", "emoji", NoKey))
  /\ pk' = NoKey /\ rejected' = 1
  /\ UNCHANGED <<panelVars, active, docVars, flow, session, emoji, storedVars, passkey>>

(* The background's answer, or the rejection of the promise, reaches the   *)
(* panel whatever the panel shows by then.  A new pairing URL restarts the *)
(* effect, which forgets the poll it had sent.                             *)
Answered(c) ==
  LET call == calls[c] IN
  /\ call.at \in Replies
  /\ panel' = CASE call.op = "start"   -> IF call.at = "yes" THEN panel ELSE "error"
                [] call.op = "confirm" -> IF call.at = "yes" THEN "paired" ELSE "error"
                [] call.op = "reject"  -> "unpaired"
  /\ poll' = "none"
  /\ calls' = [calls EXCEPT ![c] = Idle]
  /\ UNCHANGED <<active, docVars, handshakeVars, storedVars, passkey, rejected>>

(* check-session: a stored pairing comes before an emoji SAS.  The session *)
(* it reports, and the re-authentication it tries, are SessionManager's.   *)
CheckSession ==
  /\ panel = "displaying_qr" /\ poll = "none"
  /\ poll' = IF dev # NoKey THEN "paired" ELSE IF emoji = 1 THEN "emoji" ELSE "nothing"
  /\ UNCHANGED <<panel, calls, active, docVars, handshakeVars, storedVars, passkey, rejected>>

PollArrives ==
  /\ poll # "none" /\ poll' = "none"
  /\ panel' = CASE poll = "paired"  -> "paired"
                [] poll = "emoji"   -> "awaiting_sas_confirmation"
                [] poll = "nothing" -> panel
  /\ UNCHANGED <<calls, active, docVars, handshakeVars, storedVars, passkey, rejected>>

(* The effect is torn down: its poll no longer counts.                     *)
PanelTo(from, to) ==
  /\ panel \in from /\ panel' = to /\ poll' = "none"
  /\ UNCHANGED <<active, docVars, handshakeVars, storedVars, passkey, rejected>>

QrExpires == PanelTo({"displaying_qr"}, "error") /\ UNCHANGED calls

(* Cancel, Retry and Try Again: the background is not told.                *)
HandleReset == PanelTo({"displaying_qr", "error"}, "unpaired") /\ UNCHANGED calls

(* The popup closes; the calls it made run on, those answered are dropped. *)
ClosePopup ==
  /\ PanelTo(PanelStates \ {"closed"}, "closed")
  /\ calls' = [c \in Calls |-> IF calls[c].at \in Replies \cup {"idle"} THEN Idle
                               ELSE [calls[c] EXCEPT !.page = 0]]
OpenPopup == PanelTo({"closed"}, "unpaired") /\ UNCHANGED calls

-----------------------------------------------------------------------------
(* The offscreen document *)

HasOffscreenDocument == created = 1 /\ doc = 1

(* Chrome allows one document; a worker that restarted does not know of it *)
(* and fails to create another.                                            *)
CreateOffscreenDocument(ok) ==
  IF HasOffscreenDocument THEN ok = 1 /\ UNCHANGED docVars
  ELSE /\ doc = 1 => ok = 0
       /\ created' = ok
       /\ doc' = IF ok = 1 THEN 1 ELSE doc

(* Closed if the background knows of it, no USB session needs it and       *)
(* Chrome obliges.                                                         *)
CloseOffscreenDocument ==
  \/ UNCHANGED docVars
  \/ HasOffscreenDocument /\ doc' = 0 /\ created' = 0

-----------------------------------------------------------------------------
(* startPairing *)

StartCreates(c) ==
  /\ At(c, "start", "creating")
  /\ \E ok \in {0, 1} :
       /\ CreateOffscreenDocument(ok)
       /\ IF ok = 1 THEN Goto(c, "sending") /\ UNCHANGED active
                    ELSE Reply(c, "no") /\ active' = 0
  /\ UNCHANGED <<panelVars, handshakeVars, storedVars, passkey, rejected>>

(* webrtc-start-pairing is answered, or nobody took it.                    *)
StartSends(c) ==
  /\ At(c, "start", "sending")
  /\ \/ Reply(c, "yes") /\ UNCHANGED active
     \/ Goto(c, "closing") /\ active' = 0
  /\ UNCHANGED <<panelVars, docVars, handshakeVars, storedVars, passkey, rejected>>

StartCloses(c) ==
  /\ At(c, "start", "closing")
  /\ CloseOffscreenDocument
  /\ Reply(c, "no")
  /\ UNCHANGED <<panelVars, active, handshakeVars, storedVars, passkey, rejected>>

-----------------------------------------------------------------------------
(* startPairingFlow and performXXHandshake.  Nothing in the repository     *)
(* calls them; here the data channel of an open document does.             *)

FlowBegins ==
  /\ flow = "none" /\ doc = 1
  /\ flow' = "waiting"
  /\ UNCHANGED <<panelVars, calls, active, docVars, pk, session, emoji, storedVars,
                 passkey, rejected>>

(* The phone's message arrives within 15 s and the handshake completes.    *)
HandshakeDone(k) ==
  /\ flow = "waiting" /\ flow' = "storing"
  /\ pk' = k /\ rejected' = 0
  /\ UNCHANGED <<panelVars, calls, active, docVars, session, emoji, storedVars, passkey>>

FlowStores ==
  /\ flow = "storing" /\ flow' = "none"
  /\ emoji' = 1 /\ session' = 1
  /\ UNCHANGED <<panelVars, calls, active, docVars, pk, storedVars, passkey, rejected>>

HandshakeFails ==
  /\ flow = "waiting" /\ flow' = "removing"
  /\ UNCHANGED <<panelVars, calls, active, docVars, pk, session, emoji, storedVars,
                 passkey, rejected>>

-----------------------------------------------------------------------------
(* clearPairing: the stored pairing goes first, the session last.          *)

RemoveStored == dev' = NoKey /\ owner' = NoKey /\ UNCHANGED <<registry, revoking>>
CloseSession == CloseOffscreenDocument /\ active' = 0

(* The removal may fail, and the flow ends with that.                      *)
FlowRemoves ==
  /\ flow = "removing"
  /\ \/ flow' = "closing" /\ RemoveStored
     \/ flow' = "none" /\ UNCHANGED storedVars
  /\ UNCHANGED <<panelVars, calls, active, docVars, pk, session, emoji, passkey, rejected>>

FlowCloses ==
  /\ flow = "closing" /\ flow' = "none"
  /\ CloseSession
  /\ UNCHANGED <<panelVars, calls, pk, session, emoji, storedVars, passkey, rejected>>

CallRemoves(c) ==
  /\ calls[c].at = "removing" /\ Goto(c, "closing")
  /\ RemoveStored
  /\ UNCHANGED <<panelVars, active, docVars, handshakeVars, passkey, rejected>>

CallCloses(c) ==
  /\ calls[c].op # "start" /\ calls[c].at = "closing"
  /\ CloseSession
  /\ Reply(c, IF calls[c].op = "reject" THEN "yes" ELSE "no")
  /\ UNCHANGED <<panelVars, handshakeVars, storedVars, passkey, rejected>>

(* Call c gives up its device before it is registered and leaves           *)
(* pairing:device as it is; the history no longer counts it as its own.    *)
Disowned(c) == owner' = IF owner = calls[c].id THEN NoKey ELSE owner

(* A removal of a rejection or of a rollback fails: the handler ends       *)
(* there.  The history does not count the rejection.                       *)
ClearFails(c) ==
  /\ calls[c].at \in {"emoji", "removing"}
  /\ Reply(c, IF calls[c].op = "reject" THEN "yes" ELSE "no")
  /\ IF calls[c].op = "reject" THEN rejected' = 0 /\ UNCHANGED owner
                               ELSE Disowned(c) /\ UNCHANGED rejected
  /\ UNCHANGED <<panelVars, active, docVars, handshakeVars, dev, registry, revoking, passkey>>

(* rejectSasMatch after its first await.                                   *)
RejectRemovesEmoji(c) ==
  /\ At(c, "reject", "emoji") /\ Goto(c, "removing")
  /\ emoji' = 0
  /\ UNCHANGED <<panelVars, active, docVars, flow, pk, session, storedVars, passkey, rejected>>

-----------------------------------------------------------------------------
(* confirmSasMatch *)

RegistryTakes(id) == id \in registry \/ Cardinality(registry) < MaxDevices

(* completePairing stores the key that is pending now, not the one the     *)
(* call was made for; without a key or a session it throws.                *)
CanComplete == pk # NoKey /\ active = 1
ConfirmChecks(c) ==
  /\ At(c, "confirm", "checking")
  /\ IF RegistryTakes(calls[c].id) /\ CanComplete
     THEN Goto(c, "stored") /\ dev' = pk /\ owner' = calls[c].id
     ELSE Reply(c, "no") /\ UNCHANGED <<dev, owner>>
  /\ UNCHANGED <<panelVars, active, docVars, handshakeVars, registry, revoking, passkey, rejected>>

ConfirmStored(c) ==
  /\ At(c, "confirm", "stored") /\ Goto(c, "adding")
  /\ active' = 0
  /\ UNCHANGED <<panelVars, docVars, handshakeVars, storedVars, passkey, rejected>>

(* Variant: addDevice fails and the pairing is not rolled back.            *)
AddFailed_NoRollback(c) == Reply(c, "no")
(* addDevice, which counts again and may fail on its own; a failure is     *)
(* rolled back with clearPairing.                                          *)
AddFailed(c) == Goto(c, "removing")

ConfirmAdds(c) ==
  /\ At(c, "confirm", "adding")
  /\ revoking = NoKey
  /\ \/ /\ RegistryTakes(calls[c].id)
        /\ registry' = registry \cup {calls[c].id}
        /\ Goto(c, "added")
     \/ AddFailed(c) /\ UNCHANGED registry
  /\ UNCHANGED <<panelVars, active, docVars, handshakeVars, dev, revoking, owner, passkey,
                 rejected>>

(* Before that, getDeviceCount or resolveDeviceName may throw: nothing is  *)
(* rolled back.                                                            *)
ConfirmThrows(c) ==
  /\ At(c, "confirm", "adding")
  /\ Reply(c, "no")
  /\ Disowned(c)
  /\ UNCHANGED <<panelVars, active, docVars, handshakeVars, dev, registry, revoking, passkey,
                 rejected>>

(* setActiveDevice, which may find the device revoked by now; then, with a *)
(* session, the emoji is removed and a page opens to create the passkey,   *)
(* for which the pending key is kept, or the PRF-only fallback runs.       *)
ConfirmFinishes(c) ==
  /\ At(c, "confirm", "added")
  /\ \/ Reply(c, "no") /\ UNCHANGED <<pk, emoji, passkey>>
     \/ /\ calls[c].id \in registry /\ revoking = NoKey
        /\ Reply(c, "yes")
        /\ emoji' = IF session = 1 THEN 0 ELSE emoji
        /\ \/ session = 1 /\ passkey' = 1 /\ UNCHANGED pk
           \/ pk' = NoKey /\ UNCHANGED passkey
  /\ UNCHANGED <<panelVars, active, docVars, flow, session, storedVars, rejected>>

(* The page reports the passkey or its failure; either way the pending key *)
(* is dropped, whichever pairing it belongs to.                            *)
PasskeyReported ==
  /\ passkey = 1 /\ passkey' = 0
  /\ pk' = NoKey
  /\ UNCHANGED <<panelVars, calls, active, docVars, flow, session, emoji, storedVars, rejected>>

(* The page is closed, or its message found no worker.                     *)
PasskeyPageCloses ==
  /\ passkey = 1 /\ passkey' = 0
  /\ UNCHANGED <<panelVars, calls, active, docVars, handshakeVars, storedVars, rejected>>

-----------------------------------------------------------------------------
(* revokeDevice, from the list of devices: the pairing of whichever phone  *)
(* is stored is replaced by a new key pair without a remote key; then the  *)
(* device leaves the registry, unless that cannot be written.              *)
RevokeDevice(k) ==
  /\ revoking = NoKey /\ k \in registry
  /\ revoking' = k
  /\ dev' = EmptyKey /\ owner' = NoKey
  /\ UNCHANGED <<panelVars, calls, active, docVars, handshakeVars, registry, passkey, rejected>>

RevokeEnds ==
  /\ revoking # NoKey /\ revoking' = NoKey
  /\ registry' \in {registry, registry \ {revoking}}
  /\ UNCHANGED <<panelVars, calls, active, docVars, handshakeVars, dev, owner, passkey, rejected>>

-----------------------------------------------------------------------------
(* The worker is stopped and started: module variables and handlers go,    *)
(* storage and the document stay, a promise the popup awaits rejects.  The *)
(* history forgets what a handler cut short was about.                     *)
Restart ==
  /\ calls' = [c \in Calls |->
       IF calls[c].page = 0 THEN Idle
       ELSE [calls[c] EXCEPT !.at = IF calls[c].op = "reject" THEN "yes" ELSE "no"]]
  /\ poll' = "none"
  /\ active' = 0 /\ created' = 0 /\ flow' = "none" /\ pk' = NoKey /\ session' = 0
  /\ owner' = IF owner \in registry THEN owner ELSE NoKey
  /\ revoking' = NoKey /\ rejected' = 0
  /\ UNCHANGED <<panel, doc, emoji, dev, registry, passkey>>

PairingNext ==
  \/ \E c \in Calls :
       \/ StartPairing(c) \/ HandleConfirmMatch(c) \/ HandleRejectMatch(c) \/ Answered(c)
       \/ StartCreates(c) \/ StartSends(c) \/ StartCloses(c)
       \/ RejectRemovesEmoji(c) \/ CallRemoves(c) \/ CallCloses(c) \/ ClearFails(c)
       \/ ConfirmChecks(c) \/ ConfirmStored(c) \/ ConfirmAdds(c) \/ ConfirmThrows(c)
       \/ ConfirmFinishes(c)
  \/ CheckSession \/ PollArrives \/ QrExpires \/ HandleReset \/ ClosePopup \/ OpenPopup
  \/ FlowBegins \/ FlowStores \/ HandshakeFails \/ FlowRemoves \/ FlowCloses
  \/ \E k \in Keys : HandshakeDone(k)
  \/ PasskeyReported \/ PasskeyPageCloses
  \/ \E k \in Keys : RevokeDevice(k)
  \/ RevokeEnds \/ Restart

PairingSpec == PairingInit /\ [][PairingNext]_pairingVars

-----------------------------------------------------------------------------
(* Types, and: a confirmation in progress was made for a key.              *)
PairingTypeOK ==
  /\ panel \in PanelStates
  /\ poll \in {"none", "paired", "emoji", "nothing"}
  /\ \A c \in Calls :
       \/ calls[c] = Idle
       \/ /\ calls[c].op \in DOMAIN Steps
          /\ calls[c].at \in Steps[calls[c].op] \cup Replies
          /\ calls[c].page \in {0, 1}
          /\ calls[c].id \in Keys \cup {NoKey}
          /\ calls[c].op = "confirm" /\ calls[c].at \in Steps.confirm => calls[c].id # NoKey
  /\ active \in {0, 1} /\ doc \in {0, 1} /\ created \in {0, 1} /\ created <= doc
  /\ flow \in {"none", "waiting", "storing", "removing", "closing"}
  /\ pk \in Keys \cup {NoKey} /\ dev \in Keys \cup {NoKey, EmptyKey}
  /\ owner \in Keys \cup {NoKey} /\ registry \subseteq Keys /\ revoking \in Keys \cup {NoKey}
  /\ session \in {0, 1} /\ emoji \in {0, 1} /\ passkey \in {0, 1} /\ rejected \in {0, 1}

(* A confirmation that has written pairing:device and not yet registered   *)
(* its device or undone the write.                                         *)
ConfirmOpen == \E c \in Calls :
  calls[c].op = "confirm" /\ calls[c].at \in {"stored", "adding", "removing"}

(* A stored pairing is one whose confirmation registered its device: the   *)
(* rollback of confirmSasMatch leaves no pairing:device behind that the    *)
(* registry does not know, whatever other calls and revocations run        *)
(* meanwhile.  (A restart between the two writes, a removal that fails in  *)
(* the rollback and a throw before addDevice are the exceptions; owner is  *)
(* NoKey then.)                                                            *)
PairedRegistered ==
  dev # NoKey /\ owner # NoKey /\ ~ConfirmOpen => owner \in registry

(* After "No Match" has run, no pairing with a phone is stored, even if    *)
(* "Match" was pressed as well and its handler is still in flight:         *)
(* rejectSasMatch drops the pending key before its first await.  (Unless   *)
(* the removal from the storage fails.)                                    *)
RejectFinal ==
  rejected = 1 /\ (\A c \in Calls : ~(calls[c].op = "reject" /\ calls[c].at \in Steps.reject))
    => dev \notin Keys
=============================================================================
