-------------------------- MODULE TransportManager --------------------------
(* lib/transport: the TransportManager with its UsbTransport and           *)
(* WebRtcTransport, and those who hold one: initializeTransportManager and *)
(* the handlers of switch-device and revoke-device that replace it.        *)
(*                                                                         *)
(* What runs between two awaits is one action.  The promises of Chrome's   *)
(* messages and of WebUSB settle in any way and at any time; a message to  *)
(* the offscreen document fails when there is none.  Payloads, callbacks   *)
(* of listeners and latencies are left out.  A manager nobody holds may    *)
(* still poll and switch: to its successor that is a connection lost.      *)
EXTENDS Integers

Handlers == {"switch", "revoke"}

VARIABLES
  init,          \* transportManager: "none", or the await initialize() is
                 \* at, or "done"
  initPromise,   \* transportManagerInitPromise is set
  orphan,        \* initialize() of a manager nobody holds is running
  handler,       \* switch-device and revoke-device: the await they are at,
                 \* and the transport destroy() waits for
  active,        \* activeTransport: "none", "usb" or "webrtc"
  usbAvailable,
  usb,           \* UsbTransport: device, its own handle, and connected
  webrtc,        \* WebRtcTransport: connected, and its listener attached
  switch,        \* doSwitch: the await it is at, its target and its current
  dropWaits,     \* the webrtc onDisconnect callback awaits switchPromise
  pollTimer, poll,  \* usbPollTimer; wasAvailable of the poll that awaits
  plugged,       \* an Android device WebUSB may use is there
  connState,     \* the background's connectionState is 'connected'
  relay,         \* usbDevice of the offscreen document
  slipped        \* history: the message a switch left its old transport with
                 \* failed, or its new USB handle did before it was done

busVars == <<plugged, connState>>
pollVars == <<usbAvailable, pollTimer, poll>>
heldVars == <<initPromise, orphan, handler>>
transportVars == <<init, heldVars, active, usb, webrtc, switch, dropWaits, pollVars, busVars,
                   relay, slipped>>

NoSwitch == [at |-> "none", target |-> "none", current |-> "none"]
NoUsb == [device |-> 0, connected |-> 0]
Switching == switch.at # "none"

NoCall == [at |-> "none", leaving |-> "none"]

TransportInit ==
  /\ init = "none" /\ initPromise = 0 /\ orphan = 0
  /\ handler = [h \in Handlers |-> NoCall]
  /\ active = "none" /\ usbAvailable = 0
  /\ usb = NoUsb /\ webrtc = 0
  /\ switch = NoSwitch /\ dropWaits = 0
  /\ pollTimer = 0 /\ poll = "none"
  /\ plugged \in {0, 1} /\ connState \in {0, 1}
  /\ relay = "closed" /\ slipped = 0

-----------------------------------------------------------------------------
(* The transports *)

CheckAvailability == IF usb.device = 1 \/ plugged = 1 THEN 1 ELSE 0

(* connectWebUsb of the document: it asks for a device and reads from it.  *)
ConnectWebUsb == plugged = 1 /\ relay' = "open"

(* Its read loop ends with an error.  The device stays the document's and  *)
(* the message about it changes nothing.                                   *)
RelayFails ==
  /\ relay = "open" /\ relay' = "dead"
  /\ UNCHANGED <<init, heldVars, active, usb, webrtc, switch, dropWaits, pollVars, busVars,
                 slipped>>

(* webrtc-disconnect closes whatever the document has.                     *)
DocumentDisconnects == relay' = IF relay = "open" THEN "closed" ELSE relay

(* UsbTransport.connect: a handle it has, or one it opens, or the relay in *)
(* the offscreen document; ok = 0 stands for the exception.                *)
UsbConnect(ok) ==
  \/ usb.device = 1 /\ ok = 1 /\ usb' = [device |-> 1, connected |-> 1] /\ relay' = relay
  \/ usb.device = 0 /\ ok = 1 /\ plugged = 1
     /\ usb' = [device |-> 1, connected |-> 1] /\ relay' = relay
  \/ usb.device = 0 /\ ok = 1 /\ ConnectWebUsb /\ usb' = [device |-> 0, connected |-> 1]
  \/ usb.device = 0 /\ ok = 0 /\ usb' = usb /\ relay' = relay

(* WebRtcTransport.connect asks the background for its connection state;   *)
(* an answer that does not come counts as not connected.  A plain Error is *)
(* not retryable, so withRetry makes one attempt.                          *)
WebRtcConnect == webrtc' \in {0, connState}
ConnectWebRtcWithRetry == IF webrtc' = 1 THEN "webrtc" ELSE "none"

UsbCleanup == NoUsb

-----------------------------------------------------------------------------
(* switchTransport: a switch in progress is everyone's; its result reaches *)
(* the caller that joined it, whatever target that caller asked for.       *)

(* The synchronous part of doSwitch, up to its first await.  A switch to   *)
(* USB that is not available ends at once, and so does one to a USB handle *)
(* that is open, unless there is a WebRTC connection to leave.             *)
DoSwitch(target, available) ==
  IF target = "usb" /\ (available = 0 \/ (usb.device = 1 /\ active # "webrtc")) THEN NoSwitch
  ELSE [at |-> CASE target = "usb" -> IF usb.device = 1 THEN "leaving webrtc" ELSE "connecting usb"
                 [] target = "webrtc" /\ active = "usb" -> "leaving usb"
                 [] OTHER -> "connecting webrtc",
        target |-> target, current |-> active]
SwitchTransport(target, available) ==
  switch' = IF Switching THEN switch ELSE DoSwitch(target, available)
SwitchToUsb(available) ==
  /\ SwitchTransport("usb", available)
  /\ active' = IF ~Switching /\ available = 1 /\ usb.device = 1 /\ active # "webrtc"
               THEN "usb" ELSE active

(* The promise settles: the finally block, then those who waited.  Without *)
(* a new transport the webrtc callback gives the old one up.               *)
Settled(switched, new) ==
  /\ switch' = NoSwitch /\ dropWaits' = 0
  /\ active' = IF dropWaits = 1 /\ switched = 0 THEN "none" ELSE new
(* Variant: the callback ignores the result.                               *)
Settle_DropIgnored(switched, new) ==
  switch' = NoSwitch /\ dropWaits' = 0 /\ active' = new
(* Variant: the promise of a switch that failed is kept.                   *)
Settle_FailureKept(switched, new) ==
  /\ switch' = IF switched = 1 THEN NoSwitch ELSE switch
  /\ dropWaits' = 0 /\ active' = new
Settle(switched, new) == Settled(switched, new)

SwitchConnectsUsb ==
  /\ switch.at = "connecting usb"
  /\ \/ /\ UsbConnect(1)
        /\ slipped' = 0
        /\ IF switch.current = "webrtc"
           THEN switch' = [switch EXCEPT !.at = "leaving webrtc"] /\ UNCHANGED <<active, dropWaits>>
           ELSE Settle(1, "usb")
     \/ UsbConnect(0) /\ Settle(0, active) /\ UNCHANGED slipped
  /\ UNCHANGED <<init, heldVars, webrtc, pollVars, busVars>>

(* webrtc.disconnect: the message makes the document close the relay too,  *)
(* which the switch may just have opened.  If it fails the exception is    *)
(* taken for one of USB and the manager stays on the transport it has just *)
(* cleaned up.                                                             *)
SwitchLeavesWebRtc ==
  /\ switch.at = "leaving webrtc"
  /\ webrtc' = 0
  /\ \/ /\ DocumentDisconnects /\ Settle(1, "usb")
        /\ UNCHANGED slipped
     \/ Settle(0, active) /\ slipped' = 1 /\ relay' = relay
  /\ UNCHANGED <<init, heldVars, usb, pollVars, busVars>>

(* usb.disconnect: closing a handle never fails; the message the relay is  *)
(* closed with may, and then the exception ends the switch and the wait of *)
(* those who joined it.                                                    *)
SwitchLeavesUsb ==
  /\ switch.at = "leaving usb"
  /\ usb' = UsbCleanup
  /\ \/ /\ switch' = [switch EXCEPT !.at = "connecting webrtc"]
        /\ IF usb.device = 0 THEN DocumentDisconnects ELSE relay' = relay
        /\ UNCHANGED <<active, dropWaits, slipped>>
     \/ /\ usb.device = 0 /\ switch' = NoSwitch /\ dropWaits' = 0 /\ slipped' = 1
        /\ UNCHANGED <<active, relay>>
  /\ UNCHANGED <<init, heldVars, webrtc, pollVars, busVars>>

SwitchConnectsWebRtc ==
  /\ switch.at = "connecting webrtc"
  /\ WebRtcConnect
  /\ Settle(webrtc', ConnectWebRtcWithRetry)
  /\ slipped' = 0
  /\ UNCHANGED <<init, heldVars, usb, pollVars, busVars, relay>>

SwitchStep == SwitchConnectsUsb \/ SwitchLeavesWebRtc \/ SwitchLeavesUsb \/ SwitchConnectsWebRtc

(* The heartbeat of the command client: onTransportDead, once              *)
(* initializeTransportManager has nothing left to wait for.                *)
TransportDead ==
  /\ init # "none" /\ initPromise = 0
  /\ SwitchToUsb(usbAvailable)
  /\ UNCHANGED <<init, heldVars, usb, webrtc, dropWaits, pollVars, busVars, relay, slipped>>

-----------------------------------------------------------------------------
(* Callbacks *)

(* The read loop of the USB handle fails; a handle that is being closed is *)
(* no longer read.                                                         *)
UsbReadFails ==
  /\ usb.device = 1 /\ switch.at # "leaving usb"
  /\ \A h \in Handlers : handler[h].leaving # "usb"
  /\ usb' = UsbCleanup
  /\ IF active = "usb" THEN SwitchTransport("webrtc", usbAvailable) ELSE UNCHANGED switch
  /\ slipped' = IF switch.target = "usb" THEN 1 ELSE slipped
  /\ UNCHANGED <<init, heldVars, active, webrtc, dropWaits, pollVars, busVars, relay>>

(* The document reports state 'disconnected' to the background and, while  *)
(* its listener is attached, to the transport.                             *)
WebRtcDisconnects ==
  /\ connState = 1 /\ connState' = 0
  /\ webrtc' = 0
  /\ IF webrtc = 1 /\ active = "webrtc"
     THEN /\ SwitchTransport("usb", usbAvailable)
          /\ IF switch' # NoSwitch
             THEN dropWaits' = 1 /\ UNCHANGED active
             ELSE active' = "none" /\ UNCHANGED dropWaits
     ELSE UNCHANGED <<switch, active, dropWaits>>
  /\ UNCHANGED <<init, heldVars, usb, pollVars, plugged, relay, slipped>>

(* Any other state: 'failed', 'closed' or a timeout do not reach the       *)
(* transport.                                                              *)
ConnectionState ==
  /\ connState' = 1 - connState
  /\ UNCHANGED <<init, heldVars, active, usb, webrtc, switch, dropWaits, pollVars, plugged,
                 relay, slipped>>

Plug ==
  /\ plugged' = 1 - plugged
  /\ UNCHANGED <<init, heldVars, active, usb, webrtc, switch, dropWaits, pollVars, connState,
                 relay, slipped>>

-----------------------------------------------------------------------------
(* initializeTransportManager and initialize() *)

(* A manager that is there is used as it is.                               *)
UseTransport ==
  IF init = "none" THEN init' = "checking" /\ initPromise' = 1 ELSE UNCHANGED <<init, initPromise>>

(* deliver-attested-code and transmitCredentialToAndroid.                  *)
DeliverAttestedCode ==
  /\ init = "none" /\ UseTransport
  /\ UNCHANGED <<orphan, handler, active, usb, webrtc, switch, dropWaits, pollVars,
                 busVars, relay, slipped>>

InitChecks ==
  /\ init = "checking"
  /\ usbAvailable' = CheckAvailability
  /\ init' = IF usbAvailable' = 1 THEN "connecting usb" ELSE "connecting webrtc"
  /\ UNCHANGED <<heldVars, active, usb, webrtc, switch, dropWaits, pollTimer, poll, busVars,
                 relay, slipped>>

(* Polling starts when discovery is over, destroyed or not.                *)
InitEnds == init' = "done" /\ initPromise' = 0 /\ pollTimer' = 1
InitConnectsUsb ==
  /\ init = "connecting usb"
  /\ \/ UsbConnect(1) /\ active' = "usb" /\ InitEnds
     \/ /\ UsbConnect(0) /\ init' = "connecting webrtc"
        /\ UNCHANGED <<active, pollTimer, initPromise>>
  /\ UNCHANGED <<orphan, handler, webrtc, switch, dropWaits, usbAvailable, poll, busVars,
                 slipped>>

InitConnectsWebRtc ==
  /\ init = "connecting webrtc"
  /\ WebRtcConnect
  /\ active' = ConnectWebRtcWithRetry
  /\ InitEnds
  /\ UNCHANGED <<orphan, handler, usb, switch, dropWaits, usbAvailable, poll, busVars,
                 relay, slipped>>

(* The finally block of a manager that was dropped meanwhile: it clears    *)
(* the promise of whichever manager is there now.                          *)
OrphanInitEnds ==
  /\ orphan = 1 /\ orphan' = 0 /\ initPromise' = 0
  /\ UNCHANGED <<init, handler, active, usb, webrtc, switch, dropWaits, pollVars, busVars,
                 relay, slipped>>

-----------------------------------------------------------------------------
(* The poll for USB.  It acts on a change only, and forgets the change if  *)
(* the switch it asks for is another one, or fails.                        *)
PollBegins ==
  /\ pollTimer = 1 /\ poll = "none"
  /\ poll' = IF usbAvailable = 1 THEN "was available" ELSE "was not"
  /\ UNCHANGED <<init, heldVars, active, usb, webrtc, switch, dropWaits, usbAvailable, pollTimer,
                 busVars, relay, slipped>>

PollEnds ==
  /\ poll # "none" /\ poll' = "none"
  /\ usbAvailable' = CheckAvailability
  /\ CASE usbAvailable' = 1 /\ poll = "was not" /\ active # "usb" -> SwitchToUsb(1)
       [] usbAvailable' = 0 /\ poll = "was available" /\ active = "usb" ->
            SwitchTransport("webrtc", 0) /\ UNCHANGED active
       [] OTHER -> UNCHANGED <<switch, active>>
  /\ UNCHANGED <<init, heldVars, usb, webrtc, dropWaits, pollTimer, busVars, relay, slipped>>

-----------------------------------------------------------------------------
(* switch-device and revoke-device.  The DeviceListPanel has at most one   *)
(* of each in progress.  The registry's part of them is DeviceRegistry.    *)

(* destroy() up to its await: the poll stops, the active transport starts  *)
(* to disconnect; the manager keeps it as active.                          *)
Destroy(h) ==
  /\ handler' = [handler EXCEPT ![h] = [at |-> "destroying", leaving |-> active]]
  /\ pollTimer' = 0

(* handleSwitch and handleRevoke do nothing while their last call runs.    *)
MayCall(h) == handler[h] = NoCall

SwitchDevice ==
  /\ MayCall("switch")
  /\ IF init # "none" THEN Destroy("switch")
     ELSE handler' = [handler EXCEPT !["switch"].at = "activating"] /\ UNCHANGED pollTimer
  /\ UNCHANGED <<init, initPromise, orphan, active, usb, webrtc, switch, dropWaits, usbAvailable,
                 poll, busVars, relay, slipped>>

(* The device is revoked; if it was the active one its transport goes.     *)
RevokeDevice ==
  /\ MayCall("revoke") /\ init # "none"
  /\ Destroy("revoke")
  /\ UNCHANGED <<init, initPromise, orphan, active, usb, webrtc, switch, dropWaits, usbAvailable,
                 poll, busVars, relay, slipped>>

(* The transport is disconnected, or its message failed, and the variable  *)
(* is cleared, whichever manager it holds by now.                          *)
Drop ==
  /\ init' = "none" /\ initPromise' = 0
  /\ orphan' = IF init \in {"none", "done"} THEN orphan ELSE 1
  /\ active' = "none" /\ usb' = NoUsb /\ webrtc' = 0 /\ usbAvailable' = 0
  /\ switch' = NoSwitch /\ dropWaits' = 0 /\ pollTimer' = 0 /\ poll' = "none" /\ slipped' = 0

DestroyEnds(h) ==
  /\ handler[h].at = "destroying"
  /\ Drop
  /\ \/ handler[h].leaving # "none" /\ ~(handler[h].leaving = "usb" /\ usb.device = 1)
        /\ DocumentDisconnects
     \/ relay' = relay
  /\ handler' = [g \in Handlers |->
       IF g = h THEN [NoCall EXCEPT !.at = IF h = "switch" THEN "activating" ELSE "none"]
       ELSE [handler[g] EXCEPT !.leaving = "none"]]
  /\ UNCHANGED busVars

(* setActiveDevice, then a transport for a device whose key is known.      *)
(* initialize() catches all there is to throw, so there is no way back to  *)
(* the previous device.                                                    *)
DeviceActivated ==
  /\ handler["switch"].at = "activating"
  /\ handler' = [handler EXCEPT !["switch"] = NoCall]
  /\ UseTransport \/ UNCHANGED <<init, initPromise>>
  /\ UNCHANGED <<orphan, active, usb, webrtc, switch, dropWaits, pollVars, busVars, relay, slipped>>

TransportNext ==
  \/ DeliverAttestedCode \/ InitChecks \/ InitConnectsUsb \/ InitConnectsWebRtc \/ OrphanInitEnds
  \/ SwitchConnectsUsb \/ SwitchLeavesWebRtc \/ SwitchLeavesUsb \/ SwitchConnectsWebRtc
  \/ TransportDead \/ UsbReadFails \/ WebRtcDisconnects \/ ConnectionState \/ Plug \/ RelayFails
  \/ PollBegins \/ PollEnds
  \/ SwitchDevice \/ RevokeDevice \/ DeviceActivated \/ \E h \in Handlers : DestroyEnds(h)

TransportSpec == TransportInit /\ [][TransportNext]_transportVars
(* Promises of Chrome and of WebUSB settle.                                *)
TransportFairness == WF_transportVars(SwitchStep)

-----------------------------------------------------------------------------
(* Types; a USB handle is a connection.                                    *)
TransportTypeOK ==
  /\ init \in {"none", "checking", "connecting usb", "connecting webrtc", "done"}
  /\ active \in {"none", "usb", "webrtc"}
  /\ usb \in [device : {0, 1}, connected : {0, 1}] /\ usb.device <= usb.connected
  /\ switch.at \in {"none", "connecting usb", "leaving webrtc", "leaving usb",
                    "connecting webrtc"}
  /\ switch.target \in {"none", "usb", "webrtc"}
  /\ switch.current \in {"none", "usb", "webrtc"}
  /\ poll \in {"none", "was available", "was not"}
  /\ handler \in [Handlers -> [at : {"none", "destroying", "activating"},
                               leaving : {"none", "usb", "webrtc"}]]
  /\ relay \in {"closed", "open", "dead"}
  /\ \A b \in {initPromise, orphan, usbAvailable, webrtc, dropWaits, pollTimer, plugged,
               connState, slipped} : b \in {0, 1}

(* Whatever drops, is plugged in or is polled, in whichever order requests *)
(* for a switch join one another, and although managers are destroyed and  *)
(* replaced by calls that know nothing of each other: when no switch and   *)
(* no destroy() is in progress, the transport the manager is on takes      *)
(* itself for connected.  What the transport knows is its own flag: a dead *)
(* relay or a WebRTC 'failed' does not reach it.  The exceptions, slipped, *)
(* are a switch whose message to leave the old transport failed, and one   *)
(* whose new USB handle failed before it was done.                         *)
NoDestroy == \A h \in Handlers : handler[h].leaving = "none"
ActiveConnected ==
  ~Switching /\ slipped = 0 /\ NoDestroy =>
    /\ active = "webrtc" => webrtc = 1
    /\ active = "usb" => usb.connected = 1

(* A switch ends, and with it the wait of everyone who joined it.          *)
SwitchEnds == []<>(~Switching /\ dropWaits = 0)
=============================================================================
