----------------------------- MODULE WebRtcLink -----------------------------
(* entrypoints/offscreen-webrtc/main.ts, the offscreen document that owns  *)
(* the RTCPeerConnection and the client side of the signaling, composed    *)
(* with the signaling server and a phone that may do anything.             *)
(*                                                                         *)
(* The document is one JavaScript context: a handler runs to its first     *)
(* await.  The awaits that take long are the fetches of TURN credentials;  *)
(* what runs after one is an action of its own, and anything may happen in *)
(* between.  Credentials, descriptions and candidates are data, as are the *)
(* timers that refresh the first or only notify the background.  ICE, DTLS *)
(* and the socket.io client are external: their events come in any order.  *)
EXTENDS SignalingServer, Sequences

CONSTANTS
  ExtSockets,    \* the client sockets of the document that are followed
  PhoneSockets,
  PhoneQueries,  \* what the phone's sockets connect with
  MaxFetches     \* bound: fetches of one kind in flight

ASSUME SocketsAssumption ==
  /\ Sockets = ExtSockets \cup PhoneSockets
  /\ ExtSockets \cap PhoneSockets = {}
  /\ PhoneQueries \subseteq Queries
  /\ None \notin Sockets \cup SasCodes \cup Nonces \cup Devices
  /\ MaxFetches \in Nat

VARIABLES
  pc,                \* the global pc: its kind and its connection state,
                     \* "lost" for both failed and disconnected
  reconnectAttempt,  \* 0, or 1 for any number above 0
  reconnectTimer,
  socket,            \* the global socket
  client,            \* the client sockets: state, room code, events to send
  sasCode,           \* with it nonce and extensionStaticKey
  fetching,          \* fetches of credentials in flight, by who awaits them
  calm               \* 1: disconnect() ran with nothing awaited, no start since

peerVars == <<pc, reconnectAttempt, reconnectTimer>>
signalVars == <<socket, client, sasCode>>
vars == <<serverVars, peerVars, signalVars, fetching, calm>>

Fetches == {"start", "reconnect"}
NoPc == [state |-> "none", relay |-> 0]
NewPc(relay) == [state |-> "new", relay |-> relay]
Live == pc.state # "none"
NoClient == [st |-> "closed", code |-> None, out |-> <<>>]

Init ==
  /\ ServerInit
  /\ pc = NoPc
  /\ reconnectAttempt = 0 /\ reconnectTimer = 0
  /\ socket = None /\ client = [s \in ExtSockets |-> NoClient] /\ sasCode = None
  /\ fetching = [k \in Fetches |-> 0] /\ calm = 1

-----------------------------------------------------------------------------
(* The signaling client *)

(* An event the global socket emits.  A socket the server turned away      *)
(* never sends it; the same event twice in the queue is kept once.         *)
Emit(cl, event) ==
  IF \/ socket = None
     \/ cl[socket].st = "closed"
     \/ \E i \in DOMAIN cl[socket].out : cl[socket].out[i] = event
  THEN cl ELSE [cl EXCEPT ![socket].out = Append(@, event)]

(* connectSignaling: a new socket, the old one is not closed.  Only as     *)
(* many sockets as ExtSockets are followed: another one than the current   *)
(* is dropped for the new one.                                             *)
ConnectSignaling ==
  \E s \in ExtSockets \ {socket} :
    /\ socket' = s
    /\ client' = [client EXCEPT ![s] = [st |-> "connecting", code |-> sasCode,
                                        out |-> <<>>]]
    /\ Disconnect({s})
    /\ UNCHANGED <<roomMetadata, revokedDevices>>

(* The socket connects, without a commitment in its query; its handler     *)
(* announces the room on whatever socket is global by then.                *)
SocketConnects(s) ==
  LET code  == client[s].code
      open  == [client EXCEPT ![s].st = "open"]
      first == IF sasCode # None THEN Emit(open, <<"register-room", code>>) ELSE open
  IN /\ client[s].st = "connecting"
     /\ Connection(s, NoQuery)
     /\ client' = Emit(first, <<"join-room", code>>)
     /\ UNCHANGED <<peerVars, socket, sasCode, fetching, calm>>

(* The oldest event of a client socket reaches the server.  A refused join *)
(* closes the client's side too: socket.io does not connect again after    *)
(* that.  A null code is answered with an error only.                      *)
ServerHandles(s) ==
  /\ client[s].out # <<>>
  /\ s \in connected
  /\ LET event == Head(client[s].out)
         code  == event[2]
         cl    == [client EXCEPT ![s].out = Tail(@)]
     IN \/ /\ event[1] = "register-room" /\ code # None
           /\ \E nonce \in Nonces : RegisterRoom(s, code, nonce)
           /\ client' = cl
        \/ /\ event[1] = "join-room" /\ code # None
           /\ JoinRoom(s, code)
           /\ client' = IF VerifyCommitment(s, RoomOf(code)) THEN cl
                        ELSE [client EXCEPT ![s] = [st |-> "closed", code |-> @.code,
                                                    out |-> <<>>]]
        \/ /\ code = None
           /\ client' = cl
           /\ UNCHANGED serverVars
  /\ UNCHANGED <<peerVars, socket, sasCode, fetching, calm>>

(* A client connection drops; socket.io connects again by itself.          *)
ClientDrops(s) ==
  /\ client[s].st = "open"
  /\ ConnectionLost(s)
  /\ client' = [client EXCEPT ![s] = [st |-> "connecting", code |-> @.code, out |-> <<>>]]
  /\ UNCHANGED <<peerVars, socket, sasCode, fetching, calm>>

-----------------------------------------------------------------------------
(* Connection state, relay fallback and reconnect *)

(* scheduleReconnect: one timer at a time.                                 *)
ScheduleReconnect ==
  /\ reconnectTimer' = 1
  /\ reconnectAttempt' = IF reconnectTimer = 1 THEN reconnectAttempt ELSE 1

(* onconnectionstatechange; the one of a relay-only connection only logs.  *)
ConnectionStateChange(state) ==
  /\ Live /\ pc.state # state
  /\ pc' = [pc EXCEPT !.state = state]
  /\ \/ pc.relay = 1 /\ UNCHANGED <<reconnectAttempt, reconnectTimer>>
     \/ pc.relay = 0 /\ state = "connected" /\ reconnectAttempt' = 0
        /\ UNCHANGED reconnectTimer
     \/ pc.relay = 0 /\ state # "connected" /\ ScheduleReconnect
  /\ UNCHANGED <<serverVars, signalVars, fetching, calm>>

(* A peer connection that webrtc-start-pairing overwrote was not closed.   *)
(* Its handler looks at the global pc whenever it runs.                    *)
AbandonedStateChange ==
  /\ \/ pc.state = "lost" /\ ScheduleReconnect
     \/ pc.state = "connected" /\ reconnectAttempt' = 0 /\ UNCHANGED reconnectTimer
  /\ UNCHANGED <<serverVars, pc, signalVars, fetching, calm>>

(* oniceconnectionstatechange, of the peer connection or of an abandoned   *)
(* one, when the ICE state is 'failed' on the first attempt, whatever the  *)
(* connection state still says: attemptRelayFallback replaces the former.  *)
RelayFallback ==
  /\ Live /\ reconnectAttempt = 0
  /\ pc' = NewPc(1)
  /\ UNCHANGED <<serverVars, reconnectAttempt, reconnectTimer,
                 signalVars, fetching, calm>>

(* fetchTurnCredentials is called and awaited by k.                        *)
FetchFor(k) ==
  /\ fetching[k] < MaxFetches
  /\ fetching' = [fetching EXCEPT ![k] = @ + 1]

Fetched(k) ==
  /\ fetching[k] > 0
  /\ fetching' = [fetching EXCEPT ![k] = @ - 1]

(* Variant: the variable keeps the handle of a timer that fired.           *)
ReconnectFires_HandleKept ==
  /\ reconnectTimer = 1 /\ reconnectAttempt = 1
  /\ reconnectAttempt' = 0
  /\ FetchFor("reconnect")
  /\ UNCHANGED <<serverVars, pc, reconnectTimer, signalVars, calm>>

(* The reconnect timer fires and awaits fresh credentials.                 *)
ReconnectFires ==
  /\ reconnectTimer = 1
  /\ reconnectTimer' = 0
  /\ FetchFor("reconnect")
  /\ UNCHANGED <<serverVars, pc, reconnectAttempt, signalVars, calm>>

(* The rest of the timer's callback: whatever happened during the fetch,   *)
(* the peer connection is closed and a new one and a new socket made.      *)
ReconnectContinues ==
  /\ Fetched("reconnect")
  /\ pc' = NewPc(0)
  /\ ConnectSignaling
  /\ UNCHANGED <<reconnectAttempt, reconnectTimer, sasCode, calm>>

-----------------------------------------------------------------------------
(* Messages from the background *)

(* webrtc-start-pairing up to its await.                                   *)
WebrtcStartPairing(code) ==
  /\ sasCode' = code
  /\ FetchFor("start")
  /\ calm' = 0
  /\ UNCHANGED <<serverVars, peerVars, socket, client>>

(* The rest of it: a peer connection that is there is overwritten.         *)
StartContinues ==
  /\ Fetched("start")
  /\ pc' = NewPc(0)
  /\ ConnectSignaling
  /\ UNCHANGED <<reconnectAttempt, reconnectTimer, sasCode, calm>>

(* Variant: the pending reconnect is forgotten.                            *)
Cleared_TimerKept ==
  /\ pc' = NoPc /\ socket' = None /\ sasCode' = None
  /\ reconnectAttempt' = 0 /\ UNCHANGED reconnectTimer

(* What the document's disconnect() clears.                                *)
Cleared ==
  /\ pc' = NoPc /\ socket' = None /\ sasCode' = None
  /\ reconnectAttempt' = 0 /\ reconnectTimer' = 0

(* Variant: the global socket is dropped without closing its connection.   *)
DisconnectMessage_SocketOpen ==
  /\ Cleared
  /\ client' = [s \in ExtSockets |-> IF s = socket THEN NoClient ELSE client[s]]
  /\ calm' = IF \A k \in Fetches : fetching[k] = 0 THEN 1 ELSE 0
  /\ UNCHANGED <<serverVars, fetching>>

(* webrtc-disconnect closes the global socket; others stay open.           *)
DisconnectMessage ==
  /\ Cleared
  /\ client' = [s \in ExtSockets |-> IF s = socket THEN NoClient ELSE client[s]]
  /\ Disconnect({socket})
  /\ calm' = IF \A k \in Fetches : fetching[k] = 0 THEN 1 ELSE 0
  /\ UNCHANGED <<roomMetadata, revokedDevices, fetching>>

(* closeOffscreenDocument, then a new document: everything is gone, also   *)
(* what was in flight.                                                     *)
DocumentReplaced ==
  /\ Cleared
  /\ client' = [s \in ExtSockets |-> NoClient]
  /\ fetching' = [k \in Fetches |-> 0] /\ calm' = 1
  /\ Disconnect(ExtSockets)
  /\ UNCHANGED <<roomMetadata, revokedDevices>>

-----------------------------------------------------------------------------

(* The phone and the operator who revokes devices do as they like; the     *)
(* server's timers run.                                                    *)
Elsewhere ==
  /\ \/ \E s \in PhoneSockets :
          \/ \E q \in PhoneQueries : Connection(s, q)
          \/ ConnectionLost(s)
          \/ \E code \in SasCodes : JoinRoom(s, code)
          \/ \E code \in SasCodes, nonce \in Nonces : RegisterRoom(s, code, nonce)
     \/ \E r \in RoomIds : CleanupRoom(r)
     \/ \E d \in Devices : Revoke(d) \/ RevocationExpires(d)
  /\ UNCHANGED <<peerVars, signalVars, fetching, calm>>

Next ==
  \/ \E code \in SasCodes : WebrtcStartPairing(code)
  \/ StartContinues \/ DisconnectMessage \/ DocumentReplaced
  \/ \E s \in ExtSockets : SocketConnects(s) \/ ServerHandles(s) \/ ClientDrops(s)
  \/ \E state \in {"connected", "lost"} : ConnectionStateChange(state)
  \/ AbandonedStateChange \/ RelayFallback
  \/ ReconnectFires \/ ReconnectContinues
  \/ Elsewhere

Spec == Init /\ [][Next]_vars

(* Timers fire and fetches return; no peer and no user owes anything.      *)
FairSpec == Spec /\ WF_vars(ReconnectFires) /\ WF_vars(ReconnectContinues)

-----------------------------------------------------------------------------
(* Types; a client socket and its connection on the server agree.          *)
TypeOK ==
  /\ ServerTypeOK
  /\ pc \in [state : {"none", "new", "connected", "lost"},
             relay : {0, 1}]
  /\ socket \in ExtSockets \cup {None}
  /\ \A s \in ExtSockets :
       /\ client[s].st \in {"closed", "connecting", "open"}
       /\ client[s].st = "open" <=> s \in connected
  /\ sasCode \in SasCodes \cup {None}
  /\ fetching \in [Fetches -> 0..MaxFetches]

(* webrtc-disconnect is final: when it arrived with no fetch outstanding,  *)
(* no peer connection comes back and no reconnect is pending before the    *)
(* next pairing, although abandoned peer connections and sockets of        *)
(* earlier attempts may still raise events.                                *)
DisconnectFinal == calm = 1 => ~Live /\ reconnectTimer = 0 /\ fetching["reconnect"] = 0

(* A peer connection that failed or was cut off is always given up for a   *)
(* new one, recovers, or is closed: no failure is the last word.  (Not so  *)
(* for the relay-only one: the code attaches no reconnect to it.)          *)
FailureAnswered ==
  pc = [state |-> "lost", relay |-> 0] ~> pc # [state |-> "lost", relay |-> 0]
=============================================================================
