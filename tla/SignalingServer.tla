-------------------------- MODULE SignalingServer --------------------------
(* signaling-server/server.js: the Socket.IO relay through which the       *)
(* extension and the phone exchange their session descriptions, its rooms  *)
(* with their 30 s cleanup timers and the revocation list it keeps for 24  *)
(* hours.                                                                  *)
(*                                                                         *)
(* A SAS code is a model value that passed isValidSasCode; messages with a *)
(* malformed code only produce an error reply and are left out.  The hash  *)
(* in verifyCommitment is abstracted to what it decides: a commitment is   *)
(* the nonce it was computed from.  TURN credentials and the descriptions  *)
(* and candidates that are relayed are data: what matters is whom a relay  *)
(* reaches.                                                                *)
EXTENDS Integers

CONSTANTS
  Sockets,      \* Socket.IO connections
  SasCodes,
  Nonces,       \* the pairing nonces, and with them the commitments
  Devices,
  None

VARIABLES
  connected,          \* io.sockets.sockets
  query,              \* handshake.query of each socket
  joined,             \* the Socket.IO rooms a relay is sent to
  rooms,              \* the map rooms: peers and cleanup timer
  roomMetadata,
  revokedDevices      \* those whose revocation has not expired

serverVars == <<connected, query, joined, rooms, roomMetadata, revokedDevices>>

(* ROOM_PREFIX + sasCode: never equal to a bare code.                      *)
RoomOf(code) == <<"smartid2::", code>>
RoomIds == {RoomOf(code) : code \in SasCodes}

Queries == [deviceId : Devices \cup {None}, commitment : Nonces \cup {None}]
NoQuery == [deviceId |-> None, commitment |-> None]
NoRoom == [exists |-> 0, peers |-> {}, timeout |-> 0]

ServerInit ==
  /\ connected = {}
  /\ query = [s \in Sockets |-> NoQuery]
  /\ joined = [r \in RoomIds |-> {}]
  /\ rooms = [r \in RoomIds |-> NoRoom]
  /\ roomMetadata = [r \in RoomIds |-> None]
  /\ revokedDevices = {}

-----------------------------------------------------------------------------
(* Connections *)

IsDeviceRevoked(d) == d \in revokedDevices

(* The 'disconnect' handler for every socket in gone: the last peer of a   *)
(* room starts its cleanup timer.                                          *)
LeaveRooms(gone) ==
  [r \in RoomIds |->
     LET left == rooms[r].peers \ gone IN
     IF left = rooms[r].peers THEN rooms[r]
     ELSE [rooms[r] EXCEPT !.peers = left,
                           !.timeout = IF left = {} THEN 1 ELSE @]]

Disconnect(gone) ==
  /\ connected' = connected \ gone
  /\ query' = [s \in Sockets |-> IF s \in gone THEN NoQuery ELSE query[s]]
  /\ joined' = [r \in RoomIds |-> joined[r] \ gone]
  /\ rooms' = LeaveRooms(gone)

(* io.on('connection'): a device whose revocation runs is turned away.     *)
Connection(s, q) ==
  /\ s \notin connected
  /\ ~IsDeviceRevoked(q.deviceId)
  /\ connected' = connected \cup {s}
  /\ query' = [query EXCEPT ![s] = q]
  /\ UNCHANGED <<joined, rooms, roomMetadata, revokedDevices>>

(* The connection closes or its ping times out.                            *)
ConnectionLost(s) ==
  /\ s \in connected
  /\ Disconnect({s})
  /\ UNCHANGED <<roomMetadata, revokedDevices>>

-----------------------------------------------------------------------------
(* Rooms *)

(* Variant: the cleanup timer of a room somebody enters keeps running.     *)
EnterRoom_TimerKept(s, r) ==
  /\ joined' = [joined EXCEPT ![r] = @ \cup {s}]
  /\ rooms' = [rooms EXCEPT ![r] = [exists |-> 1, peers |-> @.peers \cup {s},
                                    timeout |-> @.timeout]]

(* getRoom, clearTimeout_, join and peers.add: the common part of both     *)
(* handlers.                                                               *)
EnterRoom(s, r) ==
  /\ joined' = [joined EXCEPT ![r] = @ \cup {s}]
  /\ rooms' = [rooms EXCEPT ![r] = [exists |-> 1, peers |-> @.peers \cup {s},
                                    timeout |-> 0]]

RegisterRoom(s, code, nonce) ==
  /\ s \in connected
  /\ roomMetadata' = [roomMetadata EXCEPT ![RoomOf(code)] = nonce]
  /\ EnterRoom(s, RoomOf(code))
  /\ UNCHANGED <<connected, query, revokedDevices>>

VerifyCommitment(s, r) ==
  roomMetadata[r] # None /\ query[s].commitment = roomMetadata[r]

(* room_not_ready and invalid_commitment both end the connection.          *)
JoinRoom(s, code) ==
  /\ s \in connected
  /\ IF VerifyCommitment(s, RoomOf(code))
     THEN EnterRoom(s, RoomOf(code)) /\ UNCHANGED <<connected, query>>
     ELSE Disconnect({s})
  /\ UNCHANGED <<roomMetadata, revokedDevices>>

(* The timer that scheduleCleanup armed fires.                             *)
CleanupRoom(r) ==
  /\ rooms[r].timeout = 1
  /\ rooms' = [rooms EXCEPT ![r] = NoRoom]
  /\ roomMetadata' = [roomMetadata EXCEPT ![r] = None]
  /\ UNCHANGED <<connected, query, joined, revokedDevices>>

-----------------------------------------------------------------------------
(* The revocation list *)

(* POST /revoke with a valid authorization: the device's sockets go.       *)
Revoke(d) ==
  /\ revokedDevices' = revokedDevices \cup {d}
  /\ Disconnect({s \in connected : query[s].deviceId = d})
  /\ UNCHANGED roomMetadata

(* 24 hours later; isDeviceRevoked or the hourly interval removes it.      *)
RevocationExpires(d) ==
  /\ d \in revokedDevices
  /\ revokedDevices' = revokedDevices \ {d}
  /\ UNCHANGED <<connected, query, joined, rooms, roomMetadata>>

-----------------------------------------------------------------------------

ServerTypeOK ==
  /\ connected \in SUBSET Sockets
  /\ query \in [Sockets -> Queries]
  /\ joined \in [RoomIds -> SUBSET Sockets]
  /\ rooms \in [RoomIds -> [exists : {0, 1}, peers : SUBSET Sockets, timeout : {0, 1}]]
  /\ roomMetadata \in [RoomIds -> Nonces \cup {None}]
  /\ revokedDevices \in SUBSET Devices

(* The rooms map, the Socket.IO rooms, the metadata, the timers and the    *)
(* open connections agree in every state: a relay reaches exactly the      *)
(* peers that are counted, all of them connected and none of a device      *)
(* whose revocation runs; a room with a peer keeps its metadata and no     *)
(* cleanup timer runs for it; an empty room always has its timer.          *)
RoomsExact ==
  /\ \A r \in RoomIds :
       /\ joined[r] = rooms[r].peers
       /\ joined[r] \in SUBSET connected
       /\ rooms[r].peers # {} => /\ rooms[r].exists = 1
                                 /\ rooms[r].timeout = 0
                                 /\ roomMetadata[r] # None
       /\ rooms[r].exists = 1 /\ rooms[r].peers = {} => rooms[r].timeout = 1
  /\ \A s \in connected : ~IsDeviceRevoked(query[s].deviceId)
=============================================================================
