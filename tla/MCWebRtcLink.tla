---------------------------- MODULE MCWebRtcLink ----------------------------
(* Two sockets of the document, one of the phone, one room, one device.    *)
EXTENDS WebRtcLink

CONSTANTS e1, e2, p1, sas, n1, d1
MCExtSockets == {e1, e2}
MCPhoneSockets == {p1}
MCSockets == {e1, e2, p1}
MCSasCodes == {sas}
MCNonces == {n1}
MCDevices == {d1}
(* A paired phone with the right commitment, and a client without one.     *)
MCPhoneQueries == {[deviceId |-> d1, commitment |-> n1],
                   [deviceId |-> d1, commitment |-> None]}
=============================================================================
