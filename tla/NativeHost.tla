----------------------------- MODULE NativeHost -----------------------------
(***************************************************************************)
(* apps/native-host (Go): the native messaging host that bridges the       *)
(* extension to the phone over USB.  Three kinds of goroutine share one    *)
(* Session:                                                                *)
(*   - the stdin goroutine dispatches one message after the other          *)
(*     (connect, send-payload, disconnect, rekey);                         *)
(*   - the hotplug monitor calls Session.Close when the phone goes away;   *)
(*   - every connect and every rekey starts a read loop; a loop that was   *)
(*     told to stop only notices between two blocking reads.               *)
(*                                                                         *)
(* Session.mu serialises what touches the Session.  connect holds it for   *)
(* the whole key exchange, rekey releases it, and a blocking read never    *)
(* holds it.  FindAccessoryDevice returns phones already in accessory mode *)
(* only, so the negotiation branch of connect is unreachable and connect   *)
(* never releases the mutex.                                               *)
(*                                                                         *)
(* 0 stands for nil; handles, keys and loops are numbered as they are      *)
(* made.  A key is numbered after the exchange that derives it, the        *)
(* SequenceTracker of its crypto session has the same number.              *)
(***************************************************************************)
EXTENDS Integers, Sequences

CONSTANTS
  MaxHandles,    \* bound: USB handles opened
  MaxKeys,       \* bound: key exchanges begun
  MaxLoops,      \* bound: read loops started
  MaxSends,      \* bound: send-payload attempts per key
  MaxData        \* bound: transfers the phone sends per key

ASSUME HostConstants ==
  /\ MaxHandles \in Nat /\ MaxKeys \in Nat /\ MaxLoops \in Nat
  /\ MaxSends \in Nat /\ MaxData \in Nat

Handles == 1..MaxHandles
Keys    == 1..MaxKeys
Loops   == 1..MaxLoops

(* What the phone puts on the bulk IN endpoint: the DevicePK message of a  *)
(* key exchange, or a payload encrypted under a key.                       *)
Transfers == [kind : {"pk", "data"}, key : Keys, seq : Nat]

NoTransfer == [kind |-> "none", key |-> 0, seq |-> 0]

(* The stdin goroutine waits for a message, is in the key exchange of      *)
(* connect or of rekey, waits for the mutex after rekey's exchange         *)
(* succeeded or failed, or is gone.                                        *)
HostStates == {"idle", "connecting", "rekeying", "rekeyed", "refused", "exited"}

VARIABLES
  device, usbRW, connected, cs, readLoop,   \* Session; connected is 0 or 1
  outSeq, inSeq,     \* SequenceTracker of each key
  zeroed,            \* keys overwritten with zeros
  keyRW,             \* handle over which a key was derived, 0: not derived
  badKeys,           \* keys derived from the reply to another exchange
  host,              \* stdin goroutine: see HostStates
  xRW, xKey, xOld,   \* locals of the exchange in progress
  lpc, lstop,        \* program counter of each loop; loops told to stop
  ldev, lcs, lexp,   \* what the loop copied out of the Session
  lgot,              \* the transfer ReadBulk returned
  usb,               \* none, normal, accessory: how the phone enumerates
  openH,             \* handles the host has not closed
  present,           \* handles opened since the phone was plugged in
  pipe,              \* transfers waiting on the IN endpoint
  phReq, phKey, phSeq,    \* phone: exchange to answer, its key, next seq
  wasConnected, closing,  \* hotplug monitor: last poll; Close is due
  broken,            \* 1: a write to stdout has failed
  sent,              \* history: outbound sequence numbers put on the wire
  nAcc,              \* history: number of payloads accepted per key
  nH, nK, nL         \* handles, exchanges and loops so far

sessVars  == <<device, usbRW, connected, cs, readLoop>>
keyVars   == <<outSeq, inSeq, zeroed, keyRW, badKeys>>
stdinVars == <<host, xRW, xKey, xOld>>
loopVars  == <<lpc, lstop, ldev, lcs, lexp, lgot>>
usbVars   == <<usb, openH, present, pipe>>
phoneVars == <<phReq, phKey, phSeq>>
monVars   == <<wasConnected, closing, broken>>
histVars  == <<sent, nAcc>>
allocVars == <<nH, nK, nL>>
vars == <<sessVars, keyVars, stdinVars, loopVars, usbVars, phoneVars, monVars,
          histVars, allocVars>>

Init ==
  /\ device = 0 /\ usbRW = 0 /\ connected = 0 /\ cs = 0 /\ readLoop = 0
  /\ outSeq = [k \in Keys |-> 0]
  /\ inSeq = [k \in Keys |-> 0]
  /\ zeroed = {}
  /\ keyRW = [k \in Keys |-> 0]
  /\ badKeys = {}
  /\ host = "idle" /\ xRW = 0 /\ xKey = 0 /\ xOld = 0
  /\ lpc = [l \in Loops |-> "none"]
  /\ lstop = {}
  /\ ldev = [l \in Loops |-> 0]
  /\ lcs = [l \in Loops |-> 0]
  /\ lexp = [l \in Loops |-> 0]
  /\ lgot = [l \in Loops |-> NoTransfer]
  /\ usb \in {"none", "normal", "accessory"}
  /\ openH = {} /\ present = {} /\ pipe = <<>>
  /\ phReq = 0 /\ phKey = 0 /\ phSeq = 0
  /\ wasConnected = 0 /\ closing = 0 /\ broken = 0
  /\ sent = [k \in Keys |-> <<>>]
  /\ nAcc = [k \in Keys |-> 0]
  /\ nH = 0 /\ nK = 0 /\ nL = 0

(* Session.mu is free whenever no atomic step of the model runs, except    *)
(* while connect waits for the phone's half of the key exchange.           *)
MutexFree == host # "connecting"

(* Transfers on a handle work while it is open and its phone is plugged.   *)
Live(h) == h \in openH /\ h \in present

-----------------------------------------------------------------------------
(* Session.Close *)

CloseLocked ==
  /\ lstop' = (lstop \cup {readLoop}) \ {0}
  /\ readLoop' = 0
  /\ zeroed' = (zeroed \cup {cs}) \ {0}
  /\ outSeq' = [k \in Keys |-> IF k = cs THEN 0 ELSE outSeq[k]]
  /\ inSeq' = [k \in Keys |-> IF k = cs THEN 0 ELSE inSeq[k]]
  /\ cs' = 0
  /\ openH' = openH \ {device}
  /\ device' = 0
  /\ usbRW' = 0
  /\ connected' = 0

Disconnect ==
  /\ host = "idle"
  /\ CloseLocked
  /\ UNCHANGED <<keyRW, badKeys, stdinVars, lpc, ldev, lcs, lexp, lgot, usb,
                 present, pipe, phoneVars, monVars, histVars, allocVars>>

(* A signal, the end of stdin, a message that does not parse or a response *)
(* that stdout does not take: run() closes the session and the process     *)
(* ends, its goroutines with it.                                           *)
Exit ==
  /\ host \in {"idle", "rekeying"}
  /\ CloseLocked
  /\ host' = "exited"
  /\ lpc' = [l \in Loops |-> IF lpc[l] = "none" THEN "none" ELSE "done"]
  /\ UNCHANGED <<keyRW, badKeys, xRW, xKey, xOld, ldev, lcs, lexp, lgot, usb,
                 present, pipe, phoneVars, monVars, histVars, allocVars>>

-----------------------------------------------------------------------------
(* Key exchange: the host's public key goes out, the next transfer on the  *)
(* IN endpoint is taken for the phone's.                                   *)

(* startReadLoop: a new loop, whatever  readLoop  held before.             *)
StartReadLoop ==
  /\ nL' = nL + 1
  /\ readLoop' = nL + 1
  /\ lpc' = [lpc EXCEPT ![nL + 1] = "top"]

BeginExchange(h, delivered) ==
  /\ nK < MaxKeys
  /\ nL < MaxLoops
  /\ nK' = nK + 1
  /\ xKey' = nK + 1
  /\ xRW' = h
  /\ xOld' = cs
  /\ phReq' = IF delivered THEN nK + 1 ELSE phReq

(* The reply in front of the pipe need not answer this exchange: it may be *)
(* the late answer to an earlier one, and then the two ends derive         *)
(* different keys.                                                         *)
ExchangeOk ==
  /\ Live(xRW)
  /\ pipe # <<>>
  /\ Head(pipe).kind = "pk"
  /\ pipe' = Tail(pipe)
  /\ keyRW' = [keyRW EXCEPT ![xKey] = xRW]
  /\ badKeys' = IF Head(pipe).key = xKey THEN badKeys ELSE badKeys \cup {xKey}

(* A write fails, nothing arrives in time, or what arrives is no DevicePK. *)
(* A transfer that was read is gone either way.                            *)
ExchangeFailed ==
  \/ pipe' = pipe
  \/ /\ Live(xRW)
     /\ pipe # <<>>
     /\ pipe' = Tail(pipe)

-----------------------------------------------------------------------------
(* connect *)

ConnectOpen ==
  /\ host = "idle"
  /\ connected = 0
  /\ usb = "accessory"
  /\ nH < MaxHandles
  /\ nH' = nH + 1
  /\ openH' = openH \cup {nH + 1}
  /\ present' = present \cup {nH + 1}
  /\ usbRW' = nH + 1
  /\ device' = nH + 1
  /\ connected' = 1
  /\ BeginExchange(nH + 1, TRUE)
  /\ host' = "connecting"
  /\ UNCHANGED <<cs, readLoop, keyVars, loopVars, usb, pipe, phKey, phSeq,
                 monVars, histVars, nL>>

ConnectOk ==
  /\ host = "connecting"
  /\ ExchangeOk
  /\ host' = "idle"
  /\ cs' = xKey
  /\ StartReadLoop
  /\ UNCHANGED <<device, usbRW, connected, outSeq, inSeq, zeroed, xRW, xKey,
                 xOld, lstop, ldev, lcs, lexp, lgot, usb, openH, present,
                 phoneVars, monVars, histVars, nH, nK>>

(* Variant: the failed connect leaves the flag set.                        *)
ConnectFail_KeepConnected ==
  /\ host = "connecting"
  /\ ExchangeFailed
  /\ host' = "idle"
  /\ device' = 0
  /\ usbRW' = 0
  /\ openH' = openH \ {xRW}
  /\ UNCHANGED <<connected, cs, readLoop, keyVars, xRW, xKey, xOld, loopVars,
                 usb, present, phoneVars, monVars, histVars, allocVars>>

ConnectFail ==
  /\ host = "connecting"
  /\ ExchangeFailed
  /\ host' = "idle"
  /\ device' = 0
  /\ connected' = 0
  /\ usbRW' = 0
  /\ openH' = openH \ {xRW}
  /\ UNCHANGED <<cs, readLoop, keyVars, xRW, xKey, xOld, loopVars, usb,
                 present, phoneVars, monVars, histVars, allocVars>>

-----------------------------------------------------------------------------
(* send-payload *)

SendReady ==
  /\ host = "idle"
  /\ connected = 1 /\ device # 0
  /\ cs # 0 /\ cs \notin zeroed
  /\ Len(sent[cs]) < MaxSends

SendOk ==
  /\ SendReady
  /\ Live(device)
  /\ sent' = [sent EXCEPT ![cs] = Append(@, outSeq[cs])]
  /\ outSeq' = [outSeq EXCEPT ![cs] = @ + 1]
  /\ UNCHANGED <<sessVars, inSeq, zeroed, keyRW, badKeys, stdinVars, loopVars,
                 usbVars, phoneVars, monVars, nAcc, allocVars>>

(* Variant: the number is taken back by decrementing, although the failed  *)
(* write never counted it.                                                 *)
SendTimedOut_Decrement ==
  /\ SendReady
  /\ Live(device)
  /\ sent' = [sent EXCEPT ![cs] = Append(@, outSeq[cs])]
  /\ outSeq' = [outSeq EXCEPT ![cs] = @ - 1]
  /\ UNCHANGED <<sessVars, inSeq, zeroed, keyRW, badKeys, stdinVars, loopVars,
                 usbVars, phoneVars, monVars, nAcc, allocVars>>

(* The write reports an error and RevertOutbound takes the number back.    *)
(* After a timeout the transfer may have reached the phone all the same.   *)
SendTimedOut ==
  /\ SendReady
  /\ Live(device)
  /\ sent' = [sent EXCEPT ![cs] = Append(@, outSeq[cs])]
  /\ UNCHANGED <<sessVars, keyVars, stdinVars, loopVars, usbVars, phoneVars,
                 monVars, nAcc, allocVars>>

Send == SendOk \/ SendTimedOut

-----------------------------------------------------------------------------
(* rekey *)

RekeyBegin ==
  /\ host = "idle"
  /\ cs # 0
  /\ device # 0 /\ usbRW # 0
  /\ lstop' = (lstop \cup {readLoop}) \ {0}
  /\ readLoop' = 0
  /\ BeginExchange(usbRW, Live(usbRW))
  /\ host' = "rekeying"
  /\ UNCHANGED <<device, usbRW, connected, cs, keyVars, lpc, ldev, lcs, lexp,
                 lgot, usbVars, phKey, phSeq, monVars, histVars, nH, nL>>

(* The exchange runs without the mutex; Close and the old read loop may    *)
(* run before, during and after it.                                        *)
RekeyExchange ==
  /\ host = "rekeying"
  /\ \/ ExchangeOk /\ host' = "rekeyed"
     \/ ExchangeFailed /\ host' = "refused" /\ UNCHANGED <<keyRW, badKeys>>
  /\ UNCHANGED <<sessVars, outSeq, inSeq, zeroed, xRW, xKey, xOld, loopVars,
                 usb, openH, present, phoneVars, monVars, histVars, allocVars>>

(* The exchange succeeded on the Session's own endpoints.                  *)
RekeyOk ==
  /\ host = "rekeyed"
  /\ usbRW = xRW
  /\ host' = "idle"
  /\ cs' = xKey
  /\ zeroed' = zeroed \cup {xOld}
  /\ outSeq' = [outSeq EXCEPT ![xOld] = 0]
  /\ inSeq' = [inSeq EXCEPT ![xOld] = 0]
  /\ StartReadLoop
  /\ UNCHANGED <<device, usbRW, connected, keyRW, badKeys, xRW, xKey, xOld,
                 lstop, ldev, lcs, lexp, lgot, usbVars, phoneVars, monVars,
                 histVars, nH, nK>>

(* Variant: the endpoints are not compared after the exchange.             *)
RekeySwapped_NoCheck ==
  /\ host = "rekeyed"
  /\ usbRW # xRW
  /\ host' = "idle"
  /\ cs' = xKey
  /\ StartReadLoop
  /\ UNCHANGED <<device, usbRW, connected, keyVars, xRW, xKey, xOld, lstop,
                 ldev, lcs, lexp, lgot, usbVars, phoneVars, monVars, histVars,
                 nH, nK>>

(* The session was closed while the exchange completed: the new key is     *)
(* zeroed and a loop is started all the same.                              *)
RekeySwapped ==
  /\ host = "rekeyed"
  /\ usbRW # xRW
  /\ host' = "idle"
  /\ zeroed' = zeroed \cup {xKey}
  /\ StartReadLoop
  /\ UNCHANGED <<device, usbRW, connected, cs, outSeq, inSeq, keyRW, badKeys,
                 xRW, xKey, xOld, lstop, ldev, lcs, lexp, lgot, usbVars,
                 phoneVars, monVars, histVars, nH, nK>>

(* Variant: the failed rekey does not restart the read loop.               *)
RekeyFail_NoRestart ==
  /\ host = "refused"
  /\ host' = "idle"
  /\ UNCHANGED <<sessVars, keyVars, xRW, xKey, xOld, loopVars, usbVars,
                 phoneVars, monVars, histVars, allocVars>>

(* flushUsbEndpoint reads once, and a stopped loop may get the transfer    *)
(* instead.                                                                *)
RekeyFail ==
  /\ host = "refused"
  /\ host' = "idle"
  /\ IF usbRW = xRW /\ device # 0
     THEN ExchangeFailed /\ StartReadLoop
     ELSE UNCHANGED <<pipe, nL, readLoop, lpc>>
  /\ UNCHANGED <<device, usbRW, connected, cs, keyVars, xRW, xKey, xOld,
                 lstop, ldev, lcs, lexp, lgot, usb, openH, present, phoneVars,
                 monVars, histVars, nH, nK>>

-----------------------------------------------------------------------------
(* ReadLoop.poll *)

(* The locals of an iteration end with it.                                 *)
EndIteration(l, pc) ==
  /\ lpc' = [lpc EXCEPT ![l] = pc]
  /\ ldev' = [ldev EXCEPT ![l] = 0]
  /\ lcs' = [lcs EXCEPT ![l] = 0]
  /\ lexp' = [lexp EXCEPT ![l] = 0]
  /\ lgot' = [lgot EXCEPT ![l] = NoTransfer]

(* What the loop has to report goes to stdout; a write that fails ends it. *)
Report(l) ==
  /\ \/ broken = 0 /\ EndIteration(l, "top") /\ broken' = 0
     \/ EndIteration(l, "done") /\ broken' = 1
  /\ UNCHANGED <<wasConnected, closing>>

(* The context is only looked at between two reads.                        *)
LoopStop(l) ==
  /\ lpc[l] = "top"
  /\ l \in lstop
  /\ lpc' = [lpc EXCEPT ![l] = "done"]
  /\ UNCHANGED <<sessVars, keyVars, stdinVars, lstop, ldev, lcs, lexp, lgot,
                 usbVars, phoneVars, monVars, histVars, allocVars>>

(* Variant: a stopped loop may go on.                                      *)
LoopCheck_IgnoreStop(l) ==
  /\ lpc[l] = "top"
  /\ lpc' = [lpc EXCEPT ![l] = "locking"]
  /\ UNCHANGED <<sessVars, keyVars, stdinVars, lstop, ldev, lcs, lexp, lgot,
                 usbVars, phoneVars, monVars, histVars, allocVars>>

(* Not told to stop, the loop asks for the mutex; it may be told to while  *)
(* it waits.                                                               *)
LoopCheck(l) ==
  /\ lpc[l] = "top"
  /\ l \notin lstop
  /\ lpc' = [lpc EXCEPT ![l] = "locking"]
  /\ UNCHANGED <<sessVars, keyVars, stdinVars, lstop, ldev, lcs, lexp, lgot,
                 usbVars, phoneVars, monVars, histVars, allocVars>>

(* The loop copies device, key and sequence tracker under the mutex.       *)
LoopSnapshot(l) ==
  /\ lpc[l] = "locking"
  /\ MutexFree
  /\ device # 0
  /\ lpc' = [lpc EXCEPT ![l] = "read"]
  /\ ldev' = [ldev EXCEPT ![l] = device]
  /\ lcs' = [lcs EXCEPT ![l] = cs]
  /\ lexp' = [lexp EXCEPT ![l] = inSeq[cs]]
  /\ UNCHANGED <<sessVars, keyVars, stdinVars, lstop, lgot, usbVars, phoneVars,
                 monVars, histVars, allocVars>>

(* Without a device it sleeps and starts over.                             *)
LoopNoDevice(l) ==
  /\ lpc[l] = "locking"
  /\ MutexFree
  /\ device = 0
  /\ lpc' = [lpc EXCEPT ![l] = "top"]
  /\ UNCHANGED <<sessVars, keyVars, stdinVars, lstop, ldev, lcs, lexp, lgot,
                 usbVars, phoneVars, monVars, histVars, allocVars>>

LoopRead(l) ==
  /\ lpc[l] = "read"
  /\ Live(ldev[l])
  /\ pipe # <<>>
  /\ lpc' = [lpc EXCEPT ![l] = "got"]
  /\ lgot' = [lgot EXCEPT ![l] = Head(pipe)]
  /\ pipe' = Tail(pipe)
  /\ UNCHANGED <<sessVars, keyVars, stdinVars, lstop, ldev, lcs, lexp, usb,
                 openH, present, phoneVars, monVars, histVars, allocVars>>

(* A timeout, an empty read or an error that is not a disconnect.          *)
LoopRetry(l) ==
  /\ lpc[l] = "read"
  /\ EndIteration(l, "top")
  /\ UNCHANGED <<sessVars, keyVars, stdinVars, lstop, usbVars, phoneVars,
                 monVars, histVars, allocVars>>

(* The endpoint reports that the device is gone ...                        *)
LoopGone(l) ==
  /\ lpc[l] = "read"
  /\ ~Live(ldev[l])
  /\ lpc' = [lpc EXCEPT ![l] = "gone"]
  /\ UNCHANGED <<sessVars, keyVars, stdinVars, lstop, ldev, lcs, lexp, lgot,
                 usbVars, phoneVars, monVars, histVars, allocVars>>

(* ... and the loop marks the Session, whichever device it has by now.     *)
LoopMarkDisconnected(l) ==
  /\ lpc[l] = "gone"
  /\ MutexFree
  /\ connected' = 0
  /\ device' = 0
  /\ EndIteration(l, "done")
  /\ UNCHANGED <<usbRW, cs, readLoop, keyVars, stdinVars, lstop, usbVars,
                 phoneVars, monVars, histVars, allocVars>>

(* Variant: a payload ahead of the expected number is accepted.            *)
Decrypts_AcceptGap(l) ==
  /\ lgot[l].kind = "data"
  /\ lgot[l].seq >= lexp[l]
  /\ lgot[l].key = lcs[l] /\ lcs[l] \notin badKeys

(* Decrypt: strict on the number, then on the key.                         *)
Decrypts(l) ==
  /\ lgot[l].kind = "data"
  /\ lgot[l].seq = lexp[l]
  /\ lgot[l].key = lcs[l] /\ lcs[l] \notin badKeys

(* The tracker that advances is the crypto session's own, not the copy.    *)
LoopAccept(l) ==
  /\ lpc[l] = "got"
  /\ Decrypts(l)
  /\ inSeq' = [inSeq EXCEPT ![lcs[l]] = @ + 1]
  /\ nAcc' = [nAcc EXCEPT ![lcs[l]] = @ + 1]
  /\ Report(l)
  /\ UNCHANGED <<sessVars, outSeq, zeroed, keyRW, badKeys, stdinVars, lstop,
                 usbVars, phoneVars, sent, allocVars>>

(* A gap, a replay or a failed authentication is reported and dropped.     *)
LoopReject(l) ==
  /\ lpc[l] = "got"
  /\ ~Decrypts(l)
  /\ Report(l)
  /\ UNCHANGED <<sessVars, keyVars, stdinVars, lstop, usbVars, phoneVars,
                 histVars, allocVars>>

Loop(l) ==
  \/ LoopStop(l) \/ LoopCheck(l) \/ LoopSnapshot(l) \/ LoopNoDevice(l)
  \/ LoopRead(l) \/ LoopRetry(l) \/ LoopGone(l) \/ LoopMarkDisconnected(l)
  \/ LoopAccept(l) \/ LoopReject(l)

-----------------------------------------------------------------------------
(* The hotplug monitor: a poll sees the phone missing, and Close follows   *)
(* when the mutex is free; the phone may be back by then.                  *)

MonitorPoll ==
  /\ host # "exited"
  /\ closing = 0
  /\ wasConnected' = IF usb = "accessory" THEN 1 ELSE 0
  /\ closing' = IF usb # "accessory" /\ wasConnected = 1 THEN 1 ELSE 0
  /\ UNCHANGED <<broken, sessVars, keyVars, stdinVars, loopVars, usbVars, phoneVars,
                 histVars, allocVars>>

MonitorClose ==
  /\ host # "exited"
  /\ closing = 1
  /\ MutexFree
  /\ closing' = 0
  /\ CloseLocked
  /\ UNCHANGED <<keyRW, badKeys, stdinVars, lpc, ldev, lcs, lexp, lgot, usb,
                 present, pipe, phoneVars, wasConnected, broken, histVars,
                 allocVars>>

-----------------------------------------------------------------------------
(* The phone and the cable *)

Unplug ==
  /\ host # "exited"
  /\ usb # "none"
  /\ usb' = "none"
  /\ present' = {}
  /\ pipe' = <<>>
  /\ phReq' = 0 /\ phKey' = 0 /\ phSeq' = 0
  /\ UNCHANGED <<sessVars, keyVars, stdinVars, loopVars, openH, monVars,
                 histVars, allocVars>>

Plug ==
  /\ host # "exited"
  /\ usb = "none"
  /\ usb' \in {"normal", "accessory"}
  /\ UNCHANGED <<sessVars, keyVars, stdinVars, loopVars, openH, present, pipe,
                 phoneVars, monVars, histVars, allocVars>>

PhoneReply ==
  /\ host # "exited"
  /\ phReq # 0
  /\ pipe' = Append(pipe, [kind |-> "pk", key |-> phReq, seq |-> 0])
  /\ phKey' = phReq
  /\ phSeq' = 0
  /\ phReq' = 0
  /\ UNCHANGED <<sessVars, keyVars, stdinVars, loopVars, usb, openH, present,
                 monVars, histVars, allocVars>>

PhoneSend ==
  /\ host # "exited"
  /\ phKey # 0
  /\ phSeq < MaxData
  /\ pipe' = Append(pipe, [kind |-> "data", key |-> phKey, seq |-> phSeq])
  /\ phSeq' = phSeq + 1
  /\ UNCHANGED <<sessVars, keyVars, stdinVars, loopVars, usb, openH, present,
                 phReq, phKey, monVars, histVars, allocVars>>

-----------------------------------------------------------------------------

Stdin ==
  \/ ConnectOpen \/ ConnectOk \/ ConnectFail
  \/ Send \/ Disconnect
  \/ RekeyBegin \/ RekeyExchange \/ RekeyOk \/ RekeySwapped \/ RekeyFail
  \/ Exit

Monitor == MonitorPoll \/ MonitorClose

Phone == Unplug \/ Plug \/ PhoneReply \/ PhoneSend

Next ==
  \/ Stdin
  \/ \E l \in Loops : Loop(l)
  \/ Monitor
  \/ Phone

Spec == Init /\ [][Next]_vars

(* Every goroutine the Go scheduler can run does run, a blocking read or   *)
(* exchange ends by its timeout, and a waiter gets the mutex when it is    *)
(* free again and again.  Nothing is assumed of the user, the phone or the *)
(* messages that arrive on stdin.                                          *)
Fairness == WF_vars(ConnectOk \/ ConnectFail) /\ \A l \in Loops : SF_vars(Loop(l))

FairSpec == Spec /\ Fairness

-----------------------------------------------------------------------------

SessTypes ==
  /\ device \in 0..MaxHandles /\ usbRW \in 0..MaxHandles
  /\ connected \in {0, 1}
  /\ cs \in 0..MaxKeys
  /\ readLoop \in 0..MaxLoops

KeyTypes ==
  /\ outSeq \in [Keys -> Nat] /\ inSeq \in [Keys -> Nat]
  /\ zeroed \in SUBSET Keys /\ badKeys \in SUBSET Keys
  /\ keyRW \in [Keys -> 0..MaxHandles]

StdinTypes ==
  /\ host \in HostStates
  /\ xRW \in 0..MaxHandles /\ xKey \in 0..MaxKeys /\ xOld \in 0..MaxKeys

LoopStates == {"none", "top", "locking", "read", "got", "gone", "done"}

LoopTypes ==
  /\ lpc \in [Loops -> LoopStates]
  /\ lstop \in SUBSET Loops
  /\ ldev \in [Loops -> 0..MaxHandles] /\ lcs \in [Loops -> 0..MaxKeys]
  /\ lexp \in [Loops -> Nat]
  /\ lgot \in [Loops -> Transfers \cup {NoTransfer}]

UsbTypes ==
  /\ usb \in {"none", "normal", "accessory"}
  /\ openH \in SUBSET Handles /\ present \in SUBSET Handles
  /\ pipe \in Seq(Transfers)

PhoneTypes == phReq \in 0..MaxKeys /\ phKey \in 0..MaxKeys /\ phSeq \in Nat

MonTypes == wasConnected \in {0, 1} /\ closing \in {0, 1} /\ broken \in {0, 1}

HistTypes == sent \in [Keys -> Seq(Nat)] /\ nAcc \in [Keys -> Nat]

AllocTypes == nH \in 0..MaxHandles /\ nK \in 0..MaxKeys /\ nL \in 0..MaxLoops

TypeOK ==
  /\ SessTypes /\ KeyTypes /\ StdinTypes /\ LoopTypes /\ UsbTypes
  /\ PhoneTypes /\ MonTypes /\ HistTypes /\ AllocTypes

(* Session consistency: whenever the mutex is free and the Session says    *)
(* connected, it has an open device, the endpoints are that device's, and  *)
(* its key was derived over those endpoints and is intact.  Four           *)
(* goroutines change these fields, some of them only a few at a time, and  *)
(* send-payload trusts the combination.                                    *)
SessionConsistent ==
  MutexFree /\ connected = 1 =>
    /\ device # 0 /\ device \in openH
    /\ usbRW = device
    /\ cs # 0 /\ cs \notin zeroed
    /\ keyRW[cs] = device

(* A connected Session is being read: unless a message is in progress on   *)
(* the stdin goroutine, its read loop runs and was not told to stop,       *)
(* whatever a stale loop, a failed rekey or a close during rekey did, as   *)
(* long as stdout takes what the loop reports.                             *)
ReaderAlive ==
  connected = 1 /\ host = "idle" /\ broken = 0 =>
    /\ readLoop # 0 /\ readLoop \notin lstop
    /\ lpc[readLoop] \notin {"none", "done"}

(* A closed session stays closed: only a connect gives the Session a key   *)
(* when it has none, never the tail of a rekey that Close overtook.        *)
NoResurrection ==
  [][cs = 0 /\ cs' # 0 => connected' = 1 /\ usbRW' = device' /\ device' # 0]_vars

(* Payloads of a key are accepted in the phone's order without a hole,     *)
(* although several loops may be reading with copies of the tracker.       *)
AcceptedInOrder ==
  [][\A l \in Loops : LoopAccept(l) => lgot[l].seq = nAcc[lcs[l]]]_vars

(* A loop that was told to stop ends, even one blocked in a read, or that  *)
(* passed its check before and waits for the mutex of a connect.  (Nothing *)
(* takes back what a loop was told, and an ended loop does not go on.)     *)
StoppedLoopsEnd ==
  \A l \in Loops : []<>(l \in lstop => lpc[l] = "done")

(* The code's comment on rotation, "eliminating nonce reuse concerns", and *)
(* the spec's "monotonic" sequence numbers: no number is put on the wire   *)
(* twice under one key.                                                    *)
NonceUnique ==
  \A k \in Keys : \A i, j \in 1..Len(sent[k]) : i < j => sent[k][i] < sent[k][j]

=============================================================================
