-------------------------- MODULE NativeHostProofs --------------------------
(***************************************************************************)
(* Proofs about NativeHost: for any number of handles, keys, loops and     *)
(* transfers, a connected Session is consistent and is being read, and a   *)
(* closed one does not come back.                                          *)
(***************************************************************************)
EXTENDS NativeHost, TLAPS

(* The inductive invariant *)

(* Device, endpoints and flag agree, even under the mutex of connect.      *)
ConnInv ==
  /\ connected = 1 <=> device # 0
  /\ device # 0 => usbRW = device /\ device \in openH

(* The Session's key is intact and, once connect is through, was derived   *)
(* over the Session's device; keys not yet made are untouched.             *)
KeyInv ==
  /\ cs <= nK
  /\ cs # 0 => cs \notin zeroed
  /\ \A k \in Keys : k > nK => k \notin zeroed
  /\ device # 0 /\ MutexFree => cs # 0 /\ keyRW[cs] = device

(* While an exchange runs its key is fresh.  During a rekey the Session    *)
(* keeps the endpoints and the key rekey started from, or was closed.      *)
ExchangeInv ==
  /\ host \notin {"idle", "exited"} =>
       xKey = nK /\ xKey # 0 /\ nL < MaxLoops /\ cs # xKey /\ xKey \notin zeroed
  /\ host = "connecting" => xRW = device /\ device # 0
  /\ host \in {"rekeying", "rekeyed", "refused"} =>
       /\ xRW # 0 /\ xOld # 0 /\ xOld # xKey
       /\ \/ usbRW = xRW /\ cs = xOld
          \/ usbRW = 0 /\ cs = 0 /\ device = 0
  /\ host = "rekeyed" => keyRW[xKey] = xRW

(* The Session's loop is never one that was told to stop, and it runs.     *)
LoopInv ==
  /\ readLoop <= nL
  /\ \A l \in Loops : l > nL => l \notin lstop
  /\ readLoop # 0 => readLoop \notin lstop
  /\ connected = 1 /\ host = "idle" /\ broken = 0 =>
       readLoop # 0 /\ lpc[readLoop] # "none" /\ lpc[readLoop] # "done"

(* The types these facts rest on.                                          *)
CoreTypes ==
  /\ SessTypes /\ StdinTypes /\ AllocTypes
  /\ keyRW \in [Keys -> 0..MaxHandles]
  /\ lpc \in [Loops -> LoopStates]

IInv == CoreTypes /\ ConnInv /\ KeyInv /\ ExchangeInv /\ LoopInv

LEMMA InitInv == Init => IInv
<1> SUFFICES ASSUME Init PROVE IInv
  OBVIOUS
<1> USE HostConstants DEF Init
<1>1. CoreTypes
  BY DEF CoreTypes, SessTypes, StdinTypes, AllocTypes, HostStates, LoopStates, Keys, Loops
<1>2. ConnInv /\ KeyInv /\ ExchangeInv /\ LoopInv
  BY DEF ConnInv, KeyInv, ExchangeInv, LoopInv
<1>3. QED
  BY <1>1, <1>2 DEF IInv

(* What the invariant reads, apart from lpc.                               *)
coreVars == <<sessVars, zeroed, keyRW, stdinVars, lstop, openH, nK, nL, nH>>

(* A step that leaves all of it alone.                                     *)
LEMMA CoreFrame == ASSUME IInv, UNCHANGED <<coreVars, lpc, broken>> PROVE IInv'
<1>1. /\ sessVars' = sessVars /\ stdinVars' = stdinVars /\ zeroed' = zeroed
      /\ keyRW' = keyRW /\ lstop' = lstop /\ openH' = openH /\ lpc' = lpc
      /\ broken' = broken
      /\ nK' = nK /\ nL' = nL /\ nH' = nH
  BY DEF coreVars
<1>2. CoreTypes'
  BY <1>1 DEF IInv, CoreTypes, SessTypes, StdinTypes, AllocTypes, sessVars, stdinVars
<1>3. ConnInv' /\ KeyInv'
  BY <1>1 DEF IInv, ConnInv, KeyInv, MutexFree, sessVars, stdinVars
<1>4. ExchangeInv' /\ LoopInv'
  BY <1>1 DEF IInv, ExchangeInv, LoopInv, sessVars, stdinVars
<1>5. QED
  BY <1>2, <1>3, <1>4 DEF IInv

(* A read loop moves, and ends only if it was told to stop or stdout is    *)
(* broken.                                                                 *)
LEMMA LoopFrame ==
  ASSUME IInv, UNCHANGED coreVars, NEW l \in Loops,
         NEW pc \in LoopStates \ {"none"},
         pc = "done" => l \in lstop \/ broken' # 0, broken' = 0 => broken = 0,
         lpc' = [lpc EXCEPT ![l] = pc]
  PROVE  IInv'
<1>1. /\ sessVars' = sessVars /\ stdinVars' = stdinVars /\ zeroed' = zeroed
      /\ keyRW' = keyRW /\ lstop' = lstop /\ openH' = openH
      /\ nK' = nK /\ nL' = nL /\ nH' = nH
  BY DEF coreVars
<1>2. CoreTypes'
  BY <1>1 DEF IInv, CoreTypes, SessTypes, StdinTypes, AllocTypes, sessVars, stdinVars
<1>3. ConnInv' /\ KeyInv'
  BY <1>1 DEF IInv, ConnInv, KeyInv, MutexFree, sessVars, stdinVars
<1>4. ExchangeInv'
  BY <1>1 DEF IInv, ExchangeInv, sessVars, stdinVars
<1>5. LoopInv'
  <2>1. \A m \in Loops : lpc'[m] = IF m = l THEN pc ELSE lpc[m]
    BY DEF IInv, CoreTypes
  <2>2. readLoop # 0 => readLoop \in Loops
    BY DEF IInv, CoreTypes, SessTypes, Loops
  <2>3. QED
    BY <1>1, <2>1, <2>2 DEF IInv, LoopInv, sessVars, stdinVars
<1>6. QED
  BY <1>2, <1>3, <1>4, <1>5 DEF IInv

(* Session.Close, from whichever goroutine.                                *)
LEMMA CloseFrame ==
  ASSUME IInv, CloseLocked, host # "connecting",
         host' = host \/ host' = "exited",
         UNCHANGED <<keyRW, xRW, xKey, xOld, nH, nK, nL>>,
         lpc' \in [Loops -> LoopStates]
  PROVE  IInv'
<1>1. /\ device' = 0 /\ usbRW' = 0 /\ connected' = 0 /\ cs' = 0 /\ readLoop' = 0
      /\ zeroed' = (zeroed \cup {cs}) \ {0} /\ lstop' = (lstop \cup {readLoop}) \ {0}
  BY DEF CloseLocked
<1>2. CoreTypes'
  BY <1>1, HostConstants DEF IInv, CoreTypes, SessTypes, StdinTypes,
     AllocTypes, HostStates
<1>3. ConnInv'
  BY <1>1 DEF ConnInv
<1>4. KeyInv'
  BY <1>1 DEF IInv, KeyInv, CoreTypes, SessTypes, AllocTypes, Keys
<1>5. ExchangeInv'
  BY <1>1 DEF IInv, ExchangeInv
<1>6. LoopInv'
  BY <1>1 DEF IInv, LoopInv, CoreTypes, SessTypes, AllocTypes, Loops
<1>7. QED
  BY <1>2, <1>3, <1>4, <1>5, <1>6 DEF IInv

(* A fresh loop becomes the Session's.                                     *)
LEMMA FreshLoop ==
  ASSUME CoreTypes, LoopInv, nL < MaxLoops, StartReadLoop, lstop' = lstop
  PROVE  LoopInv' /\ nL' \in 0..MaxLoops /\ readLoop' \in 0..MaxLoops
         /\ lpc' \in [Loops -> LoopStates]
<1>1. nL + 1 \in Loops /\ nL \in Nat /\ nL' = nL + 1 /\ readLoop' = nL + 1
  BY HostConstants DEF CoreTypes, AllocTypes, Loops, StartReadLoop
<1>2. lpc' = [lpc EXCEPT ![nL + 1] = "top"]
  BY DEF StartReadLoop
<1>3. /\ lpc'[nL + 1] = "top"
      /\ lpc' \in [Loops -> LoopStates]
  BY <1>1, <1>2 DEF CoreTypes, LoopStates
<1>4. LoopInv'
  <2>1. nL + 1 \notin lstop
    BY <1>1 DEF LoopInv
  <2>2. \A l \in Loops : l > nL' => l \notin lstop
    BY <1>1 DEF LoopInv, Loops
  <2>3. readLoop' <= nL' /\ readLoop' \notin lstop
    BY <1>1, <2>1
  <2>4. lpc'[readLoop'] = "top"
    BY <1>1, <1>3
  <2>5. QED
    BY <1>1, <2>2, <2>3, <2>4 DEF LoopInv
<1>5. QED
  BY <1>1, <1>3, <1>4, HostConstants DEF Loops

LEMMA StepConnectOpen == ASSUME IInv, ConnectOpen PROVE IInv'
<1>1. /\ host = "idle" /\ connected = 0 /\ nH < MaxHandles /\ nK < MaxKeys
      /\ nL < MaxLoops
      /\ nH' = nH + 1 /\ usbRW' = nH + 1 /\ device' = nH + 1 /\ xRW' = nH + 1
      /\ nK' = nK + 1 /\ xKey' = nK + 1 /\ xOld' = cs
      /\ connected' = 1 /\ host' = "connecting"
      /\ openH' = openH \cup {nH + 1}
      /\ cs' = cs /\ readLoop' = readLoop /\ nL' = nL
  BY DEF ConnectOpen, BeginExchange
<1>2. keyRW' = keyRW /\ zeroed' = zeroed /\ lpc' = lpc /\ lstop' = lstop
  BY DEF ConnectOpen, keyVars, loopVars
<1>3. CoreTypes'
  <2>1. nH + 1 \in 0..MaxHandles /\ nK + 1 \in 0..MaxKeys
    BY <1>1, HostConstants DEF IInv, CoreTypes, AllocTypes
  <2>2. SessTypes' /\ StdinTypes' /\ AllocTypes'
    BY <1>1, <2>1 DEF IInv, CoreTypes, SessTypes, StdinTypes, AllocTypes, HostStates
  <2>3. QED
    BY <1>2, <2>2 DEF IInv, CoreTypes
<1>4. ConnInv'
  BY <1>1 DEF IInv, CoreTypes, AllocTypes, ConnInv
<1>5. KeyInv'
  BY <1>1, <1>2 DEF IInv, CoreTypes, SessTypes, AllocTypes, KeyInv, MutexFree, Keys
<1>6. ExchangeInv'
  <2>1. nK + 1 \in Keys /\ nK + 1 > nK /\ nK \in Nat /\ nH \in Nat
    BY <1>1, HostConstants DEF IInv, CoreTypes, AllocTypes, Keys
  <2>2. nK + 1 \notin zeroed /\ cs # nK + 1
    BY <2>1 DEF IInv, CoreTypes, SessTypes, KeyInv
  <2>3. QED
    BY <1>1, <1>2, <2>1, <2>2 DEF ExchangeInv
<1>7. LoopInv'
  BY <1>1, <1>2 DEF IInv, LoopInv
<1>8. QED
  BY <1>3, <1>4, <1>5, <1>6, <1>7 DEF IInv

LEMMA StepConnectOk == ASSUME IInv, ConnectOk PROVE IInv'
<1>1. /\ host = "connecting" /\ host' = "idle" /\ cs' = xKey
      /\ keyRW' = [keyRW EXCEPT ![xKey] = xRW]
      /\ device' = device /\ usbRW' = usbRW /\ connected' = connected
      /\ xRW' = xRW /\ xKey' = xKey /\ xOld' = xOld /\ nH' = nH /\ nK' = nK
      /\ zeroed' = zeroed /\ lstop' = lstop /\ openH' = openH
      /\ StartReadLoop
  BY DEF ConnectOk, ExchangeOk
<1>2. /\ xKey = nK /\ xKey \in Keys /\ xKey \notin zeroed /\ xRW = device
      /\ device # 0 /\ nL < MaxLoops
  BY <1>1 DEF IInv, ExchangeInv, CoreTypes, StdinTypes, Keys
<1>3. LoopInv' /\ nL' \in 0..MaxLoops /\ readLoop' \in 0..MaxLoops
      /\ lpc' \in [Loops -> LoopStates]
  BY <1>1, <1>2, FreshLoop DEF IInv
<1>4. keyRW' \in [Keys -> 0..MaxHandles] /\ keyRW'[xKey] = xRW
  BY <1>1, <1>2 DEF IInv, CoreTypes, StdinTypes
<1>5. CoreTypes'
  BY <1>1, <1>3, <1>4 DEF IInv, CoreTypes, SessTypes, StdinTypes, AllocTypes, HostStates
<1>6. ConnInv'
  BY <1>1 DEF IInv, ConnInv
<1>7. KeyInv'
  BY <1>1, <1>2, <1>4 DEF IInv, CoreTypes, StdinTypes, KeyInv, Keys
<1>8. ExchangeInv'
  BY <1>1 DEF ExchangeInv
<1>9. QED
  BY <1>3, <1>5, <1>6, <1>7, <1>8 DEF IInv

LEMMA StepConnectFail == ASSUME IInv, ConnectFail PROVE IInv'
<1>1. /\ host' = "idle" /\ device' = 0 /\ connected' = 0 /\ usbRW' = 0
      /\ cs' = cs /\ readLoop' = readLoop /\ xRW' = xRW /\ xKey' = xKey
      /\ xOld' = xOld
  BY DEF ConnectFail
<1>2. /\ keyRW' = keyRW /\ zeroed' = zeroed /\ lpc' = lpc /\ lstop' = lstop
      /\ nH' = nH /\ nK' = nK /\ nL' = nL
  BY DEF ConnectFail, keyVars, loopVars, allocVars
<1>3. CoreTypes'
  BY <1>1, <1>2, HostConstants DEF IInv, CoreTypes, SessTypes, StdinTypes,
     AllocTypes, HostStates
<1>4. ConnInv' /\ ExchangeInv'
  BY <1>1 DEF ConnInv, ExchangeInv
<1>5. KeyInv' /\ LoopInv'
  BY <1>1, <1>2 DEF IInv, KeyInv, LoopInv
<1>6. QED
  BY <1>3, <1>4, <1>5 DEF IInv

LEMMA StepRekeyBegin == ASSUME IInv, RekeyBegin PROVE IInv'
<1>1. /\ host = "idle" /\ host' = "rekeying" /\ cs # 0 /\ device # 0 /\ usbRW # 0
      /\ nK < MaxKeys /\ nL < MaxLoops /\ readLoop' = 0
      /\ lstop' = (lstop \cup {readLoop}) \ {0}
      /\ nK' = nK + 1 /\ xKey' = nK + 1 /\ xRW' = usbRW /\ xOld' = cs
      /\ device' = device /\ usbRW' = usbRW /\ connected' = connected /\ cs' = cs
      /\ nH' = nH /\ nL' = nL /\ lpc' = lpc
  BY DEF RekeyBegin, BeginExchange
<1>2. keyRW' = keyRW /\ zeroed' = zeroed /\ openH' = openH
  BY DEF RekeyBegin, keyVars, usbVars
<1>3. nK + 1 \in Keys /\ nK + 1 > nK /\ nK \in Nat /\ cs <= nK /\ cs \in Nat
  BY <1>1, HostConstants DEF IInv, CoreTypes, SessTypes, AllocTypes, KeyInv, Keys
<1>4. nK + 1 \notin zeroed /\ cs # nK + 1
  BY <1>3 DEF IInv, KeyInv
<1>5. CoreTypes'
  BY <1>1, <1>2, HostConstants DEF IInv, CoreTypes, SessTypes, StdinTypes,
     AllocTypes, HostStates
<1>6. ConnInv'
  BY <1>1, <1>2 DEF IInv, ConnInv
<1>7. KeyInv'
  BY <1>1, <1>2, <1>3 DEF IInv, KeyInv, MutexFree, Keys
<1>8. ExchangeInv'
  BY <1>1, <1>2, <1>3, <1>4 DEF ExchangeInv
<1>9. LoopInv'
  BY <1>1 DEF IInv, LoopInv, CoreTypes, SessTypes, AllocTypes, Loops
<1>10. QED
  BY <1>5, <1>6, <1>7, <1>8, <1>9 DEF IInv

LEMMA StepRekeyExchange == ASSUME IInv, RekeyExchange PROVE IInv'
<1>1. /\ host = "rekeying" /\ sessVars' = sessVars /\ zeroed' = zeroed
      /\ xRW' = xRW /\ xKey' = xKey /\ xOld' = xOld /\ loopVars' = loopVars
      /\ openH' = openH /\ allocVars' = allocVars
  BY DEF RekeyExchange
<1>2. \/ host' = "rekeyed" /\ keyRW' = [keyRW EXCEPT ![xKey] = xRW]
      \/ host' = "refused" /\ keyRW' = keyRW
  BY DEF RekeyExchange, ExchangeOk
<1>3. /\ xKey \in Keys /\ xKey = nK /\ cs # xKey
      /\ keyRW' \in [Keys -> 0..MaxHandles]
      /\ host' = "rekeyed" => keyRW'[xKey] = xRW
      /\ cs # 0 => keyRW'[cs] = keyRW[cs]
  <2>1. xKey \in Keys /\ xKey = nK /\ cs # xKey /\ xRW \in 0..MaxHandles
        /\ (cs # 0 => cs \in Keys) /\ keyRW \in [Keys -> 0..MaxHandles]
    BY <1>1 DEF IInv, CoreTypes, SessTypes, StdinTypes, ExchangeInv, Keys
  <2>2. CASE host' = "rekeyed" /\ keyRW' = [keyRW EXCEPT ![xKey] = xRW]
    BY <2>1, <2>2
  <2>3. CASE host' = "refused" /\ keyRW' = keyRW
    BY <2>1, <2>3
  <2>4. QED
    BY <1>2, <2>2, <2>3
<1>4. /\ device' = device /\ usbRW' = usbRW /\ connected' = connected /\ cs' = cs
      /\ readLoop' = readLoop /\ nH' = nH /\ nK' = nK /\ nL' = nL
      /\ lpc' = lpc /\ lstop' = lstop
  BY <1>1 DEF sessVars, allocVars, loopVars
<1>5. CoreTypes'
  BY <1>1, <1>2, <1>3, <1>4 DEF IInv, CoreTypes, SessTypes, StdinTypes,
     AllocTypes, HostStates
<1>6. ConnInv'
  BY <1>1, <1>4 DEF IInv, ConnInv
<1>7. KeyInv'
  BY <1>1, <1>2, <1>3, <1>4 DEF IInv, KeyInv, MutexFree
<1>8. ExchangeInv'
  BY <1>1, <1>2, <1>3, <1>4 DEF IInv, ExchangeInv
<1>9. LoopInv'
  BY <1>1, <1>2, <1>4 DEF IInv, LoopInv
<1>10. QED
  BY <1>5, <1>6, <1>7, <1>8, <1>9 DEF IInv

LEMMA StepRekeyOk == ASSUME IInv, RekeyOk PROVE IInv'
<1>1. /\ host = "rekeyed" /\ host' = "idle" /\ usbRW = xRW /\ cs' = xKey
      /\ zeroed' = zeroed \cup {xOld}
      /\ device' = device /\ usbRW' = usbRW /\ connected' = connected
      /\ xRW' = xRW /\ xKey' = xKey /\ xOld' = xOld /\ nH' = nH /\ nK' = nK
      /\ keyRW' = keyRW /\ lstop' = lstop /\ StartReadLoop
  BY DEF RekeyOk
<1>2. openH' = openH
  BY DEF RekeyOk, usbVars
<1>3. /\ xKey = nK /\ xKey \in Keys /\ xKey \notin zeroed /\ xOld # xKey
      /\ xOld # 0 /\ xRW # 0 /\ cs = xOld /\ keyRW[xKey] = xRW /\ nL < MaxLoops
  BY <1>1 DEF IInv, ExchangeInv, CoreTypes, StdinTypes, Keys
<1>4. LoopInv' /\ nL' \in 0..MaxLoops /\ readLoop' \in 0..MaxLoops
      /\ lpc' \in [Loops -> LoopStates]
  BY <1>1, <1>3, FreshLoop DEF IInv
<1>5. CoreTypes'
  BY <1>1, <1>4 DEF IInv, CoreTypes, SessTypes, StdinTypes, AllocTypes, HostStates
<1>6. ConnInv'
  BY <1>1, <1>2 DEF IInv, ConnInv
<1>7. KeyInv'
  <2>1. xOld <= nK /\ xOld \in Nat /\ nK \in Nat
    BY <1>3 DEF IInv, KeyInv, CoreTypes, StdinTypes, AllocTypes
  <2>2. \A k \in Keys : k > nK => k \notin zeroed'
    BY <1>1, <2>1 DEF IInv, KeyInv, Keys
  <2>3. xKey \notin zeroed'
    BY <1>1, <1>3
  <2>4. device # 0 => keyRW[xKey] = device
    BY <1>1, <1>3 DEF IInv, ConnInv
  <2>5. QED
    BY <1>1, <1>3, <2>1, <2>2, <2>3, <2>4 DEF KeyInv, Keys
<1>8. ExchangeInv'
  BY <1>1 DEF ExchangeInv
<1>9. QED
  BY <1>4, <1>5, <1>6, <1>7, <1>8 DEF IInv

LEMMA StepRekeySwapped == ASSUME IInv, RekeySwapped PROVE IInv'
<1>1. /\ host = "rekeyed" /\ host' = "idle" /\ usbRW # xRW /\ cs' = cs
      /\ zeroed' = zeroed \cup {xKey}
      /\ device' = device /\ usbRW' = usbRW /\ connected' = connected
      /\ xRW' = xRW /\ xKey' = xKey /\ xOld' = xOld /\ nH' = nH /\ nK' = nK
      /\ keyRW' = keyRW /\ lstop' = lstop /\ StartReadLoop
  BY DEF RekeySwapped
<1>2. openH' = openH
  BY DEF RekeySwapped, usbVars
<1>3. /\ xKey = nK /\ nK \in Nat /\ nL < MaxLoops
      /\ usbRW = 0 /\ cs = 0 /\ device = 0
  BY <1>1 DEF IInv, ExchangeInv, CoreTypes, AllocTypes
<1>4. LoopInv' /\ nL' \in 0..MaxLoops /\ readLoop' \in 0..MaxLoops
      /\ lpc' \in [Loops -> LoopStates]
  BY <1>1, <1>3, FreshLoop DEF IInv
<1>5. CoreTypes'
  BY <1>1, <1>4 DEF IInv, CoreTypes, SessTypes, StdinTypes, AllocTypes, HostStates
<1>6. ConnInv'
  BY <1>1, <1>2 DEF IInv, ConnInv
<1>7. KeyInv'
  BY <1>1, <1>3 DEF IInv, KeyInv, Keys
<1>8. ExchangeInv'
  BY <1>1 DEF ExchangeInv
<1>9. QED
  BY <1>4, <1>5, <1>6, <1>7, <1>8 DEF IInv

LEMMA StepRekeyFail == ASSUME IInv, RekeyFail PROVE IInv'
<1>1. /\ host = "refused" /\ host' = "idle"
      /\ device' = device /\ usbRW' = usbRW /\ connected' = connected /\ cs' = cs
      /\ xRW' = xRW /\ xKey' = xKey /\ xOld' = xOld /\ nH' = nH /\ nK' = nK
      /\ lstop' = lstop /\ openH' = openH
  BY DEF RekeyFail
<1>2. keyRW' = keyRW /\ zeroed' = zeroed
  BY DEF RekeyFail, keyVars
<1>3. nL < MaxLoops
  BY <1>1 DEF IInv, ExchangeInv
<1>4. /\ LoopInv' /\ nL' \in 0..MaxLoops /\ readLoop' \in 0..MaxLoops
      /\ lpc' \in [Loops -> LoopStates]
  <2>1. CASE usbRW = xRW /\ device # 0
    <3>1. StartReadLoop
      BY <2>1 DEF RekeyFail
    <3>2. QED
      BY <1>1, <1>3, <3>1, FreshLoop DEF IInv
  <2>2. CASE ~(usbRW = xRW /\ device # 0)
    <3>1. nL' = nL /\ readLoop' = readLoop
      BY <2>2 DEF RekeyFail
    <3>2. lpc' = lpc
      BY <2>2 DEF RekeyFail
    <3>3. connected # 1
      BY <1>1, <2>2 DEF IInv, ConnInv, ExchangeInv
    <3>4. QED
      BY <1>1, <3>1, <3>2, <3>3 DEF IInv, LoopInv, CoreTypes, SessTypes, AllocTypes
  <2>3. QED
    BY <2>1, <2>2
<1>5. CoreTypes'
  BY <1>1, <1>2, <1>4 DEF IInv, CoreTypes, SessTypes, StdinTypes, AllocTypes, HostStates
<1>6. ConnInv'
  BY <1>1 DEF IInv, ConnInv
<1>7. KeyInv'
  BY <1>1, <1>2 DEF IInv, KeyInv, MutexFree
<1>8. ExchangeInv'
  BY <1>1 DEF ExchangeInv
<1>9. QED
  BY <1>4, <1>5, <1>6, <1>7, <1>8 DEF IInv

LEMMA StepLoopMark ==
  ASSUME IInv, NEW l \in Loops, LoopMarkDisconnected(l) PROVE IInv'
<1>1. /\ connected' = 0 /\ device' = 0 /\ usbRW' = usbRW /\ cs' = cs
      /\ readLoop' = readLoop /\ host # "connecting"
      /\ lpc' = [lpc EXCEPT ![l] = "done"]
  BY DEF LoopMarkDisconnected, EndIteration, MutexFree
<1>2. /\ keyRW' = keyRW /\ zeroed' = zeroed /\ lstop' = lstop
      /\ nH' = nH /\ nK' = nK /\ nL' = nL
      /\ host' = host /\ xRW' = xRW /\ xKey' = xKey /\ xOld' = xOld
  BY DEF LoopMarkDisconnected, keyVars, stdinVars, allocVars
<1>3. CoreTypes'
  BY <1>1, <1>2, HostConstants DEF IInv, CoreTypes, SessTypes, StdinTypes, AllocTypes,
     LoopStates
<1>4. ConnInv'
  BY <1>1 DEF ConnInv
<1>5. KeyInv' /\ LoopInv'
  BY <1>1, <1>2 DEF IInv, KeyInv, LoopInv
<1>6. ExchangeInv'
  BY <1>1, <1>2 DEF IInv, ExchangeInv
<1>7. QED
  BY <1>3, <1>4, <1>5, <1>6 DEF IInv

(* Every step of the host, the loops, the monitor and the phone.           *)
LEMMA StepInv == IInv /\ [Next]_vars => IInv'
<1> SUFFICES ASSUME IInv, [Next]_vars PROVE IInv'
  OBVIOUS
<1> USE DEF sessVars, keyVars, stdinVars, loopVars, usbVars, allocVars, coreVars
<1>1. CASE Send
  <2>1. UNCHANGED <<coreVars, lpc, broken>>
    BY <1>1 DEF Send, SendOk, SendTimedOut, monVars
  <2>2. QED
    BY <2>1, CoreFrame
<1>2. CASE Disconnect
  <2>1. /\ CloseLocked /\ host = "idle" /\ host' = host /\ lpc' = lpc
        /\ UNCHANGED <<keyRW, xRW, xKey, xOld, nH, nK, nL>>
    BY <1>2 DEF Disconnect
  <2>2. lpc' \in [Loops -> LoopStates]
    BY <2>1 DEF IInv, CoreTypes
  <2>3. QED
    BY <2>1, <2>2, CloseFrame
<1>3. CASE Exit
  <2>1. /\ CloseLocked /\ host # "connecting" /\ host' = "exited"
        /\ UNCHANGED <<keyRW, xRW, xKey, xOld, nH, nK, nL>>
        /\ lpc' = [l \in Loops |-> IF lpc[l] = "none" THEN "none" ELSE "done"]
    BY <1>3 DEF Exit
  <2>2. lpc' \in [Loops -> LoopStates]
    BY <2>1 DEF LoopStates
  <2>3. QED
    BY <2>1, <2>2, CloseFrame
<1>4. ASSUME NEW l \in Loops, Loop(l) PROVE IInv'
  <2>1. CASE LoopMarkDisconnected(l)
    BY <2>1, StepLoopMark
  <2>2. CASE LoopStop(l)
    <3>1. UNCHANGED coreVars /\ l \in lstop /\ lpc' = [lpc EXCEPT ![l] = "done"]
          /\ broken' = broken
      BY <2>2 DEF LoopStop, monVars
    <3>2. QED
      BY <3>1, LoopFrame DEF LoopStates
  <2>3. CASE LoopSnapshot(l) \/ LoopCheck(l) \/ LoopNoDevice(l)
    <3>1. /\ UNCHANGED coreVars /\ broken' = broken
          /\ \E pc \in {"top", "locking", "read"} : lpc' = [lpc EXCEPT ![l] = pc]
      BY <2>3 DEF LoopSnapshot, LoopCheck, LoopNoDevice, monVars
    <3>2. QED
      BY <3>1, LoopFrame DEF LoopStates
  <2>4. CASE LoopRead(l)
    <3>1. UNCHANGED coreVars /\ lpc' = [lpc EXCEPT ![l] = "got"]
          /\ broken' = broken
      BY <2>4 DEF LoopRead, monVars
    <3>2. QED
      BY <3>1, LoopFrame DEF LoopStates
  <2>5. CASE LoopGone(l)
    <3>1. UNCHANGED coreVars /\ lpc' = [lpc EXCEPT ![l] = "gone"]
          /\ broken' = broken
      BY <2>5 DEF LoopGone, monVars
    <3>2. QED
      BY <3>1, LoopFrame DEF LoopStates
  <2>6. CASE LoopRetry(l) \/ LoopAccept(l) \/ LoopReject(l)
    <3>1. UNCHANGED coreVars
      BY <2>6 DEF LoopRetry, LoopAccept, LoopReject
    <3>2. \/ lpc' = [lpc EXCEPT ![l] = "top"] /\ (broken' = 0 => broken = 0)
          \/ lpc' = [lpc EXCEPT ![l] = "done"] /\ broken' = 1
      BY <2>6 DEF LoopRetry, LoopAccept, LoopReject, Report, EndIteration, monVars
    <3>3. QED
      BY <3>1, <3>2, LoopFrame DEF LoopStates
  <2>7. QED
    BY <1>4, <2>1, <2>2, <2>3, <2>4, <2>5, <2>6 DEF Loop
<1>5. CASE MonitorPoll
  <2>1. UNCHANGED <<coreVars, lpc, broken>>
    BY <1>5 DEF MonitorPoll
  <2>2. QED
    BY <2>1, CoreFrame
<1>6. CASE MonitorClose
  <2>1. /\ CloseLocked /\ host # "connecting" /\ host' = host /\ lpc' = lpc
        /\ UNCHANGED <<keyRW, xRW, xKey, xOld, nH, nK, nL>>
    BY <1>6 DEF MonitorClose, MutexFree
  <2>2. lpc' \in [Loops -> LoopStates]
    BY <2>1 DEF IInv, CoreTypes
  <2>3. QED
    BY <2>1, <2>2, CloseFrame
<1>7. CASE Phone
  <2>1. UNCHANGED <<coreVars, lpc, broken>>
    BY <1>7 DEF Phone, Unplug, Plug, PhoneReply, PhoneSend, monVars
  <2>2. QED
    BY <2>1, CoreFrame
<1>8. CASE UNCHANGED vars
  <2>1. UNCHANGED <<coreVars, lpc, broken>>
    BY <1>8 DEF vars, monVars
  <2>2. QED
    BY <2>1, CoreFrame
<1>9. QED
  BY <1>1, <1>2, <1>3, <1>4, <1>5, <1>6, <1>7, <1>8, StepConnectOpen,
     StepConnectOk, StepConnectFail, StepRekeyBegin, StepRekeyExchange,
     StepRekeyOk, StepRekeySwapped, StepRekeyFail
  DEF Next, Stdin, Monitor

(* The inductive invariant holds: the Session's fields agree, its key was  *)
(* derived over its endpoints, and the read loop it names is running.      *)
THEOREM HostInvariant == Spec => []IInv
<1>1. Init => IInv
  BY InitInv
<1>2. IInv /\ [Next]_vars => IInv'
  BY StepInv
<1>3. QED
  BY <1>1, <1>2, PTL DEF Spec

(* Whatever the goroutines interleave, send-payload finds an open device,  *)
(* that device's endpoints and an intact key derived over them.            *)
THEOREM Consistent == Spec => []SessionConsistent
<1>1. IInv => SessionConsistent
  BY DEF IInv, ConnInv, KeyInv, MutexFree, SessionConsistent
<1>2. QED
  BY <1>1, HostInvariant, PTL

(* A connected host always has a running read loop: no rekey, successful,  *)
(* failed or overtaken by a close, leaves the phone unheard.               *)
THEOREM Reading == Spec => []ReaderAlive
<1>1. IInv => ReaderAlive
  BY DEF IInv, LoopInv, ReaderAlive
<1>2. QED
  BY <1>1, HostInvariant, PTL

(* Only connect installs a key in a Session that has none.                 *)
THEOREM ClosedStaysClosed == Spec => NoResurrection
<1> DEFINE Kept == cs = 0 /\ cs' # 0 => connected' = 1 /\ usbRW' = device' /\ device' # 0
<1>1. IInv /\ [Next]_vars => [Kept]_vars
  <2> SUFFICES ASSUME IInv, Next, cs = 0, cs' # 0
               PROVE  connected' = 1 /\ usbRW' = device' /\ device' # 0
    OBVIOUS
  <2>1. CASE ConnectOk
    BY <2>1 DEF ConnectOk, IInv, ExchangeInv, ConnInv
  <2>2. CASE RekeyOk
    <3>1. host = "rekeyed" /\ usbRW = xRW
      BY <2>2 DEF RekeyOk
    <3>2. FALSE
      BY <3>1 DEF IInv, ExchangeInv
    <3>3. QED
      BY <3>2
  <2>3. CASE Disconnect \/ Exit \/ MonitorClose
    BY <2>3 DEF Disconnect, Exit, MonitorClose, CloseLocked
  <2>4. CASE ConnectOpen \/ ConnectFail \/ Send \/ RekeyBegin \/ RekeyExchange
             \/ RekeySwapped \/ RekeyFail \/ MonitorPoll \/ Phone
             \/ \E l \in Loops : Loop(l)
    <3>1. cs' = cs
      BY <2>4 DEF ConnectOpen, ConnectFail, Send, SendOk, SendTimedOut,
                  RekeyBegin, RekeyExchange, RekeySwapped, RekeyFail,
                  MonitorPoll, Phone, Unplug, Plug, PhoneReply, PhoneSend,
                  Loop, LoopStop, LoopCheck, LoopSnapshot, LoopNoDevice, LoopRead, LoopRetry,
                  LoopGone,
                  LoopMarkDisconnected, LoopAccept, LoopReject, sessVars
    <3>2. QED
      BY <3>1
  <2>5. QED
    BY <2>1, <2>2, <2>3, <2>4 DEF Next, Stdin, Monitor
<1>2. QED
  BY <1>1, HostInvariant, PTL DEF Spec, NoResurrection

-----------------------------------------------------------------------------
(* Types of everything the core invariant does not mention *)

WireTypes ==
  /\ outSeq \in [Keys -> Nat] /\ inSeq \in [Keys -> Nat]
  /\ zeroed \in SUBSET Keys /\ badKeys \in SUBSET Keys
  /\ lstop \in SUBSET Loops
  /\ ldev \in [Loops -> 0..MaxHandles] /\ lcs \in [Loops -> 0..MaxKeys]
  /\ lexp \in [Loops -> Nat]
  /\ lgot \in [Loops -> Transfers \cup {NoTransfer}]
  /\ UsbTypes /\ PhoneTypes /\ MonTypes /\ HistTypes

LEMMA TypesJoin == CoreTypes /\ WireTypes <=> TypeOK
BY DEF CoreTypes, WireTypes, TypeOK, KeyTypes, LoopTypes

(* The step forms that several actions share.                              *)
LEMMA CloseTypes ==
  ASSUME IInv, WireTypes, CloseLocked,
         UNCHANGED <<badKeys, ldev, lcs, lexp, lgot, usb, present, pipe, phoneVars,
                     wasConnected, broken, histVars>>, closing' \in {0, 1}
  PROVE  WireTypes'
<1>1. outSeq' \in [Keys -> Nat] /\ inSeq' \in [Keys -> Nat]
  BY DEF WireTypes, CloseLocked
<1>2. zeroed' \in SUBSET Keys /\ lstop' \in SUBSET Loops
  BY DEF WireTypes, CloseLocked, IInv, CoreTypes, SessTypes, Keys, Loops
<1>3. UsbTypes' /\ PhoneTypes' /\ MonTypes' /\ HistTypes'
  BY DEF WireTypes, CloseLocked, UsbTypes, PhoneTypes, MonTypes, HistTypes, phoneVars, histVars
<1> QED BY <1>1, <1>2, <1>3 DEF WireTypes

LEMMA ExchangeTypes ==
  ASSUME IInv, WireTypes, host \notin {"idle", "exited"},
         ExchangeOk \/ (ExchangeFailed /\ UNCHANGED badKeys)
  PROVE  pipe' \in Seq(Transfers) /\ badKeys' \in SUBSET Keys
<1>1. pipe \in Seq(Transfers) /\ xKey \in Keys
  BY DEF WireTypes, UsbTypes, IInv, CoreTypes, StdinTypes, ExchangeInv, Keys
<1>2. pipe # <<>> => Tail(pipe) \in Seq(Transfers)
  BY <1>1
<1> QED BY <1>1, <1>2 DEF ExchangeOk, ExchangeFailed, WireTypes

LEMMA IterationTypes ==
  ASSUME WireTypes, NEW l \in Loops, NEW pc, EndIteration(l, pc)
  PROVE  /\ ldev' \in [Loops -> 0..MaxHandles] /\ lcs' \in [Loops -> 0..MaxKeys]
         /\ lexp' \in [Loops -> Nat] /\ lgot' \in [Loops -> Transfers \cup {NoTransfer}]
BY HostConstants DEF WireTypes, EndIteration

(* What a loop accepts was sent under a key.                               *)
LEMMA AcceptedKey ==
  ASSUME WireTypes, NEW l \in Loops, Decrypts(l)
  PROVE  lgot[l] \in Transfers /\ lcs[l] \in Keys
<1>1. lgot[l] \in Transfers
  BY DEF WireTypes, Decrypts, NoTransfer
<1> QED BY <1>1 DEF Decrypts, Transfers

LEMMA StepStdinTypes == ASSUME IInv, WireTypes, Stdin PROVE WireTypes'
<1> USE DEF keyVars, loopVars, usbVars, phoneVars, monVars, histVars, sessVars, stdinVars
<1>1. CASE ConnectOpen
  <2>1. nH + 1 \in Handles /\ nK + 1 \in 0..MaxKeys
    BY <1>1, HostConstants DEF ConnectOpen, BeginExchange, IInv, CoreTypes, AllocTypes, Handles
  <2> QED BY <1>1, <2>1 DEF ConnectOpen, BeginExchange, WireTypes, UsbTypes, PhoneTypes,
        MonTypes, HistTypes
<1>2. CASE ConnectOk \/ ConnectFail \/ RekeyExchange
  <2>1. pipe' \in Seq(Transfers) /\ badKeys' \in SUBSET Keys
    BY <1>2, ExchangeTypes DEF ConnectOk, ConnectFail, RekeyExchange
  <2> QED BY <1>2, <2>1 DEF ConnectOk, ConnectFail, RekeyExchange, WireTypes, UsbTypes,
        PhoneTypes, MonTypes, HistTypes
<1>3. CASE Send
  <2>1. cs \in Keys
    BY <1>3 DEF Send, SendOk, SendTimedOut, SendReady, IInv, CoreTypes, SessTypes, Keys
  <2>2. outSeq[cs] \in Nat /\ sent[cs] \in Seq(Nat)
    BY <2>1 DEF WireTypes, HistTypes
  <2>3. Append(sent[cs], outSeq[cs]) \in Seq(Nat)
    BY <2>2
  <2>4. sent' \in [Keys -> Seq(Nat)] /\ outSeq' \in [Keys -> Nat]
    <3>1. sent' = [sent EXCEPT ![cs] = Append(sent[cs], outSeq[cs])]
      BY <1>3 DEF Send, SendOk, SendTimedOut
    <3>2. outSeq' = outSeq \/ outSeq' = [outSeq EXCEPT ![cs] = outSeq[cs] + 1]
      BY <1>3 DEF Send, SendOk, SendTimedOut
    <3>3. sent' \in [Keys -> Seq(Nat)]
      BY <2>3, <3>1 DEF WireTypes, HistTypes
    <3>4. outSeq \in [Keys -> Nat] /\ outSeq[cs] + 1 \in Nat
      BY <2>2 DEF WireTypes
    <3>5. outSeq' \in [Keys -> Nat]
      BY <3>2, <3>4
    <3> QED BY <3>3, <3>5
  <2> QED BY <1>3, <2>4 DEF Send, SendOk, SendTimedOut, WireTypes, UsbTypes, PhoneTypes,
        MonTypes, HistTypes
<1>4. CASE Disconnect \/ Exit
  <2>1. closing' \in {0, 1}
    BY <1>4 DEF Disconnect, Exit, WireTypes, MonTypes
  <2> QED BY <1>4, <2>1, CloseTypes DEF Disconnect, Exit
<1>5. CASE RekeyBegin
  <2>1. nK + 1 \in 0..MaxKeys /\ lstop' \in SUBSET Loops
    BY <1>5, HostConstants DEF RekeyBegin, BeginExchange, WireTypes, IInv, CoreTypes,
      SessTypes, AllocTypes, Loops
  <2> QED BY <1>5, <2>1 DEF RekeyBegin, BeginExchange, WireTypes, UsbTypes, PhoneTypes,
        MonTypes, HistTypes
<1>6. CASE RekeyOk \/ RekeySwapped
  <2>1. xOld \in Keys /\ xKey \in Keys
    BY <1>6 DEF RekeyOk, RekeySwapped, IInv, CoreTypes, StdinTypes, ExchangeInv, Keys
  <2>2. outSeq' \in [Keys -> Nat] /\ inSeq' \in [Keys -> Nat] /\ zeroed' \in SUBSET Keys
    BY <1>6, <2>1 DEF RekeyOk, RekeySwapped, WireTypes
  <2>3. UsbTypes' /\ PhoneTypes' /\ MonTypes' /\ HistTypes'
    BY <1>6 DEF RekeyOk, RekeySwapped, WireTypes, UsbTypes, PhoneTypes, MonTypes, HistTypes
  <2> QED BY <1>6, <2>2, <2>3 DEF RekeyOk, RekeySwapped, WireTypes
<1>7. CASE RekeyFail
  <2>1. pipe' \in Seq(Transfers)
    <3>1. CASE usbRW = xRW /\ device # 0
      BY <1>7, <3>1, ExchangeTypes DEF RekeyFail
    <3>2. CASE ~(usbRW = xRW /\ device # 0)
      BY <1>7, <3>2 DEF RekeyFail, WireTypes, UsbTypes
    <3> QED BY <3>1, <3>2
  <2> QED BY <1>7, <2>1 DEF RekeyFail, WireTypes, UsbTypes, PhoneTypes, MonTypes, HistTypes
<1> QED BY <1>1, <1>2, <1>3, <1>4, <1>5, <1>6, <1>7 DEF Stdin

LEMMA StepLoopTypes ==
  ASSUME IInv, WireTypes, NEW l \in Loops, Loop(l) PROVE WireTypes'
<1> USE DEF keyVars, loopVars, usbVars, phoneVars, monVars, histVars
<1>1. CASE LoopStop(l) \/ LoopGone(l) \/ LoopCheck(l) \/ LoopNoDevice(l)
  BY <1>1 DEF LoopStop, LoopGone, LoopCheck, LoopNoDevice, WireTypes, UsbTypes, PhoneTypes, MonTypes, HistTypes
<1>2. CASE LoopSnapshot(l)
  <2>1. device \in 0..MaxHandles /\ cs \in Keys
    BY <1>2 DEF LoopSnapshot, IInv, CoreTypes, SessTypes, KeyInv, Keys
  <2>2. cs \in 0..MaxKeys /\ inSeq[cs] \in Nat
    BY <2>1 DEF Keys, WireTypes
  <2> QED BY <1>2, <2>1, <2>2 DEF LoopSnapshot, WireTypes, UsbTypes, PhoneTypes, MonTypes, HistTypes
<1>3. CASE LoopRead(l)
  <2>1. pipe \in Seq(Transfers) /\ pipe # <<>>
    BY <1>3 DEF LoopRead, WireTypes, UsbTypes
  <2>2. Head(pipe) \in Transfers /\ Tail(pipe) \in Seq(Transfers)
    BY <2>1
  <2> QED BY <1>3, <2>2 DEF LoopRead, WireTypes, UsbTypes, PhoneTypes, MonTypes, HistTypes
<1>4. CASE LoopRetry(l) \/ LoopReject(l) \/ LoopMarkDisconnected(l)
  <2>1. EndIteration(l, "top") \/ EndIteration(l, "done")
    BY <1>4 DEF LoopRetry, LoopReject, LoopMarkDisconnected, Report
  <2>2. /\ ldev' \in [Loops -> 0..MaxHandles] /\ lcs' \in [Loops -> 0..MaxKeys]
        /\ lexp' \in [Loops -> Nat] /\ lgot' \in [Loops -> Transfers \cup {NoTransfer}]
    BY <2>1, IterationTypes
  <2> QED BY <1>4, <2>2 DEF LoopRetry, LoopReject, LoopMarkDisconnected, Report, WireTypes, UsbTypes,
        PhoneTypes, MonTypes, HistTypes
<1>5. CASE LoopAccept(l)
  <2>1. lcs[l] \in Keys
    BY <1>5, AcceptedKey DEF LoopAccept
  <2>2. /\ ldev' \in [Loops -> 0..MaxHandles] /\ lcs' \in [Loops -> 0..MaxKeys]
        /\ lexp' \in [Loops -> Nat] /\ lgot' \in [Loops -> Transfers \cup {NoTransfer}]
    BY <1>5, IterationTypes DEF LoopAccept, Report
  <2>3. inSeq' \in [Keys -> Nat] /\ nAcc' \in [Keys -> Nat]
    BY <1>5, <2>1 DEF LoopAccept, WireTypes, HistTypes
  <2> QED BY <1>5, <2>2, <2>3 DEF LoopAccept, Report, WireTypes, UsbTypes, PhoneTypes, MonTypes,
        HistTypes
<1> QED BY <1>1, <1>2, <1>3, <1>4, <1>5 DEF Loop

LEMMA StepOtherTypes ==
  ASSUME IInv, WireTypes, Monitor \/ Phone \/ UNCHANGED vars PROVE WireTypes'
<1> USE DEF keyVars, loopVars, usbVars, phoneVars, monVars, histVars, sessVars, stdinVars
<1>1. CASE MonitorPoll
  BY <1>1 DEF MonitorPoll, WireTypes, UsbTypes, PhoneTypes, MonTypes, HistTypes
<1>2. CASE MonitorClose
  BY <1>2, CloseTypes DEF MonitorClose
<1>3. CASE Unplug \/ Plug
  <2>1. <<>> \in Seq(Transfers)
    OBVIOUS
  <2>2. pipe' \in Seq(Transfers) /\ usb' \in {"none", "normal", "accessory"}
    BY <1>3, <2>1 DEF Unplug, Plug, WireTypes, UsbTypes
  <2>3. PhoneTypes' /\ present' \in SUBSET Handles
    BY <1>3, HostConstants DEF Unplug, Plug, WireTypes, UsbTypes, PhoneTypes
  <2> QED BY <1>3, <2>2, <2>3 DEF Unplug, Plug, WireTypes, UsbTypes, MonTypes, HistTypes
<1>4. CASE PhoneReply
  <2>1. [kind |-> "pk", key |-> phReq, seq |-> 0] \in Transfers /\ pipe \in Seq(Transfers)
    BY <1>4 DEF PhoneReply, WireTypes, UsbTypes, PhoneTypes, Transfers, Keys
  <2>2. pipe' \in Seq(Transfers)
    BY <1>4, <2>1 DEF PhoneReply
  <2>3. PhoneTypes'
    BY <1>4, HostConstants DEF PhoneReply, WireTypes, PhoneTypes
  <2> QED BY <1>4, <2>2, <2>3 DEF PhoneReply, WireTypes, UsbTypes, MonTypes, HistTypes
<1>5. CASE PhoneSend
  <2>1. [kind |-> "data", key |-> phKey, seq |-> phSeq] \in Transfers /\ pipe \in Seq(Transfers)
    BY <1>5 DEF PhoneSend, WireTypes, UsbTypes, PhoneTypes, Transfers, Keys
  <2>2. pipe' \in Seq(Transfers)
    BY <1>5, <2>1 DEF PhoneSend
  <2>3. PhoneTypes'
    BY <1>5 DEF PhoneSend, WireTypes, PhoneTypes
  <2> QED BY <1>5, <2>2, <2>3 DEF PhoneSend, WireTypes, UsbTypes, MonTypes, HistTypes
<1>6. CASE UNCHANGED vars
  BY <1>6 DEF vars, WireTypes, UsbTypes, PhoneTypes, MonTypes, HistTypes
<1> QED BY <1>1, <1>2, <1>3, <1>4, <1>5, <1>6 DEF Monitor, Phone

LEMMA TypesInvariant == Spec => []WireTypes
<1>1. Init => WireTypes
  <2> SUFFICES ASSUME Init PROVE WireTypes
    OBVIOUS
  <2>1. <<>> \in Seq(Transfers) /\ <<>> \in Seq(Nat)
    OBVIOUS
  <2>2. UsbTypes /\ HistTypes
    BY <2>1 DEF Init, UsbTypes, HistTypes
  <2> QED BY <2>2, HostConstants DEF Init, WireTypes, PhoneTypes, MonTypes
<1>2. IInv /\ WireTypes /\ [Next]_vars => WireTypes'
  BY StepStdinTypes, StepLoopTypes, StepOtherTypes DEF Next
<1> QED BY <1>1, <1>2, HostInvariant, PTL DEF Spec

(* Every variable of the host has its type.  The session's invariant is    *)
(* needed: a loop copies the number of the key only while there is one,    *)
(* and a rekey zeroes a key that exists.                                   *)
THEOREM HostTyped == Spec => []TypeOK
<1>1. IInv /\ WireTypes => TypeOK
  BY TypesJoin DEF IInv
<1> QED BY <1>1, HostInvariant, TypesInvariant, PTL

-----------------------------------------------------------------------------
(* Payloads are accepted in order *)

(* A payload that is still on its way was not accepted, is not under the   *)
(* key of an exchange the phone has yet to answer, and was sent.           *)
Ahead(t, acc, keys, req, key, next) ==
  t.kind = "data" =>
    /\ acc[t.key] <= t.seq
    /\ t.key <= keys /\ t.key # req
    /\ t.key = key => t.seq < next

PayloadsAhead ==
  /\ \A i \in DOMAIN pipe : Ahead(pipe[i], nAcc, nK, phReq, phKey, phSeq)
  /\ \A l \in Loops : Ahead(lgot[l], nAcc, nK, phReq, phKey, phSeq)

(* No payload is twice on its way: in the pipe, in the hands of two loops, *)
(* or both.                                                                *)
PayloadsDistinct ==
  /\ \A i, j \in DOMAIN pipe : i # j /\ pipe[i].kind = "data" => pipe[i] # pipe[j]
  /\ \A l, m \in Loops : l # m /\ lgot[l].kind = "data" => lgot[l] # lgot[m]
  /\ \A l \in Loops, i \in DOMAIN pipe : lgot[l].kind = "data" => lgot[l] # pipe[i]

(* A tracker counts what was accepted or was reset; the phone is not       *)
(* behind, and the key it is about to derive is unused.                    *)
Counted ==
  /\ \A k \in Keys : inSeq[k] <= nAcc[k] /\ (k > nK => nAcc[k] = 0)
  /\ phReq <= nK /\ phKey <= nK
  /\ phReq # 0 => phReq # phKey /\ nAcc[phReq] = 0
  /\ phKey # 0 => nAcc[phKey] <= phSeq

(* The number a loop copied may be stale, but only on the low side.        *)
CopiesBehind == \A l \in Loops : lcs[l] # 0 => lexp[l] <= nAcc[lcs[l]]

OrderInv == PayloadsAhead /\ PayloadsDistinct /\ Counted /\ CopiesBehind

LEMMA TransferFacts ==
  /\ \A t \in Transfers : t.key \in Keys /\ t.key \in Nat \ {0} /\ t.seq \in Nat
  /\ \A t, u \in Transfers : t.kind = u.kind /\ t.key = u.key /\ t.seq = u.seq => t = u
  /\ NoTransfer.kind # "data"
BY DEF Transfers, Keys, NoTransfer

LEMMA PipeFacts ==
  ASSUME WireTypes
  PROVE  /\ pipe \in Seq(Transfers)
         /\ \A i \in DOMAIN pipe : pipe[i] \in Transfers
         /\ pipe # <<>> => /\ Head(pipe) = pipe[1] /\ 1 \in DOMAIN pipe
                           /\ \A i \in DOMAIN Tail(pipe) :
                                i + 1 \in DOMAIN pipe /\ i + 1 # 1 /\ Tail(pipe)[i] = pipe[i + 1]
<1>1. pipe \in Seq(Transfers)
  BY DEF WireTypes, UsbTypes
<1> QED BY <1>1

LEMMA GotFacts ==
  ASSUME WireTypes, NEW l \in Loops, lgot[l].kind = "data"
  PROVE  lgot[l] \in Transfers
BY TransferFacts DEF WireTypes

LEMMA NumberFacts ==
  ASSUME IInv, WireTypes
  PROVE  /\ nK \in Nat /\ phReq \in Nat /\ phKey \in Nat /\ phSeq \in Nat
         /\ \A k \in Keys : k \in Nat \ {0} /\ inSeq[k] \in Nat /\ nAcc[k] \in Nat
         /\ \A l \in Loops : lexp[l] \in Nat /\ (lcs[l] # 0 => lcs[l] \in Keys)
BY HostConstants DEF IInv, CoreTypes, AllocTypes, WireTypes, PhoneTypes, HistTypes, Keys

(* A step that sends and accepts nothing, though transfers may get lost    *)
(* and trackers be reset.                                                  *)
LEMMA OrderFrame ==
  ASSUME IInv, IInv', WireTypes, WireTypes', OrderInv, UNCHANGED <<nAcc, phKey, phSeq>>,
         \/ phReq' = phReq /\ nK' >= nK
         \/ phReq' = nK + 1 /\ nK' = nK + 1,
         pipe' = pipe \/ (pipe # <<>> /\ pipe' = Tail(pipe)),
         \A l \in Loops : lgot'[l] \in {lgot[l], NoTransfer},
         \A k \in Keys : inSeq'[k] <= inSeq[k],
         CopiesBehind'
  PROVE  OrderInv'
<1>1. PICK d \in {0, 1} : \A i \in DOMAIN pipe' : i + d \in DOMAIN pipe /\ pipe'[i] = pipe[i + d]
  <2>1. CASE pipe' = pipe
    <3>1. \A i \in DOMAIN pipe' : i + 0 = i
      BY <2>1, PipeFacts
    <3> QED BY <2>1, <3>1
  <2>2. CASE pipe # <<>> /\ pipe' = Tail(pipe)
    BY <2>2, PipeFacts
  <2> QED BY <2>1, <2>2
<1>2. nK' \in Nat /\ nK' >= nK
  BY NumberFacts DEF IInv, CoreTypes, AllocTypes
<1>3. PayloadsAhead'
  <2>1. ASSUME NEW t, t.kind = "data" => t \in Transfers,
               Ahead(t, nAcc, nK, phReq, phKey, phSeq)
        PROVE  Ahead(t, nAcc', nK', phReq', phKey', phSeq')
    BY <1>2, <2>1, NumberFacts, TransferFacts DEF Ahead, OrderInv, Counted
  <2>2. ASSUME NEW i \in DOMAIN pipe'
        PROVE  Ahead(pipe'[i], nAcc', nK', phReq', phKey', phSeq')
    BY <1>1, <2>1, PipeFacts DEF OrderInv, PayloadsAhead
  <2>3. ASSUME NEW l \in Loops
        PROVE  Ahead(lgot'[l], nAcc', nK', phReq', phKey', phSeq')
    <3>1. CASE lgot'[l] = lgot[l]
      BY <2>1, <3>1, GotFacts DEF OrderInv, PayloadsAhead
    <3>2. CASE lgot'[l] = NoTransfer
      BY <3>2, TransferFacts DEF Ahead
    <3> QED BY <3>1, <3>2
  <2> QED BY <2>2, <2>3 DEF PayloadsAhead
<1>4. PayloadsDistinct'
  <2>1. \A l \in Loops : lgot'[l].kind = "data" => lgot'[l] = lgot[l]
    BY TransferFacts
  <2>2. ASSUME NEW i \in DOMAIN pipe', NEW j \in DOMAIN pipe', i # j, pipe'[i].kind = "data"
        PROVE  pipe'[i] # pipe'[j]
    <3>1. i + d # j + d
      BY <2>2, PipeFacts, <1>1
    <3> QED BY <1>1, <2>2, <3>1 DEF OrderInv, PayloadsDistinct
  <2>3. ASSUME NEW l \in Loops, NEW m \in Loops, l # m, lgot'[l].kind = "data"
        PROVE  lgot'[l] # lgot'[m]
    BY <2>1, <2>3, TransferFacts DEF OrderInv, PayloadsDistinct
  <2>4. ASSUME NEW l \in Loops, NEW i \in DOMAIN pipe', lgot'[l].kind = "data"
        PROVE  lgot'[l] # pipe'[i]
    BY <1>1, <2>1, <2>4 DEF OrderInv, PayloadsDistinct
  <2> QED BY <2>2, <2>3, <2>4 DEF PayloadsDistinct
<1>5. Counted'
  <2>1. nK' \in Nat /\ nK' >= nK /\ \A k \in Keys : inSeq'[k] \in Nat
    BY <1>2 DEF WireTypes
  <2>2. ASSUME NEW k \in Keys PROVE inSeq'[k] <= nAcc'[k] /\ (k > nK' => nAcc'[k] = 0)
    BY <2>1, NumberFacts DEF OrderInv, Counted
  <2>3. phReq' <= nK' /\ phKey' <= nK'
    BY <2>1, NumberFacts DEF OrderInv, Counted
  <2>4. phReq' # 0 => phReq' # phKey' /\ nAcc'[phReq'] = 0
    <3>1. CASE phReq' = phReq
      BY <3>1 DEF OrderInv, Counted
    <3>2. CASE phReq' = nK + 1 /\ nK' = nK + 1
      <4>1. nK + 1 \in Keys
        BY <3>2, NumberFacts, HostConstants DEF IInv, CoreTypes, AllocTypes, Keys
      <4> QED BY <3>2, <4>1, NumberFacts DEF OrderInv, Counted
    <3> QED BY <3>1, <3>2
  <2> QED BY <2>2, <2>3, <2>4 DEF OrderInv, Counted
<1> QED BY <1>3, <1>4, <1>5 DEF OrderInv

LEMMA OrderStdin ==
  ASSUME IInv, IInv', WireTypes, WireTypes', OrderInv, Stdin \/ Monitor \/ Plug \/ UNCHANGED vars
  PROVE  OrderInv'
<1> USE DEF keyVars, loopVars, usbVars, phoneVars, monVars, histVars, sessVars, stdinVars,
            allocVars
<1>1. UNCHANGED <<nAcc, phKey, phSeq, lgot, lcs, lexp>>
  BY DEF Stdin, Monitor, ConnectOpen, ConnectOk, ConnectFail, Send, SendOk, SendTimedOut,
    Disconnect, RekeyBegin, RekeyExchange, RekeyOk, RekeySwapped, RekeyFail, Exit, MonitorPoll,
    MonitorClose, Plug, BeginExchange, vars
<1>2. \/ phReq' = phReq /\ nK' = nK
      \/ phReq' = phReq /\ nK' = nK + 1
      \/ phReq' = nK + 1 /\ nK' = nK + 1
  BY DEF Stdin, Monitor, ConnectOpen, ConnectOk, ConnectFail, Send, SendOk, SendTimedOut,
    Disconnect, RekeyBegin, RekeyExchange, RekeyOk, RekeySwapped, RekeyFail, Exit, MonitorPoll,
    MonitorClose, Plug, BeginExchange, vars
<1>3. pipe' = pipe \/ (pipe # <<>> /\ pipe' = Tail(pipe))
  BY DEF Stdin, Monitor, ConnectOpen, ConnectOk, ConnectFail, Send, SendOk, SendTimedOut,
    Disconnect, RekeyBegin, RekeyExchange, RekeyOk, RekeySwapped, RekeyFail, Exit, MonitorPoll,
    MonitorClose, Plug, ExchangeOk, ExchangeFailed, vars
<1>4. \/ inSeq' = inSeq
      \/ inSeq' = [k \in Keys |-> IF k = cs THEN 0 ELSE inSeq[k]]
      \/ inSeq' = [inSeq EXCEPT ![xOld] = 0]
  BY DEF Stdin, Monitor, ConnectOpen, ConnectOk, ConnectFail, Send, SendOk, SendTimedOut,
    Disconnect, RekeyBegin, RekeyExchange, RekeyOk, RekeySwapped, RekeyFail, Exit, MonitorPoll,
    MonitorClose, Plug, CloseLocked, vars
<1>5. \A k \in Keys : inSeq'[k] <= inSeq[k]
  <2>1. inSeq \in [Keys -> Nat]
    BY DEF WireTypes
  <2> QED BY <1>4, <2>1
<1>6. CopiesBehind'
  BY <1>1 DEF OrderInv, CopiesBehind
<1>7. \A l \in Loops : lgot'[l] \in {lgot[l], NoTransfer}
  BY <1>1
<1>8. nK' = nK \/ nK' = nK + 1 => nK' >= nK
  BY NumberFacts
<1> QED BY <1>1, <1>2, <1>3, <1>5, <1>6, <1>7, <1>8, OrderFrame

(* A loop steps without accepting anything or taking a transfer.           *)
LEMMA OrderLoop ==
  ASSUME IInv, IInv', WireTypes, WireTypes', OrderInv, NEW l \in Loops,
         \/ LoopStop(l) \/ LoopCheck(l) \/ LoopSnapshot(l) \/ LoopNoDevice(l)
         \/ LoopRetry(l) \/ LoopGone(l) \/ LoopMarkDisconnected(l) \/ LoopReject(l)
  PROVE  OrderInv'
<1> USE DEF keyVars, usbVars, phoneVars, histVars, allocVars
<1>1. UNCHANGED <<nAcc, phReq, phKey, phSeq, pipe, inSeq, nK>>
  BY DEF LoopStop, LoopCheck, LoopSnapshot, LoopNoDevice, LoopRetry, LoopGone,
     LoopMarkDisconnected, LoopReject
<1>2. \A m \in Loops : lgot'[m] \in {lgot[m], NoTransfer}
  BY DEF LoopStop, LoopCheck, LoopSnapshot, LoopNoDevice, LoopRetry, LoopGone,
     LoopMarkDisconnected, LoopReject,
     Report, EndIteration, WireTypes
<1>3. CopiesBehind'
  <2>1. CASE LoopSnapshot(l)
    <3>1. cs \in Keys
      BY <2>1 DEF LoopSnapshot, IInv, CoreTypes, SessTypes, KeyInv, Keys
    <3>2. inSeq[cs] <= nAcc[cs]
      BY <3>1 DEF OrderInv, Counted
    <3>3. lcs' = [lcs EXCEPT ![l] = cs] /\ lexp' = [lexp EXCEPT ![l] = inSeq[cs]]
      BY <2>1 DEF LoopSnapshot
    <3> QED BY <1>1, <3>2, <3>3 DEF OrderInv, CopiesBehind, WireTypes
  <2>2. CASE LoopStop(l) \/ LoopCheck(l) \/ LoopNoDevice(l) \/ LoopGone(l)
    <3>1. UNCHANGED <<lcs, lexp>>
      BY <2>2 DEF LoopStop, LoopCheck, LoopNoDevice, LoopGone
    <3> QED BY <1>1, <3>1 DEF OrderInv, CopiesBehind
  <2>3. CASE LoopRetry(l) \/ LoopMarkDisconnected(l) \/ LoopReject(l)
    <3>1. lcs' = [lcs EXCEPT ![l] = 0] /\ lexp' = [lexp EXCEPT ![l] = 0]
      BY <2>3 DEF LoopRetry, LoopMarkDisconnected, LoopReject, Report, EndIteration
    <3> QED BY <1>1, <3>1 DEF OrderInv, CopiesBehind, WireTypes
  <2> QED BY <2>1, <2>2, <2>3
<1>4. nK' >= nK /\ \A k \in Keys : inSeq'[k] <= inSeq[k]
  BY <1>1, NumberFacts
<1> QED BY <1>1, <1>2, <1>3, <1>4, OrderFrame

(* The transfer in front of the pipe passes into the hands of a loop.      *)
LEMMA OrderRead ==
  ASSUME IInv, IInv', WireTypes, WireTypes', OrderInv, NEW l \in Loops, LoopRead(l)
  PROVE  OrderInv'
<1>1. /\ UNCHANGED <<nAcc, phReq, phKey, phSeq, inSeq, nK, lcs, lexp>>
      /\ pipe # <<>> /\ pipe' = Tail(pipe)
  BY DEF LoopRead, keyVars, phoneVars, histVars, allocVars
<1>2. lgot'[l] = pipe[1] /\ \A m \in Loops \ {l} : lgot'[m] = lgot[m]
  BY <1>1, PipeFacts DEF LoopRead, WireTypes
<1>3. /\ 1 \in DOMAIN pipe
      /\ \A i \in DOMAIN pipe' : i + 1 \in DOMAIN pipe /\ i + 1 # 1 /\ pipe'[i] = pipe[i + 1]
  BY <1>1, PipeFacts
<1>4. PayloadsAhead'
  BY <1>1, <1>2, <1>3 DEF OrderInv, PayloadsAhead
<1>5. PayloadsDistinct'
  <2>1. ASSUME NEW i \in DOMAIN pipe', NEW j \in DOMAIN pipe', i # j, pipe'[i].kind = "data"
        PROVE  pipe'[i] # pipe'[j]
    <3>1. i + 1 # j + 1
      BY <1>1, <2>1, PipeFacts
    <3> QED BY <1>3, <2>1, <3>1 DEF OrderInv, PayloadsDistinct
  <2>2. ASSUME NEW m \in Loops, NEW n \in Loops, m # n, lgot'[m].kind = "data"
        PROVE  lgot'[m] # lgot'[n]
    BY <1>2, <1>3, <2>2 DEF OrderInv, PayloadsDistinct
  <2>3. ASSUME NEW m \in Loops, NEW i \in DOMAIN pipe', lgot'[m].kind = "data"
        PROVE  lgot'[m] # pipe'[i]
    BY <1>2, <1>3, <2>3 DEF OrderInv, PayloadsDistinct
  <2> QED BY <2>1, <2>2, <2>3 DEF PayloadsDistinct
<1>6. Counted' /\ CopiesBehind'
  BY <1>1 DEF OrderInv, Counted, CopiesBehind
<1> QED BY <1>4, <1>5, <1>6 DEF OrderInv

(* The copied number is at most the count and the payload's is at least    *)
(* it, so that a payload which is accepted is exactly the next one.        *)
LEMMA AcceptsNext ==
  ASSUME IInv, WireTypes, OrderInv, NEW l \in Loops, Decrypts(l)
  PROVE  /\ lgot[l] \in Transfers /\ lgot[l].kind = "data" /\ lcs[l] \in Keys
         /\ lgot[l].key = lcs[l] /\ lgot[l].seq = nAcc[lcs[l]]
<1>1. lgot[l] \in Transfers /\ lcs[l] \in Keys /\ lgot[l].kind = "data" /\ lgot[l].key = lcs[l]
  BY AcceptedKey DEF Decrypts
<1>2. nAcc[lcs[l]] <= lgot[l].seq
  BY <1>1 DEF OrderInv, PayloadsAhead, Ahead
<1>3. lgot[l].seq = lexp[l] /\ lexp[l] <= nAcc[lcs[l]]
  BY <1>1, NumberFacts DEF Decrypts, OrderInv, CopiesBehind
<1> QED BY <1>1, <1>2, <1>3, NumberFacts, TransferFacts

LEMMA OrderAccept ==
  ASSUME IInv, IInv', WireTypes, WireTypes', OrderInv, NEW l \in Loops, LoopAccept(l)
  PROVE  OrderInv'
<1> DEFINE k == lcs[l]
           t == lgot[l]
<1>1. t \in Transfers /\ t.kind = "data" /\ k \in Keys /\ t.key = k /\ t.seq = nAcc[k]
  BY AcceptsNext DEF LoopAccept
<1>2. /\ UNCHANGED <<phReq, phKey, phSeq, pipe, nK>>
      /\ inSeq' = [inSeq EXCEPT ![k] = @ + 1] /\ nAcc' = [nAcc EXCEPT ![k] = @ + 1]
      /\ lgot' = [lgot EXCEPT ![l] = NoTransfer]
      /\ lcs' = [lcs EXCEPT ![l] = 0] /\ lexp' = [lexp EXCEPT ![l] = 0]
  BY DEF LoopAccept, Report, EndIteration, phoneVars, usbVars, allocVars
<1>3. /\ nAcc'[k] = nAcc[k] + 1 /\ \A j \in Keys \ {k} : nAcc'[j] = nAcc[j]
      /\ inSeq'[k] = inSeq[k] + 1 /\ \A j \in Keys \ {k} : inSeq'[j] = inSeq[j]
  BY <1>1, <1>2 DEF WireTypes, HistTypes
<1>4. /\ lgot'[l] = NoTransfer /\ \A m \in Loops \ {l} : lgot'[m] = lgot[m]
      /\ lcs'[l] = 0 /\ \A m \in Loops \ {l} : lcs'[m] = lcs[m] /\ lexp'[m] = lexp[m]
  BY <1>2 DEF WireTypes
<1>5. ASSUME NEW u, u.kind = "data" => u \in Transfers, u.kind = "data" => u # t,
             Ahead(u, nAcc, nK, phReq, phKey, phSeq)
      PROVE  Ahead(u, nAcc', nK', phReq', phKey', phSeq')
  <2> SUFFICES ASSUME u.kind = "data"
               PROVE  nAcc'[u.key] <= u.seq
    BY <1>2, <1>5 DEF Ahead
  <2>1. CASE u.key = k
    <3>1. u.seq # t.seq
      BY <1>1, <1>5, <2>1, TransferFacts
    <3>2. nAcc[k] <= u.seq
      BY <1>5, <2>1 DEF Ahead
    <3> HIDE DEF k, t
    <3> QED BY <1>1, <1>3, <1>5, <2>1, <3>1, <3>2, NumberFacts, TransferFacts
  <2>2. CASE u.key # k
    BY <1>3, <1>5, <2>2, TransferFacts DEF Ahead
  <2> QED BY <2>1, <2>2
<1>6. PayloadsAhead'
  <2>1. ASSUME NEW i \in DOMAIN pipe PROVE Ahead(pipe[i], nAcc', nK', phReq', phKey', phSeq')
    BY <1>1, <1>5, PipeFacts DEF OrderInv, PayloadsAhead, PayloadsDistinct
  <2>2. ASSUME NEW m \in Loops \ {l}
        PROVE  Ahead(lgot[m], nAcc', nK', phReq', phKey', phSeq')
    BY <1>1, <1>5, GotFacts DEF OrderInv, PayloadsAhead, PayloadsDistinct
  <2>3. Ahead(NoTransfer, nAcc', nK', phReq', phKey', phSeq')
    BY TransferFacts DEF Ahead
  <2> QED BY <1>2, <1>4, <2>1, <2>2, <2>3 DEF PayloadsAhead
<1>7. PayloadsDistinct'
  BY <1>2, <1>4, TransferFacts DEF OrderInv, PayloadsDistinct
<1>8. Counted'
  <2>1. k <= nK /\ k # phReq /\ (k = phKey => nAcc[k] < phSeq)
    BY <1>1 DEF OrderInv, PayloadsAhead, Ahead
  <2>2. ASSUME NEW j \in Keys PROVE inSeq'[j] <= nAcc'[j] /\ (j > nK => nAcc'[j] = 0)
    BY <1>1, <1>3, <2>1, NumberFacts DEF OrderInv, Counted
  <2>3. phReq # 0 => nAcc'[phReq] = 0
    <3>1. phReq # 0 => phReq \in Keys
      BY DEF WireTypes, PhoneTypes, Keys
    <3> QED BY <1>3, <2>1, <3>1 DEF OrderInv, Counted
  <2>4. phKey # 0 => nAcc'[phKey] <= phSeq
    <3>1. phKey # 0 => phKey \in Keys
      BY DEF WireTypes, PhoneTypes, Keys
    <3>2. CASE phKey = k
      BY <1>1, <1>3, <2>1, <3>2, NumberFacts
    <3>3. CASE phKey # k
      BY <1>3, <3>1, <3>3 DEF OrderInv, Counted
    <3> QED BY <3>2, <3>3
  <2> QED BY <1>2, <2>2, <2>3, <2>4 DEF OrderInv, Counted
<1>9. CopiesBehind'
  <2>1. \A j \in Keys : nAcc[j] <= nAcc'[j] /\ nAcc'[j] \in Nat
    BY <1>1, <1>3, NumberFacts
  <2>2. ASSUME NEW m \in Loops, lcs'[m] # 0 PROVE lexp'[m] <= nAcc'[lcs'[m]]
    <3>1. m # l /\ lcs'[m] = lcs[m] /\ lexp'[m] = lexp[m] /\ lcs[m] \in Keys
      BY <1>4, <2>2, NumberFacts
    <3>2. lexp[m] <= nAcc[lcs[m]]
      BY <2>2, <3>1 DEF OrderInv, CopiesBehind
    <3> QED BY <2>1, <3>1, <3>2, NumberFacts
  <2> QED BY <2>2 DEF CopiesBehind
<1> QED BY <1>6, <1>7, <1>8, <1>9 DEF OrderInv

LEMMA OrderPhone ==
  ASSUME IInv, IInv', WireTypes, WireTypes', OrderInv, Unplug \/ PhoneReply \/ PhoneSend
  PROVE  OrderInv'
<1>0. UNCHANGED <<nAcc, inSeq, nK, lgot, lcs, lexp>>
  BY DEF Unplug, PhoneReply, PhoneSend, keyVars, loopVars, histVars, allocVars
<1>1. CopiesBehind'
  BY <1>0 DEF OrderInv, CopiesBehind
<1>2. CASE Unplug
  <2>1. phReq' = 0 /\ phKey' = 0 /\ phSeq' = 0 /\ pipe' = <<>>
    BY <1>2 DEF Unplug
  <2>2. DOMAIN pipe' = {}
    BY <2>1
  <2>3. ASSUME NEW l \in Loops PROVE Ahead(lgot[l], nAcc, nK, 0, 0, 0)
    BY GotFacts, TransferFacts DEF OrderInv, PayloadsAhead, Ahead
  <2>4. PayloadsAhead' /\ PayloadsDistinct'
    BY <1>0, <2>1, <2>2, <2>3 DEF OrderInv, PayloadsAhead, PayloadsDistinct
  <2>5. Counted'
    BY <1>0, <2>1, NumberFacts DEF OrderInv, Counted
  <2> QED BY <1>1, <2>4, <2>5 DEF OrderInv
<1>3. ASSUME NEW t \in Transfers, pipe' = Append(pipe, t)
      PROVE  /\ DOMAIN pipe' = DOMAIN pipe \cup {Len(pipe) + 1} /\ Len(pipe) + 1 \notin DOMAIN pipe
             /\ pipe'[Len(pipe) + 1] = t /\ \A i \in DOMAIN pipe : pipe'[i] = pipe[i]
  BY <1>3, PipeFacts
<1>4. CASE PhoneReply
  <2> DEFINE t == [kind |-> "pk", key |-> phReq, seq |-> 0]
  <2>1. /\ pipe' = Append(pipe, t) /\ phKey' = phReq /\ phSeq' = 0 /\ phReq' = 0 /\ phReq \in Keys
        /\ t \in Transfers /\ t.kind # "data"
    BY <1>4 DEF PhoneReply, WireTypes, PhoneTypes, Keys, Transfers
  <2> HIDE DEF t
  <2>2. ASSUME NEW u, u.kind = "data" => u \in Transfers,
               Ahead(u, nAcc, nK, phReq, phKey, phSeq)
        PROVE  Ahead(u, nAcc', nK', phReq', phKey', phSeq')
    BY <1>0, <2>1, <2>2, TransferFacts DEF Ahead
  <2>3. PayloadsAhead'
    <3>1. ASSUME NEW i \in DOMAIN pipe' PROVE Ahead(pipe'[i], nAcc', nK', phReq', phKey', phSeq')
      <4>1. CASE i \in DOMAIN pipe
        BY <1>3, <2>1, <2>2, <4>1, PipeFacts DEF OrderInv, PayloadsAhead
      <4>2. CASE i = Len(pipe) + 1
        BY <1>3, <2>1, <4>2 DEF Ahead
      <4> QED BY <1>3, <2>1, <4>1, <4>2
    <3>2. ASSUME NEW l \in Loops PROVE Ahead(lgot[l], nAcc', nK', phReq', phKey', phSeq')
      BY <2>2, GotFacts DEF OrderInv, PayloadsAhead
    <3> QED BY <1>0, <3>1, <3>2 DEF PayloadsAhead
  <2>4. PayloadsDistinct'
    BY <1>0, <1>3, <2>1 DEF OrderInv, PayloadsDistinct
  <2>5. Counted'
    BY <1>0, <2>1, NumberFacts DEF OrderInv, Counted
  <2> QED BY <1>1, <2>3, <2>4, <2>5 DEF OrderInv
<1>5. CASE PhoneSend
  <2> DEFINE t == [kind |-> "data", key |-> phKey, seq |-> phSeq]
  <2>1. /\ pipe' = Append(pipe, t) /\ phSeq' = phSeq + 1 /\ UNCHANGED <<phReq, phKey>>
        /\ phKey \in Keys /\ t \in Transfers /\ t.kind = "data" /\ t.key = phKey /\ t.seq = phSeq
    BY <1>5 DEF PhoneSend, WireTypes, PhoneTypes, Keys, Transfers
  <2> HIDE DEF t
  <2>2. ASSUME NEW u, u.kind = "data" => u \in Transfers,
               Ahead(u, nAcc, nK, phReq, phKey, phSeq)
        PROVE  u # t /\ Ahead(u, nAcc', nK', phReq', phKey', phSeq')
    BY <1>0, <2>1, <2>2, NumberFacts, TransferFacts DEF Ahead
  <2>3. Ahead(t, nAcc', nK', phReq', phKey', phSeq')
    BY <1>0, <2>1, NumberFacts DEF Ahead, OrderInv, Counted
  <2>4. ASSUME NEW i \in DOMAIN pipe
        PROVE  pipe[i] # t /\ Ahead(pipe[i], nAcc', nK', phReq', phKey', phSeq')
    BY <2>2, PipeFacts DEF OrderInv, PayloadsAhead
  <2>5. ASSUME NEW l \in Loops
        PROVE  lgot[l] # t /\ Ahead(lgot[l], nAcc', nK', phReq', phKey', phSeq')
    BY <2>2, GotFacts DEF OrderInv, PayloadsAhead
  <2>6. PayloadsAhead'
    BY <1>0, <1>3, <2>1, <2>3, <2>4, <2>5 DEF PayloadsAhead
  <2>7. PayloadsDistinct'
    BY <1>0, <1>3, <2>1, <2>4, <2>5 DEF OrderInv, PayloadsDistinct
  <2>8. Counted'
    BY <1>0, <2>1, NumberFacts DEF OrderInv, Counted
  <2> QED BY <1>1, <2>6, <2>7, <2>8 DEF OrderInv
<1> QED BY <1>2, <1>4, <1>5

LEMMA OrderInvariant == Spec => []OrderInv
<1>1. Init => OrderInv
  <2> SUFFICES ASSUME Init PROVE OrderInv
    OBVIOUS
  <2>1. pipe = <<>> /\ DOMAIN pipe = {} /\ \A l \in Loops : lgot[l] = NoTransfer
    BY DEF Init
  <2>2. PayloadsAhead /\ PayloadsDistinct
    BY <2>1, TransferFacts DEF PayloadsAhead, PayloadsDistinct, Ahead
  <2> QED BY <2>2 DEF Init, OrderInv, Counted, CopiesBehind
<1>2. IInv /\ IInv' /\ WireTypes /\ WireTypes' /\ OrderInv /\ [Next]_vars => OrderInv'
  BY OrderStdin, OrderLoop, OrderRead, OrderAccept, OrderPhone DEF Next, Loop, Phone
<1> QED BY <1>1, <1>2, HostInvariant, TypesInvariant, PTL DEF Spec

(* Payloads of a key are accepted in the phone's order without a hole, for *)
(* any number of overlapping loops, stale copies of the tracker, resets by *)
(* Close and lost transfers.                                               *)
THEOREM InOrder == Spec => AcceptedInOrder
<1>1. IInv /\ WireTypes /\ OrderInv => \A l \in Loops : LoopAccept(l) => lgot[l].seq = nAcc[lcs[l]]
  BY AcceptsNext DEF LoopAccept
<1> QED BY <1>1, HostInvariant, TypesInvariant, OrderInvariant, PTL DEF AcceptedInOrder
=============================================================================
