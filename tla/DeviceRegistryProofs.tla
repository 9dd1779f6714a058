------------------------ MODULE DeviceRegistryProofs ------------------------
(* The registry's lists are well formed in all three places, completed     *)
(* pairings and revocations are durable, and the active device is a        *)
(* registered one, for any devices, any limit and any number of restarts,  *)
(* reconciliations, revocations and failing accesses.                      *)
EXTENDS DeviceRegistry, Integers, TLAPS

-----------------------------------------------------------------------------
(* Lists of devices *)

Lists == {s \in Seq(Devices) : WellFormed(s)}
Maybe == Devices \cup {None}

LEMMA EmptyList == <<>> \in Lists /\ Range(<<>>) = {}
BY RegistryConstants DEF Lists, WellFormed, Range

LEMMA RangeOf == \A s \in Seq(Devices) : Range(s) \subseteq Devices
BY DEF Range

LEMMA AddedList ==
  ASSUME NEW s \in Lists, NEW d \in Devices, d \in Range(s) \/ Len(s) < MAX_DEVICES
  PROVE  Added(s, d) \in Lists /\ Range(Added(s, d)) = Range(s) \cup {d}
<1>1. CASE d \in Range(s)
  BY <1>1 DEF Added
<1>2. CASE d \notin Range(s)
  <2>1. /\ s \in Seq(Devices) /\ Added(s, d) = Append(s, d) /\ Append(s, d) \in Seq(Devices)
        /\ Len(s) \in Nat /\ Len(Append(s, d)) = Len(s) + 1
    BY <1>2 DEF Added, Lists
  <2>2. \A i \in 1..Len(s) : Append(s, d)[i] = s[i] /\ s[i] # d
    BY <1>2, <2>1 DEF Range
  <2>3. Append(s, d)[Len(s) + 1] = d
    BY <2>1
  <2>4. \A i \in 1..(Len(s) + 1) : i \in 1..Len(s) \/ i = Len(s) + 1
    BY <2>1
  <2>5. WellFormed(Append(s, d))
    <3>1. Len(Append(s, d)) <= MAX_DEVICES
      BY <1>2, <2>1, RegistryConstants
    <3>2. ASSUME NEW i \in 1..Len(Append(s, d)), NEW j \in 1..Len(Append(s, d)),
                 Append(s, d)[i] = Append(s, d)[j]
          PROVE  i = j
      BY <2>1, <2>2, <2>3, <2>4, <3>2 DEF Lists, WellFormed
    <3> QED BY <3>1, <3>2 DEF WellFormed
  <2>6. Range(Append(s, d)) = Range(s) \cup {d}
    <3>1. Range(Append(s, d)) \subseteq Range(s) \cup {d}
      BY <2>1, <2>2, <2>3, <2>4 DEF Range
    <3>2. d \in Range(Append(s, d))
      BY <2>1, <2>3 DEF Range
    <3>3. \A i \in 1..Len(s) : i \in 1..Len(Append(s, d))
      BY <2>1
    <3>4. Range(s) \subseteq Range(Append(s, d))
      BY <2>2, <3>3 DEF Range
    <3> QED BY <3>1, <3>2, <3>4
  <2> QED BY <2>1, <2>5, <2>6 DEF Lists
<1> QED BY <1>1, <1>2

LEMMA RemovedList ==
  ASSUME NEW s \in Lists, NEW d \in Range(s)
  PROVE  Removed(s, d) \in Lists /\ Range(Removed(s, d)) = Range(s) \ {d}
<1> DEFINE i == CHOOSE k \in 1..Len(s) : s[k] = d
           t == Removed(s, d)
<1>1. i \in 1..Len(s) /\ s[i] = d
  BY DEF Range
<1>2. /\ s \in Seq(Devices) /\ Len(s) \in Nat
      /\ \A k, m \in 1..Len(s) : s[k] = s[m] => k = m
  BY DEF Lists, WellFormed
<1>3. t = [j \in 1..(Len(s) - 1) |-> IF j < i THEN s[j] ELSE s[j + 1]]
  BY DEF Removed
<1> HIDE DEF i, t
<1>4. i \in Nat /\ i >= 1 /\ i <= Len(s)
  BY <1>1, <1>2
<1>5. /\ t \in Seq(Devices) /\ Len(t) = Len(s) - 1
      /\ \A j \in 1..(Len(s) - 1) : t[j] = IF j < i THEN s[j] ELSE s[j + 1]
  <2>1. \A j \in 1..(Len(s) - 1) : (IF j < i THEN s[j] ELSE s[j + 1]) \in Devices
    BY <1>2
  <2>2. Len(s) - 1 \in Nat
    BY <1>2, <1>4
  <2>3. /\ t \in [1..(Len(s) - 1) -> Devices]
        /\ \A j \in 1..(Len(s) - 1) : t[j] = IF j < i THEN s[j] ELSE s[j + 1]
    BY <1>3, <2>1
  <2>4. t \in Seq(Devices)
    BY <2>2, <2>3
  <2>5. Len(t) \in Nat /\ DOMAIN t = 1..Len(t) /\ DOMAIN t = 1..(Len(s) - 1)
    BY <2>3, <2>4
  <2>6. Len(t) = Len(s) - 1
    BY <2>2, <2>5
  <2> QED BY <2>3, <2>4, <2>6
<1>6. WellFormed(t)
  <2>1. Len(t) <= MAX_DEVICES
    BY <1>2, <1>5, RegistryConstants DEF Lists, WellFormed
  <2>2. ASSUME NEW j \in 1..Len(t), NEW k \in 1..Len(t), t[j] = t[k] PROVE j = k
    <3>1. /\ j \in 1..Len(s) /\ j + 1 \in 1..Len(s) /\ k \in 1..Len(s) /\ k + 1 \in 1..Len(s)
          /\ j \in Int /\ k \in Int
      BY <1>2, <1>5
    <3> QED BY <1>2, <1>4, <1>5, <2>2, <3>1
  <2> QED BY <2>1, <2>2 DEF WellFormed
<1>7. Range(t) \subseteq Range(s) \ {d}
  <2> SUFFICES ASSUME NEW j \in 1..Len(t) PROVE t[j] \in Range(s) /\ t[j] # d
    BY DEF Range
  <2>1. j \in 1..Len(s) /\ j + 1 \in 1..Len(s) /\ j \in Int
    BY <1>2, <1>5
  <2> QED BY <1>1, <1>2, <1>4, <1>5, <2>1 DEF Range
<1>8. Range(s) \ {d} \subseteq Range(t)
  <2> SUFFICES ASSUME NEW k \in 1..Len(s), s[k] # d PROVE s[k] \in Range(t)
    BY DEF Range
  <2>1. k < i \/ k > i
    BY <1>1, <1>2, <1>4
  <2>2. CASE k < i
    <3>1. k \in 1..(Len(s) - 1)
      BY <1>2, <1>4, <2>2
    <3> QED BY <1>5, <2>2, <3>1 DEF Range
  <2>3. CASE k > i
    <3>1. k - 1 \in 1..(Len(s) - 1) /\ ~(k - 1 < i) /\ (k - 1) + 1 = k
      BY <1>2, <1>4, <2>3
    <3> QED BY <1>5, <3>1 DEF Range
  <2> QED BY <2>1, <2>2, <2>3
<1> QED BY <1>5, <1>6, <1>7, <1>8 DEF Lists, t

(* The successor of an active device is one of those left, or nobody.      *)
LEMMA SuccessorLeft ==
  ASSUME NEW s \in Lists, NEW d \in Devices, NEW a \in Maybe
  PROVE  /\ Successor(s, a, d) \in Maybe
         /\ a \in Range(s) \cup {d, None} => Successor(s, a, d) \in Range(s) \cup {None}
<1>1. s # <<>> => s[1] \in Range(s) /\ s[1] \in Devices
  <2>1. s \in Seq(Devices)
    BY DEF Lists
  <2>2. s # <<>> => 1 \in 1..Len(s)
    BY <2>1
  <2> QED BY <2>1, <2>2 DEF Range
<1> QED BY <1>1, RegistryConstants DEF Successor, Maybe

-----------------------------------------------------------------------------
(* Types *)

Among(a, s) == a \in Range(s) \cup {None}

Working == {"rotate", "session", "local", "client", "finish"}

Operations ==
  [pc : {"idle", "load", "loadLocal"} \cup Working, kind : Kinds \cup {None},
   dev : Maybe, devs : Lists, active : Maybe]

RegistryTypes ==
  /\ cache = None \/ cache \in Lists
  /\ cacheActive \in Maybe
  /\ initialized \in {0, 1} /\ (initialized = 1 => cache \in Lists)
  /\ sess \in Lists /\ loc \in Lists /\ sessActive \in Maybe
  /\ epoch \in Nat /\ fails \in Nat
  /\ op \in Operations
  /\ op.pc # "idle" => op.kind \in Kinds /\ op.dev \in Devices
  /\ rec \in {"idle", "session", "local"}
  /\ bcast \in [Devices -> {"none", "post", "read", "write"}]
  /\ seen \in [Devices -> SUBSET Devices]
  /\ pendingRev \in SUBSET Devices
  /\ member \in [Devices -> {"in", "out", "unknown"}]

LEMMA IdleTyped == Idle \in Operations /\ Idle.pc = "idle"
BY EmptyList DEF Idle, Operations, Maybe

(* An operation that was not refused, up to its first await, on the list s *)
(* and the active device a.                                                *)
Begun(kind, d, s, a) ==
  /\ op' \in Operations
  /\ op'.pc = IF kind = "revoke" THEN "rotate" ELSE "session"
  /\ op'.kind = kind /\ op'.dev = d
  /\ kind = "add" => Range(op'.devs) = Range(s) \cup {d}
  /\ kind \in {"remove", "revoke"} =>
       d \in Range(s) /\ Range(op'.devs) = Range(s) \ {d}
  /\ kind \in {"setActive", "touch"} => d \in Range(s) /\ op'.devs = s
  /\ Among(a, s) => Among(op'.active, op'.devs)

(* What the common part of the operations does with a well-formed list.    *)
LEMMA BodyBegins ==
  ASSUME NEW kind \in Kinds, NEW d \in Devices, NEW s \in Lists, NEW a \in Maybe,
         Body(kind, d, s, a)
  PROVE  op' = Idle \/ Begun(kind, d, s, a)
<1> DEFINE n == NewDevices(kind, d, s)
           m == NewActive(kind, d, s, a)
<1>1. CASE Refused(kind, d, s)
  BY <1>1 DEF Body
<1>2. CASE ~Refused(kind, d, s)
  <2>1. op' = [pc |-> IF kind = "revoke" THEN "rotate" ELSE "session",
               kind |-> kind, dev |-> d, devs |-> n, active |-> m]
    BY <1>2 DEF Body
  <2>2. Range(s) \subseteq Devices
    BY RangeOf DEF Lists
  <2> SUFFICES /\ n \in Lists /\ m \in Maybe
               /\ kind = "add" => Range(n) = Range(s) \cup {d}
               /\ kind \in {"remove", "revoke"} =>
                    d \in Range(s) /\ Range(n) = Range(s) \ {d}
               /\ kind \in {"setActive", "touch"} => d \in Range(s) /\ n = s
               /\ Among(a, s) => Among(m, n)
    <3> HIDE DEF n, m
    <3>1. op' \in Operations
      BY <2>1 DEF Operations, Working, Maybe, Kinds
    <3> QED BY <2>1, <3>1 DEF Begun
  <2>3. CASE kind = "add"
    <3>1. d \in Range(s) \/ Len(s) < MAX_DEVICES
      BY <1>2, <2>3, RegistryConstants DEF Refused, Lists
    <3>2. n = Added(s, d) /\ m = a
      BY <2>3 DEF NewDevices, NewActive
    <3> HIDE DEF n, m
    <3> QED BY <2>3, <3>1, <3>2, AddedList DEF Among
  <2>4. CASE kind \in {"remove", "revoke"}
    <3>1. d \in Range(s)
      BY <1>2, <2>4 DEF Refused
    <3>2. n = Removed(s, d) /\ m = Successor(n, a, d)
      BY <2>4 DEF NewDevices, NewActive
    <3> HIDE DEF n, m
    <3>3. n \in Lists /\ Range(n) = Range(s) \ {d}
      BY <3>1, <3>2, RemovedList
    <3>4. m \in Maybe /\ (Among(a, s) => Among(m, n))
      BY <3>2, <3>3, SuccessorLeft DEF Among
    <3> QED BY <2>4, <3>1, <3>3, <3>4
  <2>5. CASE kind \in {"setActive", "touch"}
    <3>1. d \in Range(s)
      BY <1>2, <2>5 DEF Refused
    <3>2. n = s /\ m = IF kind = "setActive" THEN d ELSE a
      BY <2>5 DEF NewDevices, NewActive
    <3> HIDE DEF n, m
    <3> QED BY <2>5, <3>1, <3>2 DEF Among, Maybe
  <2> QED BY <2>3, <2>4, <2>5 DEF Kinds
<1> QED BY <1>1, <1>2

LEMMA MemberAfterTyped ==
  ASSUME RegistryTypes
  PROVE  MemberAfter \in [Devices -> {"in", "out", "unknown"}]
BY DEF RegistryTypes, MemberAfter

LEMMA TypesStep ==
  ASSUME RegistryTypes, [Next]_vars
  PROVE  RegistryTypes'
<1> USE DEF RegistryTypes
<1>0. MemberAfter \in [Devices -> {"in", "out", "unknown"}]
  BY MemberAfterTyped
<1>1. ASSUME NEW kind \in Kinds, NEW d \in Devices, OpStart(kind, d)
      PROVE  RegistryTypes'
  <2>1. CASE initialized = 1
    <3>1. op' = Idle \/ Begun(kind, d, cache, cacheActive)
      BY <1>1, <2>1, BodyBegins DEF OpStart
    <3>2. op' \in Operations /\ (op'.pc # "idle" => op'.kind \in Kinds /\ op'.dev \in Devices)
      BY <3>1, IdleTyped DEF Begun
    <3> QED BY <1>1, <3>2 DEF OpStart, cacheVars, storeVars, bcastVars
  <2>2. CASE initialized # 1
    <3>1. op' = [Idle EXCEPT !.pc = "load", !.kind = kind, !.dev = d]
      BY <1>1, <2>2 DEF OpStart
    <3>2. op' \in Operations /\ op'.kind \in Kinds /\ op'.dev \in Devices
      BY <3>1, EmptyList DEF Idle, Operations, Maybe
    <3> QED BY <1>1, <3>2 DEF OpStart, cacheVars, storeVars, bcastVars
  <2> QED BY <2>1, <2>2
<1>2. CASE OpLoad
  <2>1. CASE sess # <<>>
    <3>1. op' = Idle \/ Begun(op.kind, op.dev, sess, sessActive)
      BY <1>2, <2>1, BodyBegins DEF OpLoad
    <3>2. op' \in Operations /\ (op'.pc # "idle" => op'.kind \in Kinds /\ op'.dev \in Devices)
      BY <1>2, <3>1, IdleTyped DEF Begun, OpLoad
    <3> QED BY <1>2, <2>1, <3>2 DEF OpLoad, LoadSession, storeVars, bcastVars, countVars
  <2>2. CASE sess = <<>>
    BY <1>2, <2>2 DEF OpLoad, Operations, cacheVars, storeVars, bcastVars, countVars
  <2> QED BY <2>1, <2>2
<1>3. CASE OpLoadLocal
  <2>1. op' = Idle \/ Begun(op.kind, op.dev, loc, None)
    BY <1>3, BodyBegins DEF OpLoadLocal, Maybe
  <2>2. op' \in Operations /\ (op'.pc # "idle" => op'.kind \in Kinds /\ op'.dev \in Devices)
    BY <1>3, <2>1, IdleTyped DEF Begun, OpLoadLocal
  <2> QED BY <1>3, <2>2 DEF OpLoadLocal, LoadLocal, storeVars, bcastVars, countVars, Maybe
<1>4. CASE OpRotate
  <2>1. op.devs \in Lists
    BY DEF Operations
  <2>2. Successor(op.devs, cacheActive, op.dev) \in Maybe
    BY <1>4, <2>1, SuccessorLeft DEF OpRotate
  <2>3. op' \in Operations /\ op'.kind \in Kinds /\ op'.dev \in Devices
    BY <1>4, <2>2 DEF OpRotate, Operations, Working
  <2> QED BY <1>4, <2>3 DEF OpRotate, cacheVars, bcastVars, countVars
<1>5. CASE PersistSession
  BY <1>5 DEF PersistSession, Operations, Working, cacheVars, bcastVars, countVars
<1>6. CASE PersistLocal
  BY <1>6 DEF PersistLocal, Operations, Working, cacheVars, bcastVars, countVars
<1>7. CASE RemoveClient
  BY <1>7 DEF RemoveClient, Operations, Working, cacheVars, storeVars, bcastVars, countVars
<1>8. CASE OpFinish
  <2>1. op' \in Operations /\ op'.pc = "idle" /\ op.devs \in Lists /\ op.active \in Maybe
    BY <1>8, IdleTyped DEF OpFinish, Operations
  <2> QED BY <1>0, <1>8, <2>1 DEF OpFinish, storeVars, countVars
<1>9. CASE OpFail
  BY <1>0, <1>9, IdleTyped DEF OpFail, cacheVars, storeVars, bcastVars
<1>10. CASE Reconcile
  BY <1>10 DEF Reconcile, ReconcileStart, QueryStart, ReconcileFail, ReconcileSession,
    ReconcileLocal, LoadSession, LoadLocal, Maybe, cacheVars, storeVars, bcastVars, countVars
<1>11. ASSUME NEW d \in Devices, Broadcast(d) PROVE RegistryTypes'
  BY <1>11 DEF Broadcast, BroadcastOk, BroadcastFail, QueueRead, QueueWrite,
    cacheVars, storeVars, countVars
<1>12. CASE WorkerRestart
  BY <1>0, <1>12, IdleTyped DEF WorkerRestart, MemoryLost, Maybe, storeVars
<1>13. CASE BrowserRestart
  BY <1>0, <1>13, IdleTyped, EmptyList DEF BrowserRestart, MemoryLost, Maybe
<1>14. CASE UNCHANGED vars
  BY <1>14 DEF vars, cacheVars, storeVars, bcastVars, countVars
<1> QED BY <1>1, <1>2, <1>3, <1>4, <1>5, <1>6, <1>7, <1>8, <1>9, <1>10, <1>11, <1>12,
  <1>13, <1>14 DEF Next, Op

-----------------------------------------------------------------------------
(* Completed operations and the three copies *)

Decisive == {"add", "remove", "revoke"}

(* The device on which the stores differ: the one of an operation between  *)
(* its two writes or with the cache still to follow.                       *)
Touched ==
  IF op.kind \in Decisive /\ op.pc \in {"local", "client", "finish"}
  THEN {op.dev} ELSE {}

(* What the history says of every other device holds of the list.          *)
Agrees(s, X) ==
  \A d \in Devices \ X :
    /\ member[d] = "in" => d \in Range(s)
    /\ member[d] = "out" => d \notin Range(s)

(* The list an operation is about to write.                                *)
NewList ==
  /\ Agrees(op.devs, IF op.kind \in Decisive THEN {op.dev} ELSE {})
  /\ op.kind = "add" => op.dev \in Range(op.devs)
  /\ op.kind \in {"remove", "revoke"} => op.dev \notin Range(op.devs)

MembershipInv ==
  /\ Agrees(loc, Touched)
  /\ sess # <<>> => Agrees(sess, Touched)
  /\ initialized = 1 => Agrees(cache, Touched)
  /\ op.pc \in Working => NewList
  /\ op.pc \in {"local", "client", "finish"} => sess = op.devs
  /\ op.pc \in {"client", "finish"} => loc = op.devs

LEMMA BegunMembership ==
  ASSUME RegistryTypes, NEW kind \in Kinds, NEW d \in Devices, NEW s, NEW a,
         Agrees(s, {}), Begun(kind, d, s, a), UNCHANGED member
  PROVE  /\ NewList'
         /\ op'.pc \in {"rotate", "session"} /\ Touched' = {}
BY DEF Begun, NewList, Agrees, Decisive, Kinds, Touched

LEMMA MembershipStep ==
  ASSUME RegistryTypes, MembershipInv, [Next]_vars
  PROVE  MembershipInv'
<1> USE DEF MembershipInv
<1>0. op.kind \in Kinds \cup {None} /\ op.devs \in Lists
  BY DEF RegistryTypes, Operations
<1>a. ASSUME op.pc \notin {"local", "client", "finish"} PROVE Touched = {}
  BY <1>a DEF Touched
<1>1. ASSUME NEW kind \in Kinds, NEW d \in Devices, OpStart(kind, d)
      PROVE  MembershipInv'
  <2>1. UNCHANGED <<cache, initialized, sess, loc, member>> /\ Touched = {}
    BY <1>1, <1>a DEF OpStart, cacheVars, storeVars
  <2>2. CASE initialized = 1
    <3>1. op' = Idle \/ Begun(kind, d, cache, cacheActive)
      BY <1>1, <2>2, BodyBegins DEF OpStart, RegistryTypes
    <3>2. CASE op' = Idle
      BY <2>1, <3>2, IdleTyped DEF Touched, Working, Agrees
    <3>3. CASE Begun(kind, d, cache, cacheActive)
      <4>1. NewList' /\ op'.pc \in {"rotate", "session"} /\ Touched' = {}
        BY <2>1, <2>2, <3>3, BegunMembership
      <4> QED BY <2>1, <4>1 DEF Agrees
    <3> QED BY <3>1, <3>2, <3>3
  <2>3. CASE initialized # 1
    <3>1. op'.pc = "load"
      BY <1>1, <2>3 DEF OpStart, Idle
    <3> QED BY <2>1, <3>1 DEF Touched, Working, Agrees
  <2> QED BY <2>2, <2>3
<1>2. CASE OpLoad
  <2>1. UNCHANGED <<sess, loc, member>> /\ Touched = {} /\ op.kind \in Kinds /\ op.dev \in Devices
    BY <1>2, <1>a DEF OpLoad, storeVars, RegistryTypes
  <2>2. CASE sess # <<>>
    <3>1. op' = Idle \/ Begun(op.kind, op.dev, sess, sessActive)
      BY <1>2, <2>1, <2>2, BodyBegins DEF OpLoad, RegistryTypes
    <3>2. cache' = sess /\ Agrees(sess, {})
      BY <1>2, <2>1, <2>2 DEF OpLoad, LoadSession
    <3>3. CASE op' = Idle
      BY <2>1, <3>2, <3>3, IdleTyped DEF Touched, Working, Agrees
    <3>4. CASE Begun(op.kind, op.dev, sess, sessActive)
      <4>1. NewList' /\ op'.pc \in {"rotate", "session"} /\ Touched' = {}
        BY <2>1, <3>2, <3>4, BegunMembership
      <4> QED BY <2>1, <3>2, <4>1 DEF Agrees
    <3> QED BY <3>1, <3>3, <3>4
  <2>3. CASE sess = <<>>
    <3>1. op'.pc = "loadLocal" /\ UNCHANGED <<cache, initialized>>
      BY <1>2, <2>3 DEF OpLoad, cacheVars, RegistryTypes, Operations
    <3> QED BY <2>1, <3>1 DEF Touched, Working, Agrees
  <2> QED BY <2>2, <2>3
<1>3. CASE OpLoadLocal
  <2>1. UNCHANGED <<sess, loc, member>> /\ Touched = {} /\ op.kind \in Kinds /\ op.dev \in Devices
    BY <1>3, <1>a DEF OpLoadLocal, storeVars, RegistryTypes
  <2>2. op' = Idle \/ Begun(op.kind, op.dev, loc, None)
    BY <1>3, <2>1, BodyBegins DEF OpLoadLocal, RegistryTypes, Maybe
  <2>3. cache' = loc /\ Agrees(loc, {})
    BY <1>3, <2>1 DEF OpLoadLocal, LoadLocal
  <2>4. CASE op' = Idle
    BY <2>1, <2>3, <2>4, IdleTyped DEF Touched, Working, Agrees
  <2>5. CASE Begun(op.kind, op.dev, loc, None)
    <3>1. NewList' /\ op'.pc \in {"rotate", "session"} /\ Touched' = {}
      BY <2>1, <2>3, <2>5, BegunMembership
    <3> QED BY <2>1, <2>3, <3>1 DEF Agrees
  <2> QED BY <2>2, <2>4, <2>5
<1>4. CASE OpRotate
  <2>1. /\ UNCHANGED <<cache, initialized, sess, loc, member>> /\ Touched = {}
        /\ op'.pc = "session" /\ op'.devs = op.devs /\ op'.kind = op.kind /\ op'.dev = op.dev
    BY <1>4, <1>a DEF OpRotate, cacheVars, RegistryTypes, Operations
  <2> QED BY <1>4, <2>1 DEF OpRotate, Touched, Working, Agrees, NewList
<1>5. CASE PersistSession
  <2>1. /\ UNCHANGED <<cache, initialized, loc, member>> /\ Touched = {} /\ sess' = op.devs
        /\ op'.pc = "local" /\ op'.devs = op.devs /\ op'.kind = op.kind /\ op'.dev = op.dev
    BY <1>5, <1>a DEF PersistSession, cacheVars, RegistryTypes, Operations
  <2>2. NewList
    BY <1>5 DEF PersistSession, Working
  <2>3. Touched' = IF op.kind \in Decisive THEN {op.dev} ELSE {}
    BY <2>1 DEF Touched
  <2> QED BY <2>1, <2>2, <2>3 DEF Agrees, NewList, Working
<1>6. CASE PersistLocal
  <2>1. /\ UNCHANGED <<cache, initialized, sess, member>> /\ loc' = op.devs
        /\ op'.pc \in {"client", "finish"} /\ op.pc = "local" /\ sess = op.devs
        /\ op'.devs = op.devs /\ op'.kind = op.kind /\ op'.dev = op.dev
    BY <1>6 DEF PersistLocal, cacheVars, RegistryTypes, Operations
  <2>2. NewList
    BY <2>1 DEF Working
  <2>3. Touched' = Touched /\ Touched = IF op.kind \in Decisive THEN {op.dev} ELSE {}
    BY <2>1 DEF Touched
  <2> QED BY <2>1, <2>2, <2>3 DEF Agrees, NewList, Working
<1>7. CASE RemoveClient
  <2>1. /\ UNCHANGED <<cache, initialized, sess, loc, member>>
        /\ op'.pc = "finish" /\ op.pc = "client"
        /\ op'.devs = op.devs /\ op'.kind = op.kind /\ op'.dev = op.dev
    BY <1>7 DEF RemoveClient, cacheVars, storeVars, RegistryTypes, Operations
  <2> QED BY <2>1 DEF Agrees, NewList, Working, Touched
<1>8. CASE OpFinish
  <2>1. /\ UNCHANGED <<initialized, sess, loc>> /\ cache' = op.devs /\ member' = MemberAfter
        /\ op.pc = "finish" /\ op'.pc = "idle" /\ sess = op.devs /\ loc = op.devs
        /\ op.dev \in Devices
    BY <1>8, IdleTyped DEF OpFinish, storeVars, RegistryTypes
  <2>2. NewList
    BY <2>1 DEF Working
  <2>3. Agrees(loc, {})'
    BY <2>1, <2>2 DEF Agrees, NewList, MemberAfter, Decisive, RegistryTypes
  <2> QED BY <2>1, <2>3 DEF Touched, Agrees, Working
<1>9. CASE OpFail \/ WorkerRestart \/ BrowserRestart
  <2>1. /\ loc' = loc /\ member' = MemberAfter /\ op'.pc = "idle"
        /\ sess' = sess \/ sess' = <<>>
        /\ initialized' = 1 => initialized = 1 /\ cache' = cache /\ op.pc # "finish"
        /\ member \in [Devices -> {"in", "out", "unknown"}]
    BY <1>9, IdleTyped DEF OpFail, WorkerRestart, BrowserRestart, MemoryLost, storeVars,
      cacheVars, RegistryTypes
  <2>2. CASE op.pc = "finish"
    <3>1. NewList /\ sess = op.devs /\ loc = op.devs
      BY <2>2 DEF Working
    <3>2. Agrees(loc, {})'
      BY <2>1, <2>2, <3>1 DEF Agrees, NewList, MemberAfter, Decisive
    <3> QED BY <2>1, <2>2, <3>1, <3>2 DEF Touched, Agrees, Working
  <2>3. CASE op.pc # "finish"
    <3>1. \A s : Agrees(s, Touched) => Agrees(s, {})'
      BY <2>1, <2>3 DEF Agrees, MemberAfter, Touched, Decisive
    <3>2. Agrees(loc, {})'
      BY <2>1, <3>1 DEF Agrees
    <3>3. sess' # <<>> => Agrees(sess, {})'
      BY <2>1, <3>1 DEF Agrees
    <3>4. initialized' = 1 => Agrees(cache, {})'
      BY <2>1, <3>1 DEF Agrees
    <3> QED BY <2>1, <3>2, <3>3, <3>4 DEF Touched, Agrees, Working
  <2> QED BY <2>2, <2>3
<1>10. CASE Reconcile
  <2>1. /\ UNCHANGED <<sess, loc, member, op>>
        /\ initialized' = 1 => \/ initialized = 1 /\ cache' = cache
                               \/ cache' = sess /\ sess # <<>>
                               \/ cache' = loc
    BY <1>10 DEF Reconcile, ReconcileStart, QueryStart, ReconcileFail, ReconcileSession,
      ReconcileLocal, LoadSession, LoadLocal, cacheVars, storeVars
  <2> QED BY <2>1 DEF Touched, Agrees, NewList
<1>11. CASE (\E d \in Devices : Broadcast(d)) \/ UNCHANGED vars
  <2>1. UNCHANGED <<cache, initialized, sess, loc, member, op>>
    BY <1>11 DEF Broadcast, BroadcastOk, BroadcastFail, QueueRead, QueueWrite, vars,
      cacheVars, storeVars
  <2> QED BY <2>1 DEF Touched, Agrees, NewList
<1> QED BY <1>1, <1>2, <1>3, <1>4, <1>5, <1>6, <1>7, <1>8, <1>9, <1>10, <1>11 DEF Next, Op

-----------------------------------------------------------------------------
(* The active device *)

ActiveStores ==
  /\ Among(sessActive, sess)
  /\ cacheActive # None => cache \in Lists /\ cacheActive \in Range(cache)

(* The active device an operation is about to write, or leaves alone.      *)
ActiveOp ==
  /\ op.pc \in {"session", "local", "client", "finish"} => Among(op.active, op.devs)
  /\ op.pc \in Working /\ op.kind \in {"add", "touch"} => Among(cacheActive, op.devs)
  /\ op.pc = "rotate" => cacheActive \in Range(op.devs) \cup {op.dev, None}

(* What an unlocked load may put into the cache in the meantime.           *)
ActiveLoads ==
  /\ op.pc \in {"rotate", "session"} => Range(sess) \subseteq Range(op.devs) \cup {op.dev}
  /\ op.pc \in {"rotate", "session"} /\ op.kind \in {"add", "touch", "setActive"} =>
       op.dev \in Range(op.devs)
  /\ op.pc \in {"idle", "load", "loadLocal"} /\ initialized = 1 =>
       Range(sess) \subseteq Range(cache)
  /\ rec = "local" /\ op.pc \in {"idle", "load", "loadLocal", "rotate", "session"} =>
       sess = <<>> \/ sess = loc
  /\ op.pc = "loadLocal" => sess = <<>>

ActiveInv == fails = 0 => ActiveStores /\ ActiveOp /\ ActiveLoads

(* The stores and the cache after the common part of an operation that ran *)
(* on the list s and the active device a.                                  *)
LEMMA BegunActive ==
  ASSUME NEW kind \in Kinds, NEW d \in Devices, NEW s \in Lists, NEW a \in Maybe,
         op' = Idle \/ Begun(kind, d, s, a),
         Among(a, s), Range(sess) \subseteq Range(s), Among(sessActive, sess),
         rec = "local" => sess = <<>> \/ sess = loc,
         cache' = s, cacheActive' = a, UNCHANGED <<sess, sessActive, loc, rec>>
  PROVE  ActiveStores' /\ ActiveOp' /\ ActiveLoads'
<1>1. ActiveStores'
  BY DEF ActiveStores, Among
<1>2. CASE op' = Idle
  BY <1>1, <1>2, IdleTyped DEF ActiveOp, ActiveLoads, Working
<1>3. CASE Begun(kind, d, s, a)
  <2>1. /\ op'.pc \in {"rotate", "session"} /\ op'.kind = kind /\ op'.dev = d
        /\ Among(op'.active, op'.devs) /\ Range(s) \subseteq Range(op'.devs) \cup {d}
        /\ kind \in {"add", "touch", "setActive"} =>
             d \in Range(op'.devs) /\ Range(s) \subseteq Range(op'.devs)
    BY <1>3 DEF Begun, Kinds
  <2>2. ActiveOp'
    BY <2>1 DEF ActiveOp, Among
  <2>3. ActiveLoads'
    BY <2>1 DEF ActiveLoads
  <2> QED BY <1>1, <2>2, <2>3
<1> QED BY <1>2, <1>3

LEMMA ActiveStep ==
  ASSUME RegistryTypes, MembershipInv, ActiveInv, [Next]_vars
  PROVE  ActiveInv'
<1> SUFFICES ASSUME fails' = 0
             PROVE  ActiveStores' /\ ActiveOp' /\ ActiveLoads'
  BY DEF ActiveInv
<1>0. fails = 0 /\ ActiveStores /\ ActiveOp /\ ActiveLoads
  <2>1. fails' = fails \/ fails' = fails + 1
    BY DEF Next, vars, OpStart, Op, OpLoad, OpLoadLocal, OpRotate, PersistSession,
      PersistLocal, RemoveClient, OpFinish, OpFail, Reconcile, ReconcileStart, QueryStart,
      ReconcileSession, ReconcileLocal, ReconcileFail, Broadcast, BroadcastOk,
      BroadcastFail, QueueRead, QueueWrite, WorkerRestart, BrowserRestart, MemoryLost,
      countVars
  <2>2. fails \in Nat
    BY DEF RegistryTypes
  <2> QED BY <2>1, <2>2 DEF ActiveInv
<1>a. /\ Among(sessActive, sess) /\ sess \in Lists /\ loc \in Lists /\ sessActive \in Maybe
      /\ cacheActive \in Maybe /\ op.devs \in Lists
      /\ initialized = 1 => cache \in Lists /\ Among(cacheActive, cache)
      /\ op.pc # "idle" => op.kind \in Kinds /\ op.dev \in Devices
  BY <1>0 DEF ActiveStores, Among, RegistryTypes, Operations
<1>1. ASSUME NEW kind \in Kinds, NEW d \in Devices, OpStart(kind, d)
      PROVE  ActiveStores' /\ ActiveOp' /\ ActiveLoads'
  <2>1. UNCHANGED <<cache, cacheActive, initialized, sess, sessActive, loc, rec>>
    BY <1>1 DEF OpStart, cacheVars, storeVars
  <2>2. op.pc = "idle" /\ (rec = "local" => sess = <<>> \/ sess = loc)
    BY <1>0, <1>1 DEF OpStart, ActiveLoads
  <2>3. CASE initialized = 1
    <3>1. op' = Idle \/ Begun(kind, d, cache, cacheActive)
      BY <1>1, <1>a, <2>3, BodyBegins DEF OpStart
    <3>2. Range(sess) \subseteq Range(cache)
      BY <1>0, <2>2, <2>3 DEF ActiveLoads
    <3> QED BY <1>a, <2>1, <2>2, <2>3, <3>1, <3>2, BegunActive
  <2>4. CASE initialized # 1
    <3>1. op'.pc = "load"
      BY <1>1, <2>4 DEF OpStart, Idle
    <3> QED BY <1>0, <2>1, <2>2, <2>4, <3>1 DEF ActiveStores, ActiveOp, ActiveLoads, Among, Working
  <2> QED BY <2>3, <2>4
<1>2. CASE OpLoad
  <2>1. UNCHANGED <<sess, sessActive, loc, rec>>
    BY <1>2 DEF OpLoad, storeVars
  <2>2. op.pc = "load" /\ (rec = "local" => sess = <<>> \/ sess = loc)
    BY <1>0, <1>2 DEF OpLoad, ActiveLoads
  <2>3. CASE sess # <<>>
    <3>1. op' = Idle \/ Begun(op.kind, op.dev, sess, sessActive)
      BY <1>2, <1>a, <2>2, <2>3, BodyBegins DEF OpLoad
    <3>2. cache' = sess /\ cacheActive' = sessActive
      BY <1>2, <2>3 DEF OpLoad, LoadSession
    <3> QED BY <1>a, <2>1, <2>2, <3>1, <3>2, BegunActive
  <2>4. CASE sess = <<>>
    <3>1. op'.pc = "loadLocal" /\ UNCHANGED <<cache, cacheActive, initialized>>
      BY <1>2, <2>4 DEF OpLoad, cacheVars, RegistryTypes, Operations
    <3> QED BY <1>0, <2>1, <2>2, <2>4, <3>1 DEF ActiveStores, ActiveOp, ActiveLoads, Among, Working
  <2> QED BY <2>3, <2>4
<1>3. CASE OpLoadLocal
  <2>1. UNCHANGED <<sess, sessActive, loc, rec>> /\ cache' = loc /\ cacheActive' = None
    BY <1>3 DEF OpLoadLocal, LoadLocal, storeVars
  <2>2. op.pc = "loadLocal" /\ sess = <<>>
    BY <1>0, <1>3 DEF OpLoadLocal, ActiveLoads
  <2>3. op' = Idle \/ Begun(op.kind, op.dev, loc, None)
    BY <1>3, <1>a, <2>2, BodyBegins DEF OpLoadLocal, Maybe
  <2>4. Among(None, loc) /\ None \in Maybe /\ Range(sess) \subseteq Range(loc)
    BY <2>2, EmptyList DEF Among, Maybe
  <2> QED BY <1>a, <2>1, <2>2, <2>3, <2>4, BegunActive
<1>4. CASE OpRotate
  <2>1. /\ UNCHANGED <<cache, cacheActive, initialized, sess, sessActive, loc, rec>>
        /\ op.pc = "rotate" /\ op'.pc = "session"
        /\ op'.devs = op.devs /\ op'.kind = op.kind /\ op'.dev = op.dev
        /\ op'.active = Successor(op.devs, cacheActive, op.dev)
    BY <1>4 DEF OpRotate, cacheVars, RegistryTypes, Operations
  <2>2. Among(op'.active, op.devs)
    BY <1>0, <1>a, <2>1, SuccessorLeft DEF ActiveOp, Among
  <2> QED BY <1>0, <2>1, <2>2 DEF ActiveStores, ActiveOp, ActiveLoads, Among, Working
<1>5. CASE PersistSession
  <2>1. /\ UNCHANGED <<cache, cacheActive, initialized, loc, rec>>
        /\ sess' = op.devs /\ sessActive' = op.active
        /\ op.pc = "session" /\ op'.pc = "local" /\ op'.active = op.active
        /\ op'.devs = op.devs /\ op'.kind = op.kind /\ op'.dev = op.dev
    BY <1>5 DEF PersistSession, cacheVars, RegistryTypes, Operations
  <2> QED BY <1>0, <2>1 DEF ActiveStores, ActiveOp, ActiveLoads, Among, Working
<1>6. CASE PersistLocal \/ RemoveClient
  <2>1. /\ UNCHANGED <<cache, cacheActive, initialized, sess, sessActive, rec>>
        /\ op.pc \in {"local", "client"} /\ op'.pc \in {"client", "finish"}
        /\ op'.active = op.active
        /\ op'.devs = op.devs /\ op'.kind = op.kind /\ op'.dev = op.dev
    BY <1>6 DEF PersistLocal, RemoveClient, cacheVars, storeVars, RegistryTypes, Operations
  <2> QED BY <1>0, <2>1 DEF ActiveStores, ActiveOp, ActiveLoads, Among, Working
<1>7. CASE OpFinish
  <2>1. /\ UNCHANGED <<initialized, sess, sessActive, loc, rec>> /\ cache' = op.devs
        /\ op'.pc = "idle" /\ op.pc = "finish" /\ sess = op.devs /\ loc = op.devs
    BY <1>7, IdleTyped DEF OpFinish, storeVars, MembershipInv
  <2>2. Among(cacheActive', op.devs)
    BY <1>0, <1>7, <2>1 DEF OpFinish, ActiveOp, Working
  <2> QED BY <1>0, <1>a, <2>1, <2>2 DEF ActiveStores, ActiveOp, ActiveLoads, Among, Working
<1>8. CASE OpFail \/ ReconcileFail
  BY <1>0, <1>8 DEF OpFail, ReconcileFail
<1>9. CASE ReconcileStart \/ QueryStart
  <2>1. /\ UNCHANGED <<sess, sessActive, loc, op>> /\ rec' = "session"
        /\ initialized' = 0
        /\ cacheActive' = None \/ (cache' = cache /\ cacheActive' = cacheActive)
    BY <1>9 DEF ReconcileStart, QueryStart, cacheVars, storeVars
  <2> QED BY <1>0, <2>1 DEF ActiveStores, ActiveOp, ActiveLoads, Among, Working
<1>10. CASE ReconcileSession
  <2>1. UNCHANGED <<sess, sessActive, loc, op>>
    BY <1>10 DEF ReconcileSession, storeVars
  <2>2. CASE sess # <<>>
    <3>1. cache' = sess /\ cacheActive' = sessActive /\ initialized' = 1 /\ rec' = "idle"
      BY <1>10, <2>2 DEF ReconcileSession, LoadSession
    <3>2. op.pc \in {"local", "client", "finish"} => sess = op.devs
      BY DEF MembershipInv
    <3>3. ActiveOp'
      BY <1>0, <1>a, <2>1, <3>1, <3>2 DEF ActiveOp, ActiveLoads, Among, Working
    <3> QED BY <1>0, <1>a, <2>1, <3>1, <3>3 DEF ActiveStores, ActiveLoads, Among
  <2>3. CASE sess = <<>>
    <3>1. UNCHANGED <<cache, cacheActive, initialized>>
      BY <1>10, <2>3 DEF ReconcileSession, cacheVars
    <3> QED BY <1>0, <2>1, <2>3, <3>1 DEF ActiveStores, ActiveOp, ActiveLoads, Among
  <2> QED BY <2>2, <2>3
<1>11. CASE ReconcileLocal
  <2>1. /\ UNCHANGED <<sess, sessActive, loc, op>> /\ rec = "local" /\ rec' = "idle"
        /\ cache' = loc /\ cacheActive' = None /\ initialized' = 1
    BY <1>11 DEF ReconcileLocal, LoadLocal, storeVars
  <2> QED BY <1>0, <2>1, EmptyList DEF ActiveStores, ActiveOp, ActiveLoads, Among, Working
<1>12. CASE (\E d \in Devices : Broadcast(d)) \/ UNCHANGED vars
  <2>1. UNCHANGED <<cache, cacheActive, initialized, sess, sessActive, loc, op, rec>>
    BY <1>12 DEF Broadcast, BroadcastOk, BroadcastFail, QueueRead, QueueWrite, vars,
      cacheVars, storeVars
  <2> QED BY <1>0, <2>1 DEF ActiveStores, ActiveOp, ActiveLoads, Among
<1>13. CASE WorkerRestart \/ BrowserRestart
  <2>1. /\ op'.pc = "idle" /\ cacheActive' = None /\ initialized' = 0
        /\ rec' # "local"
        /\ (sess' = sess /\ sessActive' = sessActive) \/ sessActive' = None
    BY <1>13, IdleTyped DEF WorkerRestart, BrowserRestart, MemoryLost, storeVars
  <2> QED BY <1>0, <2>1 DEF ActiveStores, ActiveOp, ActiveLoads, Among, Working
<1> QED BY <1>1, <1>2, <1>3, <1>4, <1>5, <1>6, <1>7, <1>8, <1>9, <1>10, <1>11, <1>12,
  <1>13 DEF Next, Op, Reconcile

-----------------------------------------------------------------------------

(* The inductive invariant holds throughout.                               *)
LEMMA RegistryInvariant == Spec => [](RegistryTypes /\ MembershipInv /\ ActiveInv)
<1>1. ASSUME Init PROVE RegistryTypes /\ MembershipInv /\ ActiveInv
  <2>1. RegistryTypes
    BY <1>1, EmptyList, IdleTyped DEF Init, RegistryTypes, Maybe
  <2>2. MembershipInv
    BY <1>1, EmptyList, IdleTyped DEF Init, MembershipInv, Agrees, Touched, Working
  <2>3. ActiveInv
    BY <1>1, EmptyList, IdleTyped DEF Init, ActiveInv, ActiveStores, ActiveOp, ActiveLoads,
      Among, Working
  <2> QED BY <2>1, <2>2, <2>3
<1>2. ASSUME RegistryTypes /\ MembershipInv /\ ActiveInv, [Next]_vars
      PROVE  (RegistryTypes /\ MembershipInv /\ ActiveInv)'
  BY <1>2, TypesStep, MembershipStep, ActiveStep
<1> QED BY <1>1, <1>2, PTL DEF Spec

(* The list in memory, the session's and the shadow hold each device once  *)
(* and never more than MAX_DEVICES, at every await of every operation,     *)
(* whatever fails or restarts, and every variable has its type.            *)
THEOREM RegistryLists == Spec => []CopiesWellFormed
<1>1. ASSUME RegistryTypes PROVE CopiesWellFormed
  BY <1>1 DEF RegistryTypes, CopiesWellFormed, TypeOK, Lists, Operations, Working, Maybe
<1> QED BY <1>1, RegistryInvariant, PTL

(* A completed pairing stays and a completed revocation stays, through     *)
(* crashes between the two writes of other operations, failed accesses and *)
(* the loads that do not take the lock.                                    *)
THEOREM MembershipDurable == Spec => []DurableMembership
<1>1. ASSUME MembershipInv PROVE DurableMembership
  BY <1>1 DEF MembershipInv, DurableMembership, Touched, Agrees
<1> QED BY <1>1, RegistryInvariant, PTL

(* While no access throws, the active device is in the list beside it, in  *)
(* the session's store and in memory.                                      *)
THEOREM ActiveDevice == Spec => []ActiveRegistered
<1>1. ASSUME ActiveInv PROVE ActiveRegistered
  BY <1>1 DEF ActiveInv, ActiveRegistered, ActiveStores, Among
<1> QED BY <1>1, RegistryInvariant, PTL
=============================================================================
