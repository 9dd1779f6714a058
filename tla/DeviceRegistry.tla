--------------------------- MODULE DeviceRegistry ---------------------------
(***************************************************************************)
(* entrypoints/background/deviceRegistry.ts: the list of paired phones and *)
(* the active one.  They live three times: in the service worker's memory  *)
(* (cachedDevices, cachedActiveId), in storage.session, which a restart of *)
(* the browser clears, and as a shadow without keys in storage.local.      *)
(*                                                                         *)
(* withRegistryLock lets one operation run at a time, but                  *)
(* reconcileDeviceRegistry, which forgets the cache and reads it again at  *)
(* browser start, does not take the lock, and neither do the queries, which*)
(* fill an empty cache, the broadcast of a revocation and its queue in     *)
(* storage.local.  Every storage access is awaited and may fail; the       *)
(* service worker may stop at every await.  The accesses to one storage    *)
(* area are answered in the order they are made, so a read and the         *)
(* continuation that uses it are one step here.                            *)
(*                                                                         *)
(* A device stands for its whole record: names, keys and times are left    *)
(* out.  The calls of an operation wait in the lock's chain; the model     *)
(* picks the next one when the lock is free.                               *)
(***************************************************************************)
EXTENDS Naturals, Sequences

CONSTANTS
  Devices,        \* device ids
  None,           \* null
  MAX_DEVICES,
  MaxCrashes,     \* bound: restarts of the service worker or the browser
  MaxReconciles,  \* bound: further reconciliations, with the cache in use
  MaxFails,       \* bound: storage accesses that throw
  MaxRevokes      \* bound: revocations

ASSUME RegistryConstants ==
  /\ None \notin Devices
  /\ MAX_DEVICES \in Nat \ {0}
  /\ MaxCrashes \in Nat /\ MaxReconciles \in Nat /\ MaxRevokes \in Nat
  /\ MaxFails \in Nat

VARIABLES
  cache,          \* cachedDevices; None is null
  cacheActive,    \* cachedActiveId
  initialized,    \* 0 or 1
  sess, sessActive,   \* storage.session pairing:devices, pairing:activeDevice
  loc,            \* storage.local deviceMetadata
  epoch,          \* the extension's Noise key pair, counted by rotations
  op,             \* the operation that holds the lock
  rec,            \* a load without the lock: idle, session, local
  bcast, seen,    \* each revocation's broadcast, and the queue it read
  pendingRev,     \* storage.local pending:revocations
  member,         \* history: in, out or unknown after the last operation
  crashes, reconciles, revokes, fails

cacheVars == <<cache, cacheActive, initialized>>
storeVars == <<sess, sessActive, loc, epoch>>
bcastVars == <<bcast, seen, pendingRev>>
countVars == <<crashes, reconciles, revokes, fails>>
vars == <<cacheVars, storeVars, op, rec, bcastVars, member, countVars>>

Idle == [pc |-> "idle", kind |-> None, dev |-> None, devs |-> <<>>,
         active |-> None]

Kinds == {"add", "remove", "revoke", "setActive", "touch"}

Init ==
  /\ cache = None /\ cacheActive = None /\ initialized = 0
  /\ sess = <<>> /\ sessActive = None /\ loc = <<>> /\ epoch = 0
  /\ op = Idle
  /\ rec = "idle"
  /\ bcast = [d \in Devices |-> "none"]
  /\ seen = [d \in Devices |-> {}]
  /\ pendingRev = {}
  /\ member = [d \in Devices |-> "out"]
  /\ crashes = 0 /\ reconciles = 0 /\ revokes = 0 /\ fails = 0

Range(s) == {s[i] : i \in 1..Len(s)}

-----------------------------------------------------------------------------
(* The operations under the lock *)

Added(devs, d) == IF d \in Range(devs) THEN devs ELSE Append(devs, d)

(* The list without the record of d, which it has once.                    *)
Removed(devs, d) ==
  LET i == CHOOSE k \in 1..Len(devs) : devs[k] = d
  IN  [j \in 1..(Len(devs) - 1) |-> IF j < i THEN devs[j] ELSE devs[j + 1]]

(* Variant: the removed device stays the active one when it was the last.  *)
Successor_Keep(devs, active, d) ==
  IF active # d THEN active
  ELSE IF devs = <<>> THEN d ELSE devs[1]

(* The active device after d is gone: the first one left takes its place.  *)
Successor(devs, active, d) ==
  IF active # d THEN active
  ELSE IF devs = <<>> THEN None ELSE devs[1]

(* Variant: the limit is not checked.                                      *)
Refused_NoLimit(kind, d, devs) ==
  kind \in {"remove", "revoke", "setActive", "touch"} /\ d \notin Range(devs)

(* The early returns: a full registry, an unknown device.                  *)
Refused(kind, d, devs) ==
  \/ kind = "add" /\ Len(devs) >= MAX_DEVICES /\ d \notin Range(devs)
  \/ kind \in {"remove", "revoke", "setActive", "touch"} /\ d \notin Range(devs)

NewDevices(kind, d, devs) ==
  CASE kind = "add" -> Added(devs, d)
    [] kind \in {"remove", "revoke"} -> Removed(devs, d)
    [] OTHER -> devs

NewActive(kind, d, devs, active) ==
  CASE kind = "setActive" -> d
    [] kind \in {"remove", "revoke"} -> Successor(Removed(devs, d), active, d)
    [] OTHER -> active

(* The operation after ensureLoaded, up to its first await.  A revocation  *)
(* first stores the new key pair and looks at cachedActiveId afterwards.   *)
Body(kind, d, devs, active) ==
  IF Refused(kind, d, devs)
  THEN op' = Idle
  ELSE op' = [pc |-> IF kind = "revoke" THEN "rotate" ELSE "session",
              kind |-> kind, dev |-> d,
              devs |-> NewDevices(kind, d, devs),
              active |-> NewActive(kind, d, devs, active)]

OpStart(kind, d) ==
  /\ op.pc = "idle"
  /\ kind = "revoke" => revokes < MaxRevokes
  /\ revokes' = IF kind = "revoke" THEN revokes + 1 ELSE revokes
  /\ IF initialized = 1
     THEN Body(kind, d, cache, cacheActive)
     ELSE op' = [Idle EXCEPT !.pc = "load", !.kind = kind, !.dev = d]
  /\ UNCHANGED <<cacheVars, storeVars, rec, bcastVars, member, crashes,
                 reconciles, fails>>

(* loadFromStorage: the session's list if it has one ...                   *)
LoadSession ==
  /\ cache' = sess
  /\ cacheActive' = sessActive
  /\ initialized' = 1

(* ... else the shadow, without an active device.                          *)
LoadLocal ==
  /\ cache' = loc
  /\ cacheActive' = None
  /\ initialized' = 1

OpLoad ==
  /\ op.pc = "load"
  /\ IF sess # <<>>
     THEN LoadSession /\ Body(op.kind, op.dev, sess, sessActive)
     ELSE op' = [op EXCEPT !.pc = "loadLocal"] /\ UNCHANGED cacheVars
  /\ UNCHANGED <<storeVars, rec, bcastVars, member, countVars>>

OpLoadLocal ==
  /\ op.pc = "loadLocal"
  /\ LoadLocal
  /\ Body(op.kind, op.dev, loc, None)
  /\ UNCHANGED <<storeVars, rec, bcastVars, member, countVars>>

OpRotate ==
  /\ op.pc = "rotate"
  /\ epoch' = epoch + 1
  /\ op' = [op EXCEPT !.pc = "session",
                      !.active = Successor(op.devs, cacheActive, op.dev)]
  /\ UNCHANGED <<cacheVars, sess, sessActive, loc, rec, bcastVars, member,
                 countVars>>

(* persist: the session's copy, then the shadow.                           *)
PersistSession ==
  /\ op.pc = "session"
  /\ sess' = op.devs
  /\ sessActive' = op.active
  /\ op' = [op EXCEPT !.pc = "local"]
  /\ UNCHANGED <<cacheVars, loc, epoch, rec, bcastVars, member, countVars>>

(* Variant: the shadow keeps every device it ever had.                     *)
PersistLocal_KeepOld ==
  /\ op.pc = "local"
  /\ loc' = IF Len(op.devs) < Len(loc) THEN loc ELSE op.devs
  /\ op' = [op EXCEPT !.pc = IF op.kind = "revoke" THEN "client" ELSE "finish"]
  /\ UNCHANGED <<cacheVars, sess, sessActive, epoch, rec, bcastVars, member,
                 countVars>>

PersistLocal ==
  /\ op.pc = "local"
  /\ loc' = op.devs
  /\ op' = [op EXCEPT !.pc = IF op.kind = "revoke" THEN "client" ELSE "finish"]
  /\ UNCHANGED <<cacheVars, sess, sessActive, epoch, rec, bcastVars, member,
                 countVars>>

(* A revocation removes the command client's state from storage.session.   *)
RemoveClient ==
  /\ op.pc = "client"
  /\ op' = [op EXCEPT !.pc = "finish"]
  /\ UNCHANGED <<cacheVars, storeVars, rec, bcastVars, member, countVars>>

(* What the history knows of the operation's device when it ends here.     *)
MemberAfter ==
  IF op.kind \notin {"add", "remove", "revoke"} THEN member
  ELSE CASE op.pc \in {"local", "client"} -> [member EXCEPT ![op.dev] = "unknown"]
         [] op.pc = "finish" ->
              [member EXCEPT ![op.dev] = IF op.kind = "add" THEN "in" ELSE "out"]
         [] OTHER -> member

(* The cache follows; a revocation is then broadcast in the background.    *)
OpFinish ==
  /\ op.pc = "finish"
  /\ op' = Idle
  /\ cache' = op.devs
  /\ cacheActive' = IF op.kind \in {"add", "touch"} THEN cacheActive ELSE op.active
  /\ bcast' = IF op.kind = "revoke"
              THEN [bcast EXCEPT ![op.dev] = "post"] ELSE bcast
  /\ member' = MemberAfter
  /\ UNCHANGED <<initialized, storeVars, rec, seen, pendingRev, countVars>>

(* A storage access throws: the promise rejects, the lock is released.     *)
OpFail ==
  /\ op.pc \in {"load", "loadLocal", "rotate", "session", "local", "client"}
  /\ fails < MaxFails
  /\ fails' = fails + 1
  /\ op' = Idle
  /\ member' = MemberAfter
  /\ UNCHANGED <<cacheVars, storeVars, rec, bcastVars, crashes, reconciles,
                 revokes>>

Op == OpLoad \/ OpLoadLocal \/ OpRotate \/ PersistSession \/ PersistLocal
        \/ RemoveClient \/ OpFinish \/ OpFail

-----------------------------------------------------------------------------
(* reconcileDeviceRegistry and the queries, without the lock *)

ReconcileStart ==
  /\ rec = "idle"
  /\ reconciles < MaxReconciles
  /\ reconciles' = reconciles + 1
  /\ cache' = None /\ cacheActive' = None /\ initialized' = 0
  /\ rec' = "session"
  /\ UNCHANGED <<storeVars, op, bcastVars, member, crashes, revokes, fails>>

(* getDevice, listDevices and the other queries when nothing is loaded.    *)
QueryStart ==
  /\ rec = "idle"
  /\ initialized = 0
  /\ rec' = "session"
  /\ UNCHANGED <<cacheVars, storeVars, op, bcastVars, member, countVars>>

ReconcileSession ==
  /\ rec = "session"
  /\ IF sess # <<>>
     THEN LoadSession /\ rec' = "idle"
     ELSE rec' = "local" /\ UNCHANGED cacheVars
  /\ UNCHANGED <<storeVars, op, bcastVars, member, countVars>>

ReconcileLocal ==
  /\ rec = "local"
  /\ LoadLocal
  /\ rec' = "idle"
  /\ UNCHANGED <<storeVars, op, bcastVars, member, countVars>>

(* A read throws.                                                          *)
ReconcileFail ==
  /\ rec # "idle"
  /\ fails < MaxFails
  /\ fails' = fails + 1
  /\ rec' = "idle"
  /\ UNCHANGED <<cacheVars, storeVars, op, bcastVars, member, crashes,
                 reconciles, revokes>>

Reconcile == ReconcileStart \/ QueryStart \/ ReconcileFail
               \/ ReconcileSession \/ ReconcileLocal

-----------------------------------------------------------------------------
(* broadcastRevocation and cacheRevocationForLater, without the lock *)

(* The signaling server or the data channel takes it, or nobody does.      *)
BroadcastOk(d) ==
  /\ bcast[d] = "post"
  /\ bcast' = [bcast EXCEPT ![d] = "none"]
  /\ UNCHANGED <<cacheVars, storeVars, op, rec, seen, pendingRev, member,
                 countVars>>

BroadcastFail(d) ==
  /\ bcast[d] = "post"
  /\ bcast' = [bcast EXCEPT ![d] = "read"]
  /\ UNCHANGED <<cacheVars, storeVars, op, rec, seen, pendingRev, member,
                 countVars>>

QueueRead(d) ==
  /\ bcast[d] = "read"
  /\ seen' = [seen EXCEPT ![d] = pendingRev]
  /\ bcast' = [bcast EXCEPT ![d] = IF d \in pendingRev THEN "none" ELSE "write"]
  /\ UNCHANGED <<cacheVars, storeVars, op, rec, pendingRev, member,
                 countVars>>

QueueWrite(d) ==
  /\ bcast[d] = "write"
  /\ pendingRev' = seen[d] \cup {d}
  /\ bcast' = [bcast EXCEPT ![d] = "none"]
  /\ seen' = [seen EXCEPT ![d] = {}]
  /\ UNCHANGED <<cacheVars, storeVars, op, rec, member, countVars>>

Broadcast(d) == BroadcastOk(d) \/ BroadcastFail(d) \/ QueueRead(d) \/ QueueWrite(d)

-----------------------------------------------------------------------------
(* The service worker or the whole browser stops and starts again. *)

MemoryLost ==
  /\ crashes < MaxCrashes
  /\ crashes' = crashes + 1
  /\ cache' = None /\ cacheActive' = None /\ initialized' = 0
  /\ op' = Idle
  /\ member' = MemberAfter
  /\ bcast' = [d \in Devices |-> "none"]
  /\ seen' = [d \in Devices |-> {}]
  /\ UNCHANGED <<pendingRev, revokes, fails>>

WorkerRestart ==
  /\ MemoryLost
  /\ rec' = "idle"
  /\ UNCHANGED <<storeVars, reconciles>>

(* storage.session is empty afterwards, and onStartup reconciles.          *)
BrowserRestart ==
  /\ MemoryLost
  /\ rec' = "session"
  /\ sess' = <<>> /\ sessActive' = None
  /\ UNCHANGED <<loc, epoch, reconciles>>

Next ==
  \/ \E kind \in Kinds, d \in Devices : OpStart(kind, d)
  \/ Op
  \/ Reconcile
  \/ \E d \in Devices : Broadcast(d)
  \/ WorkerRestart
  \/ BrowserRestart

Spec == Init /\ [][Next]_vars

-----------------------------------------------------------------------------

TypeOK ==
  /\ cache = None \/ cache \in Seq(Devices)
  /\ cacheActive \in Devices \cup {None}
  /\ initialized \in {0, 1} /\ (initialized = 1 => cache \in Seq(Devices))
  /\ sess \in Seq(Devices) /\ loc \in Seq(Devices)
  /\ sessActive \in Devices \cup {None}
  /\ epoch \in Nat
  /\ op.pc \in {"idle", "load", "loadLocal", "rotate", "session", "local",
              "client", "finish"}
  /\ op.kind \in Kinds \cup {None} /\ op.dev \in Devices \cup {None}
  /\ op.devs \in Seq(Devices) /\ op.active \in Devices \cup {None}
  /\ rec \in {"idle", "session", "local"}
  /\ bcast \in [Devices -> {"none", "post", "read", "write"}]
  /\ seen \in [Devices -> SUBSET Devices]
  /\ pendingRev \in SUBSET Devices
  /\ member \in [Devices -> {"in", "out", "unknown"}]

(* A list of distinct devices, no more than the registry may hold.         *)
WellFormed(s) ==
  /\ Len(s) <= MAX_DEVICES
  /\ \A i, j \in 1..Len(s) : s[i] = s[j] => i = j

(* The limit and the uniqueness of records hold in memory and in both      *)
(* stores, at every await, and after every crash between two writes; all   *)
(* else has its type.                                                      *)
CopiesWellFormed ==
  /\ TypeOK
  /\ WellFormed(sess) /\ WellFormed(loc)
  /\ cache # None => WellFormed(cache)

(* While no storage access throws, the active device is one of the         *)
(* registry's, in the session's copy and in memory, whatever unlocked      *)
(* loads do to the cache in the middle of an operation.  (With two failed  *)
(* persists the cache and storage.session differ, and a reconciliation     *)
(* in the middle of a revocation then mixes them.)                         *)
ActiveRegistered ==
  fails = 0 =>
    /\ sessActive # None => sessActive \in Range(sess)
    /\ cacheActive # None /\ initialized = 1 => cacheActive \in Range(cache)

(* Durable membership: a device whose pairing completed stays in the       *)
(* registry, and one whose revocation completed stays out, through failed  *)
(* operations on other devices, unlocked reconciliations and restarts of   *)
(* the service worker and the browser.  Only an operation cut short        *)
(* between its two writes leaves its own device undecided.                 *)
DurableMembership ==
  initialized = 1 /\ op.pc \in {"idle", "load", "loadLocal"} =>
    \A d \in Devices :
      /\ member[d] = "in" => d \in Range(cache)
      /\ member[d] = "out" => d \notin Range(cache)

=============================================================================
