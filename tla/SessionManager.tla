--------------------------- MODULE SessionManager ---------------------------
(***************************************************************************)
(* entrypoints/background/sessionManager.ts with the handlers that call    *)
(* it: mfa-assertion once it accepted an assertion, check-session, the     *)
(* alarms, the idle listener and the restoration at browser start.         *)
(*                                                                         *)
(* Each of these is an async function; none takes a lock.  A call runs to  *)
(* its next await in one step, other calls run in between, and the service *)
(* worker may be stopped at every await.  The session lives in             *)
(* storage.session, which ends with the browser, and, when no PRF          *)
(* credential is known, also in storage.local.  Alarms belong to the       *)
(* browser: they outlive the worker and may or may not outlive the         *)
(* browser.                                                                *)
(*                                                                         *)
(* Time is discrete (one tick stands for a minute); a session is the       *)
(* number of its activation and its expiry, 0 stands for none.             *)
(***************************************************************************)
EXTENDS Naturals

CONSTANTS
  Calls,         \* bound: async calls at the same time
  TTL,           \* SESSION_TTL_MS
  IDLE,          \* IDLE_TIMEOUT_MS
  MaxTime,       \* bound: the clock
  MaxSessions,   \* bound: activations
  MaxCrashes     \* bound: restarts of the worker or the browser

ASSUME SessionConstants ==
  /\ TTL \in Nat \ {0} /\ IDLE \in Nat \ {0}
  /\ MaxTime \in Nat /\ MaxSessions \in Nat
  /\ MaxCrashes \in Nat

None == [id |-> 0, expiry |-> 0]

Sessions == [id : 1..MaxSessions, expiry : Nat] \cup {None}

VARIABLES
  now,                  \* Date.now()
  sess, prf,            \* storage.session: mfa:session; prf:available, prf:salt
  persisted,            \* storage.local: mfa:session:persisted
  alarmTtl, alarmIdle,  \* when each alarm is due; 0: not set
  pc, kind,             \* each call: what it awaits; what started it
  mine,                 \* its local: a session
  reset,                \* its resetIdleTimeout, which nobody awaits
  n,                    \* history: activations so far
  born,                 \* history: time of each activation
  cleared,              \* history: activations so far at the last clear
  overlapped,           \* history: two calls were in progress at once
  crashes               \* restarts so far

stores    == <<sess, prf, persisted>>
alarmVars == <<alarmTtl, alarmIdle>>
callVars  == <<pc, kind, mine, reset>>
history   == <<n, born, cleared, overlapped>>
vars == <<now, stores, alarmVars, callVars, history, crashes>>

Init ==
  /\ now = 1
  /\ sess = None /\ prf = 0 /\ persisted = None
  /\ alarmTtl = 0 /\ alarmIdle = 0
  /\ pc = [c \in Calls |-> "rest"]
  /\ kind = [c \in Calls |-> "none"]
  /\ mine = [c \in Calls |-> None]
  /\ reset = [c \in Calls |-> "none"]
  /\ n = 0
  /\ born = [i \in 1..MaxSessions |-> 0]
  /\ cleared = 0 /\ overlapped = 0
  /\ crashes = 0

-----------------------------------------------------------------------------
(* Calls *)

(* A call begins; its locals are fresh.                                    *)
Begin(c, k, p) ==
  /\ pc[c] = "rest" /\ reset[c] = "none"
  /\ pc' = [pc EXCEPT ![c] = p]
  /\ kind' = [kind EXCEPT ![c] = k]
  /\ overlapped' = IF \A d \in Calls : pc[d] = "rest" THEN overlapped ELSE 1

(* pc moves on; the call returns by going to rest, and forgets its locals. *)
Goto(c, p) == pc' = [pc EXCEPT ![c] = p]

Return(c) ==
  /\ pc' = [pc EXCEPT ![c] = "rest"]
  /\ kind' = [kind EXCEPT ![c] = "none"]
  /\ mine' = [mine EXCEPT ![c] = None]

-----------------------------------------------------------------------------
(* activateSession *)

(* activateSession up to its first await: number, time and expiry.         *)
NewSession(c) ==
  /\ n < MaxSessions
  /\ n' = n + 1
  /\ born' = [born EXCEPT ![n + 1] = now]
  /\ mine' = [mine EXCEPT ![c] = [id |-> n + 1, expiry |-> now + TTL]]

(* mfa-assertion, after the rate limiter and the replay check.             *)
MfaAssertion(c) ==
  /\ NewSession(c)
  /\ Begin(c, "mfa", "set")
  /\ UNCHANGED <<now, stores, alarmVars, reset, cleared, crashes>>

SetSession(c) ==
  /\ pc[c] = "set"
  /\ sess' = mine[c]
  /\ Goto(c, "prf")
  /\ UNCHANGED <<now, prf, persisted, alarmVars, kind, mine, reset, history,
                 crashes>>

ReadPrf(c) ==
  /\ pc[c] = "prf"
  /\ Goto(c, IF prf = 1 THEN "ttl" ELSE "local")
  /\ UNCHANGED <<now, stores, alarmVars, kind, mine, reset, history, crashes>>

Persist(c) ==
  /\ pc[c] = "local"
  /\ persisted' = mine[c]
  /\ Goto(c, "ttl")
  /\ UNCHANGED <<now, sess, prf, alarmVars, kind, mine, reset, history,
                 crashes>>

(* Where a call goes when the activation it awaited is done.               *)
AfterActivation(c) ==
  IF kind[c] = "check"
  THEN Goto(c, "get") /\ mine' = [mine EXCEPT ![c] = None] /\ UNCHANGED kind
  ELSE Return(c)

(* The TTL alarm; resetIdleTimeout is started and not awaited.             *)
CreateTtl(c) ==
  /\ pc[c] = "ttl"
  /\ alarmTtl' = now + TTL
  /\ reset' = [reset EXCEPT ![c] = "clear"]
  /\ AfterActivation(c)
  /\ UNCHANGED <<now, stores, alarmIdle, history, crashes>>

ResetClear(c) ==
  /\ reset[c] = "clear"
  /\ alarmIdle' = 0
  /\ reset' = [reset EXCEPT ![c] = "create"]
  /\ UNCHANGED <<now, stores, alarmTtl, pc, kind, mine, history, crashes>>

ResetCreate(c) ==
  /\ reset[c] = "create"
  /\ alarmIdle' = now + IDLE
  /\ reset' = [reset EXCEPT ![c] = "none"]
  /\ UNCHANGED <<now, stores, alarmTtl, pc, kind, mine, history, crashes>>

-----------------------------------------------------------------------------
(* clearSession *)

RemoveSession(c) ==
  /\ pc[c] = "rmSession"
  /\ sess' = None
  /\ Goto(c, "rmLocal")
  /\ UNCHANGED <<now, prf, persisted, alarmVars, kind, mine, reset, history,
                 crashes>>

(* Variant: the copy in storage.local is forgotten.                        *)
RemoveLocal_Forget(c) ==
  /\ pc[c] = "rmLocal"
  /\ cleared' = n
  /\ Goto(c, "clearTtl")
  /\ UNCHANGED <<now, stores, alarmVars, kind, mine, reset, n, born,
                 overlapped, crashes>>

RemoveLocal(c) ==
  /\ pc[c] = "rmLocal"
  /\ persisted' = None
  /\ cleared' = n
  /\ Goto(c, "clearTtl")
  /\ UNCHANGED <<now, sess, prf, alarmVars, kind, mine, reset, n, born,
                 overlapped, crashes>>

ClearTtl(c) ==
  /\ pc[c] = "clearTtl"
  /\ alarmTtl' = 0
  /\ Goto(c, "clearIdle")
  /\ UNCHANGED <<now, stores, alarmIdle, kind, mine, reset, history, crashes>>

ClearIdle(c) ==
  /\ pc[c] = "clearIdle"
  /\ alarmIdle' = 0
  /\ Return(c)
  /\ UNCHANGED <<now, stores, alarmTtl, reset, history, crashes>>

-----------------------------------------------------------------------------
(* getSession, called by check-session and by the idle listener *)

ReadSession(c) ==
  /\ pc[c] = "get"
  /\ mine' = [mine EXCEPT ![c] = sess]
  /\ Goto(c, "judge")
  /\ UNCHANGED <<now, stores, alarmVars, kind, reset, history, crashes>>

NoSession(c) ==
  /\ pc[c] = "judge"
  /\ mine[c] = None
  /\ Return(c)
  /\ UNCHANGED <<now, stores, alarmVars, reset, history, crashes>>

Expired(c) ==
  /\ pc[c] = "judge"
  /\ mine[c] # None
  /\ now > mine[c].expiry
  /\ Goto(c, "rmSession")
  /\ UNCHANGED <<now, stores, alarmVars, kind, mine, reset, history, crashes>>

Serve(c) ==
  /\ pc[c] = "judge"
  /\ mine[c] # None
  /\ now <= mine[c].expiry
  /\ reset' = [reset EXCEPT ![c] = IF kind[c] = "idle" THEN "clear" ELSE @]
  /\ Return(c)
  /\ UNCHANGED <<now, stores, alarmVars, n, born, cleared, overlapped,
                 crashes>>

-----------------------------------------------------------------------------
(* performSilentReauth and restorePersistedSession *)

(* Without PRF support, credential or salt, or when the assertion or the   *)
(* pairing record is missing, it returns false.                            *)
ReauthRefused(c) ==
  /\ pc[c] = "reauth"
  /\ Goto(c, IF kind[c] = "check" THEN "get" ELSE "restore")
  /\ UNCHANGED <<now, stores, alarmVars, kind, mine, reset, history, crashes>>

ReauthOk(c) ==
  /\ pc[c] = "reauth"
  /\ prf = 1
  /\ NewSession(c)
  /\ Goto(c, "set")
  /\ UNCHANGED <<now, stores, alarmVars, kind, reset, cleared, overlapped,
                 crashes>>

(* restorePersistedSession asks isPrfAvailable.                            *)
RestoreAsks(c) ==
  /\ pc[c] = "restore"
  /\ \/ prf = 1 /\ Return(c)
     \/ prf = 0 /\ Goto(c, "fetch") /\ UNCHANGED <<kind, mine>>
  /\ UNCHANGED <<now, stores, alarmVars, reset, history, crashes>>

RestoreRead(c) ==
  /\ pc[c] = "fetch"
  /\ mine' = [mine EXCEPT ![c] = persisted]
  /\ Goto(c, "weigh")
  /\ UNCHANGED <<now, stores, alarmVars, kind, reset, history, crashes>>

RestoreWeigh(c) ==
  /\ pc[c] = "weigh"
  /\ IF mine[c] = None THEN Return(c)
     ELSE /\ Goto(c, IF now > mine[c].expiry THEN "rmSession" ELSE "reinstate")
          /\ UNCHANGED <<kind, mine>>
  /\ UNCHANGED <<now, stores, alarmVars, reset, history, crashes>>

(* Variant: the restored session starts a new TTL.                         *)
Reinstate_NewExpiry(c) ==
  /\ pc[c] = "reinstate"
  /\ sess' = [mine[c] EXCEPT !.expiry = now + TTL]
  /\ Return(c)
  /\ UNCHANGED <<now, prf, persisted, alarmVars, reset, history, crashes>>

(* The persisted record as it is, its expiry included; no alarm is set.    *)
Reinstate(c) ==
  /\ pc[c] = "reinstate"
  /\ sess' = mine[c]
  /\ Return(c)
  /\ UNCHANGED <<now, prf, persisted, alarmVars, reset, history, crashes>>

-----------------------------------------------------------------------------
(* What starts a call *)

CheckSession(c) ==
  /\ Begin(c, "check", "reauth")
  /\ UNCHANGED <<now, stores, alarmVars, mine, reset, n, born, cleared,
                 crashes>>

UserActive(c) ==
  /\ Begin(c, "idle", "get")
  /\ UNCHANGED <<now, stores, alarmVars, mine, reset, n, born, cleared,
                 crashes>>

(* An alarm is due; it fires once, possibly late.                          *)
AlarmFires(c) ==
  /\ \/ /\ alarmTtl # 0 /\ alarmTtl <= now
        /\ alarmTtl' = 0 /\ UNCHANGED alarmIdle
     \/ /\ alarmIdle # 0 /\ alarmIdle <= now
        /\ alarmIdle' = 0 /\ UNCHANGED alarmTtl
  /\ Begin(c, "alarm", "rmSession")
  /\ UNCHANGED <<now, stores, mine, reset, n, born, cleared, crashes>>

(* prf-credential-created *)
PrfCreated ==
  /\ prf = 0
  /\ prf' = 1
  /\ UNCHANGED <<now, sess, persisted, alarmVars, callVars, history, crashes>>

(* An awaited call throws.  performSilentReauth catches what its           *)
(* activation throws; everything else ends the call.                       *)
Fail(c) ==
  /\ pc[c] # "rest"
  /\ IF pc[c] \in {"set", "prf", "local", "ttl"} /\ kind[c] \in {"check", "start"}
     THEN /\ Goto(c, IF kind[c] = "check" THEN "get" ELSE "restore")
          /\ mine' = [mine EXCEPT ![c] = None]
          /\ UNCHANGED kind
     ELSE Return(c)
  /\ UNCHANGED <<now, stores, alarmVars, reset, history, crashes>>

(* resetIdleTimeout throws; the rejection is logged or ends the listener.  *)
ResetFail(c) ==
  /\ reset[c] # "none"
  /\ reset' = [reset EXCEPT ![c] = "none"]
  /\ UNCHANGED <<now, stores, alarmVars, pc, kind, mine, history, crashes>>

-----------------------------------------------------------------------------
(* Restarts and time *)

(* The worker's memory is gone, and every call with it.                    *)
MemoryLost ==
  /\ crashes < MaxCrashes
  /\ crashes' = crashes + 1
  /\ mine' = [c \in Calls |-> None]
  /\ reset' = [c \in Calls |-> "none"]

WorkerRestart ==
  /\ MemoryLost
  /\ pc' = [c \in Calls |-> "rest"]
  /\ kind' = [c \in Calls |-> "none"]
  /\ UNCHANGED <<now, stores, alarmVars, n, born, cleared, overlapped>>

(* The browser starts, or the extension is updated: tryRestoreSession.     *)
BrowserRestart(c) ==
  /\ MemoryLost
  /\ sess' = None /\ prf' = 0
  /\ alarmTtl' \in {0, alarmTtl} /\ alarmIdle' \in {0, alarmIdle}
  /\ pc' = [d \in Calls |-> IF d = c THEN "reauth" ELSE "rest"]
  /\ kind' = [d \in Calls |-> IF d = c THEN "start" ELSE "none"]
  /\ UNCHANGED <<now, persisted, n, born, cleared, overlapped>>

Tick ==
  /\ now < MaxTime
  /\ now' = now + 1
  /\ UNCHANGED <<stores, alarmVars, callVars, history, crashes>>

-----------------------------------------------------------------------------

Activate(c) == SetSession(c) \/ ReadPrf(c) \/ Persist(c) \/ CreateTtl(c)

ResetIdleTimeout(c) == ResetClear(c) \/ ResetCreate(c)

Clear(c) == RemoveSession(c) \/ RemoveLocal(c) \/ ClearTtl(c) \/ ClearIdle(c)

Get(c) == ReadSession(c) \/ NoSession(c) \/ Expired(c) \/ Serve(c)

Reauth(c) == ReauthRefused(c) \/ ReauthOk(c)

Restore(c) == RestoreAsks(c) \/ RestoreRead(c) \/ RestoreWeigh(c) \/ Reinstate(c)

Next ==
  \/ \E c \in Calls :
       \/ Activate(c) \/ ResetIdleTimeout(c) \/ Clear(c) \/ Get(c)
       \/ Reauth(c) \/ Restore(c)
       \/ MfaAssertion(c) \/ CheckSession(c) \/ UserActive(c) \/ AlarmFires(c)
       \/ Fail(c) \/ ResetFail(c)
       \/ BrowserRestart(c)
  \/ PrfCreated
  \/ WorkerRestart
  \/ Tick

Spec == Init /\ [][Next]_vars

-----------------------------------------------------------------------------
(* Freshness: getSession never returns a session later than the TTL after  *)
(* the authentication that made it, although the record is copied to       *)
(* storage.local and back, alarms are lost or late and activations,        *)
(* restorations and clears overlap.                                        *)
ServedFresh ==
  [][\A c \in Calls : Serve(c) => now <= born[mine[c].id] + TTL]_vars

(* Clear is final: while calls do not overlap, a session that was there    *)
(* when clearSession had removed both copies is not returned any more,     *)
(* whatever is restored after restarts.                                    *)
ClearFinal ==
  [][\A c \in Calls : Serve(c) /\ overlapped = 0 => mine[c].id > cleared]_vars
=============================================================================
