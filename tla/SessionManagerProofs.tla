------------------------ MODULE SessionManagerProofs ------------------------
(***************************************************************************)
(* Freshness of the served session, for any number of overlapping calls,   *)
(* activations and restarts.  The argument: every copy of a session, in    *)
(* either store or in a local variable of a call, still carries the expiry *)
(* that its activation computed.                                           *)
(***************************************************************************)
EXTENDS SessionManager, TLAPS

(* No session, or one that was activated and has the expiry it got then.   *)
Genuine ==
  {x \in Sessions : x = None \/ (x.id \in 1..n /\ x.expiry = born[x.id] + TTL)}

(* The inductive invariant: every copy of a session is genuine.            *)
CopiesGenuine ==
  /\ now \in Nat
  /\ n \in 0..MaxSessions
  /\ born \in [1..MaxSessions -> Nat]
  /\ sess \in Genuine
  /\ persisted \in Genuine
  /\ mine \in [Calls -> Genuine]

-----------------------------------------------------------------------------

(* None is a genuine value.                                                *)
LEMMA NoneGenuine == None \in Genuine
BY DEF Genuine, Sessions

(* A step that moves copies around keeps them genuine.                     *)
LEMMA CopiesMove ==
  ASSUME CopiesGenuine, now' \in Nat, n' = n, born' = born,
         sess' \in Genuine, persisted' \in Genuine,
         mine' \in [Calls -> Genuine]
  PROVE  CopiesGenuine'
<1>1. Genuine' = Genuine
  BY DEF Genuine, Sessions, None
<1> QED BY <1>1 DEF CopiesGenuine

(* An activation: the numbers in use keep their times, and the new session *)
(* has the expiry that belongs to its number.                              *)
LEMMA Activation ==
  ASSUME CopiesGenuine, NEW c \in Calls, NewSession(c),
         now' = now, sess' = sess, persisted' = persisted
  PROVE  CopiesGenuine'
<1> DEFINE s == [id |-> n + 1, expiry |-> now + TTL]
<1>1. n + 1 \in 1..MaxSessions /\ n' = n + 1 /\ n' \in 0..MaxSessions
  BY SessionConstants DEF CopiesGenuine, NewSession
<1>2. born' \in [1..MaxSessions -> Nat] /\ born'[n + 1] = now
  BY <1>1 DEF CopiesGenuine, NewSession
<1>3. \A i \in 1..n : born'[i] = born[i] /\ i \in 1..n'
  BY <1>1 DEF CopiesGenuine, NewSession
<1>4. s \in Sessions
  BY <1>1, SessionConstants DEF Sessions, CopiesGenuine
<1>5. s \in Genuine'
  <2>1. s.id \in 1..n' /\ s.expiry = born'[s.id] + TTL
    BY <1>1, <1>2 DEF CopiesGenuine
  <2> QED BY <1>4, <2>1 DEF Genuine, Sessions, None
<1>6. \A x \in Genuine : x \in Genuine'
  BY <1>3 DEF Genuine, Sessions, None
<1>7. mine' = [mine EXCEPT ![c] = s]
  BY DEF NewSession
<1> HIDE DEF s
<1>8. mine' \in [Calls -> Genuine']
  BY <1>5, <1>6, <1>7 DEF CopiesGenuine
<1> QED BY <1>1, <1>2, <1>6, <1>8 DEF CopiesGenuine

-----------------------------------------------------------------------------

LEMMA GenuineInit == Init => CopiesGenuine
BY NoneGenuine, SessionConstants DEF Init, CopiesGenuine

(* The steps of a call that hand its session on, drop it or fetch one.     *)
LEMMA GenuineCall ==
  ASSUME CopiesGenuine, NEW c \in Calls,
         Activate(c) \/ ResetIdleTimeout(c) \/ Clear(c) \/ Get(c)
  PROVE  CopiesGenuine'
<1> USE NoneGenuine
<1>1. CASE Activate(c)
  <2>1. n' = n /\ born' = born /\ now' = now
    BY <1>1 DEF Activate, SetSession, ReadPrf, Persist, CreateTtl, history
  <2>2. sess' \in {sess, mine[c]} /\ persisted' \in {persisted, mine[c]}
    BY <1>1 DEF Activate, SetSession, ReadPrf, Persist, CreateTtl, stores
  <2>3. mine' = mine \/ mine' = [mine EXCEPT ![c] = None]
    BY <1>1 DEF Activate, SetSession, ReadPrf, Persist, CreateTtl,
                AfterActivation, Return
  <2> QED BY <2>1, <2>2, <2>3, CopiesMove DEF CopiesGenuine
<1>2. CASE ResetIdleTimeout(c)
  <2>1. /\ n' = n /\ born' = born /\ now' = now
        /\ sess' = sess /\ persisted' = persisted /\ mine' = mine
    BY <1>2 DEF ResetIdleTimeout, ResetClear, ResetCreate, history, stores
  <2> QED BY <2>1, CopiesMove DEF CopiesGenuine
<1>3. CASE Clear(c)
  <2>1. n' = n /\ born' = born /\ now' = now
    BY <1>3 DEF Clear, RemoveSession, RemoveLocal, ClearTtl, ClearIdle, history
  <2>2. sess' \in {sess, None} /\ persisted' \in {persisted, None}
    BY <1>3 DEF Clear, RemoveSession, RemoveLocal, ClearTtl, ClearIdle, stores
  <2>3. mine' = mine \/ mine' = [mine EXCEPT ![c] = None]
    BY <1>3 DEF Clear, RemoveSession, RemoveLocal, ClearTtl, ClearIdle, Return
  <2> QED BY <2>1, <2>2, <2>3, CopiesMove DEF CopiesGenuine
<1>4. CASE Get(c)
  <2>1. /\ n' = n /\ born' = born /\ now' = now
        /\ sess' = sess /\ persisted' = persisted
    BY <1>4 DEF Get, ReadSession, NoSession, Expired, Serve, history, stores
  <2>2. \/ mine' = mine
        \/ mine' = [mine EXCEPT ![c] = None]
        \/ mine' = [mine EXCEPT ![c] = sess]
    BY <1>4 DEF Get, ReadSession, NoSession, Expired, Serve, Return
  <2> QED BY <2>1, <2>2, CopiesMove DEF CopiesGenuine
<1> QED BY <1>1, <1>2, <1>3, <1>4

LEMMA GenuineReauth ==
  ASSUME CopiesGenuine, NEW c \in Calls, Reauth(c) PROVE CopiesGenuine'
<1>1. CASE ReauthRefused(c)
  <2>1. /\ n' = n /\ born' = born /\ now' = now
        /\ sess' = sess /\ persisted' = persisted /\ mine' = mine
    BY <1>1 DEF ReauthRefused, history, stores
  <2> QED BY <2>1, CopiesMove DEF CopiesGenuine
<1>2. CASE ReauthOk(c)
  BY <1>2, Activation DEF ReauthOk, stores
<1> QED BY <1>1, <1>2 DEF Reauth

(* The restoration copies the record as it is.                             *)
LEMMA GenuineRestore ==
  ASSUME CopiesGenuine, NEW c \in Calls, Restore(c) PROVE CopiesGenuine'
<1> USE NoneGenuine
<1>1. /\ n' = n /\ born' = born /\ now' = now /\ persisted' = persisted
      /\ sess' \in {sess, mine[c]}
  BY DEF Restore, RestoreAsks, RestoreRead, RestoreWeigh, Reinstate,
         history, stores
<1>2. \/ mine' = mine
      \/ mine' = [mine EXCEPT ![c] = None]
      \/ mine' = [mine EXCEPT ![c] = persisted]
  BY DEF Restore, RestoreAsks, RestoreRead, RestoreWeigh, Reinstate, Return, Goto
<1> QED BY <1>1, <1>2, CopiesMove DEF CopiesGenuine

(* What starts a call, and what cuts one short.                            *)
LEMMA GenuineStart ==
  ASSUME CopiesGenuine, NEW c \in Calls,
         \/ MfaAssertion(c) \/ CheckSession(c) \/ UserActive(c)
         \/ AlarmFires(c) \/ Fail(c) \/ ResetFail(c) \/ BrowserRestart(c)
  PROVE  CopiesGenuine'
<1> USE NoneGenuine
<1>1. CASE MfaAssertion(c)
  BY <1>1, Activation DEF MfaAssertion, stores
<1>2. CASE CheckSession(c) \/ UserActive(c) \/ AlarmFires(c) \/ ResetFail(c)
  <2>1. /\ n' = n /\ born' = born /\ now' = now
        /\ sess' = sess /\ persisted' = persisted /\ mine' = mine
    BY <1>2 DEF CheckSession, UserActive, AlarmFires, ResetFail, history, stores
  <2> QED BY <2>1, CopiesMove DEF CopiesGenuine
<1>3. CASE Fail(c)
  <2>1. /\ n' = n /\ born' = born /\ now' = now
        /\ sess' = sess /\ persisted' = persisted
        /\ mine' = [mine EXCEPT ![c] = None]
    BY <1>3 DEF Fail, Return, history, stores
  <2> QED BY <2>1, CopiesMove DEF CopiesGenuine
<1>4. CASE BrowserRestart(c)
  <2>1. /\ n' = n /\ born' = born /\ now' = now
        /\ sess' = None /\ persisted' = persisted
        /\ mine' = [d \in Calls |-> None]
    BY <1>4 DEF BrowserRestart, MemoryLost
  <2> QED BY <2>1, CopiesMove DEF CopiesGenuine
<1> QED BY <1>1, <1>2, <1>3, <1>4

LEMMA GenuineStep == CopiesGenuine /\ [Next]_vars => CopiesGenuine'
<1> SUFFICES ASSUME CopiesGenuine, [Next]_vars PROVE CopiesGenuine'
  OBVIOUS
<1> USE NoneGenuine
<1>1. ASSUME NEW c \in Calls,
             \/ Activate(c) \/ ResetIdleTimeout(c) \/ Clear(c) \/ Get(c)
             \/ Reauth(c) \/ Restore(c)
             \/ MfaAssertion(c) \/ CheckSession(c) \/ UserActive(c)
             \/ AlarmFires(c) \/ Fail(c) \/ ResetFail(c) \/ BrowserRestart(c)
      PROVE  CopiesGenuine'
  BY <1>1, GenuineCall, GenuineReauth, GenuineRestore, GenuineStart
<1>2. CASE PrfCreated
  <2>1. /\ n' = n /\ born' = born /\ now' = now
        /\ sess' = sess /\ persisted' = persisted /\ mine' = mine
    BY <1>2 DEF PrfCreated, history, callVars
  <2> QED BY <2>1, CopiesMove DEF CopiesGenuine
<1>3. CASE WorkerRestart
  <2>1. /\ n' = n /\ born' = born /\ now' = now
        /\ sess' = sess /\ persisted' = persisted
        /\ mine' = [d \in Calls |-> None]
    BY <1>3 DEF WorkerRestart, MemoryLost, stores
  <2> QED BY <2>1, CopiesMove DEF CopiesGenuine
<1>4. CASE Tick
  <2>1. /\ n' = n /\ born' = born /\ now' \in Nat
        /\ sess' = sess /\ persisted' = persisted /\ mine' = mine
    BY <1>4 DEF Tick, history, stores, callVars, CopiesGenuine
  <2> QED BY <2>1, CopiesMove DEF CopiesGenuine
<1>5. CASE UNCHANGED vars
  <2>1. /\ n' = n /\ born' = born /\ now' = now
        /\ sess' = sess /\ persisted' = persisted /\ mine' = mine
    BY <1>5 DEF vars, history, stores, callVars
  <2> QED BY <2>1, CopiesMove DEF CopiesGenuine
<1> QED BY <1>1, <1>2, <1>3, <1>4, <1>5 DEF Next

(* Every copy of a session that the worker keeps in a store or passes      *)
(* between its functions carries the expiry of its own activation.         *)
THEOREM GenuineAlways == Spec => []CopiesGenuine
<1> QED BY GenuineInit, GenuineStep, PTL DEF Spec

(* getSession never returns a session later than the TTL after the         *)
(* authentication that made it.                                            *)
THEOREM Fresh == Spec => ServedFresh
<1>1. CopiesGenuine =>
        [\A c \in Calls : Serve(c) => now <= born[mine[c].id] + TTL]_vars
  <2> SUFFICES ASSUME CopiesGenuine, NEW c \in Calls, Serve(c)
               PROVE  now <= born[mine[c].id] + TTL
    OBVIOUS
  <2>1. mine[c] \in Genuine /\ mine[c] # None /\ now <= mine[c].expiry
    BY DEF CopiesGenuine, Serve
  <2>2. mine[c].expiry = born[mine[c].id] + TTL
    BY <2>1 DEF Genuine
  <2> QED BY <2>1, <2>2
<1> QED BY <1>1, GenuineAlways, PTL DEF Spec, ServedFresh

-----------------------------------------------------------------------------
(* Clear is final.  While calls do not overlap, a clear that has removed   *)
(* the first copy finds the second and no other: nothing below the mark    *)
(* `cleared' is left anywhere.                                             *)

(* None, or activated after the last clear.                                *)
Above(x) == x = None \/ x.id > cleared

(* Where a call may be.                                                    *)
Awaits == {"rest", "set", "prf", "local", "ttl", "rmSession",
           "rmLocal", "clearTtl", "clearIdle", "get", "judge", "reauth",
           "restore", "fetch", "weigh", "reinstate"}

(* The calls in progress are one at most.                                  *)
OneCall == \A c, d \in Calls : pc[c] # "rest" /\ pc[d] # "rest" => c = d

RestedEmpty == \A c \in Calls : pc[c] = "rest" => mine[c] = None

StoresAbove == Above(sess) /\ Above(persisted)

LocalsAbove ==
  \A c \in Calls : pc[c] \in {"clearTtl", "clearIdle"} \/ Above(mine[c])

(* Between its two removals a clear has left nothing in storage.session.   *)
HalfCleared == \A c \in Calls : pc[c] = "rmLocal" => sess = None

(* The inductive invariant behind ClearFinal.                              *)
Marked ==
  /\ CopiesGenuine
  /\ pc \in [Calls -> Awaits]
  /\ cleared \in Nat /\ cleared <= n
  /\ overlapped \in {0, 1}
  /\ overlapped = 0 =>
       OneCall /\ RestedEmpty /\ StoresAbove /\ LocalsAbove /\ HalfCleared

(* A step of the one call in progress that leaves the mark alone.          *)
LEMMA OneStep ==
  ASSUME Marked, CopiesGenuine', NEW c \in Calls, NEW p \in Awaits, NEW x,
         overlapped' = overlapped, cleared' = cleared, n' >= n,
         pc[c] # "rest",
         pc' = [pc EXCEPT ![c] = p],
         mine' = [mine EXCEPT ![c] = x],
         overlapped = 0 =>
           /\ p = "rest" => x = None
           /\ p \in {"clearTtl", "clearIdle"} \/ Above(x)
           /\ Above(sess') /\ Above(persisted')
           /\ p = "rmLocal" => sess' = None
  PROVE  Marked'
<1>1. pc' \in [Calls -> Awaits] /\ cleared' \in Nat /\ cleared' <= n'
  BY DEF Marked, CopiesGenuine
<1>2. ASSUME overlapped = 0
      PROVE  (OneCall /\ RestedEmpty /\ StoresAbove /\ LocalsAbove /\ HalfCleared)'
  <2>1. \A d \in Calls : d # c =>
          pc[d] = "rest" /\ pc'[d] = "rest" /\ mine[d] = None /\ mine'[d] = None
    BY <1>2 DEF Marked, CopiesGenuine, OneCall, RestedEmpty
  <2>2. pc'[c] = p /\ mine'[c] = x
    BY DEF Marked, CopiesGenuine
  <2>3. OneCall'
    BY <2>1 DEF OneCall
  <2>4. RestedEmpty'
    BY <1>2, <2>1, <2>2 DEF RestedEmpty, None
  <2>5. StoresAbove'
    BY <1>2 DEF StoresAbove, Above, None
  <2>6. LocalsAbove'
    BY <1>2, <2>1, <2>2 DEF LocalsAbove, Above, None
  <2>7. HalfCleared'
    BY <1>2, <2>1, <2>2 DEF HalfCleared, None
  <2> QED BY <2>3, <2>4, <2>5, <2>6, <2>7
<1> QED BY <1>1, <1>2 DEF Marked

(* A call begins: it is alone, or the calls overlap from now on.           *)
LEMMA BeginStep ==
  ASSUME Marked, CopiesGenuine', NEW c \in Calls, NEW k, NEW p \in Awaits,
         NEW x, Begin(c, k, p), cleared' = cleared, n' >= n,
         p # "rest", p # "rmLocal",
         mine' = [mine EXCEPT ![c] = x],
         overlapped' = 0 => Above(x),
         sess' = sess, persisted' = persisted
  PROVE  Marked'
<1>1. pc' = [pc EXCEPT ![c] = p] /\ overlapped' \in {0, 1}
  BY DEF Begin, Marked
<1>2. pc' \in [Calls -> Awaits] /\ cleared' \in Nat /\ cleared' <= n'
  BY <1>1 DEF Marked, CopiesGenuine
<1>3. ASSUME overlapped' = 0
      PROVE  (OneCall /\ RestedEmpty /\ StoresAbove /\ LocalsAbove /\ HalfCleared)'
  <2>1. overlapped = 0 /\ \A d \in Calls : pc[d] = "rest"
    BY <1>3 DEF Begin, Marked
  <2>2. \A d \in Calls : d # c =>
          pc'[d] = "rest" /\ mine[d] = None /\ mine'[d] = None
    BY <1>1, <2>1 DEF Marked, CopiesGenuine, RestedEmpty
  <2>3. pc'[c] = p /\ mine'[c] = x
    BY <1>1 DEF Marked, CopiesGenuine
  <2>4. OneCall'
    BY <2>2 DEF OneCall
  <2>5. RestedEmpty'
    BY <2>2, <2>3 DEF RestedEmpty, None
  <2>6. StoresAbove'
    BY <2>1 DEF Marked, StoresAbove, Above, None
  <2>7. LocalsAbove'
    BY <1>3, <2>2, <2>3 DEF LocalsAbove, Above, None
  <2>8. HalfCleared'
    BY <2>2, <2>3 DEF HalfCleared, None
  <2> QED BY <2>4, <2>5, <2>6, <2>7, <2>8
<1> QED BY <1>1, <1>2, <1>3 DEF Marked

(* A step that touches neither calls nor stores.                           *)
LEMMA FrameStep ==
  ASSUME Marked, CopiesGenuine', overlapped' = overlapped, cleared' = cleared,
         n' = n, pc' = pc, mine' = mine, sess' = sess, persisted' = persisted
  PROVE  Marked'
BY DEF Marked, OneCall, RestedEmpty, StoresAbove, LocalsAbove, HalfCleared,
       Above, None

(* Every call is gone; at most one, which holds nothing, takes its place.  *)
LEMMA RestartStep ==
  ASSUME Marked, CopiesGenuine', overlapped' = overlapped, cleared' = cleared,
         n' = n, NEW c, NEW p \in {"rest", "reauth"},
         pc' = [d \in Calls |-> IF d = c THEN p ELSE "rest"],
         mine' = [d \in Calls |-> None],
         sess' \in {sess, None}, persisted' = persisted
  PROVE  Marked'
<1>1. pc' \in [Calls -> Awaits]
  BY DEF Awaits
<1>2. ASSUME overlapped = 0
      PROVE  (OneCall /\ RestedEmpty /\ StoresAbove /\ LocalsAbove /\ HalfCleared)'
  BY <1>2 DEF Marked, OneCall, RestedEmpty, StoresAbove, LocalsAbove,
              HalfCleared, Above, None
<1> QED BY <1>1, <1>2 DEF Marked

LEMMA MarkedActivate ==
  ASSUME Marked, CopiesGenuine', NEW c \in Calls, Activate(c) PROVE Marked'
<1> USE DEF Awaits
<1>1. mine = [mine EXCEPT ![c] = mine[c]]
  BY DEF Marked, CopiesGenuine
<1>2. overlapped' = overlapped /\ cleared' = cleared /\ n' = n
  BY DEF Activate, SetSession, ReadPrf, Persist, CreateTtl, history
<1>3. n' >= n
  BY <1>2 DEF Marked, CopiesGenuine
<1>4. pc[c] \in {"set", "prf", "local", "ttl"}
  BY DEF Activate, SetSession, ReadPrf, Persist, CreateTtl
<1>5. overlapped = 0 => Above(mine[c]) /\ Above(sess) /\ Above(persisted)
  BY <1>4 DEF Marked, LocalsAbove, StoresAbove
<1>6. CASE SetSession(c)
  <2>1. /\ pc' = [pc EXCEPT ![c] = "prf"] /\ mine' = mine
        /\ sess' = mine[c] /\ persisted' = persisted
    BY <1>6 DEF SetSession, Goto
  <2> QED BY <1>1, <1>2, <1>3, <1>4, <1>5, <2>1, OneStep
<1>7. CASE ReadPrf(c)
  <2>1. PICK p \in {"ttl", "local"} : pc' = [pc EXCEPT ![c] = p]
    BY <1>7 DEF ReadPrf, Goto
  <2>2. mine' = mine /\ sess' = sess /\ persisted' = persisted
    BY <1>7 DEF ReadPrf, stores
  <2> QED BY <1>1, <1>2, <1>3, <1>4, <1>5, <2>1, <2>2, OneStep
<1>8. CASE Persist(c)
  <2>1. /\ pc' = [pc EXCEPT ![c] = "ttl"] /\ mine' = mine
        /\ sess' = sess /\ persisted' = mine[c]
    BY <1>8 DEF Persist, Goto
  <2> QED BY <1>1, <1>2, <1>3, <1>4, <1>5, <2>1, OneStep
<1>9. CASE CreateTtl(c)
  <2>1. PICK p \in {"get", "rest"} : pc' = [pc EXCEPT ![c] = p]
    BY <1>9 DEF CreateTtl, AfterActivation, Goto, Return
  <2>2. /\ mine' = [mine EXCEPT ![c] = None]
        /\ sess' = sess /\ persisted' = persisted
    BY <1>9 DEF CreateTtl, AfterActivation, Return, stores
  <2> QED BY <1>2, <1>3, <1>4, <1>5, <2>1, <2>2, OneStep DEF Above
<1> QED BY <1>6, <1>7, <1>8, <1>9 DEF Activate

(* RemoveLocal sets the mark; by then both stores are empty and no other   *)
(* call holds a session.                                                   *)
LEMMA MarkedRemoveLocal ==
  ASSUME Marked, CopiesGenuine', NEW c \in Calls, RemoveLocal(c) PROVE Marked'
<1> USE DEF Awaits
<1>1. /\ pc' = [pc EXCEPT ![c] = "clearTtl"] /\ mine' = mine
      /\ sess' = sess /\ persisted' = None
      /\ n' = n /\ cleared' = n /\ overlapped' = overlapped
  BY DEF RemoveLocal, Goto
<1>2. pc' \in [Calls -> Awaits] /\ cleared' \in Nat /\ cleared' <= n'
  BY <1>1 DEF Marked, CopiesGenuine
<1>3. ASSUME overlapped = 0
      PROVE  (OneCall /\ RestedEmpty /\ StoresAbove /\ LocalsAbove /\ HalfCleared)'
  <2>1. pc[c] = "rmLocal" /\ sess = None
    BY <1>3 DEF RemoveLocal, Marked, HalfCleared
  <2>2. \A d \in Calls : d # c => pc[d] = "rest" /\ pc'[d] = "rest" /\ mine[d] = None
    BY <1>1, <1>3, <2>1 DEF Marked, OneCall, RestedEmpty
  <2>3. pc'[c] = "clearTtl"
    BY <1>1 DEF Marked
  <2> QED BY <1>1, <2>1, <2>2, <2>3
          DEF OneCall, RestedEmpty, StoresAbove, LocalsAbove, HalfCleared,
              Above, None
<1> QED BY <1>1, <1>2, <1>3 DEF Marked

LEMMA MarkedClear ==
  ASSUME Marked, CopiesGenuine', NEW c \in Calls, Clear(c) PROVE Marked'
<1> USE DEF Awaits
<1>1. mine = [mine EXCEPT ![c] = mine[c]]
  BY DEF Marked, CopiesGenuine
<1>2. n >= n
  BY DEF Marked, CopiesGenuine
<1>3. overlapped = 0 => Above(sess) /\ Above(persisted)
  BY DEF Marked, StoresAbove
<1>4. CASE RemoveSession(c)
  <2>1. /\ pc[c] = "rmSession" /\ pc' = [pc EXCEPT ![c] = "rmLocal"]
        /\ mine' = mine /\ sess' = None /\ persisted' = persisted
        /\ overlapped' = overlapped /\ cleared' = cleared /\ n' = n
    BY <1>4 DEF RemoveSession, Goto, history
  <2>2. overlapped = 0 => Above(mine[c])
    BY <2>1 DEF Marked, LocalsAbove
  <2> QED BY <1>1, <1>2, <1>3, <2>1, <2>2, OneStep DEF Above
<1>5. CASE RemoveLocal(c)
  BY <1>5, MarkedRemoveLocal
<1>6. CASE ClearTtl(c)
  <2>1. /\ pc[c] = "clearTtl" /\ pc' = [pc EXCEPT ![c] = "clearIdle"]
        /\ mine' = mine /\ sess' = sess /\ persisted' = persisted
        /\ overlapped' = overlapped /\ cleared' = cleared /\ n' = n
    BY <1>6 DEF ClearTtl, Goto, history, stores
  <2> QED BY <1>1, <1>2, <1>3, <2>1, OneStep
<1>7. CASE ClearIdle(c)
  <2>1. /\ pc[c] = "clearIdle" /\ pc' = [pc EXCEPT ![c] = "rest"]
        /\ mine' = [mine EXCEPT ![c] = None]
        /\ sess' = sess /\ persisted' = persisted
        /\ overlapped' = overlapped /\ cleared' = cleared /\ n' = n
    BY <1>7 DEF ClearIdle, Return, history, stores
  <2> QED BY <1>2, <1>3, <2>1, OneStep DEF Above
<1> QED BY <1>4, <1>5, <1>6, <1>7 DEF Clear

LEMMA MarkedGet ==
  ASSUME Marked, CopiesGenuine', NEW c \in Calls, Get(c) PROVE Marked'
<1> USE DEF Awaits
<1>1. mine = [mine EXCEPT ![c] = mine[c]]
  BY DEF Marked, CopiesGenuine
<1>2. /\ overlapped' = overlapped /\ cleared' = cleared /\ n' = n
      /\ sess' = sess /\ persisted' = persisted
  BY DEF Get, ReadSession, NoSession, Expired, Serve, history, stores
<1>3. n' >= n
  BY <1>2 DEF Marked, CopiesGenuine
<1>4. pc[c] \in {"get", "judge"}
  BY DEF Get, ReadSession, NoSession, Expired, Serve
<1>5. overlapped = 0 => Above(mine[c]) /\ Above(sess) /\ Above(persisted)
  BY <1>4 DEF Marked, LocalsAbove, StoresAbove
<1>6. CASE ReadSession(c)
  <2>1. pc' = [pc EXCEPT ![c] = "judge"] /\ mine' = [mine EXCEPT ![c] = sess]
    BY <1>6 DEF ReadSession, Goto
  <2> QED BY <1>2, <1>3, <1>4, <1>5, <2>1, OneStep
<1>7. CASE NoSession(c) \/ Serve(c)
  <2>1. pc' = [pc EXCEPT ![c] = "rest"] /\ mine' = [mine EXCEPT ![c] = None]
    BY <1>7 DEF NoSession, Serve, Return
  <2> QED BY <1>2, <1>3, <1>4, <1>5, <2>1, OneStep DEF Above
<1>8. CASE Expired(c)
  <2>1. pc' = [pc EXCEPT ![c] = "rmSession"] /\ mine' = mine
    BY <1>8 DEF Expired, Goto
  <2> QED BY <1>1, <1>2, <1>3, <1>4, <1>5, <2>1, OneStep
<1> QED BY <1>6, <1>7, <1>8 DEF Get

(* A session that begins now is above the mark.                            *)
LEMMA NewAbove ==
  ASSUME Marked, NEW e PROVE Above([id |-> n + 1, expiry |-> e])
BY DEF Marked, CopiesGenuine, Above

LEMMA MarkedReauth ==
  ASSUME Marked, CopiesGenuine', NEW c \in Calls, Reauth(c) PROVE Marked'
<1> USE DEF Awaits
<1>1. mine = [mine EXCEPT ![c] = mine[c]]
  BY DEF Marked, CopiesGenuine
<1>2. /\ overlapped' = overlapped /\ cleared' = cleared
      /\ sess' = sess /\ persisted' = persisted
      /\ pc[c] = "reauth"
  BY DEF Reauth, ReauthRefused, ReauthOk, history, stores
<1>3. overlapped = 0 => Above(mine[c]) /\ Above(sess) /\ Above(persisted)
  BY <1>2 DEF Marked, LocalsAbove, StoresAbove
<1>4. CASE ReauthRefused(c)
  <2>1. PICK p \in {"get", "restore"} : pc' = [pc EXCEPT ![c] = p]
    BY <1>4 DEF ReauthRefused, Goto
  <2>2. mine' = mine /\ n' = n
    BY <1>4 DEF ReauthRefused, history
  <2>3. n' >= n
    BY <2>2 DEF Marked, CopiesGenuine
  <2> QED BY <1>1, <1>2, <1>3, <2>1, <2>2, <2>3, OneStep
<1>5. CASE ReauthOk(c)
  <2>1. /\ pc' = [pc EXCEPT ![c] = "set"]
        /\ mine' = [mine EXCEPT ![c] = [id |-> n + 1, expiry |-> now + TTL]]
        /\ n' = n + 1
    BY <1>5 DEF ReauthOk, NewSession, Goto
  <2>2. n' >= n
    BY <2>1 DEF Marked, CopiesGenuine
  <2>3. Above([id |-> n + 1, expiry |-> now + TTL])
    BY NewAbove
  <2> QED BY <1>2, <1>3, <2>1, <2>2, <2>3, OneStep
<1> QED BY <1>4, <1>5 DEF Reauth

LEMMA MarkedRestore ==
  ASSUME Marked, CopiesGenuine', NEW c \in Calls, Restore(c) PROVE Marked'
<1> USE DEF Awaits
<1>1. mine = [mine EXCEPT ![c] = mine[c]]
  BY DEF Marked, CopiesGenuine
<1>2. /\ overlapped' = overlapped /\ cleared' = cleared /\ n' = n
      /\ persisted' = persisted /\ sess' \in {sess, mine[c]}
  BY DEF Restore, RestoreAsks, RestoreRead, RestoreWeigh, Reinstate,
         history, stores
<1>3. n' >= n
  BY <1>2 DEF Marked, CopiesGenuine
<1>4. pc[c] \in {"restore", "fetch", "weigh", "reinstate"}
  BY DEF Restore, RestoreAsks, RestoreRead, RestoreWeigh, Reinstate
<1>5. overlapped = 0 => Above(mine[c]) /\ Above(sess') /\ Above(persisted)
  BY <1>2, <1>4 DEF Marked, LocalsAbove, StoresAbove
<1>6. CASE mine' = [mine EXCEPT ![c] = None] /\ pc' = [pc EXCEPT ![c] = "rest"]
  BY <1>2, <1>3, <1>4, <1>5, <1>6, OneStep DEF Above
<1>7. CASE RestoreRead(c)
  <2>1. pc' = [pc EXCEPT ![c] = "weigh"] /\ mine' = [mine EXCEPT ![c] = persisted]
    BY <1>7 DEF RestoreRead, Goto
  <2> QED BY <1>2, <1>3, <1>4, <1>5, <2>1, OneStep
<1>7a. CASE RestoreAsks(c) /\ prf = 0
  <2>1. pc' = [pc EXCEPT ![c] = "fetch"] /\ mine' = mine
    BY <1>7a DEF RestoreAsks, Goto
  <2> QED BY <1>1, <1>2, <1>3, <1>4, <1>5, <2>1, OneStep
<1>8. CASE RestoreWeigh(c) /\ mine[c] # None
  <2>1. PICK p \in {"rmSession", "reinstate"} : pc' = [pc EXCEPT ![c] = p]
    BY <1>8 DEF RestoreWeigh, Goto
  <2>2. mine' = mine
    BY <1>8 DEF RestoreWeigh
  <2> QED BY <1>1, <1>2, <1>3, <1>4, <1>5, <2>1, <2>2, OneStep
<1> QED BY <1>6, <1>7, <1>7a, <1>8
        DEF Restore, RestoreAsks, RestoreWeigh, Reinstate, Return

LEMMA MarkedStart ==
  ASSUME Marked, CopiesGenuine', NEW c \in Calls,
         MfaAssertion(c) \/ CheckSession(c) \/ UserActive(c) \/ AlarmFires(c)
  PROVE  Marked'
<1> USE DEF Awaits
<1>1. pc[c] = "rest" /\ (overlapped' = 0 => overlapped = 0)
  BY DEF MfaAssertion, CheckSession, UserActive, AlarmFires, Begin, Marked
<1>2. overlapped' = 0 => Above(mine[c])
  BY <1>1 DEF Marked, LocalsAbove
<1>3. mine = [mine EXCEPT ![c] = mine[c]]
  BY DEF Marked, CopiesGenuine
<1>4. cleared' = cleared /\ sess' = sess /\ persisted' = persisted
  BY DEF MfaAssertion, CheckSession, UserActive, AlarmFires, stores
<1>5. CASE MfaAssertion(c)
  <2>1. /\ Begin(c, "mfa", "set") /\ n' = n + 1
        /\ mine' = [mine EXCEPT ![c] = [id |-> n + 1, expiry |-> now + TTL]]
    BY <1>5 DEF MfaAssertion, NewSession
  <2>2. n' >= n /\ Above([id |-> n + 1, expiry |-> now + TTL])
    BY <2>1, NewAbove DEF Marked, CopiesGenuine
  <2> QED BY <1>4, <2>1, <2>2, BeginStep
<1>6. CASE CheckSession(c) \/ UserActive(c) \/ AlarmFires(c)
  <2>1. mine' = mine /\ n' = n
    BY <1>6 DEF CheckSession, UserActive, AlarmFires
  <2>2. n' >= n
    BY <2>1 DEF Marked, CopiesGenuine
  <2>3. \/ Begin(c, "check", "reauth")
        \/ Begin(c, "idle", "get")
        \/ Begin(c, "alarm", "rmSession")
    BY <1>6 DEF CheckSession, UserActive, AlarmFires
  <2> QED BY <1>2, <1>3, <1>4, <2>1, <2>2, <2>3, BeginStep
<1> QED BY <1>5, <1>6

LEMMA MarkedFail ==
  ASSUME Marked, CopiesGenuine', NEW c \in Calls, Fail(c) PROVE Marked'
<1> USE DEF Awaits
<1>1. /\ overlapped' = overlapped /\ cleared' = cleared /\ n' = n
      /\ sess' = sess /\ persisted' = persisted /\ pc[c] # "rest"
      /\ mine' = [mine EXCEPT ![c] = None]
  BY DEF Fail, Return, history, stores
<1>2. PICK p \in {"rest", "get", "restore"} : pc' = [pc EXCEPT ![c] = p]
  BY DEF Fail, Return, Goto
<1>3. n' >= n
  BY <1>1 DEF Marked, CopiesGenuine
<1>4. overlapped = 0 => Above(sess) /\ Above(persisted)
  BY DEF Marked, StoresAbove
<1> QED BY <1>1, <1>2, <1>3, <1>4, OneStep DEF Above

(* The steps that leave calls and stores alone.                            *)
LEMMA MarkedFrame ==
  ASSUME Marked, CopiesGenuine',
         \/ \E c \in Calls : ResetIdleTimeout(c) \/ ResetFail(c)
         \/ PrfCreated \/ Tick \/ UNCHANGED vars
  PROVE  Marked'
<1>1. /\ overlapped' = overlapped /\ cleared' = cleared /\ n' = n
      /\ pc' = pc /\ mine' = mine /\ sess' = sess /\ persisted' = persisted
  BY DEF ResetIdleTimeout, ResetClear, ResetCreate, ResetFail, PrfCreated, Tick,
         vars, history, stores, callVars
<1> QED BY <1>1, FrameStep

LEMMA MarkedRestart ==
  ASSUME Marked, CopiesGenuine',
         WorkerRestart \/ \E c \in Calls : BrowserRestart(c)
  PROVE  Marked'
<1>1. CASE WorkerRestart
  <2>1. /\ overlapped' = overlapped /\ cleared' = cleared /\ n' = n
        /\ pc' = [d \in Calls |-> IF d = 0 THEN "rest" ELSE "rest"]
        /\ mine' = [d \in Calls |-> None]
        /\ sess' = sess /\ persisted' = persisted
    BY <1>1 DEF WorkerRestart, MemoryLost, stores
  <2> QED BY <2>1, RestartStep
<1>2. CASE \E c \in Calls : BrowserRestart(c)
  <2>1. PICK c \in Calls : BrowserRestart(c)
    BY <1>2
  <2>2. /\ overlapped' = overlapped /\ cleared' = cleared /\ n' = n
        /\ pc' = [d \in Calls |-> IF d = c THEN "reauth" ELSE "rest"]
        /\ mine' = [d \in Calls |-> None]
        /\ sess' = None /\ persisted' = persisted
    BY <2>1 DEF BrowserRestart, MemoryLost
  <2> QED BY <2>2, RestartStep
<1> QED BY <1>1, <1>2

LEMMA MarkedInit == Init => Marked
<1> SUFFICES ASSUME Init PROVE Marked
  OBVIOUS
<1>1. CopiesGenuine /\ pc \in [Calls -> Awaits]
  BY GenuineInit DEF Init, Awaits
<1>2. cleared \in Nat /\ cleared <= n /\ overlapped \in {0, 1}
  BY DEF Init
<1>3. OneCall /\ RestedEmpty /\ StoresAbove /\ LocalsAbove /\ HalfCleared
  BY DEF Init, OneCall, RestedEmpty, StoresAbove, LocalsAbove, HalfCleared,
         Above
<1> QED BY <1>1, <1>2, <1>3 DEF Marked

LEMMA MarkedNext == Marked /\ [Next]_vars => Marked'
<1> SUFFICES ASSUME Marked, [Next]_vars PROVE Marked'
  OBVIOUS
<1>1. CopiesGenuine'
  BY GenuineStep DEF Marked
<1>2. ASSUME NEW c \in Calls,
             \/ Activate(c) \/ Clear(c) \/ Get(c) \/ Reauth(c) \/ Restore(c)
             \/ MfaAssertion(c) \/ CheckSession(c) \/ UserActive(c)
             \/ AlarmFires(c) \/ Fail(c)
      PROVE  Marked'
  BY <1>1, <1>2, MarkedActivate, MarkedClear, MarkedGet, MarkedReauth,
     MarkedRestore, MarkedStart, MarkedFail
<1>3. ASSUME NEW c \in Calls, ResetIdleTimeout(c) \/ ResetFail(c) PROVE Marked'
  BY <1>1, <1>3, MarkedFrame
<1>4. ASSUME NEW c \in Calls, BrowserRestart(c) PROVE Marked'
  BY <1>1, <1>4, MarkedRestart
<1>5. CASE PrfCreated \/ Tick \/ UNCHANGED vars
  BY <1>1, <1>5, MarkedFrame
<1>6. CASE WorkerRestart
  BY <1>1, <1>6, MarkedRestart
<1> QED BY <1>2, <1>3, <1>4, <1>5, <1>6 DEF Next

(* clearSession is final: while calls do not overlap, no session that was  *)
(* activated before a clear removed both copies is returned after it,      *)
(* whatever the start-up restores.                                         *)
THEOREM ClearIsFinal == Spec => ClearFinal
<1>1. Marked =>
        [\A c \in Calls : Serve(c) /\ overlapped = 0 => mine[c].id > cleared]_vars
  <2> SUFFICES ASSUME Marked, NEW c \in Calls, Serve(c), overlapped = 0
               PROVE  mine[c].id > cleared
    OBVIOUS
  <2> QED BY DEF Marked, LocalsAbove, Above, Serve
<1>2. Spec => []Marked
  BY MarkedInit, MarkedNext, PTL DEF Spec
<1> QED BY <1>1, <1>2, PTL DEF ClearFinal
=============================================================================
