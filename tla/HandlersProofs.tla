--------------------------- MODULE HandlersProofs ---------------------------
(* The background worker's groups of handlers, each for any constants: the *)
(* approval of domains and their content scripts, attestation headers with *)
(* their keys and lock, the replay protection of assertions, the lock of   *)
(* the challenge-bound authentication and the transport manager; then the  *)
(* worker that has them all.                                               *)
EXTENDS BackgroundHandlers, FiniteSetTheorems, WellFoundedInduction, TLAPS

(* ContentScripts *)

Ops == {"none", "detect", "allow", "deny", "revoke", "start"}
Places == {"none", "hash", "lock", "list?", "register", "list!", "denied?", "pend?", "pend!",
           "add denied?", "add denied!", "unpend?", "unpend!", "start", "re-register"}
(* A request that serves no domain has "none".                             *)
Names == Domains \cup {"none"}
Records == [op : Ops, domain : Names, at : Places, read : SUBSET Names]

(* Where a handler holds the lock of its domain.                           *)
Working == {"list?", "register", "list!"}

Types ==
  /\ request \in [Requests -> Records]
  /\ approvedDomains \in SUBSET Names /\ pendingDomains \in SUBSET Names
  /\ deniedDomains \in SUBSET Names /\ offered \in SUBSET Names

(* What a handler is about to write to the list has its scripts.           *)
ScriptInv ==
  /\ approvedDomains \subseteq scripts \cup lacking
  /\ \A r \in Requests :
       /\ request[r].at \in {"register", "list!"} => request[r].read \subseteq scripts \cup lacking
       /\ request[r].at = "list!" => request[r].domain \in scripts \cup lacking

(* Who works on a domain has locked it, alone.                             *)
LockInv ==
  /\ \A r \in Requests :
       request[r].at \in Working => request[r].domain \in registerLock
  /\ \A r, q \in Requests :
       request[r].at \in Working /\ request[q].at \in Working
         /\ request[r].domain = request[q].domain => r = q

Inv == Types /\ ScriptInv /\ LockInv

-----------------------------------------------------------------------------
LEMMA FreeIsRecord == Free \in Records /\ Free.at = "none"
BY DEF Free, Records, Names, Ops, Places

(* What the actions do to the requests.  Other(r): no other is touched.    *)
Other(r) == \A q \in Requests \ {r} : request'[q] = request[q]

LEMMA Arriving ==
  ASSUME NEW r \in Requests, NEW op \in Ops, NEW d \in Domains, NEW at \in Places, Types,
         Arrives(r, op, d, at)
  PROVE  request' \in [Requests -> Records] /\ Other(r) /\ request'[r].at = at
BY DEF Arrives, Types, Records, Names, Other

LEMMA Awaiting ==
  ASSUME NEW r \in Requests, NEW at \in Places, NEW read \in SUBSET Names, Types,
         Awaits(r, at, read)
  PROVE  /\ request' \in [Requests -> Records] /\ Other(r)
         /\ request'[r].at = at /\ request'[r].read = read
         /\ request'[r].domain = request[r].domain
BY DEF Awaits, Types, Records, Other

LEMMA Ending ==
  ASSUME NEW r \in Requests, Types, Ends(r)
  PROVE  request' \in [Requests -> Records] /\ Other(r) /\ request'[r].at = "none"
BY FreeIsRecord DEF Ends, Types, Other

(* The end of a registration: nobody starts to work, and the lock of r's   *)
(* domain is gone.                                                         *)
LEMMA Registering ==
  ASSUME NEW r \in Requests, NEW ok \in {0, 1}, Types, Registered(r, ok)
  PROVE  /\ request' \in [Requests -> Records]
         /\ request'[r].at \notin Working
         /\ \A q \in Requests \ {r} : request'[q].at \in Working => request'[q] = request[q]
         /\ registerLock' = registerLock \ {request[r].domain}
<1>1. request'[r] \in Records /\ request'[r].at \in {"unpend?", "none"}
  <2>1. CASE ok = 1
    <3>1. request'[r] = [request[r] EXCEPT !.at = "unpend?", !.read = {}]
      BY <2>1 DEF Registered
    <3> QED BY <3>1 DEF Types, Records, Places
  <2>2. CASE ok = 0
    <3>1. request'[r] = Free
      BY <2>2 DEF Registered
    <3> QED BY <3>1, FreeIsRecord
  <2> QED BY <2>1, <2>2
<1>2. ASSUME NEW q \in Requests \ {r}
      PROVE  request'[q] \in Records /\ (request'[q].at = "unpend?" \/ request'[q] = request[q])
  <2>1. \/ request'[q] = [request[q] EXCEPT !.at = "unpend?"]
        \/ request'[q] = request[q]
    BY DEF Registered
  <2> QED BY <2>1 DEF Types, Records, Places
<1>3. request' \in [Requests -> Records]
  <2>1. DOMAIN request' = Requests /\ request' = [q \in Requests |-> request'[q]]
    BY DEF Registered
  <2> QED BY <1>1, <1>2, <2>1
<1> QED BY <1>1, <1>2, <1>3 DEF Registered, Working

-----------------------------------------------------------------------------
(* Steps in which nobody starts or goes on to work: the lists and the lock *)
(* are as before, and no script is lost but to an update.                  *)
Covered == scripts \cup lacking \subseteq scripts' \cup lacking'

LEMMA Calm ==
  ASSUME Inv, Covered, UNCHANGED <<approvedDomains, registerLock>>,
         \A q \in Requests : request'[q].at \in Working => request'[q] = request[q]
  PROVE  ScriptInv' /\ LockInv'
<1>1. ScriptInv'
  BY DEF Inv, ScriptInv, Covered, Working
<1>2. LockInv'
  BY DEF Inv, LockInv
<1> QED BY <1>1, <1>2

(* Nobody works any more.                                                  *)
LEMMA AllForgotten ==
  ASSUME Inv, Covered, UNCHANGED approvedDomains,
         \A q \in Requests : request'[q].at \notin Working
  PROVE  ScriptInv' /\ LockInv'
BY DEF Inv, ScriptInv, LockInv, Covered, Working

(* The handler r goes from one of its awaits to another and keeps the      *)
(* lock.                                                                   *)
LEMMA WorkGoesOn ==
  ASSUME Inv, Covered, UNCHANGED <<approvedDomains, registerLock>>, NEW r \in Requests, Other(r),
         request[r].at \in Working, request'[r].at \in {"register", "list!"},
         request'[r].domain = request[r].domain,
         request'[r].read \subseteq scripts' \cup lacking',
         request'[r].at = "list!" => request[r].domain \in scripts' \cup lacking'
  PROVE  ScriptInv' /\ LockInv'
<1>1. ScriptInv'
  BY DEF Inv, ScriptInv, Covered, Working, Other
<1>2. LockInv'
  BY DEF Inv, LockInv, Working, Other
<1> QED BY <1>1, <1>2

(* The handler r is done with its registration.                            *)
LEMMA WorkEnds ==
  ASSUME Inv, Covered, NEW r \in Requests, NEW ok \in {0, 1}, Registered(r, ok),
         request[r].at \in Working,
         approvedDomains' \subseteq scripts' \cup lacking'
  PROVE  ScriptInv' /\ LockInv'
<1>1. /\ request'[r].at \notin Working
      /\ \A q \in Requests \ {r} : request'[q].at \in Working => request'[q] = request[q]
      /\ registerLock' = registerLock \ {request[r].domain}
  BY Registering DEF Inv
<1>2. ScriptInv'
  BY <1>1 DEF Inv, ScriptInv, Covered, Working
<1>3. LockInv'
  BY <1>1 DEF Inv, LockInv
<1> QED BY <1>2, <1>3

-----------------------------------------------------------------------------
(* The actions *)

LEMMA LoadStep ==
  ASSUME Inv,
         \/ \E d \in Domains : \/ PageLoads(d) \/ LocationChanges(d) \/ DetectLoginForm(d)
                                \/ RateLimitExpires(d)
         \/ PopupLoads
         \/ UNCHANGED vars
  PROVE  Inv'
<1>1. /\ UNCHANGED <<approvedDomains, scripts, lacking, pendingDomains, deniedDomains, registerLock,
                     request>>
      /\ offered' \in {offered, pendingDomains, {}}
  BY DEF PageLoads, LocationChanges, DetectLoginForm, RateLimitExpires, PopupLoads, vars, listVars,
         promptVars, pageVars
<1>2. Types'
  BY <1>1 DEF Inv, Types
<1>3. ScriptInv' /\ LockInv'
  BY <1>1, Calm DEF Covered
<1> QED BY <1>2, <1>3 DEF Inv

LEMMA ArrivalStep ==
  ASSUME Inv, NEW r \in Requests, NEW d \in Domains,
         EmitUnapproved(r, d) \/ HandleAllow(r, d) \/ HandleDeny(r, d) \/ HandleRevoke(r, d)
  PROVE  Inv'
<1>1. \E op \in Ops, at \in {"denied?", "hash", "add denied?"} : Arrives(r, op, d, at)
  BY DEF EmitUnapproved, HandleAllow, HandleDeny, HandleRevoke, Ops
<1>2. UNCHANGED <<approvedDomains, scripts, lacking, pendingDomains, deniedDomains, offered,
                  registerLock>>
  BY DEF EmitUnapproved, HandleAllow, HandleDeny, HandleRevoke, listVars, promptVars
<1>3. /\ request' \in [Requests -> Records] /\ Other(r)
      /\ request'[r].at \in {"denied?", "hash", "add denied?"}
  BY <1>1, Arriving DEF Inv, Places
<1>4. Types'
  BY <1>2, <1>3 DEF Inv, Types
<1>5. ScriptInv' /\ LockInv'
  BY <1>2, <1>3, Calm DEF Covered, Other, Working
<1> QED BY <1>4, <1>5 DEF Inv

(* The steps of the session's lists, and of the start.                     *)
LEMMA ListStep ==
  ASSUME Inv, NEW r \in Requests,
         \/ IsDomainDenied(r) \/ AddPendingReads(r) \/ AddPendingWrites(r)
         \/ AddDeniedReads(r) \/ AddDeniedWrites(r) \/ RemovePendingReads(r)
         \/ RemovePendingWrites(r) \/ ReRegisterReads(r) \/ AccessFails(r)
  PROVE  Inv'
<1>0. Types
  BY DEF Inv
<1>1. \/ Ends(r)
      \/ \E at \in Places \ (Working \cup {"lock"}), read \in SUBSET Names : Awaits(r, at, read)
  BY <1>0 DEF IsDomainDenied, AddPendingReads, AddPendingWrites, AddDeniedReads, AddDeniedWrites,
              RemovePendingReads, RemovePendingWrites, ReRegisterReads, AccessFails, Answered, Places, Working,
              Types
<1>2. /\ UNCHANGED <<approvedDomains, scripts, lacking, registerLock>>
      /\ offered' \subseteq offered
  BY DEF IsDomainDenied, AddPendingReads, AddPendingWrites, AddDeniedReads, AddDeniedWrites,
         RemovePendingReads, RemovePendingWrites, ReRegisterReads, AccessFails, Answered, listVars, promptVars
<1>3. pendingDomains' \in SUBSET Names /\ deniedDomains' \in SUBSET Names
  <2>1. request[r].domain \in Names /\ request[r].read \in SUBSET Names
    BY <1>0 DEF Types, Records
  <2> QED BY <1>0, <2>1 DEF IsDomainDenied, AddPendingReads, AddPendingWrites, AddDeniedReads,
         AddDeniedWrites, RemovePendingReads, RemovePendingWrites, ReRegisterReads, AccessFails, Types, listVars,
         promptVars
<1>4. /\ request' \in [Requests -> Records] /\ Other(r) /\ request'[r].at \notin Working
  BY <1>0, <1>1, Ending, Awaiting DEF Working
<1>5. Types'
  BY <1>0, <1>2, <1>3, <1>4 DEF Types
<1>6. ScriptInv' /\ LockInv'
  BY <1>2, <1>4, Calm DEF Covered, Other
<1> QED BY <1>5, <1>6 DEF Inv

(* registerForDomain *)
LEMMA WorkStep ==
  ASSUME Inv, NEW r \in Requests,
         Hashed(r) \/ GetsApproved(r) \/ RegistersScript(r) \/ ListsApproved(r)
  PROVE  Inv'
<1>0. Types /\ ScriptInv /\ LockInv /\ request[r].domain \in Names /\ request[r].read \in SUBSET Names
  BY DEF Inv, Types, Records
<1>1. UNCHANGED <<pendingDomains, deniedDomains, offered>>
  BY DEF Hashed, GetsApproved, RegistersScript, ListsApproved, promptVars
<1>2. CASE Hashed(r)
  <2>1. UNCHANGED <<approvedDomains, scripts, lacking>> /\ request[r].at = "hash"
    BY <1>2 DEF Hashed, At, listVars
  <2>2. /\ request' \in [Requests -> Records] /\ Other(r) /\ request'[r].domain = request[r].domain
        /\ \/ /\ request'[r].at = "lock" /\ registerLock' = registerLock
           \/ /\ request'[r].at = "list?" /\ request[r].domain \notin registerLock
              /\ registerLock' = registerLock \cup {request[r].domain}
    <3>1. {} \in SUBSET Names /\ "lock" \in Places /\ "list?" \in Places
      BY DEF Places
    <3>2. CASE request[r].domain \in registerLock
      <4>1. Awaits(r, "lock", {}) /\ registerLock' = registerLock
        BY <1>2, <3>2 DEF Hashed
      <4> QED BY <1>0, <3>1, <4>1, Awaiting
    <3>3. CASE request[r].domain \notin registerLock
      <4>1. Awaits(r, "list?", {}) /\ registerLock' = registerLock \cup {request[r].domain}
        BY <1>2, <3>3 DEF Hashed
      <4> QED BY <1>0, <3>1, <3>3, <4>1, Awaiting
    <3> QED BY <3>2, <3>3
  <2>3. Types'
    BY <1>0, <1>1, <2>1, <2>2 DEF Types
  <2>4. ScriptInv'
    BY <1>0, <2>1, <2>2 DEF ScriptInv, Other
  <2>5. LockInv'
    BY <1>0, <2>2 DEF LockInv, Other, Working
  <2> QED BY <2>3, <2>4, <2>5 DEF Inv
<1>3. CASE GetsApproved(r)
  <2>1. UNCHANGED <<approvedDomains, scripts, lacking>> /\ request[r].at = "list?"
    BY <1>3 DEF GetsApproved, At, listVars
  <2>2. ASSUME NEW ok \in {0, 1}, Registered(r, ok) PROVE Inv'
    <3>1. Types'
      BY <1>0, <1>1, <2>1, <2>2, Registering DEF Types
    <3>2. ScriptInv' /\ LockInv'
      BY <1>0, <2>1, <2>2, WorkEnds DEF Covered, Working, ScriptInv
    <3> QED BY <3>1, <3>2 DEF Inv
  <2>3. CASE Awaits(r, "register", approvedDomains) /\ UNCHANGED registerLock
    <3>1. /\ request' \in [Requests -> Records] /\ Other(r)
          /\ request'[r].at = "register" /\ request'[r].read = approvedDomains
          /\ request'[r].domain = request[r].domain
      BY <1>0, <2>3, Awaiting DEF Places, Types
    <3>2. Types'
      BY <1>0, <1>1, <2>1, <3>1 DEF Types
    <3>3. ScriptInv' /\ LockInv'
      BY <1>0, <2>1, <2>3, <3>1, WorkGoesOn DEF Covered, Working, ScriptInv
    <3> QED BY <3>2, <3>3 DEF Inv
  <2> QED BY <1>3, <2>2, <2>3 DEF GetsApproved
<1>4. CASE RegistersScript(r)
  <2>1. UNCHANGED approvedDomains /\ request[r].at = "register"
    BY <1>4 DEF RegistersScript, At
  <2>2. CASE Registered(r, 0) /\ UNCHANGED <<scripts, lacking>>
    <3>1. Types'
      BY <1>0, <1>1, <2>1, <2>2, Registering DEF Types
    <3>2. ScriptInv' /\ LockInv'
      BY <1>0, <2>1, <2>2, WorkEnds DEF Covered, Working, ScriptInv
    <3> QED BY <3>1, <3>2 DEF Inv
  <2>3. CASE /\ scripts' = scripts \cup {request[r].domain}
             /\ lacking' = lacking \ {request[r].domain}
             /\ Awaits(r, "list!", request[r].read) /\ UNCHANGED registerLock
    <3>1. /\ request' \in [Requests -> Records] /\ Other(r)
          /\ request'[r].at = "list!" /\ request'[r].read = request[r].read
          /\ request'[r].domain = request[r].domain
      <4>1. "list!" \in Places /\ request[r].read \in SUBSET Names
        BY <1>0 DEF Places, Types, Records
      <4>2. Awaits(r, "list!", request[r].read)
        BY <2>3
      <4> QED BY <1>0, <4>1, <4>2, Awaiting
    <3>2. Types'
      BY <1>0, <1>1, <2>1, <3>1 DEF Types
    <3>3. Covered /\ request[r].read \subseteq scripts \cup lacking
      BY <1>0, <2>1, <2>3 DEF Covered, ScriptInv
    <3>4. ScriptInv' /\ LockInv'
      BY <2>1, <2>3, <3>1, <3>3, WorkGoesOn DEF Covered, Working
    <3> QED BY <3>2, <3>4 DEF Inv
  <2> QED BY <1>4, <2>2, <2>3 DEF RegistersScript
<1>5. CASE ListsApproved(r)
  <2>1. UNCHANGED <<scripts, lacking>> /\ request[r].at = "list!"
    BY <1>5 DEF ListsApproved, At
  <2>2. PICK ok \in {0, 1} : Registered(r, ok)
    BY <1>5 DEF ListsApproved
  <2>3. approvedDomains' \in {approvedDomains, request[r].read \cup {request[r].domain}}
    BY <1>5 DEF ListsApproved
  <2>4. Types'
    BY <1>0, <1>1, <2>2, <2>3, Registering DEF Types
  <2>5. approvedDomains' \subseteq scripts' \cup lacking'
    BY <1>0, <2>1, <2>3 DEF ScriptInv
  <2>6. ScriptInv' /\ LockInv'
    BY <2>1, <2>2, <2>5, WorkEnds DEF Covered, Working
  <2> QED BY <2>4, <2>6 DEF Inv
<1> QED BY <1>2, <1>3, <1>4, <1>5

LEMMA ReRegisterStep ==
  ASSUME Inv, NEW r \in Requests, NEW d \in Domains, ReRegisters(r, d)
  PROVE  Inv'
<1>0. Types /\ request[r].read \in SUBSET Names
  BY DEF Inv, Types, Records
<1>1. /\ UNCHANGED <<approvedDomains, pendingDomains, deniedDomains, offered, registerLock>>
      /\ Covered
  BY DEF ReRegisters, promptVars, Covered
<1>2. request' \in [Requests -> Records] /\ Other(r) /\ request'[r].at \notin Working
  <2>1. request[r].read \ {d} \in SUBSET Names /\ "re-register" \in Places \ Working
    BY <1>0 DEF Places, Working
  <2>2. Ends(r) \/ Awaits(r, "re-register", request[r].read \ {d})
    BY DEF ReRegisters
  <2> QED BY <1>0, <2>1, <2>2, Ending, Awaiting DEF Working
<1>3. Types'
  BY <1>0, <1>1, <1>2 DEF Types
<1>4. ScriptInv' /\ LockInv'
  BY <1>1, <1>2, Calm DEF Other
<1> QED BY <1>3, <1>4 DEF Inv

(* Chrome sync: what it lists and has no script is lacking.                *)
LEMMA SyncStep ==
  ASSUME Inv, NEW list \in SUBSET Domains, SyncArrives(list)
  PROVE  Inv'
<1>1. /\ UNCHANGED <<scripts, pendingDomains, deniedDomains, offered, registerLock, request>>
      /\ approvedDomains' = list /\ lacking' = lacking \cup (list \ scripts)
  BY DEF SyncArrives, promptVars
<1>2. Types'
  BY <1>1 DEF Inv, Types, Names
<1>3. ScriptInv'
  BY <1>1 DEF Inv, ScriptInv
<1>4. LockInv'
  BY <1>1 DEF Inv, LockInv
<1> QED BY <1>2, <1>3, <1>4 DEF Inv

LEMMA RestartStep ==
  ASSUME Inv, WorkerRestarts \/ BrowserStarts(0) \/ BrowserStarts(1)
  PROVE  Inv'
<1>1. /\ UNCHANGED approvedDomains /\ Covered
      /\ pendingDomains' \in {pendingDomains, {}} /\ deniedDomains' \in {deniedDomains, {}}
      /\ offered' \in {offered, {}}
  BY DEF WorkerRestarts, BrowserStarts, listVars, promptVars, Covered
<1>2. PICK starting \in SUBSET Requests : Forgotten(starting)
  BY DEF WorkerRestarts, BrowserStarts
<1>3. ASSUME NEW q \in Requests
      PROVE  request'[q] \in Records /\ request'[q].at \notin Working
  <2>1. request'[q] = Free
        \/ request'[q] = [op |-> "start", domain |-> "none", at |-> "start", read |-> {}]
    BY <1>2 DEF Forgotten, Free
  <2>2. CASE request'[q] = Free
    BY <2>2, FreeIsRecord DEF Working
  <2>3. CASE request'[q] = [op |-> "start", domain |-> "none", at |-> "start", read |-> {}]
    <3>1. {} \in SUBSET Names
      OBVIOUS
    <3> QED BY <2>3, <3>1 DEF Records, Names, Ops, Places, Working
  <2> QED BY <2>1, <2>2, <2>3
<1>4. request' \in [Requests -> Records]
  <2>1. DOMAIN request' = Requests /\ request' = [q \in Requests |-> request'[q]]
    BY <1>2 DEF Forgotten
  <2> QED BY <1>3, <2>1
<1>5. Types'
  BY <1>1, <1>4 DEF Inv, Types
<1>6. ScriptInv' /\ LockInv'
  BY <1>1, <1>3, AllForgotten
<1> QED BY <1>5, <1>6 DEF Inv

LEMMA InvStep == Inv /\ [Next]_vars => Inv'
BY LoadStep, ArrivalStep, ListStep, WorkStep, ReRegisterStep, SyncStep, RestartStep DEF Next

LEMMA InitInv == Init => Inv
<1> SUFFICES ASSUME Init PROVE Inv
  OBVIOUS
<1>1. Types
  BY FreeIsRecord DEF Init, Types
<1>2. \A r \in Requests : request[r].at = "none"
  BY FreeIsRecord DEF Init
<1>3. ScriptInv /\ LockInv
  BY <1>2 DEF Init, ScriptInv, LockInv, Working
<1> QED BY <1>1, <1>3 DEF Inv

-----------------------------------------------------------------------------
(* Every domain on the list of contentScriptManager.ts has its content     *)
(* script, unless an update dropped it or another browser listed it and it *)
(* has not been registered since: for any domains and overlapping handlers, *)
(* failing calls and restarts.                                             *)
THEOREM ListedHasScript == Spec => []ApprovedHasScript
<1>1. Inv => ApprovedHasScript
  BY DEF Inv, ScriptInv, ApprovedHasScript
<1> QED BY <1>1, InitInv, InvStep, PTL DEF Spec

(* A set all of whose members are equal has at most one.                   *)
LEMMA AtMostOne ==
  ASSUME NEW S, \A x, y \in S : x = y
  PROVE  Cardinality(S) <= 1
<1>1. CASE S = {}
  BY <1>1, FS_EmptySet
<1>2. CASE S # {}
  <2>1. PICK x \in S : TRUE
    BY <1>2
  <2>2. S = {x}
    BY <2>1
  <2> QED BY <2>2, FS_Singleton
<1> QED BY <1>1, <1>2

(* registerForDomain's lock, looked up and taken after an await, lets at   *)
(* most one call at a time register a domain, for any number of calls.     *)
THEOREM OneRegistration == Spec => []RegistrationExclusive
<1>1. Inv => RegistrationExclusive
  <2> SUFFICES ASSUME Inv, NEW d \in Domains
               PROVE  Cardinality({r \in Requests : request[r].domain = d
                                      /\ request[r].at \in {"list?", "register", "list!"}}) <= 1
    BY DEF RegistrationExclusive
  <2>1. \A r, q \in {r \in Requests : request[r].domain = d
                        /\ request[r].at \in {"list?", "register", "list!"}} : r = q
    BY DEF Inv, LockInv, Working
  <2> QED BY <2>1, AtMostOne
<1> QED BY <1>1, InitInv, InvStep, PTL DEF Spec

-----------------------------------------------------------------------------
(* The types: a handler that serves a message serves a domain.             *)
Serving == Places \ {"none", "start", "re-register"}
Served ==
  \A r \in Requests : /\ request[r].read \in SUBSET Domains
                      /\ request[r].at \in Serving => request[r].domain \in Domains
ListTypes ==
  /\ approvedDomains \in SUBSET Domains /\ scripts \in SUBSET Domains /\ lacking \in SUBSET Domains
PromptTypes ==
  /\ pendingDomains \in SUBSET Domains /\ deniedDomains \in SUBSET Domains
  /\ offered \in SUBSET Domains /\ revoked \in SUBSET Domains
SiteTypes ==
  /\ site \in [Domains -> {"none", "approved", "unapproved"}] /\ limited \in SUBSET Domains
OtherTypes == registerLock \in SUBSET Domains /\ arrived \in 0..MaxRequests
DomainTypes == Types /\ Served /\ ListTypes /\ PromptTypes /\ SiteTypes /\ OtherTypes

(* What the steps of a handler do to Served.                               *)
LEMMA ServedByOne ==
  ASSUME Served, NEW r \in Requests, Other(r), request'[r].read \in SUBSET Domains,
         request'[r].at \in Serving => request'[r].domain \in Domains
  PROVE  Served'
BY DEF Served, Other

LEMMA ServedArrives ==
  ASSUME Types, Served, OtherTypes, NEW r \in Requests, NEW op \in Ops, NEW d \in Domains,
         NEW at \in Places, Arrives(r, op, d, at)
  PROVE  Served' /\ arrived' \in 0..MaxRequests
<1>1. request'[r] = [op |-> op, domain |-> d, at |-> at, read |-> {}] /\ Other(r)
  BY DEF Arrives, Types, Other
<1>2. arrived' \in 0..MaxRequests
  BY RequestsAssumption DEF Arrives, OtherTypes
<1> QED BY <1>1, <1>2, ServedByOne

LEMMA ServedAwaits ==
  ASSUME Types, Served, NEW r \in Requests, NEW at \in Places, NEW read \in SUBSET Domains,
         Awaits(r, at, read), at \in Serving => request[r].at \in Serving
  PROVE  Served'
<1>1. read \in SUBSET Names
  BY DEF Names
<1>2. /\ Other(r) /\ request'[r].at = at /\ request'[r].read = read
      /\ request'[r].domain = request[r].domain
  BY <1>1, Awaiting
<1> QED BY <1>2, ServedByOne DEF Served

LEMMA ServedEnds ==
  ASSUME Types, Served, NEW r \in Requests, Ends(r)
  PROVE  Served'
<1>1. request'[r] = Free /\ Other(r)
  BY DEF Ends, Types, Other
<1>2. Free.at \notin Serving /\ Free.read = {}
  BY DEF Free, Serving
<1> QED BY <1>1, <1>2, ServedByOne

LEMMA ServedRegisters ==
  ASSUME Types, Served, OtherTypes, NEW r \in Requests, request[r].at \in Serving,
         NEW ok \in {0, 1}, Registered(r, ok)
  PROVE  arrived' = arrived => Served' /\ OtherTypes'
<1> SUFFICES ASSUME arrived' = arrived PROVE Served' /\ OtherTypes'
  OBVIOUS
<1>1. Free.at \notin Serving /\ Free.read = {}
  BY DEF Free, Serving
<1>2. ASSUME NEW q \in Requests
      PROVE  /\ request'[q].read \in SUBSET Domains
             /\ request'[q].at \in Serving => request'[q].domain \in Domains
  <2>0. /\ request[q] \in Records /\ request[q].read \in SUBSET Domains
        /\ request[q].at \in Serving => request[q].domain \in Domains
    BY DEF Types, Served
  <2>1. CASE q = r /\ ok = 1
    <3>1. request'[q] = [request[r] EXCEPT !.at = "unpend?", !.read = {}]
      BY <2>1 DEF Registered
    <3> QED BY <2>0, <2>1, <3>1 DEF Records
  <2>2. CASE q = r /\ ok = 0
    <3>1. request'[q] = Free
      BY <2>2 DEF Registered
    <3> QED BY <1>1, <3>1
  <2>3. CASE q # r /\ request[q].domain = request[r].domain /\ request[q].at = "lock"
    <3>1. request'[q] = [request[q] EXCEPT !.at = "unpend?"]
      BY <2>3 DEF Registered
    <3>2. "lock" \in Serving
      BY DEF Serving, Places
    <3> QED BY <2>0, <2>3, <3>1, <3>2 DEF Records
  <2>4. CASE q # r /\ ~(request[q].domain = request[r].domain /\ request[q].at = "lock")
    <3>1. request'[q] = request[q]
      BY <2>4 DEF Registered
    <3> QED BY <2>0, <3>1
  <2> QED BY <2>1, <2>2, <2>3, <2>4
<1>3. registerLock' \in SUBSET Domains
  BY DEF Registered, OtherTypes
<1> QED BY <1>2, <1>3 DEF Served, OtherTypes

LEMMA DomainTypesStep ==
  Inv /\ DomainTypes /\ [Next]_vars => Served' /\ ListTypes' /\ PromptTypes' /\ SiteTypes' /\ OtherTypes'
<1> SUFFICES ASSUME Inv, DomainTypes, [Next]_vars
             PROVE  Served' /\ ListTypes' /\ PromptTypes' /\ SiteTypes' /\ OtherTypes'
  OBVIOUS
<1>0. Types /\ Served /\ ListTypes /\ PromptTypes /\ SiteTypes /\ OtherTypes
  BY DEF DomainTypes
<1> DEFINE Goal == Served' /\ ListTypes' /\ PromptTypes' /\ SiteTypes' /\ OtherTypes'
<1>p. /\ Serving \subseteq Places /\ "start" \in Places /\ "re-register" \in Places
      /\ "start" \notin Serving /\ "re-register" \notin Serving
      /\ {"hash", "lock", "list?", "register", "list!", "denied?", "pend?", "pend!",
          "add denied?", "add denied!", "unpend?", "unpend!"} \subseteq Serving
      /\ {"detect", "allow", "deny", "revoke"} \subseteq Ops
  BY DEF Serving, Places, Ops
<1>1. ASSUME NEW d \in Domains,
             PageLoads(d) \/ LocationChanges(d) \/ DetectLoginForm(d) \/ RateLimitExpires(d)
      PROVE  Goal
  <2>1. SiteTypes'
    BY <1>0, <1>1 DEF PageLoads, LocationChanges, DetectLoginForm, RateLimitExpires, SiteTypes,
                      CheckDynamicApproval, IsDomainApproved
  <2>2. UNCHANGED <<listVars, promptVars, registerLock, request, revoked, arrived>>
    BY <1>1 DEF PageLoads, LocationChanges, DetectLoginForm, RateLimitExpires
  <2> QED BY <1>0, <2>1, <2>2
          DEF Served, ListTypes, PromptTypes, OtherTypes, listVars, promptVars
<1>2. CASE PopupLoads
  BY <1>0, <1>2 DEF PopupLoads, Served, ListTypes, PromptTypes, SiteTypes, OtherTypes, listVars,
                    pageVars
<1>3. ASSUME NEW r \in Requests, NEW d \in Domains,
             EmitUnapproved(r, d) \/ HandleAllow(r, d) \/ HandleDeny(r, d) \/ HandleRevoke(r, d)
      PROVE  Goal
  <2>1. /\ UNCHANGED <<listVars, promptVars, pageVars, registerLock>> /\ revoked' \subseteq revoked
        /\ \/ Arrives(r, "detect", d, "denied?") \/ Arrives(r, "allow", d, "hash")
           \/ Arrives(r, "deny", d, "add denied?") \/ Arrives(r, "revoke", d, "add denied?")
    BY <1>3 DEF EmitUnapproved, HandleAllow, HandleDeny, HandleRevoke
  <2>2. \E op \in Ops, at \in Places : Arrives(r, op, d, at)
    BY <1>p, <2>1
  <2>3. Served' /\ arrived' \in 0..MaxRequests
    BY <1>0, <2>2, ServedArrives
  <2> QED BY <1>0, <2>1, <2>3
          DEF ListTypes, PromptTypes, SiteTypes, OtherTypes, listVars, promptVars, pageVars
<1>4. ASSUME NEW r \in Requests, Hashed(r) PROVE Goal
  <2>1. /\ request[r].at = "hash" /\ UNCHANGED <<listVars, promptVars, pageVars, revoked, arrived>>
        /\ Awaits(r, "lock", {}) \/ Awaits(r, "list?", {})
        /\ registerLock' = registerLock \/ registerLock' = registerLock \cup {request[r].domain}
    BY <1>4 DEF Hashed, At
  <2>2. request[r].domain \in Domains
    BY <1>0, <1>p, <2>1 DEF Served
  <2>3. Served'
    <3>1. /\ "lock" \in Places /\ "list?" \in Places /\ {} \in SUBSET Domains
          /\ request[r].at \in Serving
      BY <1>p, <2>1
    <3> QED BY <1>0, <2>1, <3>1, ServedAwaits
  <2>4. OtherTypes'
    BY <1>0, <2>1, <2>2 DEF OtherTypes
  <2> QED BY <1>0, <2>1, <2>3, <2>4
          DEF ListTypes, PromptTypes, SiteTypes, listVars, promptVars, pageVars
<1>5. ASSUME NEW r \in Requests, GetsApproved(r) \/ RegistersScript(r) \/ ListsApproved(r) PROVE Goal
  <2>0. request[r].at \in {"list?", "register", "list!"}
    BY <1>5 DEF GetsApproved, RegistersScript, ListsApproved, At
  <2>1. /\ request[r].at \in Serving /\ request[r].domain \in Domains
        /\ request[r].read \in SUBSET Domains /\ approvedDomains \in SUBSET Domains
    BY <1>0, <1>p, <2>0 DEF Served, ListTypes
  <2>2. UNCHANGED <<promptVars, pageVars, revoked, arrived>>
    BY <1>5 DEF GetsApproved, RegistersScript, ListsApproved
  <2>3. ListTypes'
    BY <1>0, <1>5, <2>1 DEF GetsApproved, RegistersScript, ListsApproved, ListTypes, listVars
  <2>4. CASE \E ok \in {0, 1} : Registered(r, ok)
    <3>1. Served' /\ OtherTypes'
      BY <1>0, <2>1, <2>2, <2>4, ServedRegisters
    <3> QED BY <1>0, <2>2, <2>3, <3>1 DEF PromptTypes, SiteTypes, promptVars, pageVars
  <2>5. CASE /\ Awaits(r, "register", approvedDomains) \/ Awaits(r, "list!", request[r].read)
             /\ UNCHANGED registerLock
    <3>1. Served'
      BY <1>0, <1>p, <2>1, <2>5, ServedAwaits
    <3> QED BY <1>0, <2>2, <2>3, <2>5, <3>1
            DEF PromptTypes, SiteTypes, OtherTypes, promptVars, pageVars
  <2> QED BY <1>5, <2>4, <2>5 DEF GetsApproved, RegistersScript, ListsApproved
<1>6. ASSUME NEW r \in Requests,
             \/ IsDomainDenied(r) \/ AddPendingReads(r) \/ AddPendingWrites(r) \/ AddDeniedReads(r)
             \/ AddDeniedWrites(r) \/ RemovePendingReads(r) \/ RemovePendingWrites(r)
      PROVE  Goal
  <2>0. /\ request[r].at \in {"denied?", "pend?", "pend!", "add denied?", "add denied!", "unpend?",
                              "unpend!"}
        /\ UNCHANGED <<listVars, pageVars, registerLock, arrived>>
    BY <1>6 DEF IsDomainDenied, AddPendingReads, AddPendingWrites, AddDeniedReads, AddDeniedWrites,
                RemovePendingReads, RemovePendingWrites, At
  <2>1. /\ request[r].at \in Serving /\ request[r].domain \in Domains
        /\ request[r].read \in SUBSET Domains
    BY <1>0, <1>p, <2>0 DEF Served
  <2>2. \/ Ends(r)
        \/ \E at \in Serving, read \in {{}, pendingDomains, deniedDomains} : Awaits(r, at, read)
    BY <1>6, <1>p DEF IsDomainDenied, AddPendingReads, AddPendingWrites, AddDeniedReads,
                AddDeniedWrites, RemovePendingReads, RemovePendingWrites, Answered
  <2>3. Served'
    <3>1. \A read \in {{}, pendingDomains, deniedDomains} : read \in SUBSET Domains
      BY <1>0 DEF PromptTypes
    <3> QED BY <1>0, <1>p, <2>1, <2>2, <3>1, ServedAwaits, ServedEnds
  <2>4. PromptTypes'
    BY <1>0, <1>6, <2>1
       DEF IsDomainDenied, AddPendingReads, AddPendingWrites, AddDeniedReads, AddDeniedWrites,
           RemovePendingReads, RemovePendingWrites, Answered, PromptTypes, promptVars
  <2> QED BY <1>0, <2>0, <2>3, <2>4 DEF ListTypes, SiteTypes, OtherTypes, listVars, pageVars
<1>7. ASSUME NEW r \in Requests, ReRegisterReads(r) PROVE Goal
  <2>1. /\ UNCHANGED <<listVars, promptVars, pageVars, registerLock, revoked, arrived>>
        /\ Ends(r) \/ Awaits(r, "re-register", approvedDomains)
    BY <1>7 DEF ReRegisterReads
  <2>2. Served'
    BY <1>0, <1>p, <2>1, ServedAwaits, ServedEnds DEF ListTypes
  <2> QED BY <1>0, <2>1, <2>2
          DEF ListTypes, PromptTypes, SiteTypes, OtherTypes, listVars, promptVars, pageVars
<1>8. ASSUME NEW r \in Requests, NEW d \in Domains, ReRegisters(r, d) PROVE Goal
  <2>1. /\ UNCHANGED <<approvedDomains, promptVars, pageVars, registerLock, revoked, arrived>>
        /\ Ends(r) \/ Awaits(r, "re-register", request[r].read \ {d})
    BY <1>8 DEF ReRegisters
  <2>2. request[r].read \ {d} \in SUBSET Domains
    BY <1>0 DEF Served
  <2>3. Served'
    BY <1>0, <1>p, <2>1, <2>2, ServedAwaits, ServedEnds
  <2>4. ListTypes'
    BY <1>0, <1>8 DEF ReRegisters, ListTypes
  <2> QED BY <1>0, <2>1, <2>3, <2>4
          DEF PromptTypes, SiteTypes, OtherTypes, promptVars, pageVars
<1>9. ASSUME NEW starting, Forgotten(starting)
      PROVE  Served' /\ registerLock' = {} /\ limited' = {}
  <2>1. ASSUME NEW q \in Requests
        PROVE  request'[q].read = {} /\ request'[q].at \notin Serving
    <3>1. request'[q] = Free \/ request'[q] = [Free EXCEPT !.op = "start", !.at = "start"]
      BY <1>9 DEF Forgotten
    <3>2. "none" \notin Serving
      BY DEF Serving
    <3>3. CASE request'[q] = Free
      BY <3>2, <3>3 DEF Free
    <3>4. CASE request'[q] = [Free EXCEPT !.op = "start", !.at = "start"]
      <4>1. request'[q].at = "start" /\ request'[q].read = {}
        BY <3>4 DEF Free
      <4> QED BY <1>p, <4>1
    <3> QED BY <3>1, <3>3, <3>4
  <2> QED BY <1>9, <2>1 DEF Served, Forgotten
<1>f. ASSUME NEW r \in Requests, AccessFails(r) PROVE Goal
  <2>1. /\ UNCHANGED <<listVars, promptVars, pageVars, registerLock, revoked, arrived>>
        /\ Ends(r)
    BY <1>f DEF AccessFails
  <2>2. Served'
    BY <1>0, <2>1, ServedEnds
  <2> QED BY <1>0, <2>1, <2>2
          DEF ListTypes, PromptTypes, SiteTypes, OtherTypes, listVars, promptVars, pageVars
<1>s. ASSUME NEW list \in SUBSET Domains, SyncArrives(list) PROVE Goal
  BY <1>0, <1>s DEF SyncArrives, Served, ListTypes, PromptTypes, SiteTypes, OtherTypes, promptVars,
                     pageVars
<1>10. CASE WorkerRestarts
  <2>1. Served' /\ registerLock' = {} /\ limited' = {}
    BY <1>9, <1>10 DEF WorkerRestarts
  <2> QED BY <1>0, <1>10, <2>1
          DEF WorkerRestarts, ListTypes, PromptTypes, SiteTypes, OtherTypes, listVars, promptVars
<1>11. ASSUME NEW update \in {0, 1}, BrowserStarts(update) PROVE Goal
  <2>1. Served' /\ registerLock' = {} /\ limited' = {}
    BY <1>9, <1>11 DEF BrowserStarts
  <2> QED BY <1>0, <1>11, <2>1
          DEF BrowserStarts, ListTypes, PromptTypes, SiteTypes, OtherTypes
<1>12. CASE UNCHANGED vars
  BY <1>0, <1>12 DEF vars, listVars, promptVars, pageVars, Served, ListTypes, PromptTypes, SiteTypes,
                     OtherTypes
<1>13. ASSUME NEW r \in Requests,
              \/ Hashed(r) \/ GetsApproved(r) \/ RegistersScript(r) \/ ListsApproved(r)
              \/ IsDomainDenied(r) \/ AddPendingReads(r) \/ AddPendingWrites(r)
              \/ AddDeniedReads(r) \/ AddDeniedWrites(r) \/ RemovePendingReads(r)
              \/ RemovePendingWrites(r) \/ ReRegisterReads(r) \/ AccessFails(r)
       PROVE  Goal
  BY <1>4, <1>5, <1>6, <1>7, <1>13, <1>f
<1>14. ASSUME NEW r \in Requests, NEW d \in Domains,
              \/ EmitUnapproved(r, d) \/ HandleAllow(r, d) \/ HandleDeny(r, d) \/ HandleRevoke(r, d)
              \/ ReRegisters(r, d)
       PROVE  Goal
  BY <1>3, <1>8, <1>14
<1>15. CASE Next
  <2>1. BrowserStarts(0) \/ BrowserStarts(1) => Goal
    BY <1>11
  <2> QED BY <1>1, <1>2, <1>10, <1>13, <1>14, <1>15, <1>s, <2>1 DEF Next
<1> QED BY <1>12, <1>15

(* Every variable of the approval of domains keeps its type: no list, lock *)
(* or script ever names anything but a domain, though a handler writes     *)
(* back lists it has read before its awaits.                               *)
THEOREM ApprovalTyped == Spec => []TypeOK
<1>1. Init => DomainTypes
  BY InitInv, RequestsAssumption
     DEF Init, Inv, DomainTypes, Served, ListTypes, PromptTypes, SiteTypes, OtherTypes, Free, Serving
<1>2. Inv /\ DomainTypes /\ [Next]_vars => Inv' /\ DomainTypes'
  BY InvStep, DomainTypesStep DEF Inv, DomainTypes
<1>3. DomainTypes => TypeOK
  <2> SUFFICES ASSUME DomainTypes PROVE TypeOK
    OBVIOUS
  <2>1. \A r \in Requests : request[r].at \in Places /\ request[r].read \in SUBSET Domains
    BY DEF DomainTypes, Types, Records, Served
  <2>2. \A t \in {approvedDomains, scripts, lacking, pendingDomains, deniedDomains, offered,
                  registerLock, limited, revoked} : t \in SUBSET Domains
    BY DEF DomainTypes, ListTypes, PromptTypes, SiteTypes, OtherTypes
  <2>3. site \in [Domains -> {"none", "approved", "unapproved"}] /\ arrived \in 0..MaxRequests
    BY DEF DomainTypes, SiteTypes, OtherTypes
  <2> QED BY <2>1, <2>2, <2>3, Zenon DEF TypeOK, Places
<1> QED BY <1>1, <1>2, <1>3, InitInv, PTL DEF Spec

-----------------------------------------------------------------------------
(* Attestation *)

HeaderPlaces == {"none", "lock", "dom", "import", "verify", "audit"}
Versions == 0..MaxPublished
Keys == {NotImported} \cup Versions
HeaderRecords == [at : HeaderPlaces, waits : Headers \cup {Nobody}, key : Keys, code : {0, 1}]

HeaderTypes ==
  /\ header \in [Headers -> HeaderRecords]
  /\ mutex \in Headers \cup {Nobody}
  /\ imported \in Keys /\ generation \in Versions /\ published \in Versions
  /\ refresh \in [Refreshes -> [at : {"none", "fetch", "verify"}, version : Versions]]
StatusTypes ==
  /\ started \in {0, 1} /\ keyActive \in {0, 1} /\ overlapped \in {0, 1}
  /\ currentStatus \in {"not_applicable", "dom_only", "verified", "rat_detected"}
  /\ manifestVersion = generation

(* What is being imported will be found imported: it is the current key,   *)
(* unless it was replaced meanwhile.                                       *)
ImportsCurrent ==
  overlapped = 0 => \A h \in Headers : header[h].at = "import" => header[h].key = generation

KeyInv == HeaderTypes /\ ImportsCurrent /\ ImportedCurrent
AttestationLockInv == HeaderTypes /\ WaitersServed

-----------------------------------------------------------------------------
LEMMA GoneIsRecord == Gone \in HeaderRecords
BY DEF Gone, HeaderRecords, HeaderPlaces, Nobody, Keys

LEMMA NotImportedKey == NotImported \in Keys /\ Versions \subseteq Keys /\ 0 \in Versions
BY PublishedAssumption DEF Keys, Versions

LEMMA HeaderTypesInit == AttestationInit => HeaderTypes
BY GoneIsRecord, NotImportedKey DEF AttestationInit, HeaderTypes, Refreshes, Idle

-----------------------------------------------------------------------------
(* What the actions do to the headers, field by field.  OtherHeaders(h):   *)
(* no other header is touched.                                             *)
OtherHeaders(h) == \A g \in Headers \ {h} : header'[g] = header[g]

LEMMA MoveAt ==
  ASSUME NEW h \in Headers, NEW a \in HeaderPlaces, header \in [Headers -> HeaderRecords],
         header' = [header EXCEPT ![h].at = a]
  PROVE  /\ header' \in [Headers -> HeaderRecords] /\ OtherHeaders(h)
         /\ header'[h].at = a /\ header'[h].waits = header[h].waits
         /\ header'[h].key = header[h].key
BY DEF HeaderRecords, OtherHeaders

LEMMA MoveKey ==
  ASSUME NEW h \in Headers, NEW a \in HeaderPlaces, NEW k \in Keys, header \in [Headers -> HeaderRecords],
         header' = [header EXCEPT ![h].at = a, ![h].key = k]
  PROVE  /\ header' \in [Headers -> HeaderRecords] /\ OtherHeaders(h)
         /\ header'[h].at = a /\ header'[h].waits = header[h].waits
         /\ header'[h].key = k
BY DEF HeaderRecords, OtherHeaders

LEMMA MoveCode ==
  ASSUME NEW h \in Headers, NEW a \in HeaderPlaces, NEW c \in {0, 1}, header \in [Headers -> HeaderRecords],
         header' = [header EXCEPT ![h].at = a, ![h].code = c]
  PROVE  /\ header' \in [Headers -> HeaderRecords] /\ OtherHeaders(h)
         /\ header'[h].at = a /\ header'[h].waits = header[h].waits
         /\ header'[h].key = header[h].key
BY DEF HeaderRecords, OtherHeaders

LEMMA Arrival ==
  ASSUME NEW h \in Headers, HeaderTypes, HandleHeadersReceived(h)
  PROVE  /\ header' \in [Headers -> HeaderRecords] /\ OtherHeaders(h)
         /\ header[h].at = "none"
         /\ header'[h].at = "lock" /\ header'[h].waits = mutex
BY NotImportedKey
   DEF HandleHeadersReceived, HeaderAt, HeaderTypes, HeaderRecords, HeaderPlaces, OtherHeaders

LEMMA Release ==
  ASSUME NEW h \in Headers, HeaderTypes, Released(h)
  PROVE  /\ header' \in [Headers -> HeaderRecords]
         /\ header'[h].at = "none" /\ header'[h].waits = Nobody
         /\ \A g \in Headers \ {h} :
              /\ header'[g].at = header[g].at /\ header'[g].key = header[g].key
              /\ header'[g].waits = IF header[g].waits = h THEN Nobody ELSE header[g].waits
         /\ mutex' = IF mutex = h THEN Nobody ELSE mutex
<1>1. header'[h] = Gone
  BY DEF Released
<1>2. ASSUME NEW g \in Headers \ {h}
      PROVE  /\ header'[g] \in HeaderRecords
             /\ header'[g].at = header[g].at /\ header'[g].key = header[g].key
             /\ header'[g].waits = IF header[g].waits = h THEN Nobody ELSE header[g].waits
  <2>1. header'[g] = [header[g] EXCEPT !.waits = IF @ = h THEN Nobody ELSE @]
    BY DEF Released
  <2> QED BY <2>1 DEF HeaderTypes, HeaderRecords
<1>3. header' \in [Headers -> HeaderRecords]
  <2>1. DOMAIN header' = Headers /\ header' = [g \in Headers |-> header'[g]]
    BY DEF Released
  <2>2. \A g \in Headers : header'[g] \in HeaderRecords
    BY <1>1, <1>2, GoneIsRecord
  <2> QED BY <2>1, <2>2
<1> QED BY <1>1, <1>2, <1>3 DEF Released, Gone

-----------------------------------------------------------------------------
LEMMA HeaderTypesKept == HeaderTypes /\ [AttestationNext]_attestationVars => HeaderTypes'
<1> SUFFICES ASSUME HeaderTypes, [AttestationNext]_attestationVars PROVE HeaderTypes'
  OBVIOUS
<1> USE DEF keyVars
<1>1. CASE InitializeAttestation
  BY <1>1 DEF InitializeAttestation, HeaderTypes, Refreshes
<1>2. CASE AttestationLost
  BY <1>2, GoneIsRecord, NotImportedKey DEF AttestationLost, HeaderTypes, Idle
<1>3. CASE HandleRefresh
  BY <1>3 DEF HandleRefresh, HeaderTypes, Refreshes
<1>4. CASE Publish \/ KeyExpires
  BY <1>4, PublishedAssumption DEF Publish, KeyExpires, HeaderTypes, Versions
<1>5. ASSUME NEW h \in Headers, HandleHeadersReceived(h) PROVE HeaderTypes'
  BY <1>5, Arrival DEF HandleHeadersReceived, HeaderTypes
<1>6. ASSUME NEW h \in Headers, Enters(h) PROVE HeaderTypes'
  BY <1>6, MoveAt DEF Enters, HeaderTypes, HeaderPlaces
<1>7. ASSUME NEW h \in Headers, GetImportedKey(h) PROVE HeaderTypes'
  BY <1>7, MoveAt, MoveKey, NotImportedKey DEF GetImportedKey, HeaderTypes, HeaderPlaces
<1>8. ASSUME NEW h \in Headers, Imports(h) PROVE HeaderTypes'
  <2>1. header[h].key \in Keys
    BY DEF HeaderTypes, HeaderRecords
  <2> QED BY <1>8, <2>1, MoveKey, NotImportedKey DEF Imports, HeaderTypes, HeaderPlaces
<1>9. ASSUME NEW h \in Headers, Verifies(h) PROVE HeaderTypes'
  BY <1>9, MoveCode DEF Verifies, HeaderTypes, HeaderPlaces
<1>10. ASSUME NEW h \in Headers, Audited(h) \/ VerifyThrows(h) PROVE HeaderTypes'
  BY <1>10, Release DEF Audited, VerifyThrows, HeaderTypes
<1>11. ASSUME NEW q \in Refreshes, Fetches(q) PROVE HeaderTypes'
  BY <1>11, NotImportedKey DEF Fetches, HeaderTypes, Idle
<1>12. ASSUME NEW q \in Refreshes, UpdateManifest(q) PROVE HeaderTypes'
  BY <1>12, NotImportedKey DEF UpdateManifest, AddKey, HeaderTypes, Idle
<1>13. ASSUME NEW q \in Refreshes, ManifestRejected(q) PROVE HeaderTypes'
  BY <1>13, NotImportedKey DEF ManifestRejected, HeaderTypes, Idle
<1>14. CASE UNCHANGED attestationVars
  BY <1>14 DEF attestationVars, HeaderTypes
<1> QED
  BY <1>1, <1>2, <1>3, <1>4, <1>5, <1>6, <1>7, <1>8, <1>9, <1>10, <1>11, <1>12, <1>13, <1>14
  DEF AttestationNext, HeaderStep

LEMMA StatusTypesKept ==
  HeaderTypes /\ StatusTypes /\ [AttestationNext]_attestationVars => StatusTypes'
<1> SUFFICES ASSUME HeaderTypes, StatusTypes, [AttestationNext]_attestationVars PROVE StatusTypes'
  OBVIOUS
<1> USE DEF keyVars, StatusTypes
<1>1. CASE InitializeAttestation \/ AttestationLost \/ HandleRefresh \/ Publish \/ KeyExpires
  BY <1>1 DEF InitializeAttestation, AttestationLost, HandleRefresh, Publish, KeyExpires
<1>2. ASSUME NEW h \in Headers, HandleHeadersReceived(h) \/ Enters(h) \/ GetImportedKey(h)
                                \/ Imports(h) \/ Verifies(h) \/ VerifyThrows(h)
      PROVE  StatusTypes'
  BY <1>2 DEF HandleHeadersReceived, Enters, GetImportedKey, Imports, Verifies, VerifyThrows
<1>3. ASSUME NEW h \in Headers, Audited(h) PROVE StatusTypes'
  <2>1. header[h].code \in {0, 1}
    BY DEF HeaderTypes, HeaderRecords
  <2>2. currentStatus' \in {"not_applicable", "dom_only", "verified", "rat_detected"}
    BY <1>3, <2>1 DEF Audited, GetDomCode, VerifyControlCode
  <2> QED BY <1>3, <2>2 DEF Audited
<1>4. ASSUME NEW q \in Refreshes, Fetches(q) \/ UpdateManifest(q) \/ ManifestRejected(q)
      PROVE  StatusTypes'
  BY <1>4 DEF Fetches, UpdateManifest, ManifestRejected, AddKey
<1>5. CASE UNCHANGED attestationVars
  BY <1>5 DEF attestationVars
<1> QED BY <1>1, <1>2, <1>3, <1>4, <1>5 DEF AttestationNext, HeaderStep

(* Every variable of the attestation keeps its type, and the store has the *)
(* key of the manifest it took last, though a refresh at start and one of  *)
(* the popup overlap.                                                      *)
THEOREM AttestationTyped == AttestationSpec => []AttestationTypeOK
<1>1. AttestationInit => HeaderTypes /\ StatusTypes
  BY HeaderTypesInit DEF AttestationInit, StatusTypes
<1>2. HeaderTypes /\ StatusTypes => AttestationTypeOK
  BY DEF HeaderTypes, HeaderRecords, HeaderPlaces, Keys, Versions, StatusTypes, AttestationTypeOK
<1> QED BY <1>1, <1>2, HeaderTypesKept, StatusTypesKept, PTL DEF AttestationSpec

-----------------------------------------------------------------------------
(* The keys *)

(* A step that leaves the keys alone, and after which whoever imports a    *)
(* key imports the current one, or did before.                             *)
LEMMA KeysUntouched ==
  ASSUME KeyInv, UNCHANGED <<generation, imported, overlapped>>,
         \A h \in Headers : header'[h].at = "import" =>
           header'[h].key = generation \/ (header[h].at = "import" /\ header'[h].key = header[h].key)
  PROVE  ImportsCurrent' /\ ImportedCurrent'
BY DEF KeyInv, ImportsCurrent, ImportedCurrent

LEMMA KeyStep == KeyInv /\ [AttestationNext]_attestationVars => KeyInv'
<1> SUFFICES ASSUME KeyInv, [AttestationNext]_attestationVars
             PROVE  ImportsCurrent' /\ ImportedCurrent'
  BY HeaderTypesKept DEF KeyInv
<1>0. HeaderTypes
  BY DEF KeyInv
<1> USE DEF keyVars
<1>1. CASE \/ InitializeAttestation \/ HandleRefresh \/ Publish \/ KeyExpires
           \/ UNCHANGED attestationVars
  BY <1>1, KeysUntouched DEF InitializeAttestation, HandleRefresh, Publish, KeyExpires,
     attestationVars
<1>2. CASE AttestationLost
  BY <1>2 DEF AttestationLost, ImportsCurrent, ImportedCurrent, Gone
<1>3. ASSUME NEW h \in Headers, HandleHeadersReceived(h) PROVE ImportsCurrent' /\ ImportedCurrent'
  BY <1>0, <1>3, Arrival, KeysUntouched DEF HandleHeadersReceived, OtherHeaders
<1>4. ASSUME NEW h \in Headers, Enters(h) PROVE ImportsCurrent' /\ ImportedCurrent'
  <2>1. header'[h].at = "dom" /\ OtherHeaders(h)
    BY <1>0, <1>4, MoveAt DEF Enters, HeaderTypes, HeaderPlaces
  <2> QED BY <1>4, <2>1, KeysUntouched DEF Enters, OtherHeaders
<1>5. ASSUME NEW h \in Headers, GetImportedKey(h) PROVE ImportsCurrent' /\ ImportedCurrent'
  <2>1. CASE header' = [header EXCEPT ![h].at = "import", ![h].key = generation]
    <3>1. header'[h].key = generation /\ OtherHeaders(h)
      <4>1. generation \in Keys /\ header \in [Headers -> HeaderRecords] /\ "import" \in HeaderPlaces
        BY <1>0, NotImportedKey DEF HeaderTypes, HeaderPlaces
      <4> QED BY <2>1, <4>1, MoveKey
    <3> QED BY <1>5, <3>1, KeysUntouched DEF GetImportedKey, OtherHeaders
  <2>2. ASSUME NEW a \in {"audit", "verify"}, header' = [header EXCEPT ![h].at = a]
        PROVE  ImportsCurrent' /\ ImportedCurrent'
    <3>1. header'[h].at = a /\ OtherHeaders(h)
      BY <1>0, <2>2, MoveAt DEF HeaderTypes, HeaderPlaces
    <3> QED BY <1>5, <2>2, <3>1, KeysUntouched DEF GetImportedKey, OtherHeaders
  <2> QED BY <1>5, <2>1, <2>2 DEF GetImportedKey
<1>6. ASSUME NEW h \in Headers, Imports(h) PROVE ImportsCurrent' /\ ImportedCurrent'
  <2>1. /\ header[h].at = "import"
        /\ \A g \in Headers \ {h} : header'[g] = header[g]
        /\ header'[h].at \in {"verify", "audit"}
        /\ imported' \in {imported, header[h].key}
        /\ UNCHANGED <<generation, overlapped>>
    BY <1>0, <1>6, MoveKey, NotImportedKey DEF Imports, HeaderAt, HeaderTypes, HeaderPlaces, OtherHeaders
  <2> QED BY <2>1 DEF KeyInv, ImportsCurrent, ImportedCurrent
<1>7. ASSUME NEW h \in Headers, Verifies(h) PROVE ImportsCurrent' /\ ImportedCurrent'
  <2>1. header'[h].at = "audit" /\ OtherHeaders(h)
    BY <1>0, <1>7, MoveCode DEF Verifies, HeaderTypes, HeaderPlaces
  <2> QED BY <1>7, <2>1, KeysUntouched DEF Verifies, OtherHeaders
<1>8. ASSUME NEW h \in Headers, Audited(h) \/ VerifyThrows(h)
      PROVE  ImportsCurrent' /\ ImportedCurrent'
  <2>1. \A g \in Headers : header'[g].at = "import" =>
          header[g].at = "import" /\ header'[g].key = header[g].key
    BY <1>0, <1>8, Release DEF Audited, VerifyThrows
  <2> QED BY <1>8, <2>1, KeysUntouched DEF Audited, VerifyThrows
<1>9. ASSUME NEW q \in Refreshes, Fetches(q) \/ ManifestRejected(q)
      PROVE  ImportsCurrent' /\ ImportedCurrent'
  BY <1>9, KeysUntouched DEF Fetches, ManifestRejected
<1>10. ASSUME NEW q \in Refreshes, UpdateManifest(q) PROVE ImportsCurrent' /\ ImportedCurrent'
  BY <1>10 DEF UpdateManifest, AddKey, HeaderAt, ImportsCurrent, ImportedCurrent
<1> QED
  BY <1>1, <1>2, <1>3, <1>4, <1>5, <1>6, <1>7, <1>8, <1>9, <1>10 DEF AttestationNext, HeaderStep

(* The key getImportedKey finds imported is that of the newest manifest    *)
(* taken by updateManifest, unless that came during an import: for any     *)
(* number of headers, refreshes and manifests.                             *)
THEOREM KeysCurrent == AttestationSpec => []ImportedCurrent
<1>1. AttestationInit => KeyInv
  BY HeaderTypesInit DEF AttestationInit, KeyInv, ImportsCurrent, ImportedCurrent, Gone
<1>2. KeyInv => ImportedCurrent
  BY DEF KeyInv
<1> QED BY <1>1, <1>2, KeyStep, PTL DEF AttestationSpec

-----------------------------------------------------------------------------
(* The lock *)

(* A step after which the same headers hold the lock, or one more, and     *)
(* nobody awaits another than before.                                      *)
LEMMA LockUntouched ==
  ASSUME AttestationLockInv, UNCHANGED mutex,
         \A h \in Headers : /\ header[h].at \in Holding => header'[h].at \in Holding
                            /\ header[h].at = "lock" => header'[h].at = "lock"
                            /\ header'[h].waits = header[h].waits
  PROVE  WaitersServed'
BY DEF AttestationLockInv, HeaderTypes, HeaderRecords, WaitersServed, HeaderAt

LEMMA AttestationLockStep == AttestationLockInv /\ [AttestationNext]_attestationVars => AttestationLockInv'
<1> SUFFICES ASSUME AttestationLockInv, [AttestationNext]_attestationVars PROVE WaitersServed'
  BY HeaderTypesKept DEF AttestationLockInv
<1>0. HeaderTypes /\ WaitersServed
  BY DEF AttestationLockInv
<1> USE DEF keyVars
<1>1. CASE \/ InitializeAttestation \/ HandleRefresh \/ Publish \/ KeyExpires
           \/ UNCHANGED attestationVars
           \/ \E q \in Refreshes : Fetches(q) \/ UpdateManifest(q) \/ ManifestRejected(q)
  <2>1. UNCHANGED <<mutex, header>>
    BY <1>1 DEF InitializeAttestation, HandleRefresh, Publish, KeyExpires, attestationVars, Fetches,
                UpdateManifest, ManifestRejected
  <2> QED BY <2>1, LockUntouched
<1>2. CASE AttestationLost
  BY <1>2 DEF AttestationLost, WaitersServed, Gone
<1>3. ASSUME NEW h \in Headers, HandleHeadersReceived(h) PROVE WaitersServed'
  <2>1. UNCHANGED mutex
    BY <1>3 DEF HandleHeadersReceived
  <2> QED BY <1>0, <1>3, <2>1, Arrival DEF HeaderTypes, HeaderRecords, WaitersServed, HeaderAt, OtherHeaders, Holding
<1>4. ASSUME NEW h \in Headers, Enters(h) PROVE WaitersServed'
  <2>1. /\ header'[h].at = "dom" /\ header'[h].waits = Nobody /\ header[h].at = "lock"
        /\ OtherHeaders(h) /\ mutex' = h
    BY <1>0, <1>4, MoveAt DEF Enters, HeaderAt, HeaderTypes, HeaderPlaces
  <2> QED BY <1>0, <2>1 DEF HeaderTypes, HeaderRecords, WaitersServed, HeaderAt, OtherHeaders, Holding
<1>5. ASSUME NEW h \in Headers, GetImportedKey(h) \/ Imports(h) \/ Verifies(h)
      PROVE  WaitersServed'
  <2>1. /\ UNCHANGED mutex /\ OtherHeaders(h) /\ header'[h].waits = header[h].waits
        /\ header[h].at \in Holding /\ header'[h].at \in Holding
    <3>1. CASE GetImportedKey(h)
      BY <1>0, <3>1, MoveAt, MoveKey, NotImportedKey
         DEF GetImportedKey, HeaderAt, HeaderTypes, HeaderPlaces, Holding
    <3>2. CASE Imports(h)
      BY <1>0, <3>2, MoveKey, NotImportedKey DEF Imports, HeaderAt, HeaderTypes, HeaderPlaces, Holding
    <3>3. CASE Verifies(h)
      BY <1>0, <3>3, MoveCode DEF Verifies, HeaderAt, HeaderTypes, HeaderPlaces, Holding
    <3> QED BY <1>5, <3>1, <3>2, <3>3
  <2> QED BY <2>1, LockUntouched DEF OtherHeaders, Holding
<1>6. ASSUME NEW h \in Headers, Audited(h) \/ VerifyThrows(h) PROVE WaitersServed'
  BY <1>0, <1>6, Release DEF Audited, VerifyThrows, HeaderTypes, HeaderRecords, WaitersServed, HeaderAt, Holding
<1> QED
  BY <1>1, <1>2, <1>3, <1>4, <1>5, <1>6 DEF AttestationNext, HeaderStep

(* Whoever awaits the attestation lock awaits a header that has entered    *)
(* and whose processing is not over: for any number of headers, though     *)
(* they do not exclude one another.                                        *)
THEOREM NobodyWaitsInVain == AttestationSpec => []WaitersServed
<1>1. AttestationInit => AttestationLockInv
  BY HeaderTypesInit DEF AttestationInit, AttestationLockInv, WaitersServed, Gone
<1>2. AttestationLockInv => WaitersServed
  BY DEF AttestationLockInv
<1> QED BY <1>1, <1>2, AttestationLockStep, PTL DEF AttestationSpec

-----------------------------------------------------------------------------
(* ReplayProtection *)

(* Every non-empty set of natural numbers has a least member: what holds of*)
(* no least number holds of none.                                          *)
LEMMA LeastNatural ==
  ASSUME NEW T \in SUBSET Nat, T # {}
  PROVE  \E n \in T : \A m \in T : n <= m
<1>1. PICK n \in T : \A m \in T : ~(<<m, n>> \in OpToRel(<, Nat))
  BY WFMin, NatLessThanWellFounded, Zenon
<1>2. \A m \in T : ~(m < n)
  BY <1>1 DEF OpToRel
<1>3. n \in Nat /\ \A m \in T : m \in Nat
  OBVIOUS
<1>4. \A m \in T : n <= m
  BY <1>2, <1>3
<1> QED BY <1>4

Entries == [age : 0..(ReplayWindow + 1), ahead : SUBSET Tuples]

ReplayTypes ==
  /\ entries \in Seq(0..LimitWindow) /\ Len(entries) <= MaxHits
  /\ reserving \in Seq(Tuples) /\ Len(reserving) <= MaxReserving
  /\ DOMAIN replayCache \in SUBSET Tuples /\ IsFiniteSet(DOMAIN replayCache)
  /\ replayCache \in [DOMAIN replayCache -> Entries]
  /\ accepted \in [Tuples -> 0..ReplayWindow]
  /\ forgotten \in SUBSET Tuples /\ replayed \in SUBSET Repeats

(* The keys set within the last w ticks.                                   *)
Young(cache, w) == {t \in DOMAIN cache : cache[t].age <= w}

(* past[w] calls passed the limiter within the last w ticks, at most       *)
(* MaxHits of them in any window; those that its own window has seen are   *)
(* the last of its hits.                                                   *)
Past(past) ==
  /\ past \in [Nat -> Nat]
  /\ \A v, w \in Nat : v <= w => past[v] <= past[w]
  /\ past[LimitWindow - 1] <= MaxHits
  /\ \A w \in Nat : past[w + LimitWindow] <= past[w] + MaxHits

Seen(past, hits) ==
  \A w \in 0..(LimitWindow - 1) :
    /\ past[w] <= Len(hits)
    /\ \A i \in (Len(hits) - past[w] + 1)..Len(hits) : hits[i] <= w

(* Each key was set by one of these calls, or by one that awaited its hash *)
(* before them; the calls that still await it are among them too.          *)
Counted(past, cache, waiting) ==
  \A w \in 0..ReplayWindow :
    Cardinality(Young(cache, w)) + waiting <= MaxReserving + past[w]

CallsInv ==
  \E past : Past(past) /\ Seen(past, entries) /\ Counted(past, replayCache, Len(reserving))
RoomInv == Cardinality(DOMAIN replayCache) + Len(reserving) <= MaxCache
KeptInv == \A t \in Tuples \ forgotten :
  accepted[t] < ReplayWindow => t \in DOMAIN replayCache /\ replayCache[t].age = accepted[t]

(* There is room for every key and every call that waits, so nothing is    *)
(* trimmed (RoomInv), and an assertion accepted within the window by this  *)
(* run of the worker is still found (KeptInv).                             *)
ReplayInv == ReplayTypes /\ CallsInv /\ RoomInv /\ KeptInv /\ AssertionOnce

LEMMA ReplayConstants ==
  /\ ReplayWindow \in Nat /\ ReplayWindow > 0 /\ LimitWindow \in Nat /\ LimitWindow > 0
  /\ MaxHits \in Nat /\ MaxReserving \in Nat /\ MaxCache \in Nat
BY CacheAssumption

USE ReplayConstants

(* The limiter lets in no more than MaxHits calls for each of its windows. *)
LEMMA PastBounded ==
  ASSUME NEW past, Past(past), NEW n \in Nat \ {0}, NEW w \in Nat, w < n * LimitWindow
  PROVE  past[w] <= MaxHits * n
<1> DEFINE Bad == {m \in Nat : m # 0 /\ \E v \in Nat : v < m * LimitWindow /\ past[v] > MaxHits * m}
<1>1. SUFFICES ASSUME Bad # {} PROVE FALSE
  <2>1. past[w] \in Nat /\ MaxHits * n \in Nat
    BY DEF Past
  <2>2. past[w] > MaxHits * n => n \in Bad
    OBVIOUS
  <2>3. past[w] > MaxHits * n \/ past[w] <= MaxHits * n
    BY <2>1
  <2> HIDE DEF Bad
  <2> QED BY <2>2, <2>3
<1>2. PICK m \in Bad : \A k \in Bad : m <= k
  <2>1. Bad \in SUBSET Nat
    OBVIOUS
  <2> HIDE DEF Bad
  <2> QED BY <1>1, <2>1, LeastNatural
<1>3. PICK v \in Nat : v < m * LimitWindow /\ past[v] > MaxHits * m
  OBVIOUS
<1>4. m \in Nat \ {0}
  OBVIOUS
<1>5. CASE v < LimitWindow
  <2>0. LimitWindow - 1 \in Nat /\ v <= LimitWindow - 1
    BY <1>5
  <2>1. past[v] <= MaxHits /\ past[v] \in Nat
    <3>1. past[v] \in Nat /\ past[LimitWindow - 1] \in Nat
      BY <2>0 DEF Past
    <3>2. past[v] <= past[LimitWindow - 1] /\ past[LimitWindow - 1] <= MaxHits
      BY <2>0 DEF Past
    <3> QED BY <3>1, <3>2
  <2>2. MaxHits <= MaxHits * m
    BY <1>4
  <2> QED BY <1>3, <2>1, <2>2
<1>6. CASE v >= LimitWindow
  <2> DEFINE u == v - LimitWindow
  <2>1. u \in Nat /\ past[v] <= past[u] + MaxHits /\ past[u] \in Nat /\ past[v] \in Nat
    BY <1>6 DEF Past
  <2>2. m * LimitWindow = (m - 1) * LimitWindow + LimitWindow
    BY <1>4
  <2>3. MaxHits * m = MaxHits * (m - 1) + MaxHits
    BY <1>4
  <2>3a. MaxHits * (m - 1) \in Nat /\ (m - 1) * LimitWindow \in Nat /\ MaxHits * m \in Nat
    BY <1>4
  <2>4. u < (m - 1) * LimitWindow /\ past[u] > MaxHits * (m - 1)
    BY <1>3, <2>1, <2>2, <2>3, <2>3a
  <2>5. m # 1
    BY <2>1, <2>4
  <2>6. m - 1 \in Bad
    BY <1>4, <2>1, <2>4, <2>5
  <2> QED BY <1>2, <1>4, <2>6
<1> QED BY <1>3, <1>5, <1>6

-----------------------------------------------------------------------------
(* What the limiter and the Map do.                                        *)

(* The loop of allow() finds the first fresh hit, or none.                 *)
LEMMA FirstFreshFound ==
  ASSUME NEW hits \in Seq(0..LimitWindow)
  PROVE  /\ FirstFresh(hits) \in 1..(Len(hits) + 1)
         /\ \A j \in 1..(FirstFresh(hits) - 1) : hits[j] >= LimitWindow
<1> DEFINE Fit == {i \in 1..(Len(hits) + 1) : i <= Len(hits) => hits[i] < LimitWindow}
<1>1. PICK i \in Fit : \A j \in Fit : i <= j
  <2>1. Fit \in SUBSET Nat /\ Len(hits) + 1 \in Fit
    OBVIOUS
  <2> HIDE DEF Fit
  <2> QED BY <2>1, LeastNatural
<1>2. i \in 1..(Len(hits) + 1) /\ (i <= Len(hits) => hits[i] < LimitWindow)
  OBVIOUS
<1>3. \A j \in 1..(i - 1) : hits[j] >= LimitWindow
  <2> SUFFICES ASSUME NEW j \in 1..(i - 1) PROVE hits[j] >= LimitWindow
    OBVIOUS
  <2>1. j \in 1..Len(hits) /\ j \notin Fit
    BY <1>1, <1>2
  <2>2. hits[j] \in 0..LimitWindow
    BY <2>1
  <2> QED BY <2>1, <2>2
<1> HIDE DEF Fit
<1> QED BY <1>2, <1>3 DEF FirstFresh

LEMMA FreshFacts ==
  ASSUME NEW hits \in Seq(0..LimitWindow)
  PROVE  /\ Fresh(hits) \in Seq(0..LimitWindow) /\ Len(Fresh(hits)) <= Len(hits)
         /\ \E k \in 0..Len(hits) :
              /\ Len(Fresh(hits)) = Len(hits) - k
              /\ \A i \in 1..(Len(hits) - k) : Fresh(hits)[i] = hits[i + k]
              /\ \A i \in 1..k : hits[i] >= LimitWindow
<1> DEFINE k == FirstFresh(hits) - 1
<1>1. k \in 0..Len(hits) /\ \A i \in 1..k : hits[i] >= LimitWindow
  BY FirstFreshFound
<1>2. Fresh(hits) = SubSeq(hits, k + 1, Len(hits))
  <2>1. FirstFresh(hits) = k + 1
    BY FirstFreshFound
  <2> HIDE DEF k
  <2> QED BY <2>1 DEF Fresh
<1> HIDE DEF k
<1>3. /\ Fresh(hits) \in Seq(0..LimitWindow) /\ Len(Fresh(hits)) = Len(hits) - k
      /\ \A i \in 1..(Len(hits) - k) : Fresh(hits)[i] = hits[i + k]
  BY <1>1, <1>2
<1>4. Len(Fresh(hits)) <= Len(hits)
  BY <1>1, <1>3
<1> QED BY <1>1, <1>3, <1>4


LEMMA AddOne ==
  ASSUME NEW S, IsFiniteSet(S), NEW x
  PROVE  /\ IsFiniteSet(S \cup {x}) /\ Cardinality(S \cup {x}) \in Nat
         /\ Cardinality(S \cup {x}) <= Cardinality(S) + 1
<1>0. Cardinality(S) \in Nat
  BY FS_CardinalityType
<1>1. CASE x \in S
  <2>1. S \cup {x} = S
    BY <1>1
  <2>2. IsFiniteSet(S \cup {x}) /\ Cardinality(S \cup {x}) = Cardinality(S)
    BY <2>1, Zenon
  <2> QED BY <1>0, <2>2
<1>2. CASE x \notin S
  <2>1. IsFiniteSet(S \cup {x}) /\ Cardinality(S \cup {x}) = Cardinality(S) + 1
    BY <1>2, FS_AddElement
  <2> QED BY <1>0, <2>1
<1> QED BY <1>1, <1>2

LEMMA OnlyFacts ==
  ASSUME NEW D \in SUBSET Tuples, NEW cache \in [D -> Entries], NEW K \in SUBSET D
  PROVE  /\ Only(cache, K) \in [K -> Entries]
         /\ \A t \in K : Only(cache, K)[t].age = cache[t].age
BY DEF Only, Entries

LEMMA ReserveFacts ==
  ASSUME ReplayTypes, NEW t \in Tuples
  PROVE  LET D == DOMAIN replayCache \cup {t} IN
         /\ Reserve(t) \in [D -> Entries] /\ DOMAIN Reserve(t) = D
         /\ Reserve(t)[t].age = 0
         /\ \A u \in D \ {t} : Reserve(t)[u] = replayCache[u]
<1> DEFINE K == DOMAIN replayCache
<1>0. replayCache \in [K -> Entries] /\ K \in SUBSET Tuples
  BY DEF ReplayTypes
<1>1. CASE t \in K
  <2>1. Reserve(t) = [replayCache EXCEPT ![t].age = 0]
    BY <1>1 DEF Reserve
  <2> HIDE DEF K
  <2>2. /\ [replayCache EXCEPT ![t].age = 0] \in [K -> Entries]
        /\ [replayCache EXCEPT ![t].age = 0][t].age = 0
        /\ \A u \in K \ {t} : [replayCache EXCEPT ![t].age = 0][u] = replayCache[u]
    BY <1>0, <1>1 DEF Entries
  <2>3. K \cup {t} = K
    BY <1>1
  <2> QED BY <2>1, <2>2, <2>3 DEF K
<1>2. CASE t \notin K
  <2>1. Reserve(t) = [u \in K \cup {t} |->
                        IF u = t THEN [age |-> 0, ahead |-> K] ELSE replayCache[u]]
    BY <1>2 DEF Reserve, Inserted
  <2>2. [age |-> 0, ahead |-> K] \in Entries
    BY <1>0 DEF Entries
  <2> HIDE DEF K
  <2>3. /\ Reserve(t) \in [K \cup {t} -> Entries] /\ Reserve(t)[t].age = 0
        /\ \A u \in (K \cup {t}) \ {t} : Reserve(t)[u] = replayCache[u]
    BY <1>0, <2>1, <2>2
  <2> QED BY <2>3 DEF K
<1> QED BY <1>1, <1>2

LEMMA CallLeaves ==
  ASSUME NEW s \in Seq(Tuples), NEW i \in DOMAIN s
  PROVE  LET r == SubSeq(s, 1, i - 1) \o SubSeq(s, i + 1, Len(s)) IN
         r \in Seq(Tuples) /\ Len(r) = Len(s) - 1
<1> DEFINE a == SubSeq(s, 1, i - 1)
           b == SubSeq(s, i + 1, Len(s))
<1>1. i \in 1..Len(s) /\ Len(s) \in Nat
  OBVIOUS
<1>2. a \in Seq(Tuples) /\ Len(a) = i - 1
  BY <1>1
<1>3. b \in Seq(Tuples) /\ Len(b) = Len(s) - i
  BY <1>1
<1> HIDE DEF a, b
<1>4. a \o b \in Seq(Tuples) /\ Len(a \o b) = Len(s) - 1
  BY <1>1, <1>2, <1>3
<1> QED BY <1>4 DEF a, b

-----------------------------------------------------------------------------
(* The past after a call, and after a tick.                                *)
OneMore(past) == [w \in Nat |-> past[w] + 1]
Shifted(past) == [w \in Nat |-> IF w = 0 THEN 0 ELSE past[w - 1]]

LEMMA CallSeen ==
  ASSUME NEW hits \in Seq(0..LimitWindow), NEW past, Past(past), Seen(past, hits),
         Len(Fresh(hits)) < MaxHits
  PROVE  Past(OneMore(past)) /\ Seen(OneMore(past), Append(Fresh(hits), 0))
<1> DEFINE n == Len(hits)
           fresh == Fresh(hits)
           next == Append(fresh, 0)
<1>1. PICK k \in 0..n :
        /\ fresh \in Seq(0..LimitWindow) /\ Len(fresh) = n - k
        /\ \A i \in 1..(n - k) : fresh[i] = hits[i + k]
        /\ \A i \in 1..k : hits[i] >= LimitWindow
  BY FreshFacts
<1>2. n \in Nat /\ n - k \in Nat
  OBVIOUS
<1>3. \A w \in Nat : past[w] \in Nat /\ OneMore(past)[w] = past[w] + 1
  BY DEF Past, OneMore
<1> HIDE DEF fresh
<1>4. /\ Len(next) = n - k + 1 /\ next[n - k + 1] = 0
      /\ \A i \in 1..(n - k) : next[i] = hits[i + k]
  BY <1>1, <1>2
<1> HIDE DEF n, next
<1>5. ASSUME NEW w \in 0..(LimitWindow - 1) PROVE past[w] <= n - k
  <2> SUFFICES ASSUME past[w] > n - k PROVE FALSE
    BY <1>2, <1>3
  <2>1. k \in (n - past[w] + 1)..n
    BY <1>2, <1>3, <1>5
  <2>2. hits[k] <= w
    BY <2>1 DEF Seen, n
  <2>3. k \in 1..k /\ hits[k] \in Nat
    <3>1. past[w] <= n
      BY DEF Seen, n
    <3>2. k \in 1..n
      BY <1>2, <1>3, <2>1, <3>1
    <3> QED BY <3>2 DEF n
  <2>4. hits[k] >= LimitWindow
    BY <1>1, <2>3
  <2> QED BY <2>2, <2>3, <2>4
<1>6. Past(OneMore(past))
  <2>1. LimitWindow - 1 \in 0..(LimitWindow - 1) /\ LimitWindow - 1 \in Nat
    OBVIOUS
  <2>2. past[LimitWindow - 1] + 1 <= MaxHits
    BY <1>1, <1>2, <1>3, <1>5, <2>1 DEF fresh
  <2>3. OneMore(past)[LimitWindow - 1] <= MaxHits
    BY <1>3, <2>1, <2>2
  <2>4. ASSUME NEW v \in Nat, NEW w \in Nat, v <= w
        PROVE  OneMore(past)[v] <= OneMore(past)[w]
    <3>1. past[v] <= past[w]
      BY <2>4 DEF Past
    <3> QED BY <1>3, <3>1
  <2>5. \A w \in Nat : OneMore(past)[w + LimitWindow] <= OneMore(past)[w] + MaxHits
    <3> SUFFICES ASSUME NEW w \in Nat
                 PROVE  OneMore(past)[w + LimitWindow] <= OneMore(past)[w] + MaxHits
      OBVIOUS
    <3>1. w + LimitWindow \in Nat /\ past[w + LimitWindow] <= past[w] + MaxHits
      BY DEF Past
    <3>2. /\ OneMore(past)[w + LimitWindow] = past[w + LimitWindow] + 1
          /\ OneMore(past)[w] = past[w] + 1
          /\ past[w] \in Nat /\ past[w + LimitWindow] \in Nat
      BY <1>3, <3>1
    <3> QED BY <3>1, <3>2
  <2>6. OneMore(past) \in [Nat -> Nat]
    BY <1>3 DEF OneMore
  <2> QED BY <2>3, <2>4, <2>5, <2>6 DEF Past
<1>7. ASSUME NEW w \in 0..(LimitWindow - 1)
      PROVE  /\ OneMore(past)[w] <= Len(next)
             /\ \A i \in (Len(next) - OneMore(past)[w] + 1)..Len(next) : next[i] <= w
  <2> DEFINE p == past[w]
  <2>1. OneMore(past)[w] = p + 1 /\ p \in Nat /\ p <= n - k
    BY <1>3, <1>5
  <2>2. \A i \in (n - p + 1)..n : hits[i] <= w
    BY DEF Seen, n
  <2> HIDE DEF p
  <2>3. ASSUME NEW i \in (n - k + 1 - (p + 1) + 1)..(n - k + 1) PROVE next[i] <= w
    <3>1. CASE i = n - k + 1
      BY <1>4, <3>1
    <3>2. CASE i # n - k + 1
      <4>1. i \in 1..(n - k) /\ i + k \in (n - p + 1)..n
        BY <1>2, <2>1, <3>2
      <4> QED BY <1>4, <2>2, <4>1
    <3> QED BY <3>1, <3>2
  <2> QED BY <1>2, <1>4, <2>1, <2>3
<1> QED BY <1>6, <1>7 DEF Seen, next, fresh

LEMMA TickSeen ==
  ASSUME NEW hits \in Seq(0..LimitWindow), NEW past, Past(past), Seen(past, hits)
  PROVE  /\ Past(Shifted(past))
         /\ Seen(Shifted(past), [i \in DOMAIN hits |-> Older(hits[i], LimitWindow)])
<1> DEFINE n == Len(hits)
           next == [i \in DOMAIN hits |-> Older(hits[i], LimitWindow)]
<1>0. past \in [Nat -> Nat] /\ n \in Nat /\ DOMAIN hits = 1..n
  <2>1. past \in [Nat -> Nat]
    BY DEF Past
  <2>2. Len(hits) \in Nat /\ DOMAIN hits = 1..Len(hits)
    OBVIOUS
  <2> QED BY <2>1, <2>2
<1>1. /\ Shifted(past)[0] = 0 /\ Shifted(past) \in [Nat -> Nat]
      /\ \A w \in Nat \ {0} : w - 1 \in Nat /\ Shifted(past)[w] = past[w - 1]
  <2> HIDE DEF n, next
  <2>0. \A w \in Nat \ {0} : w - 1 \in Nat
    OBVIOUS
  <2>1. \A w \in Nat \ {0} : w - 1 \in Nat /\ past[w - 1] \in Nat
    BY <1>0, <2>0, Zenon
  <2>2. \A w \in Nat : Shifted(past)[w] = IF w = 0 THEN 0 ELSE past[w - 1]
    BY DEF Shifted
  <2>3. \A w \in Nat : (IF w = 0 THEN 0 ELSE past[w - 1]) \in Nat
    BY <2>1
  <2>4. Shifted(past) \in [Nat -> Nat]
    BY <2>3, Zenon DEF Shifted
  <2> QED BY <2>1, <2>2, <2>4
<1>a. Len(next) = n
  BY <1>0
<1>2. \A i \in 1..n : hits[i] \in Nat /\ (hits[i] < LimitWindow => next[i] = hits[i] + 1)
  BY DEF Older
<1> HIDE DEF n, next
<1>3. Past(Shifted(past))
  <2>1. Shifted(past)[LimitWindow - 1] <= MaxHits
    <3>1. CASE LimitWindow = 1
      BY <1>1, <3>1
    <3>2. CASE LimitWindow # 1
      <4>1. LimitWindow - 1 \in Nat \ {0} /\ LimitWindow - 2 \in Nat
            /\ LimitWindow - 2 <= LimitWindow - 1 /\ (LimitWindow - 1) - 1 = LimitWindow - 2
        BY <3>2
      <4>2. past[LimitWindow - 2] <= past[LimitWindow - 1] /\ past[LimitWindow - 1] <= MaxHits
        BY <4>1 DEF Past
      <4>3. Shifted(past)[LimitWindow - 1] = past[LimitWindow - 2]
        BY <1>1, <4>1
      <4>4. past[LimitWindow - 2] \in Nat /\ past[LimitWindow - 1] \in Nat
        BY <1>0, <4>1
      <4> QED BY <4>2, <4>3, <4>4
    <3> QED BY <3>1, <3>2
  <2>2. ASSUME NEW v \in Nat, NEW w \in Nat, v <= w PROVE Shifted(past)[v] <= Shifted(past)[w]
    <3>1. CASE v = 0
      BY <1>1, <3>1
    <3>2. CASE v # 0
      <4>1. v - 1 <= w - 1 /\ w # 0
        BY <2>2, <3>2
      <4> QED BY <1>1, <3>2, <4>1 DEF Past
    <3> QED BY <3>1, <3>2
  <2>3. ASSUME NEW w \in Nat PROVE Shifted(past)[w + LimitWindow] <= Shifted(past)[w] + MaxHits
    <3>0. w + LimitWindow \in Nat \ {0}
      OBVIOUS
    <3>1. CASE w = 0
      BY <1>1, <3>0, <3>1 DEF Past
    <3>2. CASE w # 0
      <4>1. (w + LimitWindow) - 1 = (w - 1) + LimitWindow /\ w - 1 \in Nat
        BY <3>2
      <4>2. past[(w - 1) + LimitWindow] <= past[w - 1] + MaxHits
        BY <4>1 DEF Past
      <4> QED BY <1>0, <1>1, <3>0, <3>2, <4>1, <4>2
    <3> QED BY <3>1, <3>2
  <2> QED BY <1>1, <2>1, <2>2, <2>3 DEF Past
<1>4. ASSUME NEW w \in 0..(LimitWindow - 1)
      PROVE  /\ Shifted(past)[w] <= n
             /\ \A i \in (n - Shifted(past)[w] + 1)..n : next[i] <= w
  <2>1. CASE w = 0
    <3>1. Shifted(past)[w] = 0
      BY <1>1, <2>1
    <3> QED BY <1>0, <3>1
  <2>2. CASE w # 0
    <3> DEFINE p == past[w - 1]
    <3>0. w \in Nat \ {0} /\ w - 1 \in 0..(LimitWindow - 1)
      BY <2>2
    <3>1. w - 1 \in 0..(LimitWindow - 1) /\ Shifted(past)[w] = p /\ p \in Nat
      BY <1>0, <1>1, <3>0
    <3>2. p <= n /\ \A i \in (n - p + 1)..n : hits[i] <= w - 1
      BY <3>1 DEF Seen, n
    <3> HIDE DEF p
    <3>3. ASSUME NEW i \in (n - p + 1)..n PROVE next[i] <= w
      <4>1. i \in 1..n /\ hits[i] <= w - 1
        BY <1>0, <3>1, <3>2
      <4> QED BY <1>2, <4>1
    <3> QED BY <3>1, <3>2, <3>3
  <2> QED BY <2>1, <2>2
<1> QED BY <1>a, <1>3, <1>4 DEF Seen, next, n

-----------------------------------------------------------------------------
Blank ==
  /\ replayCache = NoKeys /\ entries = <<>> /\ reserving = <<>>
  /\ accepted \in [Tuples -> 0..ReplayWindow]
  /\ forgotten = {t \in Tuples : accepted[t] < ReplayWindow}
  /\ replayed \in SUBSET Repeats /\ "same run" \notin replayed

LEMMA BlankInv == Blank => ReplayInv
<1> SUFFICES ASSUME Blank PROVE ReplayInv
  OBVIOUS
<1>0. replayCache = NoKeys /\ entries = <<>> /\ reserving = <<>>
  BY DEF Blank
<1>1. /\ IsFiniteSet({}) /\ Cardinality({}) = 0 /\ Len(reserving) = 0 /\ Len(entries) = 0
      /\ entries \in Seq(0..LimitWindow) /\ reserving \in Seq(Tuples)
      /\ DOMAIN replayCache = {} /\ replayCache \in [{} -> Entries]
  BY <1>0, FS_EmptySet DEF NoKeys
<1>2. ReplayTypes
  <2>1. /\ accepted \in [Tuples -> 0..ReplayWindow]
        /\ forgotten \in SUBSET Tuples /\ replayed \in SUBSET Repeats
    BY DEF Blank
  <2> QED BY <1>1, <2>1 DEF ReplayTypes
<1>3. CallsInv
  <2> DEFINE past == [w \in Nat |-> 0]
  <2>1. \A w \in Nat : past[w] = 0 /\ past \in [Nat -> Nat] /\ LimitWindow - 1 \in Nat
    OBVIOUS
  <2> HIDE DEF past
  <2>2. Past(past)
    BY <2>1 DEF Past
  <2>3. Seen(past, entries)
    BY <1>1, <2>1 DEF Seen
  <2>4. \A w \in 0..ReplayWindow : Young(replayCache, w) = {}
    BY <1>1 DEF Young
  <2>5. Counted(past, replayCache, Len(reserving))
    <3> SUFFICES ASSUME NEW w \in 0..ReplayWindow
                 PROVE  Cardinality(Young(replayCache, w)) + Len(reserving) <= MaxReserving + past[w]
      BY DEF Counted
    <3>1. Young(replayCache, w) = {}
      BY <2>4
    <3>2. Cardinality(Young(replayCache, w)) = 0
      BY <1>1, <3>1
    <3>3. w \in Nat
      OBVIOUS
    <3>4. past[w] = 0
      BY <2>1, <3>3
    <3> QED BY <1>1, <3>2, <3>4
  <2> QED BY <2>2, <2>3, <2>5 DEF CallsInv
<1>4. RoomInv
  BY <1>1 DEF RoomInv
<1>5. KeptInv /\ AssertionOnce
  BY DEF Blank, KeptInv, AssertionOnce
<1> QED BY <1>2, <1>3, <1>4, <1>5 DEF ReplayInv

LEMMA LostKeeps == ASSUME ReplayInv, LimiterLost PROVE ReplayInv'
<1>1. Blank'
  BY DEF LimiterLost, Blank, ReplayInv, ReplayTypes, AssertionOnce
<1> QED BY <1>1, BlankInv, PTL

(* A call passes the limiter: one more in every window of the past.        *)
LEMMA MfaKeeps ==
  ASSUME ReplayInv, NEW t \in Tuples, MfaAssertion(t)
  PROVE  ReplayInv'
<1> DEFINE K == Young(replayCache, ReplayWindow)
           D == DOMAIN replayCache
           n == Len(reserving)
<1>0. /\ entries \in Seq(0..LimitWindow) /\ reserving \in Seq(Tuples) /\ n \in Nat
      /\ D \in SUBSET Tuples /\ IsFiniteSet(D) /\ replayCache \in [D -> Entries]
  BY DEF ReplayInv, ReplayTypes
<1>1. K \in SUBSET D /\ IsFiniteSet(K) /\ Cardinality(K) \in Nat
  BY <1>0, FS_Subset, FS_CardinalityType DEF Young
<1>2. /\ replayCache' \in [K -> Entries] /\ DOMAIN replayCache' = K
      /\ \A u \in K : replayCache'[u].age = replayCache[u].age
  <2>1. replayCache' = Only(replayCache, K)
    BY DEF MfaAssertion, CleanupExpired, Young
  <2> HIDE DEF K, D
  <2>2. /\ Only(replayCache, K) \in [K -> Entries]
        /\ \A u \in K : Only(replayCache, K)[u].age = replayCache[u].age
    BY <1>0, <1>1, OnlyFacts
  <2> QED BY <2>1, <2>2
<1>3. reserving' \in Seq(Tuples) /\ Len(reserving') = n + 1 /\ Len(reserving') <= MaxReserving
  BY <1>0 DEF MfaAssertion
<1>4. /\ Fresh(entries) \in Seq(0..LimitWindow) /\ Len(Fresh(entries)) < MaxHits
      /\ entries' = Append(Fresh(entries), 0)
  BY <1>0, FreshFacts DEF MfaAssertion
<1>5. ReplayTypes'
  <2>1. entries' \in Seq(0..LimitWindow) /\ Len(entries') <= MaxHits
    BY <1>4
  <2>2. UNCHANGED <<accepted, forgotten, replayed>>
    BY DEF MfaAssertion
  <2>3. K \in SUBSET Tuples
    BY <1>0, <1>1
  <2> HIDE DEF K
  <2> QED BY <1>1, <1>2, <1>3, <2>1, <2>2, <2>3 DEF ReplayInv, ReplayTypes
<1>6. PICK past : Past(past) /\ Seen(past, entries) /\ Counted(past, replayCache, n)
  BY DEF ReplayInv, CallsInv
<1> DEFINE more == OneMore(past)
<1>7. \A w \in Nat : past[w] \in Nat /\ more[w] = past[w] + 1
  BY <1>6 DEF Past, OneMore
<1>8. Past(more) /\ Seen(more, entries')
  BY <1>0, <1>4, <1>6, CallSeen
<1> HIDE DEF more
<1>9. ASSUME NEW w \in 0..ReplayWindow
      PROVE  Cardinality(Young(replayCache', w)) + Len(reserving') <= MaxReserving + more[w]
  <2>1. Young(replayCache', w) = Young(replayCache, w)
    BY <1>0, <1>2 DEF Young, Entries
  <2>2. Young(replayCache, w) \in SUBSET D
    BY DEF Young
  <2>3. Cardinality(Young(replayCache, w)) \in Nat
    BY <1>0, <2>2, FS_Subset, FS_CardinalityType
  <2>4. Cardinality(Young(replayCache, w)) + n <= MaxReserving + past[w]
    BY <1>6 DEF Counted
  <2>5. more[w] = past[w] + 1 /\ past[w] \in Nat
    BY <1>7
  <2>6. n \in Nat /\ Len(reserving') = n + 1
    BY <1>0, <1>3
  <2> HIDE DEF n
  <2>7. Cardinality(Young(replayCache, w)) + (n + 1) <= MaxReserving + (past[w] + 1)
    BY <2>3, <2>4, <2>5, <2>6
  <2> QED BY <2>1, <2>5, <2>6, <2>7
<1>10. CallsInv'
  BY <1>8, <1>9 DEF CallsInv, Counted
<1>11. RoomInv'
  <2>1. Young(replayCache', ReplayWindow) = K
    BY <1>0, <1>2 DEF Young
  <2>2. Cardinality(K) + Len(reserving') <= MaxReserving + more[ReplayWindow]
    BY <1>9, <2>1
  <2>3. PICK m \in 1..(ReplayWindow + 1) :
          ReplayWindow < m * LimitWindow /\ MaxHits * m + MaxReserving <= MaxCache
    BY CacheAssumption
  <2> DEFINE b == MaxHits * m
  <2>4. m \in Nat \ {0} /\ b \in Nat /\ b + MaxReserving <= MaxCache
    BY <2>3
  <2>5. more[ReplayWindow] <= b
    BY <1>8, <2>3, <2>4, PastBounded
  <2>6. more[ReplayWindow] \in Nat /\ Len(reserving') \in Nat
    <3>1. n \in Nat /\ Len(reserving') = n + 1
      BY <1>0, <1>3
    <3>2. past[ReplayWindow] \in Nat /\ more[ReplayWindow] = past[ReplayWindow] + 1
      BY <1>7
    <3> HIDE DEF n
    <3> QED BY <3>1, <3>2
  <2> HIDE DEF K, b
  <2>7. Cardinality(K) + Len(reserving') <= MaxCache
    BY <1>1, <2>2, <2>4, <2>5, <2>6
  <2> QED BY <1>2, <2>7 DEF RoomInv
<1>12. KeptInv' /\ AssertionOnce'
  <2>1. UNCHANGED <<accepted, forgotten, replayed>>
    BY DEF MfaAssertion
  <2>2. ASSUME NEW u \in Tuples \ forgotten, accepted[u] < ReplayWindow
        PROVE  u \in K /\ replayCache'[u].age = accepted[u]
    <3>1. u \in D /\ replayCache[u].age = accepted[u] /\ accepted[u] <= ReplayWindow
      BY <2>2 DEF ReplayInv, ReplayTypes, KeptInv
    <3>2. u \in K
      BY <3>1 DEF Young
    <3> QED BY <1>2, <3>1, <3>2
  <2> HIDE DEF K
  <2> QED BY <1>2, <2>1, <2>2 DEF ReplayInv, KeptInv, AssertionOnce
<1> QED BY <1>5, <1>10, <1>11, <1>12 DEF ReplayInv

(* The key is set: by a call that no longer waits.  There is room, so      *)
(* nothing is trimmed, and a key set within the window would have been     *)
(* found.                                                                  *)
LEMMA ReserveKeeps ==
  ASSUME ReplayInv, NEW i \in DOMAIN reserving, CheckAndReserveAssertion(i)
  PROVE  ReplayInv'
<1> DEFINE t == reserving[i]
           D == DOMAIN replayCache
           n == Len(reserving)
<1>0. /\ reserving \in Seq(Tuples) /\ n \in Nat /\ n <= MaxReserving /\ t \in Tuples
      /\ D \in SUBSET Tuples /\ IsFiniteSet(D) /\ replayCache \in [D -> Entries]
      /\ Cardinality(D) \in Nat
  BY FS_CardinalityType DEF ReplayInv, ReplayTypes
<1>1. reserving' \in Seq(Tuples) /\ Len(reserving') = n - 1 /\ n - 1 \in Nat
  <2>1. i \in 1..n /\ n - 1 \in Nat
    BY <1>0
  <2>2. reserving' = SubSeq(reserving, 1, i - 1) \o SubSeq(reserving, i + 1, Len(reserving))
    BY DEF CheckAndReserveAssertion
  <2> QED BY <1>0, <2>1, <2>2, CallLeaves
<1>2. entries' = entries
  BY DEF CheckAndReserveAssertion
<1>3. PICK past : Past(past) /\ Seen(past, entries) /\ Counted(past, replayCache, n)
  BY DEF ReplayInv, CallsInv
<1>4. \A w \in Nat : past[w] \in Nat
  BY <1>3 DEF Past
<1>5. ASSUME NEW w \in 0..ReplayWindow
      PROVE  /\ IsFiniteSet(Young(replayCache, w)) /\ Cardinality(Young(replayCache, w)) \in Nat
             /\ Cardinality(Young(replayCache, w)) + n <= MaxReserving + past[w]
  <2>1. Young(replayCache, w) \in SUBSET D
    BY DEF Young
  <2> QED BY <1>0, <1>3, <2>1, FS_Subset, FS_CardinalityType DEF Counted
<1>6. CASE Cached(t)
  <2>1. UNCHANGED <<replayCache, accepted, forgotten, replayed>>
    BY <1>6 DEF CheckAndReserveAssertion
  <2>2. ReplayTypes'
    BY <1>0, <1>1, <1>2, <2>1, SMTT(20) DEF ReplayInv, ReplayTypes
  <2>3. Counted(past, replayCache', Len(reserving'))
    <3> SUFFICES ASSUME NEW w \in 0..ReplayWindow
                 PROVE  Cardinality(Young(replayCache, w)) + (n - 1) <= MaxReserving + past[w]
      BY <1>1, <2>1 DEF Counted
    <3>1. n \in Nat /\ past[w] \in Nat
      BY <1>0, <1>4
    <3>2. /\ Cardinality(Young(replayCache, w)) \in Nat
          /\ Cardinality(Young(replayCache, w)) + n <= MaxReserving + past[w]
      BY <1>5
    <3> HIDE DEF n
    <3> QED BY <3>1, <3>2
  <2>4. CallsInv'
    BY <1>2, <1>3, <2>3 DEF CallsInv
  <2>5. KeptInv' /\ AssertionOnce'
    BY <2>1 DEF ReplayInv, KeptInv, AssertionOnce
  <2>6. RoomInv'
    BY <1>0, <1>1, <2>1 DEF ReplayInv, RoomInv
  <2> QED BY <2>2, <2>4, <2>5, <2>6 DEF ReplayInv
<1>7. CASE ~Cached(t)
  <2> DEFINE E == D \cup {t}
  <2>1. /\ Reserve(t) \in [E -> Entries] /\ DOMAIN Reserve(t) = E /\ Reserve(t)[t].age = 0
        /\ \A u \in E \ {t} : Reserve(t)[u] = replayCache[u]
    BY <1>0, ReserveFacts DEF ReplayInv
  <2>2. IsFiniteSet(E) /\ Cardinality(E) \in Nat /\ Cardinality(E) <= Cardinality(D) + 1
    <3> HIDE DEF D, t
    <3> QED BY <1>0, AddOne
  <2>3. Cardinality(D) + n <= MaxCache
    BY DEF ReplayInv, RoomInv
  <2> HIDE DEF n, E
  <2>4. Cardinality(E) + (n - 1) <= MaxCache
    BY <1>0, <1>1, <2>2, <2>3
  <2>5. replayCache' = Reserve(t)
    <3>1. Cardinality(E) <= MaxCache
      BY <1>0, <1>1, <2>2, <2>4
    <3>2. TrimCache(Reserve(t)) = Reserve(t)
      BY <2>1, <2>2, <3>1 DEF TrimCache
    <3> QED BY <1>7, <3>2 DEF CheckAndReserveAssertion
  <2>6. accepted' = [accepted EXCEPT ![t] = 0] /\ forgotten' = forgotten \ {t}
    BY <1>7 DEF CheckAndReserveAssertion
  <2>7. AssertionOnce'
    <3>1. accepted[t] >= ReplayWindow \/ t \in forgotten
      BY <1>0, <1>7 DEF ReplayInv, ReplayTypes, KeptInv, Cached
    <3>2. replayed' \in SUBSET (replayed \cup {"restarted"})
      BY <1>7, <3>1 DEF CheckAndReserveAssertion
    <3> QED BY <3>2 DEF ReplayInv, AssertionOnce
  <2>8. ReplayTypes'
    <3>1. E \in SUBSET Tuples
      BY <1>0 DEF E
    <3>2. accepted' \in [Tuples -> 0..ReplayWindow]
      BY <1>0, <2>6 DEF ReplayInv, ReplayTypes
    <3>3. forgotten' \in SUBSET Tuples /\ replayed' \in SUBSET Repeats
      BY <1>7, <2>6 DEF CheckAndReserveAssertion, ReplayInv, ReplayTypes, Repeats
    <3>4. Len(reserving') <= MaxReserving
      BY <1>0, <1>1
    <3> QED BY <1>1, <1>2, <2>1, <2>2, <2>5, <3>1, <3>2, <3>3, <3>4 DEF ReplayInv, ReplayTypes
  <2>9. CallsInv'
    <3>1. ASSUME NEW w \in 0..ReplayWindow
          PROVE  Cardinality(Young(replayCache', w)) + (n - 1) <= MaxReserving + past[w]
      <4> DEFINE Y == Young(replayCache, w)
                 Z == Young(replayCache', w)
      <4>1. Z \in SUBSET (Y \cup {t})
        BY <2>1, <2>5 DEF Young, E
      <4>2. IsFiniteSet(Y) /\ Cardinality(Y) \in Nat /\ Cardinality(Y) + n <= MaxReserving + past[w]
        BY <1>5
      <4> HIDE DEF Y, Z, t
      <4>3. IsFiniteSet(Y \cup {t}) /\ Cardinality(Y \cup {t}) <= Cardinality(Y) + 1
            /\ Cardinality(Y \cup {t}) \in Nat
        BY <4>2, AddOne
      <4>4. Cardinality(Z) <= Cardinality(Y \cup {t}) /\ Cardinality(Z) \in Nat
        BY <4>1, <4>3, FS_Subset, FS_CardinalityType
      <4>5. past[w] \in Nat /\ n \in Nat
        BY <1>0, <1>4
      <4>6. Cardinality(Z) <= Cardinality(Y) + 1
        BY <4>2, <4>3, <4>4
      <4> HIDE DEF n
      <4>7. Cardinality(Z) + (n - 1) <= MaxReserving + past[w]
        BY <4>2, <4>4, <4>5, <4>6
      <4> QED BY <4>7 DEF Z
    <3>2. Counted(past, replayCache', Len(reserving'))
      BY <1>1, <3>1 DEF Counted
    <3> QED BY <1>2, <1>3, <3>2 DEF CallsInv
  <2>10. RoomInv'
    BY <1>1, <2>1, <2>4, <2>5 DEF RoomInv
  <2>11. KeptInv'
    <3> SUFFICES ASSUME NEW u \in Tuples \ forgotten', accepted'[u] < ReplayWindow
                 PROVE  u \in E /\ Reserve(t)[u].age = accepted'[u]
      BY <2>1, <2>5 DEF KeptInv
    <3>1. accepted \in [Tuples -> 0..ReplayWindow]
      BY DEF ReplayInv, ReplayTypes
    <3>2. CASE u = t
      BY <1>0, <2>1, <2>6, <3>1, <3>2 DEF E
    <3>3. CASE u # t
      <4>1. accepted'[u] = accepted[u]
        BY <2>6, <3>1, <3>3
      <4>2. u \in D /\ replayCache[u].age = accepted[u]
        BY <2>6, <3>3, <4>1 DEF ReplayInv, KeptInv
      <4> QED BY <2>1, <3>3, <4>1, <4>2 DEF E
    <3> QED BY <3>2, <3>3
  <2> QED BY <2>7, <2>8, <2>9, <2>10, <2>11 DEF ReplayInv
<1> QED BY <1>6, <1>7

(* A tick: every age is one more, and nothing is younger than a tick.      *)
LEMMA TickKeeps ==
  ASSUME ReplayInv, Tick
  PROVE  ReplayInv'
<1> DEFINE D == DOMAIN replayCache
           n == Len(reserving)
<1>0. /\ entries \in Seq(0..LimitWindow) /\ Len(entries) <= MaxHits /\ n \in Nat
      /\ n <= MaxReserving /\ D \in SUBSET Tuples /\ IsFiniteSet(D)
      /\ replayCache \in [D -> Entries] /\ accepted \in [Tuples -> 0..ReplayWindow]
  BY DEF ReplayInv, ReplayTypes
<1>1. reserving' = reserving /\ replayed' = replayed
  BY DEF Tick
<1>2. /\ DOMAIN replayCache' = D /\ replayCache' \in [D -> Entries]
      /\ \A t \in D : replayCache'[t].age = Older(replayCache[t].age, ReplayWindow + 1)
  <2>1. replayCache' = [t \in D |-> [replayCache[t] EXCEPT !.age = Older(@, ReplayWindow + 1)]]
    BY DEF Tick
  <2>2. ASSUME NEW t \in D
        PROVE  /\ [replayCache[t] EXCEPT !.age = Older(@, ReplayWindow + 1)] \in Entries
               /\ [replayCache[t] EXCEPT !.age = Older(@, ReplayWindow + 1)].age
                    = Older(replayCache[t].age, ReplayWindow + 1)
    <3>1. replayCache[t] \in Entries
      BY <1>0
    <3>2. Older(replayCache[t].age, ReplayWindow + 1) \in 0..(ReplayWindow + 1)
      BY <3>1 DEF Older, Entries
    <3> QED BY <3>1, <3>2 DEF Entries
  <2> HIDE DEF D
  <2> QED BY <2>1, <2>2
<1>3. entries' = [i \in DOMAIN entries |-> Older(entries[i], LimitWindow)]
  BY DEF Tick
<1>4. entries' \in Seq(0..LimitWindow) /\ Len(entries') <= MaxHits
  <2>1. \A i \in 1..Len(entries) : Older(entries[i], LimitWindow) \in 0..LimitWindow
    BY <1>0 DEF Older
  <2>2. DOMAIN entries = 1..Len(entries) /\ Len(entries) \in Nat
    BY <1>0
  <2>3. entries' = [i \in 1..Len(entries) |-> Older(entries[i], LimitWindow)]
    BY <1>3, <2>2
  <2> QED BY <1>0, <2>1, <2>2, <2>3
<1>5. /\ accepted' \in [Tuples -> 0..ReplayWindow]
      /\ \A t \in Tuples : accepted'[t] = Older(accepted[t], ReplayWindow)
  <2>1. accepted' = [t \in Tuples |-> Older(accepted[t], ReplayWindow)]
    BY DEF Tick
  <2>2. \A t \in Tuples : Older(accepted[t], ReplayWindow) \in 0..ReplayWindow
    BY <1>0 DEF Older
  <2> QED BY <2>1, <2>2
<1>10. forgotten' = {t \in forgotten : Older(accepted[t], ReplayWindow) < ReplayWindow}
  BY DEF Tick
<1>6. ReplayTypes'
  <2> HIDE DEF D
  <2> QED BY <1>0, <1>1, <1>2, <1>4, <1>5, <1>10 DEF ReplayInv, ReplayTypes
<1>7. CallsInv'
  <2>1. PICK past : Past(past) /\ Seen(past, entries) /\ Counted(past, replayCache, n)
    BY DEF ReplayInv, CallsInv
  <2>2. Past(Shifted(past)) /\ Seen(Shifted(past), entries')
    BY <1>0, <1>3, <2>1, TickSeen
  <2>3. /\ Shifted(past)[0] = 0
        /\ \A w \in Nat \ {0} : Shifted(past)[w] = past[w - 1]
    BY DEF Shifted
  <2>4. ASSUME NEW w \in 0..ReplayWindow
        PROVE  Cardinality(Young(replayCache', w)) + n <= MaxReserving + Shifted(past)[w]
    <3>0. \A t \in D : replayCache[t].age \in 0..(ReplayWindow + 1)
      BY <1>0 DEF Entries
    <3>1. CASE w = 0
      <4>1. Young(replayCache', w) = {}
        BY <1>2, <3>0, <3>1 DEF Young, Older
      <4>2. Cardinality(Young(replayCache', w)) = 0
        BY <4>1, FS_EmptySet
      <4> QED BY <1>0, <2>3, <3>1, <4>2
    <3>2. CASE w # 0
      <4>1. w - 1 \in 0..ReplayWindow /\ w \in Nat \ {0}
        BY <3>2
      <4>2. Young(replayCache', w) = Young(replayCache, w - 1)
        BY <1>2, <3>0, <3>2 DEF Young, Older
      <4>3. Cardinality(Young(replayCache, w - 1)) + n <= MaxReserving + past[w - 1]
        BY <2>1, <4>1 DEF Counted
      <4> QED BY <2>3, <4>1, <4>2, <4>3
    <3> QED BY <3>1, <3>2
  <2>5. Counted(Shifted(past), replayCache', Len(reserving'))
    BY <1>1, <2>4 DEF Counted
  <2> QED BY <2>2, <2>5 DEF CallsInv
<1>8. RoomInv' /\ AssertionOnce'
  BY <1>1, <1>2 DEF ReplayInv, RoomInv, AssertionOnce
<1>9. KeptInv'
  <2> SUFFICES ASSUME NEW t \in Tuples \ forgotten', accepted'[t] < ReplayWindow
               PROVE  t \in D /\ replayCache'[t].age = accepted'[t]
    BY <1>2 DEF KeptInv
  <2>1. accepted[t] < ReplayWindow /\ accepted'[t] = accepted[t] + 1 /\ accepted[t] \in Nat
    BY <1>0, <1>5 DEF Older
  <2>2. t \in D /\ replayCache[t].age = accepted[t]
    BY <1>5, <1>10, <2>1 DEF ReplayInv, KeptInv
  <2>3. replayCache'[t].age = Older(accepted[t], ReplayWindow + 1)
    BY <1>2, <2>2
  <2> QED BY <2>1, <2>2, <2>3 DEF Older
<1> QED BY <1>6, <1>7, <1>8, <1>9 DEF ReplayInv

LEMMA ReplayStutters == ASSUME ReplayInv, UNCHANGED replayVars PROVE ReplayInv'
<1>1. /\ entries' = entries /\ reserving' = reserving /\ replayCache' = replayCache
      /\ accepted' = accepted /\ forgotten' = forgotten /\ replayed' = replayed
  BY DEF replayVars
<1>2. ReplayTypes' /\ RoomInv' /\ KeptInv' /\ AssertionOnce'
  BY <1>1 DEF ReplayInv, ReplayTypes, RoomInv, KeptInv, AssertionOnce
<1>3. CallsInv'
  BY <1>1 DEF ReplayInv, CallsInv
<1> QED BY <1>2, <1>3 DEF ReplayInv

LEMMA ReplayInvariant == ReplaySpec => []ReplayInv
<1>1. ReplayInit => ReplayInv
  BY BlankInv DEF ReplayInit, Blank
<1>2. ReplayInv /\ [ReplayNext]_replayVars => ReplayInv'
  BY MfaKeeps, ReserveKeeps, TickKeeps, LostKeeps, ReplayStutters DEF ReplayNext
<1> QED BY <1>1, <1>2, PTL DEF ReplaySpec

(* No assertion activates a session twice within the replay window in one  *)
(* run of the worker, also when earlier runs accepted it: for any number   *)
(* of assertions and of calls that overlap at their hash, and any windows  *)
(* and sizes with which the limiter lets in no more calls than the cache   *)
(* has room for.                                                           *)
THEOREM AcceptedOnce == ReplaySpec => []AssertionOnce
<1>1. ReplayInv => AssertionOnce
  BY DEF ReplayInv
<1> QED BY <1>1, ReplayInvariant, PTL

(* Every variable of the replay protection keeps its type.                 *)
THEOREM ReplayTyped == ReplaySpec => []ReplayTypeOK
<1>1. ReplayInv => ReplayTypeOK
  <2> SUFFICES ASSUME ReplayInv PROVE ReplayTypeOK
    OBVIOUS
  <2>1. Cardinality(DOMAIN replayCache) \in Nat /\ Len(reserving) \in Nat
    BY FS_CardinalityType DEF ReplayInv, ReplayTypes
  <2>2. Cardinality(DOMAIN replayCache) <= MaxCache
    BY <2>1 DEF ReplayInv, RoomInv
  <2> QED BY <2>2 DEF ReplayInv, ReplayTypes, ReplayTypeOK, Entries
<1> QED BY <1>1, ReplayInvariant, PTL

-----------------------------------------------------------------------------
(* ChallengeAssertion *)

(* LockGuarded is inductive with the types: whoever leaves the lock to     *)
(* another leaves it guarded.                                              *)
AssertionInv == AssertionTypeOK /\ LockGuarded

PageStates == {"closed", "loading", "asking", "reported", "answered"}

(* A page that opens, or goes on without closing, guards the lock.         *)
LEMMA PageGoesOn ==
  ASSUME AssertionInv, NEW t \in Tabs, NEW p \in PageStates \ {"closed"},
         page' = [page EXCEPT ![t] = p] \/ page' = page,
         UNCHANGED <<lock, authTab, leaked>>,
         call' = call
  PROVE  LockGuarded' /\ page' \in [Tabs -> PageStates]
<1>1. page \in [Tabs -> PageStates]
  BY DEF AssertionInv, AssertionTypeOK, PageStates
<1>2. page' \in [Tabs -> PageStates]
  BY <1>1
<1>3. ASSUME NEW u \in Tabs, page[u] # "closed" PROVE page'[u] # "closed"
  BY <1>1, <1>3 DEF PageStates
<1> QED BY <1>2, <1>3 DEF AssertionInv, LockGuarded

LEMMA Resets ==
  ASSUME Reset
  PROVE  /\ lock' = 0 /\ authTab' = None /\ timer' = 0 /\ leaked' = 0
         /\ lock' \in {0, 1} /\ timer' \in {0, 1} /\ leaked' \in {0, 1}
         /\ timer' # 1 /\ lock' # 1 /\ leaked' # 1
         /\ authTab' \in Tabs \cup {None} /\ LockGuarded'
<1>1. lock' = 0 /\ authTab' = None /\ timer' = 0 /\ leaked' = 0
  BY DEF Reset
<1>2. timer' # 1 /\ lock' # 1 /\ leaked' # 1
  BY <1>1
<1> QED BY <1>1, <1>2 DEF LockGuarded

LEMMA AssertionStep ==
  AssertionInv /\ [AssertionNext]_assertionVars => AssertionInv'
<1> SUFFICES ASSUME AssertionInv, [AssertionNext]_assertionVars PROVE AssertionInv'
  OBVIOUS
<1>0. AssertionTypeOK /\ LockGuarded
  BY DEF AssertionInv
<1> USE DEF panelVars, lockVars, storedVars, tabVars
<1>1. CASE HandleAuthenticate \/ SecondPopupRefused \/ PollResult \/ Dismiss \/ PanelCloses
  <2>1. /\ UNCHANGED <<lock, authTab, timer, leaked, pending, page, complete>>
        /\ call' = call \/ call = "none"
    BY <1>1 DEF HandleAuthenticate, SecondPopupRefused, PollResult, Dismiss, PanelCloses
  <2>2. /\ status' \in {"idle", "pending", "verified", "error"}
        /\ call' \in {"none", "clearing", "deriving", "opening"} /\ alive' \in {0, 1}
        /\ result' \in {"none", "verified", "error", "cancelled", "timeout"}
    BY <1>0, <1>1 DEF HandleAuthenticate, SecondPopupRefused, PollResult, Dismiss, PanelCloses,
                      AssertionTypeOK
  <2>3. AssertionTypeOK'
    BY <1>0, <2>1, <2>2 DEF AssertionTypeOK
  <2>4. LockGuarded'
    BY <1>0, <2>1 DEF LockGuarded
  <2> QED BY <2>3, <2>4 DEF AssertionInv
<1>2. CASE Begin
  <2>1. UNCHANGED <<authTab, timer, pending, page, complete>> /\ result' = "none"
    BY <1>2 DEF Begin, Refused, CallAnswered
  <2>2. /\ status' \in {"idle", "pending", "verified", "error"}
        /\ call' \in {"none", "clearing", "deriving", "opening"} /\ alive' \in {0, 1}
        /\ lock' \in {0, 1} /\ leaked' \in {0, 1} /\ (leaked' = 1 => lock' = 1)
    BY <1>0, <1>2 DEF Begin, Refused, CallAnswered, AssertionTypeOK
  <2>3. AssertionTypeOK'
    BY <1>0, <2>1, <2>2 DEF AssertionTypeOK
  <2>4. LockGuarded'
    <3>1. CASE call' = "deriving"
      BY <3>1 DEF LockGuarded
    <3>2. CASE UNCHANGED <<lock, leaked>> /\ call = "clearing"
      BY <1>0, <2>1, <3>2 DEF LockGuarded
    <3>3. CASE leaked' = 1
      BY <3>3 DEF LockGuarded
    <3> QED BY <1>2, <3>1, <3>2, <3>3 DEF Begin
  <2> QED BY <2>3, <2>4 DEF AssertionInv
<1>3. CASE BeginDerives
  <2>1. UNCHANGED <<result, page, complete>>
    BY <1>3 DEF BeginDerives
  <2>2. CASE call' = "opening" /\ pending' = 1 /\ UNCHANGED <<lock, authTab, timer, leaked, status, alive>>
    <3>1. AssertionTypeOK'
      BY <1>0, <2>1, <2>2 DEF AssertionTypeOK
    <3>2. LockGuarded'
      BY <2>2 DEF LockGuarded
    <3> QED BY <3>1, <3>2 DEF AssertionInv
  <2>3. CASE Reset /\ Refused /\ UNCHANGED pending
    <3>1. AssertionTypeOK'
      BY <1>0, <2>1, <2>3, Resets DEF AssertionTypeOK, Refused, CallAnswered
    <3> QED BY <2>3, <3>1, Resets DEF AssertionInv
  <2> QED BY <1>3, <2>2, <2>3 DEF BeginDerives
<1>4. CASE BeginOpens
  <2>1. UNCHANGED <<pending, result, complete>>
    BY <1>4 DEF BeginOpens
  <2>2. ASSUME NEW t \in Tabs, page' = [page EXCEPT ![t] = "loading"], authTab' = t, timer' = 1,
               CallAnswered, UNCHANGED <<lock, leaked, status>>
        PROVE  AssertionInv'
    <3>1. page' \in [Tabs -> PageStates] /\ page'[t] = "loading"
      BY <1>0, <2>2 DEF AssertionTypeOK, PageStates
    <3>2. authTab' # None
      BY <2>2, TabsAssumption
    <3>3. AssertionTypeOK'
      BY <1>0, <2>1, <2>2, <3>1, <3>2 DEF AssertionTypeOK, CallAnswered, PageStates
    <3>4. LockGuarded'
      BY <2>2, <3>1 DEF LockGuarded
    <3> QED BY <3>3, <3>4 DEF AssertionInv
  <2>3. CASE Reset /\ Refused /\ UNCHANGED page
    <3>1. AssertionTypeOK'
      BY <1>0, <2>1, <2>3, Resets DEF AssertionTypeOK, Refused, CallAnswered
    <3> QED BY <2>3, <3>1, Resets DEF AssertionInv
  <2> QED BY <1>4, <2>2, <2>3 DEF BeginOpens
<1>5. CASE AuthTimeout
  <2>1. UNCHANGED <<status, call, alive, pending, result, page, complete>> /\ timer' = 0
    BY <1>5 DEF AuthTimeout
  <2>1a. timer' # 1 /\ timer' \in {0, 1}
    BY <2>1
  <2>2. CASE lock = 1
    <3>1. lock' = 0 /\ authTab' = None /\ leaked' = 0
      BY <1>5, <2>2 DEF AuthTimeout
    <3>1a. lock' # 1 /\ leaked' # 1
      BY <3>1
    <3>2. AssertionTypeOK'
      BY <1>0, <2>1, <2>1a, <3>1, <3>1a DEF AssertionTypeOK
    <3> QED BY <3>1a, <3>2 DEF AssertionInv, LockGuarded
  <2>3. CASE lock # 1
    <3>1. UNCHANGED <<lock, authTab, leaked>>
      BY <1>5, <2>3 DEF AuthTimeout
    <3>2. AssertionTypeOK'
      BY <1>0, <2>1, <2>1a, <3>1 DEF AssertionTypeOK
    <3> QED BY <2>3, <3>1, <3>2 DEF AssertionInv, LockGuarded
  <2> QED BY <2>2, <2>3
<1>6. ASSUME NEW t \in Tabs, PageCloses(t) PROVE AssertionInv'
  <2>1. /\ UNCHANGED <<status, call, alive, pending, result, complete>>
        /\ page' = [page EXCEPT ![t] = "closed"]
    BY <1>6 DEF PageCloses
  <2>2. page' \in [Tabs -> PageStates]
    BY <1>0, <2>1 DEF AssertionTypeOK, PageStates
  <2>3. CASE authTab = t
    <3>1. Reset
      BY <1>6, <2>3 DEF PageCloses
    <3> QED BY <1>0, <2>1, <2>2, <3>1, Resets DEF AssertionInv, AssertionTypeOK, PageStates
  <2>4. CASE authTab # t
    <3>1. UNCHANGED <<lock, authTab, timer, leaked>>
      BY <1>6, <2>4 DEF PageCloses
    <3>2. authTab \in Tabs => page'[authTab] = page[authTab]
      BY <1>0, <2>1, <2>4 DEF AssertionTypeOK
    <3>3. LockGuarded'
      BY <1>0, <2>1, <3>1, <3>2 DEF LockGuarded
    <3> QED BY <1>0, <2>1, <2>2, <3>1, <3>3 DEF AssertionInv, AssertionTypeOK, PageStates
  <2> QED BY <2>3, <2>4
<1>6a. ASSUME NEW t \in Tabs, AuthPageLoads(t) PROVE AssertionInv'
  <2>1. UNCHANGED <<status, call, alive, lock, authTab, timer, leaked, pending, result, complete>>
    BY <1>6a DEF AuthPageLoads
  <2>2. page' = [page EXCEPT ![t] = "asking"] /\ "asking" \in PageStates \ {"closed"}
    BY <1>6a DEF AuthPageLoads, PageStates
  <2>3. LockGuarded' /\ page' \in [Tabs -> PageStates]
    BY <2>1, <2>2, PageGoesOn
  <2> QED BY <1>0, <2>1, <2>3 DEF AssertionInv, AssertionTypeOK, PageStates
<1>7. ASSUME NEW t \in Tabs,
             ReportsAgain(t) \/ \E outcome \in Outcomes : PageReports(t, outcome)
      PROVE  AssertionInv'
  <2>1. /\ UNCHANGED <<status, call, alive, lock, authTab, leaked, pending, result>> /\ timer' = 0
        /\ page' = [page EXCEPT ![t] = "reported"]
        /\ \E outcome \in Outcomes : complete' = [complete EXCEPT ![t] = outcome]
    BY <1>7 DEF PageReports, ReportsAgain, Outcomes
  <2>2. timer' # 1 /\ timer' \in {0, 1} /\ "reported" \in PageStates \ {"closed"}
    BY <2>1 DEF PageStates
  <2>3. complete' \in [Tabs -> {"none", "verified", "cancelled", "timeout", "error"}]
    BY <1>0, <2>1 DEF AssertionTypeOK, Outcomes
  <2>4. LockGuarded' /\ page' \in [Tabs -> PageStates]
    BY <2>1, <2>2, PageGoesOn
  <2> QED BY <1>0, <2>1, <2>2, <2>3, <2>4 DEF AssertionInv, AssertionTypeOK, PageStates
<1>8. ASSUME NEW t \in Tabs, CompleteStep(t) PROVE AssertionInv'
  <2>1. /\ UNCHANGED <<status, call, alive>>
        /\ page' = [page EXCEPT ![t] = "answered"] \/ page' = page
        /\ Reset \/ UNCHANGED <<lock, authTab, timer, leaked>>
        /\ pending' \in {pending, 0}
        /\ result' \in {result, "verified", "error", "cancelled", "timeout"}
        /\ complete' = [complete EXCEPT ![t] = "none"]
    BY <1>8 DEF CompleteStep, CompleteFails, CompleteTransmits, TransmissionFails,
                ResultNotStored, PageTold
  <2>2. complete' \in [Tabs -> {"none", "verified", "cancelled", "timeout", "error"}]
    BY <1>0, <2>1 DEF AssertionTypeOK
  <2>3. pending' \in {0, 1} /\ result' \in {"none", "verified", "error", "cancelled", "timeout"}
    BY <1>0, <2>1 DEF AssertionTypeOK
  <2>4. page' \in [Tabs -> PageStates] /\ "answered" \in PageStates \ {"closed"}
    BY <1>0, <2>1 DEF AssertionTypeOK, PageStates
  <2>5. CASE Reset
    BY <1>0, <2>1, <2>2, <2>3, <2>4, <2>5, Resets DEF AssertionInv, AssertionTypeOK, PageStates
  <2>6. CASE UNCHANGED <<lock, authTab, timer, leaked>>
    <3>1. LockGuarded'
      BY <2>1, <2>4, <2>6, PageGoesOn
    <3> QED BY <1>0, <2>1, <2>2, <2>3, <2>4, <2>6, <3>1 DEF AssertionInv, AssertionTypeOK,
                                                           PageStates
  <2> QED BY <2>1, <2>5, <2>6
<1>9. CASE Restart
  <2>1. /\ UNCHANGED <<pending, result>> /\ Reset /\ Refused
        /\ complete' \in [Tabs -> {"none", "verified", "cancelled", "timeout", "error"}]
        /\ page' \in [Tabs -> PageStates]
    BY <1>0, <1>9 DEF Restart, AssertionTypeOK, PageStates
  <2> QED BY <1>0, <2>1, Resets DEF AssertionInv, AssertionTypeOK, Refused, CallAnswered, PageStates
<1>10. CASE UNCHANGED assertionVars
  BY <1>0, <1>10 DEF AssertionInv, AssertionTypeOK, LockGuarded, assertionVars
<1> QED BY <1>1, <1>2, <1>3, <1>4, <1>5, <1>6, <1>6a, <1>7, <1>8, <1>9, <1>10
     DEF AssertionNext, CompleteStep

LEMMA AssertionInvariant == AssertionSpec => []AssertionInv
<1>1. AssertionInit => AssertionInv
  <2> SUFFICES ASSUME AssertionInit PROVE AssertionInv
    OBVIOUS
  <2>1. lock = 0 /\ timer = 0 /\ leaked = 0
    BY DEF AssertionInit
  <2>2. lock # 1 /\ timer # 1 /\ leaked # 1
    BY <2>1
  <2> QED BY <2>2 DEF AssertionInit, AssertionInv, AssertionTypeOK, LockGuarded
<1> QED BY <1>1, AssertionStep, PTL DEF AssertionSpec

(* Every variable of the challenge-bound authentication keeps its type; a  *)
(* timer runs only for a tab that is known and only a lock that is held is *)
(* left behind.                                                            *)
THEOREM AssertionTyped == AssertionSpec => []AssertionTypeOK
<1>1. AssertionInv => AssertionTypeOK
  BY DEF AssertionInv
<1> QED BY <1>1, AssertionInvariant, PTL

(* While authInProgress is held and was not left behind, the handler that  *)
(* took it still runs or the page whose closing releases it is open,       *)
(* whatever is not stored or reports late: for any number of auth.html     *)
(* tabs.                                                                   *)
THEOREM LockHasReleaser == AssertionSpec => []LockGuarded
<1>1. AssertionInv => LockGuarded
  BY DEF AssertionInv
<1> QED BY <1>1, AssertionInvariant, PTL

-----------------------------------------------------------------------------
(* TransportManager *)

Bits == {0, 1}
TransportNames == {"none", "usb", "webrtc"}
UsbRecords == [device : Bits, connected : Bits]
SwitchRecords == [at : {"none", "connecting usb", "leaving webrtc", "leaving usb",
                        "connecting webrtc"},
                  target : TransportNames, current : TransportNames]
CallRecords == [at : {"none", "destroying", "activating"}, leaving : TransportNames]

UsbTypes ==
  /\ usb \in UsbRecords /\ (usb.device = 1 => usb.connected = 1)
  /\ relay \in {"closed", "open", "dead"}
SwitchTypes ==
  /\ active \in TransportNames /\ switch \in SwitchRecords
  /\ dropWaits \in Bits /\ slipped \in Bits
HeldTypes ==
  /\ init \in {"none", "checking", "connecting usb", "connecting webrtc", "done"}
  /\ initPromise \in Bits /\ orphan \in Bits
  /\ handler \in [Handlers -> CallRecords]
PollTypes ==
  /\ usbAvailable \in Bits /\ pollTimer \in Bits /\ poll \in {"none", "was available", "was not"}
BusTypes == webrtc \in Bits /\ plugged \in Bits /\ connState \in Bits
ManagerTypes == UsbTypes /\ SwitchTypes /\ HeldTypes /\ PollTypes /\ BusTypes

(* A switch that is over has left nothing behind, and it is USB that a     *)
(* switch connects or leaves WebRTC for.                                   *)
SwitchInv ==
  /\ switch.at = "none" => switch = NoSwitch /\ dropWaits = 0
  /\ switch.at \in {"connecting usb", "leaving webrtc"} => switch.target = "usb"

(* A call that is not in destroy() waits for no transport.                 *)
LeavingInv ==
  \A h \in Handlers : handler[h].at # "destroying" => handler[h].leaving = "none"
NobodyLeaves == \A h \in Handlers : handler[h].leaving = "none"

UsbUsable == usb.connected = 1

(* A switch that connects USB may fail and leave the manager where it is,  *)
(* unless somebody waits to give WebRTC up; one that leaves WebRTC has USB *)
(* connected.                                                              *)
UsableInv ==
  /\ switch.at \in {"none", "connecting usb"} /\ slipped = 0 /\ NobodyLeaves =>
       /\ active = "webrtc" => webrtc = 1 \/ dropWaits = 1
       /\ active = "usb" => UsbUsable
  /\ switch.at = "leaving webrtc" /\ slipped = 0 => UsbUsable

TransportInv == ManagerTypes /\ SwitchInv /\ LeavingInv /\ UsableInv

-----------------------------------------------------------------------------
LEMMA ManagerTyped == ManagerTypes => TransportTypeOK
<1> SUFFICES ASSUME ManagerTypes PROVE TransportTypeOK
  OBVIOUS
<1>1. usb \in [device : {0, 1}, connected : {0, 1}] /\ usb.device <= usb.connected
  BY DEF ManagerTypes, UsbTypes, UsbRecords, Bits
<1>2. /\ switch.at \in {"none", "connecting usb", "leaving webrtc", "leaving usb",
                        "connecting webrtc"}
      /\ switch.target \in {"none", "usb", "webrtc"}
      /\ switch.current \in {"none", "usb", "webrtc"}
  BY DEF ManagerTypes, SwitchTypes, SwitchRecords, TransportNames
<1>3. handler \in [Handlers -> [at : {"none", "destroying", "activating"},
                                leaving : {"none", "usb", "webrtc"}]]
  BY DEF ManagerTypes, HeldTypes, CallRecords, TransportNames
<1>4. /\ init \in {"none", "checking", "connecting usb", "connecting webrtc", "done"}
      /\ active \in {"none", "usb", "webrtc"}
      /\ poll \in {"none", "was available", "was not"}
      /\ relay \in {"closed", "open", "dead"}
  BY DEF ManagerTypes, HeldTypes, SwitchTypes, PollTypes, UsbTypes, TransportNames
<1>5. /\ initPromise \in {0, 1} /\ orphan \in {0, 1} /\ usbAvailable \in {0, 1}
      /\ webrtc \in {0, 1} /\ dropWaits \in {0, 1} /\ pollTimer \in {0, 1}
      /\ plugged \in {0, 1} /\ connState \in {0, 1} /\ slipped \in {0, 1}
  BY DEF ManagerTypes, HeldTypes, SwitchTypes, PollTypes, BusTypes, Bits
<1>6. \A b \in {initPromise, orphan, usbAvailable, webrtc, dropWaits, pollTimer, plugged,
                connState, slipped} : b \in {0, 1}
  BY <1>5
<1> QED BY <1>1, <1>2, <1>3, <1>4, <1>6, Zenon DEF TransportTypeOK

LEMMA NoSwitchRecord == NoSwitch \in SwitchRecords /\ NoSwitch.at = "none"
BY DEF NoSwitch, SwitchRecords, TransportNames

LEMMA NoUsbRecord == NoUsb \in UsbRecords /\ NoUsb.device # 1
BY DEF NoUsb, UsbRecords, Bits

LEMMA NoCallRecord == NoCall \in CallRecords /\ NoCall.at = "none" /\ NoCall.leaving = "none"
BY DEF NoCall, CallRecords, TransportNames

LEMMA TransportInitInv == TransportInit => TransportInv
<1> SUFFICES ASSUME TransportInit PROVE TransportInv
  OBVIOUS
<1>1. ManagerTypes
  BY NoSwitchRecord, NoUsbRecord, NoCallRecord
     DEF TransportInit, ManagerTypes, UsbTypes, SwitchTypes, HeldTypes, PollTypes, BusTypes,
         TransportNames, Bits
<1>2. SwitchInv /\ LeavingInv /\ UsableInv
  BY NoSwitchRecord, NoCallRecord DEF TransportInit, SwitchInv, LeavingInv, UsableInv
<1> QED BY <1>1, <1>2 DEF TransportInv

(* What the operators of the transports do.                                *)
LEMMA UsbConnects ==
  ASSUME UsbTypes, NEW ok \in Bits, UsbConnect(ok)
  PROVE  /\ UsbTypes'
         /\ ok = 1 => UsbUsable'
         /\ ok = 0 => usb' = usb /\ relay' = relay
<1>1. CASE usb.device = 1 /\ ok = 1 /\ usb' = [device |-> 1, connected |-> 1] /\ relay' = relay
  BY <1>1 DEF UsbTypes, UsbRecords, Bits, UsbUsable
<1>2. CASE usb.device = 0 /\ ok = 1 /\ usb' = [device |-> 1, connected |-> 1] /\ relay' = relay
  BY <1>2 DEF UsbTypes, UsbRecords, Bits, UsbUsable
<1>3. CASE ok = 1 /\ relay' = "open" /\ usb' = [device |-> 0, connected |-> 1]
  BY <1>3 DEF UsbTypes, UsbRecords, Bits, UsbUsable
<1>4. CASE ok = 0 /\ usb' = usb /\ relay' = relay
  BY <1>4 DEF UsbTypes
<1> QED BY <1>1, <1>2, <1>3, <1>4 DEF UsbConnect, ConnectWebUsb

LEMMA Settles ==
  ASSUME SwitchTypes, NEW switched \in Bits, NEW new \in TransportNames, Settle(switched, new)
  PROVE  /\ switch' = NoSwitch /\ switch' \in SwitchRecords /\ switch'.at = "none" /\ dropWaits' = 0
         /\ active' \in TransportNames /\ dropWaits' \in Bits
         /\ active' = new \/ (active' = "none" /\ switched = 0)
         /\ dropWaits = 1 /\ switched = 0 => active' = "none"
BY NoSwitchRecord DEF Settle, Settled, SwitchTypes, TransportNames, Bits

LEMMA SwitchBegins ==
  ASSUME SwitchTypes, UsbTypes, SwitchInv, NEW target \in {"usb", "webrtc"}, NEW available,
         SwitchTransport(target, available)
  PROVE  /\ switch' \in SwitchRecords
         /\ switch'.at = "none" => switch' = NoSwitch /\ ~Switching
         /\ switch'.at \in {"connecting usb", "leaving webrtc"} => switch'.target = "usb"
         /\ Switching => switch' = switch
         /\ ~Switching /\ target = "webrtc" /\ active = "usb" => switch'.at = "leaving usb"
         /\ switch'.at = "leaving webrtc" => switch.at = "leaving webrtc" \/ usb.device = 1
<1>1. CASE Switching
  BY <1>1 DEF SwitchTransport, SwitchTypes, SwitchInv, Switching
<1>2. CASE ~Switching
  <2>1. switch' = DoSwitch(target, available)
    BY <1>2 DEF SwitchTransport
  <2>2. CASE switch' = NoSwitch /\ target = "usb"
    BY <1>2, <2>2, NoSwitchRecord
  <2>3. ASSUME NEW at \in {"connecting usb", "leaving webrtc"}, target = "usb",
               switch' = [at |-> at, target |-> target, current |-> active]
        PROVE  /\ switch' \in SwitchRecords /\ switch'.at = at /\ switch'.target = "usb"
    BY <2>3 DEF SwitchTypes, SwitchRecords, TransportNames
  <2>4. ASSUME NEW at \in {"leaving usb", "connecting webrtc"}, target = "webrtc",
               switch' = [at |-> at, target |-> target, current |-> active]
        PROVE  /\ switch' \in SwitchRecords /\ switch'.at = at
    BY <2>4 DEF SwitchTypes, SwitchRecords, TransportNames
  <2>5. CASE switch' # NoSwitch /\ target = "usb"
    <3>1. CASE usb.device = 1
      <4>1. switch' = [at |-> "leaving webrtc", target |-> target, current |-> active]
        BY <2>1, <2>5, <3>1 DEF DoSwitch
      <4> QED BY <1>2, <2>3, <2>5, <3>1, <4>1
    <3>2. CASE usb.device = 0
      <4>1. switch' = [at |-> "connecting usb", target |-> target, current |-> active]
        <5>1. usb.device # 1
          BY <3>2
        <5> QED BY <2>1, <2>5, <5>1 DEF DoSwitch
      <4> QED BY <1>2, <2>3, <2>5, <4>1
    <3> QED BY <3>1, <3>2 DEF UsbTypes, UsbRecords, Bits
  <2>6. CASE target = "webrtc"
    <3>1. CASE active = "usb"
      <4>1. switch' = [at |-> "leaving usb", target |-> target, current |-> active]
        BY <2>1, <2>6, <3>1 DEF DoSwitch
      <4> QED BY <1>2, <2>4, <2>6, <4>1
    <3>2. CASE active # "usb"
      <4>1. switch' = [at |-> "connecting webrtc", target |-> target, current |-> active]
        BY <2>1, <2>6, <3>2 DEF DoSwitch
      <4> QED BY <1>2, <2>4, <2>6, <3>2, <4>1
    <3> QED BY <3>1, <3>2
  <2> QED BY <2>2, <2>5, <2>6
<1> QED BY <1>1, <1>2

(* UsableInv after a step: the step makes it so, or leaves it.             *)
LEMMA UsableNow ==
  ASSUME \/ slipped' # 0 \/ switch'.at \in {"leaving usb", "connecting webrtc"}
         \/ UsbUsable' /\ (active' # "webrtc" \/ switch'.at = "leaving webrtc")
         \/ switch'.at # "leaving webrtc" /\ active' = "none"
         \/ switch'.at # "leaving webrtc" /\ active' = "webrtc" /\ webrtc' = 1
  PROVE  UsableInv'
<1>1. CASE slipped' # 0
  BY <1>1 DEF UsableInv
<1>2. CASE switch'.at \in {"leaving usb", "connecting webrtc"}
  BY <1>2 DEF UsableInv
<1>3. CASE UsbUsable' /\ (active' # "webrtc" \/ switch'.at = "leaving webrtc")
  BY <1>3 DEF UsableInv
<1>4. CASE switch'.at # "leaving webrtc" /\ active' = "none"
  BY <1>4 DEF UsableInv
<1>5. CASE switch'.at # "leaving webrtc" /\ active' = "webrtc" /\ webrtc' = 1
  BY <1>5 DEF UsableInv
<1> QED BY <1>1, <1>2, <1>3, <1>4, <1>5

LEMMA UsableKept ==
  ASSUME UsableInv, active' = active, webrtc' = webrtc, usb' = usb,
         dropWaits' = dropWaits, slipped' = slipped, NobodyLeaves' => NobodyLeaves,
         switch'.at \in {"none", "connecting usb"} => switch.at \in {"none", "connecting usb"},
         switch'.at = "leaving webrtc" => switch.at = "leaving webrtc" \/ UsbUsable
  PROVE  UsableInv'
<1>1. UsbUsable => UsbUsable'
  BY DEF UsbUsable
<1> QED BY <1>1 DEF UsableInv

-----------------------------------------------------------------------------
(* One lemma for each kind of step.  Frames: what the step leaves alone    *)
(* keeps its type.                                                         *)
HeldKept == UNCHANGED <<init, initPromise, orphan, handler>>
PollKept == UNCHANGED <<usbAvailable, pollTimer, poll>>

LEMMA HeldFrame ==
  ASSUME HeldTypes, LeavingInv, HeldKept
  PROVE  HeldTypes' /\ LeavingInv' /\ (NobodyLeaves' => NobodyLeaves)
BY DEF HeldTypes, LeavingInv, NobodyLeaves, HeldKept

LEMMA PollFrame == ASSUME PollTypes, PollKept PROVE PollTypes'
BY DEF PollTypes, PollKept

LEMMA ConnectsUsbStep == ASSUME TransportInv, SwitchConnectsUsb PROVE TransportInv'
<1>0. /\ UsbTypes /\ SwitchTypes /\ HeldTypes /\ PollTypes /\ BusTypes
      /\ SwitchInv /\ LeavingInv /\ UsableInv
  BY DEF TransportInv, ManagerTypes
<1>1. /\ HeldKept /\ PollKept /\ webrtc' = webrtc /\ plugged' = plugged /\ connState' = connState
      /\ switch.at = "connecting usb"
  BY DEF SwitchConnectsUsb, HeldKept, PollKept, heldVars, pollVars, busVars
<1>2. /\ HeldTypes' /\ LeavingInv' /\ PollTypes' /\ BusTypes' /\ (NobodyLeaves' => NobodyLeaves)
  BY <1>0, <1>1, HeldFrame, PollFrame DEF BusTypes
<1>3. 0 \in Bits /\ 1 \in Bits /\ "usb" \in TransportNames /\ active \in TransportNames
  BY <1>0 DEF Bits, TransportNames, SwitchTypes
<1>4. CASE UsbConnect(1) /\ slipped' = 0 /\ switch.current = "webrtc"
           /\ switch' = [switch EXCEPT !.at = "leaving webrtc"] /\ UNCHANGED <<active, dropWaits>>
  <2>1. UsbTypes' /\ UsbUsable'
    BY <1>0, <1>3, <1>4, UsbConnects
  <2>2. switch' \in SwitchRecords /\ switch'.at = "leaving webrtc" /\ switch'.target = "usb"
    BY <1>0, <1>1, <1>4 DEF SwitchTypes, SwitchRecords, SwitchInv
  <2>3. SwitchTypes' /\ SwitchInv'
    BY <1>0, <1>3, <1>4, <2>2 DEF SwitchTypes, SwitchInv
  <2>4. UsableInv'
    BY <2>1, <2>2, UsableNow
  <2> QED BY <1>2, <2>1, <2>3, <2>4 DEF TransportInv, ManagerTypes
<1>5. CASE UsbConnect(1) /\ slipped' = 0 /\ Settle(1, "usb")
  <2>1. UsbTypes' /\ UsbUsable'
    BY <1>0, <1>3, <1>5, UsbConnects
  <2>2. /\ switch' = NoSwitch /\ switch' \in SwitchRecords /\ switch'.at = "none"
        /\ dropWaits' = 0 /\ dropWaits' \in Bits /\ active' = "usb"
    BY <1>0, <1>3, <1>5, Settles DEF Bits
  <2>3. SwitchTypes' /\ SwitchInv'
    BY <1>3, <1>5, <2>2 DEF SwitchTypes, SwitchInv
  <2>4. UsableInv'
    BY <2>1, <2>2, UsableNow
  <2> QED BY <1>2, <2>1, <2>3, <2>4 DEF TransportInv, ManagerTypes
<1>6. CASE UsbConnect(0) /\ Settle(0, active) /\ slipped' = slipped
  <2>1. UsbTypes' /\ usb' = usb /\ relay' = relay
    BY <1>0, <1>3, <1>6, UsbConnects
  <2>2. /\ switch' = NoSwitch /\ switch' \in SwitchRecords /\ switch'.at = "none"
        /\ dropWaits' = 0 /\ dropWaits' \in Bits /\ active' \in TransportNames
        /\ active' = active \/ active' = "none"
        /\ dropWaits = 1 => active' = "none"
    BY <1>0, <1>3, <1>6, Settles
  <2>3. SwitchTypes' /\ SwitchInv'
    BY <1>0, <1>6, <2>2 DEF SwitchTypes, SwitchInv
  <2>4. UsableInv'
    <3>1. CASE active' = "none"
      BY <2>2, <3>1, UsableNow
    <3>2. CASE active' = active /\ dropWaits # 1
      <4>1. UsbUsable => UsbUsable'
        BY <2>1 DEF UsbUsable
      <4> QED BY <1>0, <1>1, <1>2, <1>6, <2>2, <3>2, <4>1 DEF UsableInv
    <3> QED BY <2>2, <3>1, <3>2
  <2> QED BY <1>2, <2>1, <2>3, <2>4 DEF TransportInv, ManagerTypes
<1> QED BY <1>4, <1>5, <1>6 DEF SwitchConnectsUsb

LEMMA LeavesWebRtcStep == ASSUME TransportInv, SwitchLeavesWebRtc PROVE TransportInv'
<1>0. /\ UsbTypes /\ SwitchTypes /\ HeldTypes /\ PollTypes /\ BusTypes
      /\ SwitchInv /\ LeavingInv /\ UsableInv
  BY DEF TransportInv, ManagerTypes
<1>1. /\ HeldKept /\ PollKept /\ webrtc' = 0 /\ plugged' = plugged /\ connState' = connState
      /\ usb' = usb /\ switch.at = "leaving webrtc"
  BY DEF SwitchLeavesWebRtc, HeldKept, PollKept, heldVars, pollVars, busVars
<1>2. HeldTypes' /\ LeavingInv' /\ PollTypes' /\ BusTypes'
  BY <1>0, <1>1, HeldFrame, PollFrame DEF BusTypes, Bits
<1>3. 0 \in Bits /\ 1 \in Bits /\ "usb" \in TransportNames /\ active \in TransportNames
  BY <1>0 DEF Bits, TransportNames, SwitchTypes
<1>4. CASE DocumentDisconnects /\ Settle(1, "usb")
           /\ slipped' = slipped
  <2>1. UsbTypes'
    BY <1>0, <1>1, <1>4 DEF UsbTypes, DocumentDisconnects
  <2>2. /\ switch' = NoSwitch /\ switch' \in SwitchRecords /\ switch'.at = "none"
        /\ dropWaits' = 0 /\ dropWaits' \in Bits /\ active' = "usb"
    BY <1>0, <1>3, <1>4, Settles DEF Bits
  <2>3. SwitchTypes' /\ SwitchInv'
    BY <1>0, <1>3, <1>4, <2>2 DEF SwitchTypes, SwitchInv
  <2>4. UsableInv'
    <3>1. CASE slipped # 0
      BY <1>4, <3>1, UsableNow
    <3>2. CASE slipped = 0
      <4>1. UsbUsable'
        BY <1>0, <1>1, <3>2 DEF UsableInv, UsbUsable
      <4> QED BY <2>2, <4>1, UsableNow
    <3> QED BY <3>1, <3>2
  <2> QED BY <1>2, <2>1, <2>3, <2>4 DEF TransportInv, ManagerTypes
<1>5. CASE Settle(0, active) /\ slipped' = 1 /\ relay' = relay
  <2>1. UsbTypes'
    BY <1>0, <1>1, <1>5 DEF UsbTypes
  <2>2. /\ switch' = NoSwitch /\ switch' \in SwitchRecords /\ switch'.at = "none"
        /\ dropWaits' = 0 /\ dropWaits' \in Bits /\ active' \in TransportNames
    BY <1>0, <1>3, <1>5, Settles
  <2>3. SwitchTypes' /\ SwitchInv'
    BY <1>0, <1>3, <1>5, <2>2 DEF SwitchTypes, SwitchInv
  <2>4. UsableInv'
    <3>1. slipped' # 0
      BY <1>5
    <3> QED BY <3>1, UsableNow
  <2> QED BY <1>2, <2>1, <2>3, <2>4 DEF TransportInv, ManagerTypes
<1> QED BY <1>4, <1>5 DEF SwitchLeavesWebRtc

LEMMA LeavesUsbStep == ASSUME TransportInv, SwitchLeavesUsb PROVE TransportInv'
<1>0. /\ UsbTypes /\ SwitchTypes /\ HeldTypes /\ PollTypes /\ BusTypes
      /\ SwitchInv /\ LeavingInv /\ UsableInv
  BY DEF TransportInv, ManagerTypes
<1>1. /\ HeldKept /\ PollKept /\ webrtc' = webrtc /\ plugged' = plugged /\ connState' = connState
      /\ usb' = NoUsb /\ active' = active
  BY DEF SwitchLeavesUsb, UsbCleanup, HeldKept, PollKept, heldVars, pollVars, busVars
<1>2. HeldTypes' /\ LeavingInv' /\ PollTypes' /\ BusTypes'
  BY <1>0, <1>1, HeldFrame, PollFrame DEF BusTypes
<1>3. UsbTypes'
  BY <1>0, <1>1, NoUsbRecord DEF UsbTypes, SwitchLeavesUsb, DocumentDisconnects
<1>4. CASE switch' = [switch EXCEPT !.at = "connecting webrtc"] /\ UNCHANGED <<dropWaits, slipped>>
  <2>1. switch' \in SwitchRecords /\ switch'.at = "connecting webrtc"
    BY <1>0, <1>4 DEF SwitchTypes, SwitchRecords
  <2>2. SwitchTypes' /\ SwitchInv'
    BY <1>0, <1>1, <1>4, <2>1 DEF SwitchTypes, SwitchInv
  <2>3. UsableInv'
    BY <2>1, UsableNow
  <2> QED BY <1>2, <1>3, <2>2, <2>3 DEF TransportInv, ManagerTypes
<1>5. CASE switch' = NoSwitch /\ dropWaits' = 0 /\ slipped' = 1
  <2>1. SwitchTypes' /\ SwitchInv'
    BY <1>0, <1>1, <1>5, NoSwitchRecord DEF SwitchTypes, SwitchInv, Bits
  <2>2. slipped' # 0
    BY <1>5
  <2>3. UsableInv'
    BY <2>2, UsableNow
  <2> QED BY <1>2, <1>3, <2>1, <2>3 DEF TransportInv, ManagerTypes
<1> QED BY <1>4, <1>5 DEF SwitchLeavesUsb

LEMMA ConnectsWebRtcStep == ASSUME TransportInv, SwitchConnectsWebRtc PROVE TransportInv'
<1>0. /\ UsbTypes /\ SwitchTypes /\ HeldTypes /\ PollTypes /\ BusTypes
      /\ SwitchInv /\ LeavingInv /\ UsableInv
  BY DEF TransportInv, ManagerTypes
<1>1. /\ HeldKept /\ PollKept /\ webrtc' \in {0, connState} /\ plugged' = plugged
      /\ connState' = connState /\ usb' = usb /\ relay' = relay
      /\ slipped' = 0 /\ Settle(webrtc', ConnectWebRtcWithRetry)
  BY DEF SwitchConnectsWebRtc, WebRtcConnect, HeldKept, PollKept, heldVars, pollVars, busVars
<1>2. HeldTypes' /\ LeavingInv' /\ PollTypes'
  BY <1>0, <1>1, HeldFrame, PollFrame
<1>3. UsbTypes' /\ BusTypes' /\ webrtc' \in Bits
  BY <1>0, <1>1 DEF UsbTypes, BusTypes, Bits
<1>4. /\ ConnectWebRtcWithRetry \in TransportNames
      /\ webrtc' = 1 \/ ConnectWebRtcWithRetry = "none"
      /\ ConnectWebRtcWithRetry \in {"webrtc", "none"}
  BY DEF ConnectWebRtcWithRetry, TransportNames
<1>5. /\ switch' = NoSwitch /\ switch' \in SwitchRecords /\ switch'.at = "none"
      /\ dropWaits' = 0 /\ dropWaits' \in Bits /\ active' \in TransportNames
      /\ active' = ConnectWebRtcWithRetry \/ active' = "none"
  BY <1>0, <1>1, <1>3, <1>4, Settles
<1>6. SwitchTypes' /\ SwitchInv'
  BY <1>1, <1>5 DEF SwitchTypes, SwitchInv, Bits
<1>7. UsableInv'
  BY <1>4, <1>5, UsableNow
<1> QED BY <1>2, <1>3, <1>6, <1>7 DEF TransportInv, ManagerTypes

(* Requests for a switch, and what drops.                                  *)
LEMMA SwitchToUsbStep ==
  ASSUME TransportInv, NEW available \in Bits, SwitchToUsb(available), HeldKept,
         UNCHANGED <<usb, webrtc, dropWaits, plugged, connState, relay, slipped>>, PollTypes'
  PROVE  TransportInv'
<1>0. /\ UsbTypes /\ SwitchTypes /\ HeldTypes /\ BusTypes
      /\ SwitchInv /\ LeavingInv /\ UsableInv
  BY DEF TransportInv, ManagerTypes
<1>1. HeldTypes' /\ LeavingInv' /\ UsbTypes' /\ BusTypes' /\ (NobodyLeaves' => NobodyLeaves)
  BY <1>0, HeldFrame DEF UsbTypes, BusTypes
<1>2. /\ switch' \in SwitchRecords
      /\ switch'.at = "none" => switch' = NoSwitch /\ ~Switching
      /\ switch'.at \in {"connecting usb", "leaving webrtc"} => switch'.target = "usb"
      /\ Switching => switch' = switch
      /\ switch'.at = "leaving webrtc" => switch.at = "leaving webrtc" \/ usb.device = 1
  BY <1>0, SwitchBegins DEF SwitchToUsb
<1>3. active' = active \/ (active' = "usb" /\ usb.device = 1)
  BY DEF SwitchToUsb
<1>4. SwitchTypes' /\ SwitchInv'
  <2>1. active' \in TransportNames
    BY <1>0, <1>3 DEF SwitchTypes, TransportNames
  <2>2. ~Switching => dropWaits = 0
    BY <1>0 DEF SwitchInv, Switching
  <2> QED BY <1>0, <1>2, <2>1, <2>2 DEF SwitchTypes, SwitchInv
<1>5. UsableInv'
  <2>1. CASE active' = "usb" /\ usb.device = 1
    <3>1. UsbUsable'
      BY <1>0, <2>1 DEF UsbTypes, UsbUsable
    <3> QED BY <2>1, <3>1, UsableNow
  <2>2. CASE active' = active
    <3>1. switch'.at \in {"none", "connecting usb"} => switch.at \in {"none", "connecting usb"}
      BY <1>2 DEF Switching
    <3>2. switch'.at = "leaving webrtc" => switch.at = "leaving webrtc" \/ UsbUsable
      BY <1>0, <1>2 DEF UsbTypes, UsbUsable
    <3> QED BY <1>0, <1>1, <2>2, <3>1, <3>2, UsableKept
  <2> QED BY <1>3, <2>1, <2>2
<1> QED BY <1>1, <1>4, <1>5 DEF TransportInv, ManagerTypes

LEMMA DeadStep == ASSUME TransportInv, TransportDead PROVE TransportInv'
<1>1. /\ SwitchToUsb(usbAvailable) /\ HeldKept /\ PollKept /\ usbAvailable \in Bits /\ PollTypes
      /\ UNCHANGED <<usb, webrtc, dropWaits, plugged, connState, relay, slipped>>
  BY DEF TransportDead, HeldKept, PollKept, heldVars, pollVars, busVars, TransportInv,
         ManagerTypes, PollTypes
<1> QED BY <1>1, PollFrame, SwitchToUsbStep

LEMMA ReadFailsStep == ASSUME TransportInv, UsbReadFails PROVE TransportInv'
<1>0. /\ UsbTypes /\ SwitchTypes /\ HeldTypes /\ PollTypes /\ BusTypes
      /\ SwitchInv /\ LeavingInv /\ UsableInv
  BY DEF TransportInv, ManagerTypes
<1>1. /\ HeldKept /\ PollKept /\ webrtc' = webrtc /\ plugged' = plugged /\ connState' = connState
      /\ usb' = NoUsb /\ relay' = relay /\ active' = active /\ dropWaits' = dropWaits
      /\ switch.at # "leaving usb"
      /\ slipped' = IF switch.target = "usb" THEN 1 ELSE slipped
  BY DEF UsbReadFails, UsbCleanup, HeldKept, PollKept, heldVars, pollVars, busVars
<1>2. /\ HeldTypes' /\ LeavingInv' /\ PollTypes' /\ BusTypes' /\ UsbTypes'
      /\ (NobodyLeaves' => NobodyLeaves)
  BY <1>0, <1>1, HeldFrame, PollFrame, NoUsbRecord DEF BusTypes, UsbTypes
<1>3. slipped' \in Bits
  BY <1>0, <1>1 DEF SwitchTypes, Bits
<1>4. CASE active = "usb"
  <2>1. /\ switch' \in SwitchRecords
        /\ switch'.at = "none" => switch' = NoSwitch /\ ~Switching
        /\ switch'.at \in {"connecting usb", "leaving webrtc"} => switch'.target = "usb"
        /\ Switching => switch' = switch
        /\ ~Switching => switch'.at = "leaving usb"
    BY <1>0, <1>4, SwitchBegins DEF UsbReadFails
  <2>2. SwitchTypes' /\ SwitchInv'
    <3>1. ~Switching => dropWaits = 0
      BY <1>0 DEF SwitchInv, Switching
    <3> QED BY <1>0, <1>1, <1>3, <2>1, <3>1 DEF SwitchTypes, SwitchInv
  <2>3. UsableInv'
    <3>1. CASE ~Switching
      BY <2>1, <3>1, UsableNow
    <3>2. CASE Switching /\ switch.at \in {"connecting usb", "leaving webrtc"}
      <4>1. slipped' = 1
        BY <1>0, <1>1, <3>2 DEF SwitchInv
      <4>2. slipped' # 0
        BY <4>1
      <4> QED BY <4>2, UsableNow
    <3>3. CASE Switching /\ switch.at = "connecting webrtc"
      BY <2>1, <3>3, UsableNow
    <3>4. switch.at \in {"none", "connecting usb", "leaving webrtc", "leaving usb",
                         "connecting webrtc"}
      BY <1>0 DEF SwitchTypes, SwitchRecords
    <3> QED BY <1>1, <3>1, <3>2, <3>3, <3>4 DEF Switching
  <2> QED BY <1>2, <2>2, <2>3 DEF TransportInv, ManagerTypes
<1>5. CASE active # "usb"
  <2>1. switch' = switch
    BY <1>5 DEF UsbReadFails
  <2>2. SwitchTypes' /\ SwitchInv'
    BY <1>0, <1>1, <1>3, <2>1 DEF SwitchTypes, SwitchInv
  <2>3. UsableInv'
    <3>1. CASE slipped' = slipped
      <4>1. switch.at = "leaving webrtc" => slipped' = 1
        BY <1>0, <1>1 DEF SwitchInv
      <4>2. slipped' = 1 => slipped' # 0
        OBVIOUS
      <4> QED BY <1>0, <1>1, <1>2, <1>5, <2>1, <3>1, <4>1, <4>2 DEF UsableInv
    <3>2. CASE slipped' = 1
      <4>1. slipped' # 0
        BY <3>2
      <4> QED BY <4>1, UsableNow
    <3> QED BY <1>1, <3>1, <3>2
  <2> QED BY <1>2, <2>2, <2>3 DEF TransportInv, ManagerTypes
<1> QED BY <1>4, <1>5

LEMMA DisconnectsStep == ASSUME TransportInv, WebRtcDisconnects PROVE TransportInv'
<1>0. /\ UsbTypes /\ SwitchTypes /\ HeldTypes /\ PollTypes /\ BusTypes
      /\ SwitchInv /\ LeavingInv /\ UsableInv
  BY DEF TransportInv, ManagerTypes
<1>1. /\ HeldKept /\ PollKept /\ webrtc' = 0 /\ plugged' = plugged /\ connState' = 0
      /\ usb' = usb /\ relay' = relay /\ slipped' = slipped
  BY DEF WebRtcDisconnects, HeldKept, PollKept, heldVars, pollVars
<1>2. /\ HeldTypes' /\ LeavingInv' /\ PollTypes' /\ BusTypes' /\ UsbTypes'
      /\ (NobodyLeaves' => NobodyLeaves)
  BY <1>0, <1>1, HeldFrame, PollFrame DEF BusTypes, UsbTypes, Bits
<1>3. CASE webrtc = 1 /\ active = "webrtc"
  <2>1. /\ switch' \in SwitchRecords
        /\ switch'.at = "none" => switch' = NoSwitch /\ ~Switching
        /\ switch'.at \in {"connecting usb", "leaving webrtc"} => switch'.target = "usb"
        /\ switch'.at = "leaving webrtc" => switch.at = "leaving webrtc" \/ usb.device = 1
    BY <1>0, <1>3, SwitchBegins DEF WebRtcDisconnects
  <2>2. CASE switch' # NoSwitch
    <3>1. dropWaits' = 1 /\ active' = active
      BY <1>3, <2>2 DEF WebRtcDisconnects
    <3>2. SwitchTypes' /\ SwitchInv'
      BY <1>0, <1>1, <2>1, <2>2, <3>1 DEF SwitchTypes, SwitchInv, Bits
    <3>3. UsableInv'
      BY <1>0, <1>1, <1>3, <2>1, <3>1 DEF UsableInv, UsbUsable, UsbTypes
    <3> QED BY <1>2, <3>2, <3>3 DEF TransportInv, ManagerTypes
  <2>3. CASE switch' = NoSwitch
    <3>1. active' = "none" /\ dropWaits' = dropWaits /\ ~Switching
      BY <1>3, <2>1, <2>3, NoSwitchRecord DEF WebRtcDisconnects
    <3>2. SwitchTypes' /\ SwitchInv'
      BY <1>0, <1>1, <2>1, <2>3, <3>1, NoSwitchRecord
         DEF SwitchTypes, SwitchInv, TransportNames, Switching
    <3>3. UsableInv'
      BY <2>3, <3>1, NoSwitchRecord, UsableNow
    <3> QED BY <1>2, <3>2, <3>3 DEF TransportInv, ManagerTypes
  <2> QED BY <2>2, <2>3
<1>4. CASE ~(webrtc = 1 /\ active = "webrtc")
  <2>1. UNCHANGED <<switch, active, dropWaits>>
    BY <1>4 DEF WebRtcDisconnects
  <2>2. SwitchTypes' /\ SwitchInv'
    BY <1>0, <1>1, <2>1 DEF SwitchTypes, SwitchInv
  <2>3. UsbUsable => UsbUsable'
    BY <1>1 DEF UsbUsable
  <2>4. UsableInv'
    BY <1>0, <1>1, <1>2, <1>4, <2>1, <2>3 DEF UsableInv
  <2> QED BY <1>2, <2>2, <2>4 DEF TransportInv, ManagerTypes
<1> QED BY <1>3, <1>4

(* Steps that touch none of what ActiveConnected speaks of, but the relay.    *)
LEMMA QuietStep ==
  ASSUME TransportInv, UNCHANGED <<active, usb, webrtc, switch, dropWaits, slipped>>,
         relay' = relay \/ relay' = "dead", HeldTypes', LeavingInv', NobodyLeaves' => NobodyLeaves,
         PollTypes', plugged' \in Bits, connState' \in Bits
  PROVE  TransportInv'
<1>1. UsbTypes' /\ SwitchTypes' /\ BusTypes' /\ SwitchInv'
  BY DEF TransportInv, ManagerTypes, UsbTypes, SwitchTypes, BusTypes, SwitchInv
<1>2. UsableInv'
  BY UsableKept DEF TransportInv
<1> QED BY <1>1, <1>2 DEF TransportInv, ManagerTypes

LEMMA BusStep ==
  ASSUME TransportInv, RelayFails \/ ConnectionState \/ Plug
  PROVE  TransportInv'
<1>0. HeldTypes /\ LeavingInv /\ PollTypes /\ plugged \in Bits /\ connState \in Bits
  BY DEF TransportInv, ManagerTypes, BusTypes
<1>1. /\ UNCHANGED <<active, usb, webrtc, switch, dropWaits, slipped>> /\ HeldKept /\ PollKept
      /\ relay' = relay \/ relay' = "dead"
  BY DEF RelayFails, ConnectionState, Plug, HeldKept, PollKept, heldVars, pollVars
<1>2. plugged' \in Bits /\ connState' \in Bits
  BY <1>0 DEF RelayFails, ConnectionState, Plug, busVars, Bits
<1>3. HeldTypes' /\ LeavingInv' /\ (NobodyLeaves' => NobodyLeaves) /\ PollTypes'
  BY <1>0, <1>1, HeldFrame, PollFrame
<1> QED BY <1>1, <1>2, <1>3, QuietStep

LEMMA ChecksUsb == CheckAvailability \in Bits
BY DEF CheckAvailability, Bits

(* initialize() and the poll.                                              *)
LEMMA UseStep ==
  ASSUME TransportInv, DeliverAttestedCode \/ InitChecks \/ OrphanInitEnds \/ PollBegins
  PROVE  TransportInv'
<1>0. HeldTypes /\ LeavingInv /\ PollTypes /\ plugged \in Bits /\ connState \in Bits
  BY DEF TransportInv, ManagerTypes, BusTypes
<1>1. /\ UNCHANGED <<active, usb, webrtc, switch, dropWaits, slipped, relay, plugged, connState>>
      /\ handler' = handler
  BY DEF DeliverAttestedCode, InitChecks, OrphanInitEnds, PollBegins, heldVars, busVars
<1>2. HeldTypes'
  BY <1>0, <1>1 DEF DeliverAttestedCode, UseTransport, InitChecks, OrphanInitEnds, PollBegins,
                    heldVars, HeldTypes, Bits
<1>3. PollTypes'
  BY <1>0, ChecksUsb DEF DeliverAttestedCode, InitChecks, OrphanInitEnds, PollBegins,
                         pollVars, PollTypes
<1>4. LeavingInv' /\ (NobodyLeaves' => NobodyLeaves)
  BY <1>0, <1>1 DEF LeavingInv, NobodyLeaves
<1> QED BY <1>0, <1>1, <1>2, <1>3, <1>4, QuietStep

LEMMA InitUsbStep == ASSUME TransportInv, InitConnectsUsb PROVE TransportInv'
<1>0. /\ UsbTypes /\ SwitchTypes /\ HeldTypes /\ PollTypes /\ BusTypes
      /\ SwitchInv /\ LeavingInv /\ UsableInv
  BY DEF TransportInv, ManagerTypes
<1>1. /\ UNCHANGED <<orphan, handler, webrtc, switch, dropWaits, usbAvailable, poll, slipped>>
      /\ plugged' = plugged /\ connState' = connState
  BY DEF InitConnectsUsb, busVars
<1>2. LeavingInv' /\ (NobodyLeaves' => NobodyLeaves) /\ BusTypes' /\ SwitchInv'
  BY <1>0, <1>1 DEF LeavingInv, NobodyLeaves, BusTypes, SwitchInv
<1>3. 0 \in Bits /\ 1 \in Bits /\ "usb" \in TransportNames
  BY DEF Bits, TransportNames
<1>4. CASE UsbConnect(1) /\ active' = "usb" /\ InitEnds
  <2>1. UsbTypes' /\ UsbUsable'
    BY <1>0, <1>3, <1>4, UsbConnects
  <2>2. HeldTypes' /\ PollTypes' /\ SwitchTypes'
    BY <1>0, <1>1, <1>3, <1>4 DEF InitEnds, HeldTypes, PollTypes, SwitchTypes
  <2>3. UsableInv'
    BY <1>4, <2>1, UsableNow
  <2> QED BY <1>2, <2>1, <2>2, <2>3 DEF TransportInv, ManagerTypes
<1>5. CASE UsbConnect(0) /\ init' = "connecting webrtc" /\ UNCHANGED <<active, pollTimer, initPromise>>
  <2>1. usb' = usb /\ relay' = relay
    BY <1>0, <1>3, <1>5, UsbConnects
  <2>2. HeldTypes' /\ PollTypes'
    BY <1>0, <1>1, <1>5 DEF HeldTypes, PollTypes
  <2>3. plugged' \in Bits /\ connState' \in Bits
    BY <1>0, <1>1 DEF BusTypes
  <2> QED BY <1>1, <1>2, <1>5, <2>1, <2>2, <2>3, QuietStep
<1> QED BY <1>4, <1>5 DEF InitConnectsUsb

LEMMA InitWebRtcStep == ASSUME TransportInv, InitConnectsWebRtc PROVE TransportInv'
<1>0. /\ UsbTypes /\ SwitchTypes /\ HeldTypes /\ PollTypes /\ BusTypes
      /\ SwitchInv /\ LeavingInv /\ UsableInv
  BY DEF TransportInv, ManagerTypes
<1>1. /\ UNCHANGED <<orphan, handler, usb, switch, dropWaits, usbAvailable, poll, slipped, relay>>
      /\ plugged' = plugged /\ connState' = connState /\ webrtc' \in {0, connState}
      /\ active' = ConnectWebRtcWithRetry /\ InitEnds
  BY DEF InitConnectsWebRtc, WebRtcConnect, busVars
<1>2. LeavingInv' /\ BusTypes' /\ SwitchInv' /\ UsbTypes'
  BY <1>0, <1>1 DEF LeavingInv, BusTypes, SwitchInv, UsbTypes, Bits
<1>3. active' \in TransportNames /\ (active' = "none" \/ (active' = "webrtc" /\ webrtc' = 1))
  BY <1>1 DEF ConnectWebRtcWithRetry, TransportNames
<1>4. HeldTypes' /\ PollTypes' /\ SwitchTypes'
  BY <1>0, <1>1, <1>3 DEF InitEnds, HeldTypes, PollTypes, SwitchTypes, Bits
<1>5. UsableInv'
  BY <1>0, <1>1, <1>3 DEF UsableInv, UsbUsable
<1> QED BY <1>2, <1>4, <1>5 DEF TransportInv, ManagerTypes

LEMMA PollEndsStep == ASSUME TransportInv, PollEnds PROVE TransportInv'
<1>0. /\ UsbTypes /\ SwitchTypes /\ HeldTypes /\ PollTypes /\ BusTypes
      /\ SwitchInv /\ LeavingInv /\ UsableInv
  BY DEF TransportInv, ManagerTypes
<1>1. /\ UNCHANGED <<usb, webrtc, dropWaits, plugged, connState, relay, slipped, pollTimer>>
      /\ HeldKept /\ poll' = "none" /\ usbAvailable' \in Bits
  BY ChecksUsb DEF PollEnds, HeldKept, heldVars, busVars
<1>2. PollTypes'
  BY <1>0, <1>1 DEF PollTypes
<1>3. CASE SwitchToUsb(1)
  <2>1. 1 \in Bits
    BY DEF Bits
  <2> QED BY <1>1, <1>2, <1>3, <2>1, SwitchToUsbStep
<1>4. CASE SwitchTransport("webrtc", 0) /\ active' = active /\ active = "usb"
  <2>1. HeldTypes' /\ LeavingInv' /\ UsbTypes' /\ BusTypes' /\ (NobodyLeaves' => NobodyLeaves)
    BY <1>0, <1>1, HeldFrame DEF UsbTypes, BusTypes
  <2>2. /\ switch' \in SwitchRecords
        /\ switch'.at = "none" => switch' = NoSwitch /\ ~Switching
        /\ switch'.at \in {"connecting usb", "leaving webrtc"} => switch'.target = "usb"
        /\ Switching => switch' = switch
        /\ ~Switching => switch'.at = "leaving usb"
    BY <1>0, <1>4, SwitchBegins
  <2>3. ~Switching => dropWaits = 0
    BY <1>0 DEF SwitchInv, Switching
  <2>4. SwitchTypes' /\ SwitchInv'
    BY <1>0, <1>1, <1>4, <2>2, <2>3 DEF SwitchTypes, SwitchInv
  <2>5. UsableInv'
    <3>1. CASE ~Switching
      BY <2>2, <3>1, UsableNow
    <3>2. CASE Switching
      BY <1>0, <1>1, <1>4, <2>1, <2>2, <3>2, UsableKept
    <3> QED BY <3>1, <3>2
  <2> QED BY <1>2, <2>1, <2>4, <2>5 DEF TransportInv, ManagerTypes
<1>5. CASE UNCHANGED <<switch, active>>
  <2>1. HeldTypes' /\ LeavingInv' /\ (NobodyLeaves' => NobodyLeaves)
    BY <1>0, <1>1, HeldFrame
  <2>2. plugged' \in Bits /\ connState' \in Bits
    BY <1>0, <1>1 DEF BusTypes
  <2> QED BY <1>1, <1>2, <1>5, <2>1, <2>2, QuietStep
<1> QED BY <1>3, <1>4, <1>5 DEF PollEnds

(* The calls that replace the manager.                                     *)
LEMMA DestroyStep ==
  ASSUME TransportInv, SwitchDevice \/ RevokeDevice \/ DeviceActivated
  PROVE  TransportInv'
<1>0. HeldTypes /\ LeavingInv /\ PollTypes /\ plugged \in Bits /\ connState \in Bits
      /\ active \in TransportNames
  BY DEF TransportInv, ManagerTypes, BusTypes, SwitchTypes
<1>1. /\ UNCHANGED <<active, usb, webrtc, switch, dropWaits, slipped, relay, plugged, connState,
                     orphan, usbAvailable, poll>>
  BY DEF SwitchDevice, RevokeDevice, DeviceActivated, busVars, pollVars
<1>2. PollTypes'
  BY <1>0, <1>1 DEF SwitchDevice, RevokeDevice, DeviceActivated, Destroy, pollVars, PollTypes, Bits
<1>3. /\ init' \in {"none", "checking", "connecting usb", "connecting webrtc", "done"}
      /\ initPromise' \in Bits /\ orphan' \in Bits
  BY <1>0, <1>1 DEF SwitchDevice, RevokeDevice, DeviceActivated, UseTransport, HeldTypes, Bits
<1>4. /\ handler' \in [Handlers -> CallRecords] /\ LeavingInv'
      /\ NobodyLeaves' => NobodyLeaves
  <2>0. handler \in [Handlers -> CallRecords] /\ "switch" \in Handlers /\ "revoke" \in Handlers
    BY <1>0 DEF HeldTypes, Handlers
  <2>1. ASSUME NEW h \in Handlers, handler[h] = NoCall, NEW c \in CallRecords,
               c.at # "destroying" => c.leaving = "none", handler' = [handler EXCEPT ![h] = c]
        PROVE  /\ handler' \in [Handlers -> CallRecords] /\ LeavingInv'
               /\ NobodyLeaves' => NobodyLeaves
    <3>1. /\ handler' \in [Handlers -> CallRecords] /\ handler'[h] = c
          /\ \A g \in Handlers \ {h} : handler'[g] = handler[g]
      BY <2>0, <2>1
    <3> QED BY <1>0, <2>1, <3>1, NoCallRecord DEF LeavingInv, NobodyLeaves
  <2>2. ASSUME NEW h \in Handlers, handler[h] = NoCall, Destroy(h)
        PROVE  /\ handler' \in [Handlers -> CallRecords] /\ LeavingInv'
               /\ NobodyLeaves' => NobodyLeaves
    <3> DEFINE c == [at |-> "destroying", leaving |-> active]
    <3>1. c \in CallRecords /\ c.at = "destroying"
      BY <1>0 DEF CallRecords
    <3>2. handler' = [handler EXCEPT ![h] = c]
      BY <2>2 DEF Destroy
    <3> HIDE DEF c
    <3> QED BY <2>1, <2>2, <3>1, <3>2
  <2>3. CASE SwitchDevice /\ init = "none"
    <3> DEFINE c == [handler["switch"] EXCEPT !.at = "activating"]
    <3>1. handler["switch"] = NoCall /\ handler' = [handler EXCEPT !["switch"] = c]
      BY <2>0, <2>3 DEF SwitchDevice, MayCall
    <3>2. c \in CallRecords /\ c.leaving = "none"
      BY <2>0, <3>1, NoCallRecord DEF CallRecords
    <3> HIDE DEF c
    <3> QED BY <2>0, <2>1, <3>1, <3>2
  <2>4. CASE SwitchDevice /\ init # "none"
    BY <2>0, <2>2, <2>4 DEF SwitchDevice, MayCall
  <2>5. CASE RevokeDevice
    BY <2>0, <2>2, <2>5 DEF RevokeDevice, MayCall
  <2>6. CASE DeviceActivated
    <3>1. /\ handler["switch"].at = "activating" /\ handler' = [handler EXCEPT !["switch"] = NoCall]
          /\ NoCall \in CallRecords /\ NoCall.leaving = "none"
      BY <2>6, NoCallRecord DEF DeviceActivated
    <3>2. handler["switch"].leaving = "none"
      BY <1>0, <2>0, <3>1 DEF LeavingInv
    <3>3. /\ handler' \in [Handlers -> CallRecords] /\ handler'["switch"] = NoCall
          /\ \A g \in Handlers \ {"switch"} : handler'[g] = handler[g]
      BY <2>0, <3>1
    <3> QED BY <1>0, <3>1, <3>2, <3>3 DEF LeavingInv, NobodyLeaves
  <2> QED BY <2>3, <2>4, <2>5, <2>6
<1>5. HeldTypes'
  BY <1>3, <1>4 DEF HeldTypes
<1> QED BY <1>0, <1>1, <1>2, <1>4, <1>5, QuietStep

LEMMA DropStep ==
  ASSUME TransportInv, NEW h \in Handlers, DestroyEnds(h)
  PROVE  TransportInv'
<1>0. UsbTypes /\ HeldTypes /\ BusTypes /\ LeavingInv
  BY DEF TransportInv, ManagerTypes
<1>1. /\ init' = "none" /\ initPromise' = 0 /\ active' = "none" /\ usb' = NoUsb /\ webrtc' = 0
      /\ orphan' \in {orphan, 1}
      /\ usbAvailable' = 0 /\ switch' = NoSwitch /\ dropWaits' = 0 /\ pollTimer' = 0
      /\ poll' = "none" /\ slipped' = 0 /\ plugged' = plugged /\ connState' = connState
  BY DEF DestroyEnds, Drop, busVars
<1>2. SwitchTypes' /\ PollTypes' /\ BusTypes' /\ SwitchInv'
  BY <1>0, <1>1, NoSwitchRecord
     DEF SwitchTypes, PollTypes, BusTypes, SwitchInv, Bits, TransportNames
<1>3. UsbTypes'
  BY <1>0, <1>1, NoUsbRecord DEF UsbTypes, DestroyEnds, DocumentDisconnects
<1>4. handler' \in [Handlers -> CallRecords] /\ LeavingInv'
  <2>1. handler' = [g \in Handlers |->
          IF g = h THEN [NoCall EXCEPT !.at = IF h = "switch" THEN "activating" ELSE "none"]
          ELSE [handler[g] EXCEPT !.leaving = "none"]]
    BY DEF DestroyEnds
  <2>2. ASSUME NEW g \in Handlers
        PROVE  handler'[g] \in CallRecords /\ handler'[g].leaving = "none"
    <3>1. CASE g = h
      BY <2>1, <3>1, NoCallRecord DEF CallRecords
    <3>2. CASE g # h
      BY <1>0, <2>1, <3>2 DEF HeldTypes, CallRecords, TransportNames
    <3> QED BY <3>1, <3>2
  <2> QED BY <2>1, <2>2 DEF LeavingInv
<1>5. HeldTypes'
  BY <1>0, <1>1, <1>4 DEF HeldTypes, Bits
<1>6. UsableInv'
  BY <1>1, NoSwitchRecord, UsableNow
<1> QED BY <1>2, <1>3, <1>4, <1>5, <1>6 DEF TransportInv, ManagerTypes

LEMMA TransportStutters == ASSUME TransportInv, UNCHANGED transportVars PROVE TransportInv'
<1>0. HeldTypes /\ LeavingInv /\ PollTypes /\ plugged \in Bits /\ connState \in Bits
  BY DEF TransportInv, ManagerTypes, BusTypes
<1>1. /\ UNCHANGED <<active, usb, webrtc, switch, dropWaits, slipped, relay, plugged, connState>>
      /\ HeldKept /\ PollKept
  BY DEF transportVars, heldVars, pollVars, busVars, HeldKept, PollKept
<1>2. HeldTypes' /\ LeavingInv' /\ (NobodyLeaves' => NobodyLeaves) /\ PollTypes'
  BY <1>0, <1>1, HeldFrame, PollFrame
<1> QED BY <1>0, <1>1, <1>2, QuietStep

LEMMA TransportInvariant == TransportSpec => []TransportInv
<1>1. TransportInv /\ [TransportNext]_transportVars => TransportInv'
  <2> SUFFICES ASSUME TransportInv, [TransportNext]_transportVars PROVE TransportInv'
    OBVIOUS
  <2>1. CASE SwitchConnectsUsb \/ SwitchLeavesWebRtc \/ SwitchLeavesUsb \/ SwitchConnectsWebRtc
    BY <2>1, ConnectsUsbStep, LeavesWebRtcStep, LeavesUsbStep, ConnectsWebRtcStep
  <2>2. CASE TransportDead \/ UsbReadFails \/ WebRtcDisconnects
    BY <2>2, DeadStep, ReadFailsStep, DisconnectsStep
  <2>3. CASE ConnectionState \/ Plug \/ RelayFails
    BY <2>3, BusStep
  <2>4. CASE DeliverAttestedCode \/ InitChecks \/ OrphanInitEnds \/ PollBegins
    BY <2>4, UseStep
  <2>5. CASE InitConnectsUsb \/ InitConnectsWebRtc \/ PollEnds
    BY <2>5, InitUsbStep, InitWebRtcStep, PollEndsStep
  <2>6. CASE SwitchDevice \/ RevokeDevice \/ DeviceActivated
    BY <2>6, DestroyStep
  <2>7. CASE \E h \in Handlers : DestroyEnds(h)
    BY <2>7, DropStep
  <2>8. CASE UNCHANGED transportVars
    BY <2>8, TransportStutters
  <2> QED BY <2>1, <2>2, <2>3, <2>4, <2>5, <2>6, <2>7, <2>8 DEF TransportNext
<1> QED BY <1>1, TransportInitInv, PTL DEF TransportSpec

(* Every variable of the transport manager keeps its type, and a USB       *)
(* handle is a connection.                                                 *)
THEOREM TransportTyped == TransportSpec => []TransportTypeOK
<1>1. TransportInv => TransportTypeOK
  BY ManagerTyped DEF TransportInv
<1> QED BY <1>1, TransportInvariant, PTL

(* With no switch and no destroy() in progress the transport the manager   *)
(* is on takes itself for connected, whatever dropped, was polled, joined  *)
(* or replaced, but after a switch cut short by a failing message or the   *)
(* loss of its new handle: in every behaviour of any length.               *)
THEOREM OnConnectedTransport == TransportSpec => []ActiveConnected
<1>1. TransportInv => ActiveConnected
  <2> SUFFICES ASSUME TransportInv PROVE ActiveConnected
    OBVIOUS
  <2>1. ~Switching => switch.at = "none" /\ dropWaits = 0
    BY DEF TransportInv, SwitchInv, Switching
  <2>2. dropWaits = 0 => dropWaits # 1
    OBVIOUS
  <2> QED BY <2>1, <2>2 DEF TransportInv, UsableInv, NobodyLeaves, NoDestroy, ActiveConnected, UsbUsable
<1> QED BY <1>1, TransportInvariant, PTL

-----------------------------------------------------------------------------
(* BackgroundHandlers *)

(* A step of one part is a step of it and leaves the others alone.         *)
LEMMA PartSteps ==
  [HandlersNext]_handlersVars =>
    /\ [ReplayNext]_replayVars /\ [AssertionNext]_assertionVars /\ [TransportNext]_transportVars
    /\ [Next]_vars /\ [AttestationNext]_attestationVars
<1>1. HandlersNext =>
        /\ [ReplayNext]_replayVars /\ [AssertionNext]_assertionVars /\ [TransportNext]_transportVars
        /\ [Next]_vars /\ [AttestationNext]_attestationVars
  BY DEF HandlersNext
<1>2. UNCHANGED handlersVars =>
        UNCHANGED <<replayVars, assertionVars, transportVars, vars, attestationVars>>
  BY DEF handlersVars
<1> QED BY <1>1, <1>2

(* Each part keeps to its own specification.                               *)
LEMMA PartsImplemented ==
  HandlersSpec => ReplaySpec /\ AssertionSpec /\ TransportSpec /\ Spec /\ AttestationSpec
<1>1. HandlersInit => ReplayInit /\ AssertionInit /\ TransportInit /\ Init /\ AttestationInit
  BY DEF HandlersInit
<1> QED BY <1>1, PartSteps, PTL
        DEF HandlersSpec, ReplaySpec, AssertionSpec, TransportSpec, Spec, AttestationSpec

(* The types of the five parts hold throughout.                            *)
THEOREM HandlersTyped == HandlersSpec => []TypesOK
<1>1. ReplayTypeOK /\ AssertionTypeOK /\ TransportTypeOK /\ TypeOK /\ AttestationTypeOK => TypesOK
  BY DEF TypesOK
<1> QED BY <1>1, PartsImplemented, ReplayTyped, AssertionTyped, TransportTyped, ApprovalTyped,
           AttestationTyped, PTL
=============================================================================
