--------------------------- MODULE ContentScripts ---------------------------
(* Which domains the user lets credentials be filled in on: the content    *)
(* script that looks for login forms, the popup's prompt and settings, the *)
(* handlers of domain-approved, domain-denied, check-domain-approved,      *)
(* login-form-detected-unapproved and detect-login-form, and               *)
(* contentScriptManager.ts behind them.                                    *)
(*                                                                         *)
(* A handler runs from await to await; the lists it keeps are read in one  *)
(* step and written in a later one.  Forms, selectors, times and the badge *)
(* are left out; so is unregisterForDomain, which nobody calls.            *)
EXTENDS Integers, FiniteSets

CONSTANTS
  Domains,
  Requests,     \* calls of handlers that may overlap
  MaxRequests   \* bound: calls of handlers there are

ASSUME RequestsAssumption == MaxRequests \in Nat

VARIABLES
  approvedDomains,  \* storage.sync
  scripts,          \* content scripts registered with Chrome
  lacking,          \* history: domains an update of the extension dropped the
                    \* script of, or sync listed here, not registered since
  pendingDomains, deniedDomains,  \* storage.session
  registerLock,
  request,          \* the handlers in progress: what they await and have read
  offered,          \* pendingDomains of the popup's store
  site,             \* the content script in a page of the domain
  limited,          \* credentialRateLimiter: domains within their window
  arrived,          \* calls so far
  revoked           \* history: domains whose Revoke was last
                    \* answered with success

listVars == <<approvedDomains, scripts, lacking>>
promptVars == <<pendingDomains, deniedDomains, offered>>
pageVars == <<site, limited>>
vars == <<listVars, promptVars, pageVars, registerLock, request, revoked, arrived>>

Free == [op |-> "none", domain |-> "none", at |-> "none", read |-> {}]

Init ==
  /\ approvedDomains = {} /\ scripts = {} /\ lacking = {}
  /\ pendingDomains = {} /\ deniedDomains = {} /\ offered = {}
  /\ registerLock = {} /\ request = [r \in Requests |-> Free]
  /\ site = [d \in Domains |-> "none"] /\ limited = {}
  /\ revoked = {} /\ arrived = 0

(* A message arrives; the handler that serves it runs to its first await.  *)
Arrives(r, op, d, at) ==
  /\ request[r] = Free
  /\ arrived < MaxRequests /\ arrived' = arrived + 1
  /\ request' = [request EXCEPT ![r] = [op |-> op, domain |-> d, at |-> at, read |-> {}]]
At(r, at) == request[r].at = at
Awaits(r, at, read) == request' = [request EXCEPT ![r].at = at, ![r].read = read]
Ends(r) == request' = [request EXCEPT ![r] = Free]

-----------------------------------------------------------------------------
(* content/index.ts *)

(* check-domain-approved, answered by isDomainApproved; no answer in time  *)
(* counts as not approved.                                                 *)
IsDomainApproved(d) == IF d \in approvedDomains THEN "approved" ELSE "unapproved"
CheckDynamicApproval(d) == {IsDomainApproved(d), "unapproved"}

(* A page is loaded, or its location changes.                              *)
PageLoads(d) ==
  /\ \E approval \in CheckDynamicApproval(d) : site' = [site EXCEPT ![d] = approval]
  /\ UNCHANGED <<listVars, promptVars, limited, registerLock, request, revoked, arrived>>
LocationChanges(d) ==
  /\ site[d] # "none"
  /\ \E approval \in CheckDynamicApproval(d) : site' = [site EXCEPT ![d] = approval]
  /\ UNCHANGED <<listVars, promptVars, limited, registerLock, request, revoked, arrived>>

(* emitLoginForm: for an approved domain detect-login-form, which asks the *)
(* phone unless it has just done so.  A form may be reported twice.        *)
DetectLoginForm(d) ==
  /\ site[d] = "approved"
  /\ d \notin limited /\ limited' = limited \cup {d}
  /\ UNCHANGED <<listVars, promptVars, site, registerLock, request, revoked, arrived>>
RateLimitExpires(d) ==
  /\ d \in limited /\ limited' = limited \ {d}
  /\ UNCHANGED <<listVars, promptVars, site, registerLock, request, revoked, arrived>>
EmitUnapproved(r, d) ==
  /\ site[d] = "unapproved"
  /\ Arrives(r, "detect", d, "denied?")
  /\ UNCHANGED <<listVars, promptVars, pageVars, registerLock, revoked>>

-----------------------------------------------------------------------------
(* The popup *)

(* App.tsx: without an answer the popup shows none.                        *)
PopupLoads ==
  /\ offered' \in {pendingDomains, {}}
  /\ UNCHANGED <<listVars, pendingDomains, deniedDomains, pageVars, registerLock, request,
                 revoked, arrived>>

(* The prompt's buttons stay enabled while they are served.                *)
HandleAllow(r, d) ==
  /\ d \in offered
  /\ Arrives(r, "allow", d, "hash")
  /\ revoked' = revoked \ {d}
  /\ UNCHANGED <<listVars, promptVars, pageVars, registerLock>>
HandleDeny(r, d) ==
  /\ d \in offered
  /\ Arrives(r, "deny", d, "add denied?")
  /\ UNCHANGED <<listVars, promptVars, pageVars, registerLock, revoked>>
(* The settings' Revoke sends domain-denied.                               *)
HandleRevoke(r, d) ==
  /\ d \in approvedDomains
  /\ Arrives(r, "revoke", d, "add denied?")
  /\ UNCHANGED <<listVars, promptVars, pageVars, registerLock, revoked>>

(* Success: the prompt drops the domain, the settings list it no more.     *)
Answered(r) ==
  /\ Ends(r)
  /\ offered' = IF request[r].op \in {"allow", "deny"} THEN offered \ {request[r].domain}
                ELSE offered
  /\ revoked' = IF request[r].op = "revoke" THEN revoked \cup {request[r].domain} ELSE revoked

-----------------------------------------------------------------------------
(* registerForDomain *)

(* Variant: the lock was looked up before the hash was computed.           *)
Hashed_LockLookedUpBefore(r) ==
  /\ At(r, "hash")
  /\ registerLock' = registerLock \cup {request[r].domain} /\ Awaits(r, "list?", {})
  /\ UNCHANGED <<listVars, promptVars, pageVars, revoked, arrived>>

(* The hash is there; the lock is looked up and, if free, taken.           *)
Hashed(r) ==
  /\ At(r, "hash")
  /\ IF request[r].domain \in registerLock
     THEN Awaits(r, "lock", {}) /\ UNCHANGED registerLock
     ELSE registerLock' = registerLock \cup {request[r].domain} /\ Awaits(r, "list?", {})
  /\ UNCHANGED <<listVars, promptVars, pageVars, revoked, arrived>>

(* The registration is over and the lock is deleted.  Who waited for it    *)
(* goes on as if it had succeeded; who ran it, only if it did.             *)
Registered(r, ok) ==
  LET d == request[r].domain IN
  /\ registerLock' = registerLock \ {d}
  /\ request' = [q \in Requests |->
       IF q = r THEN IF ok = 1 THEN [request[r] EXCEPT !.at = "unpend?", !.read = {}] ELSE Free
       ELSE IF request[q].domain = d /\ request[q].at = "lock"
       THEN [request[q] EXCEPT !.at = "unpend?"] ELSE request[q]]

(* A domain on the list counts as registered, whoever listed it.           *)
GetsApproved(r) ==
  /\ At(r, "list?")
  /\ \/ request[r].domain \in approvedDomains /\ Registered(r, 1)
     \/ /\ request[r].domain \notin approvedDomains
        /\ Awaits(r, "register", approvedDomains) /\ UNCHANGED registerLock
     \/ Registered(r, 0)
  /\ UNCHANGED <<listVars, promptVars, pageVars, revoked, arrived>>

(* Variant: a registration that failed is logged and its domain listed.    *)
RegistersScript_FailureIgnored(r) ==
  /\ At(r, "register")
  /\ Awaits(r, "list!", request[r].read)
  /\ \/ scripts' = scripts \cup {request[r].domain} /\ lacking' = lacking \ {request[r].domain}
     \/ UNCHANGED <<scripts, lacking>>
  /\ UNCHANGED <<approvedDomains, promptVars, pageVars, registerLock, revoked, arrived>>

(* That a script is there already counts as registering it.                *)
RegistersScript(r) ==
  /\ At(r, "register")
  /\ \/ /\ scripts' = scripts \cup {request[r].domain}
        /\ lacking' = lacking \ {request[r].domain}
        /\ Awaits(r, "list!", request[r].read) /\ UNCHANGED registerLock
     \/ Registered(r, 0) /\ UNCHANGED <<scripts, lacking>>
  /\ UNCHANGED <<approvedDomains, promptVars, pageVars, revoked, arrived>>

(* The list that was read, with the domain.                                *)
ListsApproved(r) ==
  /\ At(r, "list!")
  /\ \/ approvedDomains' = request[r].read \cup {request[r].domain} /\ Registered(r, 1)
     \/ Registered(r, 0) /\ UNCHANGED approvedDomains
  /\ UNCHANGED <<scripts, lacking, promptVars, pageVars, revoked, arrived>>

-----------------------------------------------------------------------------
(* The lists of the session *)

IsDomainDenied(r) ==
  /\ At(r, "denied?")
  /\ IF request[r].domain \in deniedDomains THEN Ends(r) ELSE Awaits(r, "pend?", {})
  /\ UNCHANGED <<listVars, promptVars, pageVars, registerLock, revoked, arrived>>

AddPendingReads(r) ==
  /\ At(r, "pend?")
  /\ IF request[r].domain \in pendingDomains THEN Ends(r) ELSE Awaits(r, "pend!", pendingDomains)
  /\ UNCHANGED <<listVars, promptVars, pageVars, registerLock, revoked, arrived>>
AddPendingWrites(r) ==
  /\ At(r, "pend!")
  /\ pendingDomains' = request[r].read \cup {request[r].domain} /\ Ends(r)
  /\ UNCHANGED <<listVars, deniedDomains, offered, pageVars, registerLock, revoked, arrived>>

AddDeniedReads(r) ==
  /\ At(r, "add denied?")
  /\ IF request[r].domain \in deniedDomains THEN Awaits(r, "unpend?", {})
     ELSE Awaits(r, "add denied!", deniedDomains)
  /\ UNCHANGED <<listVars, promptVars, pageVars, registerLock, revoked, arrived>>
AddDeniedWrites(r) ==
  /\ At(r, "add denied!")
  /\ deniedDomains' = request[r].read \cup {request[r].domain} /\ Awaits(r, "unpend?", {})
  /\ UNCHANGED <<listVars, pendingDomains, offered, pageVars, registerLock, revoked, arrived>>

RemovePendingReads(r) ==
  /\ At(r, "unpend?")
  /\ Awaits(r, "unpend!", pendingDomains)
  /\ UNCHANGED <<listVars, promptVars, pageVars, registerLock, revoked, arrived>>
RemovePendingWrites(r) ==
  /\ At(r, "unpend!")
  /\ pendingDomains' = request[r].read \ {request[r].domain}
  /\ Answered(r)
  /\ UNCHANGED <<listVars, deniedDomains, pageVars, registerLock, arrived>>

(* An access to the session's lists, or the list's at the start, fails and *)
(* ends the handler with an error.                                         *)
AccessFails(r) ==
  /\ request[r].at \in {"denied?", "pend?", "pend!", "add denied?", "add denied!", "unpend?",
                        "unpend!", "start"}
  /\ Ends(r)
  /\ UNCHANGED <<listVars, promptVars, pageVars, registerLock, revoked, arrived>>

-----------------------------------------------------------------------------
(* Lifetimes *)

(* Chrome sync brings the list another browser has written, as a whole.    *)
(* Nobody listens to storage.onChanged, so no script comes or goes.        *)
SyncArrives(list) ==
  /\ approvedDomains' = list
  /\ lacking' = lacking \cup (list \ scripts)
  /\ revoked' = revoked \ (list \ approvedDomains)
  /\ UNCHANGED <<scripts, promptVars, pageVars, registerLock, request, arrived>>

(* What a worker has in memory is lost; it may start with a message, and   *)
(* then reRegisterOnStartup does not run.                                  *)
Forgotten(starting) ==
  /\ registerLock' = {} /\ limited' = {}
  /\ request' = [r \in Requests |->
       IF r \in starting THEN [Free EXCEPT !.op = "start", !.at = "start"] ELSE Free]
WorkerRestarts ==
  /\ Forgotten({})
  /\ UNCHANGED <<listVars, promptVars, site, revoked, arrived>>

(* The browser starts: onStartup; or the extension is updated, which drops *)
(* its scripts: onInstalled.  Pages and popup are gone.                    *)
BrowserStarts(update) ==
  /\ \E r \in Requests : Forgotten({r})
  /\ pendingDomains' = {} /\ deniedDomains' = {} /\ offered' = {}
  /\ site' = [d \in Domains |-> "none"]
  /\ scripts' = IF update = 1 THEN {} ELSE scripts
  /\ lacking' = IF update = 1 THEN lacking \cup scripts ELSE lacking
  /\ UNCHANGED <<approvedDomains, revoked, arrived>>

(* reRegisterOnStartup: the list is read, then every script is registered, *)
(* or is there, or fails, in any order.                                    *)
ReRegisterReads(r) ==
  /\ At(r, "start")
  /\ IF approvedDomains = {} THEN Ends(r) ELSE Awaits(r, "re-register", approvedDomains)
  /\ UNCHANGED <<listVars, promptVars, pageVars, registerLock, revoked, arrived>>
ReRegisters(r, d) ==
  /\ At(r, "re-register") /\ d \in request[r].read
  /\ \/ scripts' = scripts \cup {d} /\ lacking' = lacking \ {d}
     \/ d \notin scripts /\ UNCHANGED <<scripts, lacking>>
  /\ IF request[r].read = {d} THEN Ends(r) ELSE Awaits(r, "re-register", request[r].read \ {d})
  /\ UNCHANGED <<approvedDomains, promptVars, pageVars, registerLock, revoked, arrived>>

Next ==
  \/ \E d \in Domains :
       PageLoads(d) \/ LocationChanges(d) \/ DetectLoginForm(d) \/ RateLimitExpires(d)
  \/ PopupLoads
  \/ \E r \in Requests, d \in Domains :
       \/ EmitUnapproved(r, d) \/ HandleAllow(r, d) \/ HandleDeny(r, d) \/ HandleRevoke(r, d)
       \/ ReRegisters(r, d)
  \/ \E r \in Requests :
       \/ Hashed(r) \/ GetsApproved(r) \/ RegistersScript(r) \/ ListsApproved(r)
       \/ IsDomainDenied(r) \/ AddPendingReads(r) \/ AddPendingWrites(r)
       \/ AddDeniedReads(r) \/ AddDeniedWrites(r) \/ RemovePendingReads(r) \/ RemovePendingWrites(r)
       \/ ReRegisterReads(r) \/ AccessFails(r)
  \/ \E list \in SUBSET Domains : SyncArrives(list)
  \/ WorkerRestarts \/ BrowserStarts(0) \/ BrowserStarts(1)

Spec == Init /\ [][Next]_vars

-----------------------------------------------------------------------------
TypeOK ==
  /\ arrived \in 0..MaxRequests
  /\ \A s \in {approvedDomains, scripts, lacking, pendingDomains, deniedDomains, offered,
               registerLock, limited, revoked} : s \in SUBSET Domains
  /\ site \in [Domains -> {"none", "approved", "unapproved"}]
  /\ \A r \in Requests :
       /\ request[r].at \in {"none", "hash", "lock", "list?", "register", "list!", "denied?",
                             "pend?", "pend!", "add denied?", "add denied!", "unpend?",
                             "unpend!", "start", "re-register"}
       /\ request[r].read \in SUBSET Domains

(* The script is registered first and the domain listed last, in handlers  *)
(* that overlap, fail at either call or are cut short by a restart: every  *)
(* domain on the list has its script, unless an update of the extension    *)
(* dropped it or another browser listed it, and it has not been registered *)
(* here since.                                                             *)
ApprovedHasScript == approvedDomains \subseteq scripts \cup lacking

(* The prompt's buttons stay enabled, so a domain may be allowed twice at  *)
(* once; and the lock is looked up only after an await.  Still at most one *)
(* call at a time registers a domain.                                      *)
RegistrationExclusive ==
  \A d \in Domains :
    Cardinality({r \in Requests : request[r].domain = d
                                  /\ request[r].at \in {"list?", "register", "list!"}}) <= 1

(* What the specification of the settings panel says of Revoke: the script *)
(* is unregistered and the domain removed from the list.                   *)
RevokedGone == revoked \cap (approvedDomains \cup scripts) = {}
=============================================================================
