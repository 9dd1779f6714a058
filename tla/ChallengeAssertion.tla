------------------------- MODULE ChallengeAssertion -------------------------
(* Challenge-bound authentication: the popup's AuthPanel, the handlers of  *)
(* begin-challenge-assertion and assertion-complete with the lock          *)
(* authInProgress, and the auth.html pages in mode challenge-assert.       *)
(*                                                                         *)
(* A handler runs from await to await.  Challenge, proof and assertion are *)
(* data; the user, WebAuthn and the transport answer in any way, and the   *)
(* transport, which no timer watches, perhaps never.                       *)
EXTENDS Integers

CONSTANTS Tabs,  \* auth.html tabs
          None

ASSUME TabsAssumption == None \notin Tabs

VARIABLES
  status,     \* assertionStatus of the popup's store
  call,       \* the popup's handleAuthenticate, and begin-challenge-assertion
  alive,      \* the popup that made the running call is still open
  lock,       \* authInProgress
  authTab,    \* authTabId
  timer,      \* authTimeoutHandle
  leaked,     \* history: a begin returned early and left the lock set
  pending,    \* pending:assertion in storage.session
  result,     \* assertion:result in storage.session
  page,       \* the auth.html tabs
  complete    \* assertion-complete: the handler a page's message runs

lockVars == <<lock, authTab, timer, leaked>>
panelVars == <<status, call, alive>>
storedVars == <<pending, result>>
tabVars == <<page, complete>>
assertionVars == <<panelVars, lockVars, storedVars, tabVars>>

AssertionInit ==
  /\ status = "idle" /\ call = "none" /\ alive = 0
  /\ lock = 0 /\ authTab = None /\ timer = 0 /\ leaked = 0
  /\ pending = 0 /\ result = "none"
  /\ page = [t \in Tabs |-> "closed"] /\ complete = [t \in Tabs |-> "none"]

(* Variant: the timer of the finished authentication runs on.              *)
Reset_TimerKept == lock' = 0 /\ authTab' = None /\ leaked' = 0 /\ UNCHANGED timer

(* resetAuthInProgress, whoever holds the lock.                            *)
Reset == lock' = 0 /\ authTab' = None /\ timer' = 0 /\ leaked' = 0

(* The call ends; a refusal is shown by the popup if it is still there.    *)
CallAnswered == call' = "none" /\ alive' = 0
Refused == CallAnswered /\ status' = IF alive = 1 THEN "error" ELSE status

-----------------------------------------------------------------------------
(* AuthPanel *)

(* The panel shows its button.                                             *)
Offered == status \in {"idle", "error"}

HandleAuthenticate ==
  /\ Offered /\ call = "none"
  /\ status' = "pending" /\ call' = "clearing" /\ alive' = 1
  /\ UNCHANGED <<lockVars, storedVars, tabVars>>

(* A popup opened while the call of an earlier one runs: the lock refuses. *)
SecondPopupRefused ==
  /\ Offered /\ call # "none" /\ lock = 1
  /\ status' = "error" /\ result' = "none"
  /\ UNCHANGED <<call, alive, lockVars, pending, tabVars>>

(* The poll of assertion:result.  It knows no status 'timeout'.            *)
PollResult ==
  /\ status = "pending" /\ result \in {"verified", "error", "cancelled"}
  /\ status' = IF result = "cancelled" THEN "idle" ELSE result
  /\ UNCHANGED <<call, alive, lockVars, storedVars, tabVars>>

Dismiss ==
  /\ status = "verified" /\ status' = "idle"
  /\ UNCHANGED <<call, alive, lockVars, storedVars, tabVars>>

(* Re-authenticate, or the popup closes and its store with it.             *)
PanelCloses ==
  /\ status # "idle" /\ status' = "idle"
  /\ alive' = 0
  /\ UNCHANGED <<call, lockVars, storedVars, tabVars>>

-----------------------------------------------------------------------------
(* begin-challenge-assertion *)

(* The old result is gone, the message arrives.  A popup has no tab; a     *)
(* sender whose tab has no URL is refused after the lock was taken.        *)
Begin ==
  /\ call = "clearing"
  /\ result' = "none"
  /\ \/ /\ lock = 0 /\ lock' = 1 /\ call' = "deriving"
        /\ UNCHANGED <<status, alive, authTab, timer, leaked>>
     \/ Refused /\ UNCHANGED lockVars
     \/ /\ lock = 0 /\ lock' = 1 /\ leaked' = 1 /\ Refused
        /\ UNCHANGED <<authTab, timer>>
  /\ UNCHANGED <<pending, tabVars>>

(* Control code, page content, proof and challenge; then they are stored.  *)
BeginDerives ==
  /\ call = "deriving"
  /\ \/ call' = "opening" /\ pending' = 1 /\ UNCHANGED <<lockVars, status, alive>>
     \/ Reset /\ Refused /\ UNCHANGED pending
  /\ UNCHANGED <<result, tabVars>>

BeginOpens ==
  /\ call = "opening"
  /\ \/ \E t \in Tabs :
          /\ page[t] = "closed" /\ complete[t] = "none"
          /\ page' = [page EXCEPT ![t] = "loading"]
          /\ authTab' = t /\ timer' = 1
          /\ CallAnswered /\ UNCHANGED <<lock, leaked, status>>
     \/ Reset /\ Refused /\ UNCHANGED page
  /\ UNCHANGED <<storedVars, complete>>

AuthTimeout ==
  /\ timer = 1 /\ timer' = 0
  /\ IF lock = 1 THEN lock' = 0 /\ authTab' = None /\ leaked' = 0
                 ELSE UNCHANGED <<lock, authTab, leaked>>
  /\ UNCHANGED <<panelVars, storedVars, tabVars>>

-----------------------------------------------------------------------------
(* The page and assertion-complete *)

(* Variant: nobody listens to tabs.onRemoved.                              *)
PageCloses_LockKept(t) ==
  /\ page[t] # "closed" /\ page' = [page EXCEPT ![t] = "closed"]
  /\ UNCHANGED <<panelVars, lockVars, storedVars, complete>>

(* window.close(), or the user: tabs.onRemoved.                            *)
PageCloses(t) ==
  /\ page[t] # "closed" /\ page' = [page EXCEPT ![t] = "closed"]
  /\ IF authTab = t THEN Reset ELSE UNCHANGED lockVars
  /\ UNCHANGED <<panelVars, storedVars, complete>>

(* Without a pending assertion the page has nothing to do but close.       *)
AuthPageLoads(t) ==
  /\ page[t] = "loading" /\ pending = 1
  /\ page' = [page EXCEPT ![t] = "asking"]
  /\ UNCHANGED <<panelVars, lockVars, storedVars, complete>>

(* createAssertionRequest: the user verifies, cancels or is too late, or   *)
(* WebAuthn fails.                                                         *)
Outcomes == {"verified", "cancelled", "timeout", "error"}

(* The page reports; the handler clears the timer before anything else.    *)
PageReports(t, outcome) ==
  /\ page[t] = "asking" /\ complete[t] = "none"
  /\ page' = [page EXCEPT ![t] = "reported"]
  /\ complete' = [complete EXCEPT ![t] = outcome]
  /\ timer' = 0
  /\ UNCHANGED <<panelVars, lock, authTab, leaked, storedVars>>

(* Not verified, or data are missing.                                      *)
CompleteFails(t) ==
  /\ complete[t] \in {"cancelled", "timeout", "error"}
  /\ result' = complete[t]
  /\ complete' = [complete EXCEPT ![t] = "none"]
  /\ Reset
  /\ UNCHANGED <<panelVars, pending, page>>

(* Verified and transmitted, or there is no transport manager.             *)
CompleteTransmits(t) ==
  /\ complete[t] = "verified"
  /\ result' = "verified" /\ pending' = 0
  /\ complete' = [complete EXCEPT ![t] = "none"]
  /\ Reset
  /\ UNCHANGED <<panelVars, page>>

(* The page, if it is there, is told that its verified report failed.      *)
PageTold(t) ==
  page' = IF page[t] = "reported" THEN [page EXCEPT ![t] = "answered"] ELSE page

TransmissionFails(t) ==
  /\ complete[t] = "verified"
  /\ result' = "error"
  /\ complete' = [complete EXCEPT ![t] = "none"]
  /\ PageTold(t)
  /\ Reset
  /\ UNCHANGED <<panelVars, pending>>

(* The session storage refuses the result: the handler ends in an error    *)
(* before its reset, with the timer stopped, and the router answers.  (The *)
(* result may be there if the removal of pending:assertion has failed.)    *)
ResultNotStored(t) ==
  /\ complete[t] # "none"
  /\ complete' = [complete EXCEPT ![t] = "none"]
  /\ \/ UNCHANGED <<result, page>> /\ complete[t] # "verified"
     \/ result' \in {result, "verified"} /\ PageTold(t) /\ complete[t] = "verified"
  /\ UNCHANGED <<panelVars, lockVars, pending>>

(* It reports the failure in a message of its own.                         *)
ReportsAgain(t) ==
  /\ page[t] = "answered"
  /\ page' = [page EXCEPT ![t] = "reported"]
  /\ complete' = [complete EXCEPT ![t] = "error"]
  /\ timer' = 0
  /\ UNCHANGED <<panelVars, lock, authTab, leaked, storedVars>>

-----------------------------------------------------------------------------
(* The worker restarts: the lock goes, the pages stay and find a new one.  *)
(* The report of a page that waits is rejected.                            *)
Restart ==
  /\ Reset
  /\ Refused
  /\ complete' = [t \in Tabs |-> "none"]
  /\ page' = [t \in Tabs |-> IF complete[t] # "none" /\ page[t] = "reported"
                              THEN "answered" ELSE page[t]]
  /\ UNCHANGED storedVars

BeginStep == Begin \/ BeginDerives \/ BeginOpens
CompleteStep(t) ==
  CompleteFails(t) \/ CompleteTransmits(t) \/ TransmissionFails(t) \/ ResultNotStored(t)

(* What a page does next, unless it awaits the answer to its report.       *)
PageStep(t) ==
  /\ page[t] = "reported" => complete[t] = "none"
  /\ \/ PageCloses(t) \/ AuthPageLoads(t) \/ ReportsAgain(t)
     \/ \E outcome \in Outcomes : PageReports(t, outcome)

AssertionNext ==
  \/ HandleAuthenticate \/ SecondPopupRefused \/ PollResult \/ Dismiss \/ PanelCloses
  \/ Begin \/ BeginDerives \/ BeginOpens \/ AuthTimeout
  \/ \E t \in Tabs :
       \/ PageCloses(t) \/ AuthPageLoads(t)
       \/ \E outcome \in Outcomes : PageReports(t, outcome)
       \/ CompleteFails(t) \/ CompleteTransmits(t) \/ TransmissionFails(t)
       \/ ResultNotStored(t) \/ ReportsAgain(t)
  \/ Restart

AssertionSpec == AssertionInit /\ [][AssertionNext]_assertionVars

(* What begin awaits settles (the page's content has a timeout) and timers *)
(* fire; a failed report is recorded or not; a page ends, as WebAuthn      *)
(* itself times out.  Nothing makes the transport answer a verified one.   *)
AssertionFairness ==
  /\ WF_assertionVars(BeginStep) /\ WF_assertionVars(AuthTimeout)
  /\ \A t \in Tabs : /\ WF_assertionVars(complete[t] # "verified" /\ CompleteStep(t))
                      /\ WF_assertionVars(PageStep(t))


-----------------------------------------------------------------------------
(* Types.  A timer runs only for a tab that is known.  (That tab may       *)
(* outlive the lock: a late report of an earlier page releases it while    *)
(* begin-challenge-assertion runs.)                                        *)
AssertionTypeOK ==
  /\ status \in {"idle", "pending", "verified", "error"}
  /\ call \in {"none", "clearing", "deriving", "opening"}
  /\ alive \in {0, 1} /\ lock \in {0, 1} /\ timer \in {0, 1} /\ leaked \in {0, 1}
  /\ authTab \in Tabs \cup {None}
  /\ leaked = 1 => lock = 1
  /\ timer = 1 => authTab # None
  /\ pending \in {0, 1}
  /\ result \in {"none", "verified", "error", "cancelled", "timeout"}
  /\ page \in [Tabs -> {"closed", "loading", "asking", "reported", "answered"}]
  /\ complete \in [Tabs -> {"none", "verified", "cancelled", "timeout", "error"}]

(* Whoever releases the lock is there: while it is held, and was not left  *)
(* behind, a begin that will reset it or open a page is running, or the    *)
(* page whose closing resets it is open.  The timer and assertion-complete *)
(* may both fail to release it: a report stops the timer first, and its    *)
(* result may not be stored.                                               *)
LockGuarded ==
  lock = 1 /\ leaked = 0 =>
    \/ call \in {"deriving", "opening"}
    \/ authTab \in Tabs /\ page[authTab] # "closed"

(* The lock is free again and again, unless a begin left it behind: nobody *)
(* is locked out, though assertion-complete stops the only timer first and *)
(* may fail before its reset.  It rests on the transport: who awaits it    *)
(* without a timeout is answered in the end.                               *)
LockReleased ==
  (\A t \in Tabs : []<>(complete[t] # "verified")) => []<>(lock = 0 \/ leaked = 1)
=============================================================================
