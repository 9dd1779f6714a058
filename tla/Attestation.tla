---------------------------- MODULE Attestation ----------------------------
(* The attestation of control codes by relying parties:                    *)
(* attestationManager.ts, which takes the header of a page through the     *)
(* verifier, one at a time as far as withAttestationLock sees to it; the   *)
(* KeyStore, which keeps the keys of the relying parties and, imported,    *)
(* the ones used so far; and refreshKeyManifest, which replaces them.      *)
(*                                                                         *)
(* There is one relying party with one key, of which the manifests publish *)
(* one generation after the other: generation n is the key in the manifest *)
(* of version n, 0 the one bundled.  Signatures are valid or not; a code   *)
(* in the page is the attested one or another.                             *)
EXTENDS Integers

CONSTANTS
  Headers,      \* headers that may be in progress at once
  MaxPublished  \* bound: versions of the manifest that are published

ASSUME PublishedAssumption == MaxPublished \in Nat

Nobody == "nobody"  \* of a promise that is resolved
Refreshes == {"boot", "popup"}
NotImported == -1

VARIABLES
  started,     \* 1: keyStore and verifier exist
  currentStatus,  \* currentAttestationStatus
  mutex,       \* attestationMutex: the header that resolves it
  header,      \* headers in progress
  generation, keyActive, imported, manifestVersion,  \* the KeyStore
  overlapped,  \* history: 1: the last key to be replaced was just being imported
  refresh,     \* calls of refreshKeyManifest
  published    \* the newest version at MANIFEST_URL

keyVars == <<generation, keyActive, imported, manifestVersion, overlapped>>
attestationVars == <<started, currentStatus, mutex, header, keyVars, refresh, published>>

Gone == [at |-> "none", waits |-> Nobody, key |-> NotImported, code |-> 0]
Idle == [at |-> "none", version |-> 0]

AttestationInit ==
  /\ started = 0 /\ currentStatus = "not_applicable" /\ mutex = Nobody
  /\ header = [h \in Headers |-> Gone] /\ refresh = [q \in Refreshes |-> Idle]
  /\ generation = 0 /\ keyActive = 1 /\ imported = NotImported /\ manifestVersion = 0
  /\ overlapped = 0 /\ published = 0

HeaderAt(h, at) == header[h].at = at

-----------------------------------------------------------------------------
(* Start and end of the worker *)

(* initializeAttestation: the bundled keys, the listener, and a refresh    *)
(* that nobody waits for.                                                  *)
InitializeAttestation ==
  /\ started = 0 /\ started' = 1
  /\ refresh' = [refresh EXCEPT !["boot"].at = "fetch"]
  /\ UNCHANGED <<currentStatus, mutex, header, keyVars, published>>

(* Everything but what is published was in memory.                         *)
AttestationLost ==
  /\ started = 1 /\ started' = 0
  /\ currentStatus' = "not_applicable" /\ mutex' = Nobody
  /\ header' = [h \in Headers |-> Gone] /\ refresh' = [q \in Refreshes |-> Idle]
  /\ generation' = 0 /\ keyActive' \in {0, 1} /\ imported' = NotImported /\ manifestVersion' = 0
  /\ overlapped' = 0
  /\ UNCHANGED published

-----------------------------------------------------------------------------
(* withAttestationLock *)

(* handleHeadersReceived: a page of a relying party arrives with a header; *)
(* its tab is asked for the code it shows, and the mutex as it is now is   *)
(* awaited.                                                                *)
HandleHeadersReceived(h) ==
  /\ started = 1 /\ HeaderAt(h, "none")
  /\ header' = [header EXCEPT ![h] =
                  [at |-> "lock", waits |-> mutex, key |-> NotImported, code |-> 0]]
  /\ UNCHANGED <<started, currentStatus, mutex, keyVars, refresh, published>>

(* What was awaited is resolved.  Whoever else awaited it enters as well.  *)
Enters(h) ==
  /\ HeaderAt(h, "lock") /\ header[h].waits = Nobody
  /\ mutex' = h
  /\ header' = [header EXCEPT ![h].at = "dom"]
  /\ UNCHANGED <<started, currentStatus, keyVars, refresh, published>>

(* The header is done with: its promise is resolved for all who await it.  *)
Released(h) ==
  /\ mutex' = IF mutex = h THEN Nobody ELSE mutex
  /\ header' = [g \in Headers |->
       IF g = h THEN Gone ELSE [header[g] EXCEPT !.waits = IF @ = h THEN Nobody ELSE @]]

-----------------------------------------------------------------------------
(* processAttestationHeader *)

(* The tab has answered.  verifyHeader up to the key: a header that cannot *)
(* be read or is more than 30 s off is not attested; getImportedKey takes  *)
(* the key it finds imported, whether or not it is active any more, or     *)
(* imports the one there is, if that is active.                            *)
GetImportedKey(h) ==
  /\ HeaderAt(h, "dom")
  /\ \/ header' = [header EXCEPT ![h].at = "audit"]
     \/ /\ imported # NotImported
        /\ header' = [header EXCEPT ![h].at = "verify"]
     \/ /\ imported = NotImported /\ keyActive = 1
        /\ header' = [header EXCEPT ![h].at = "import", ![h].key = generation]
     \/ /\ imported = NotImported /\ keyActive = 0
        /\ header' = [header EXCEPT ![h].at = "audit"]
  /\ UNCHANGED <<started, currentStatus, mutex, keyVars, refresh, published>>

(* The key is imported and kept, whatever has become of it since.          *)
Imports(h) ==
  /\ HeaderAt(h, "import")
  /\ \/ /\ imported' = header[h].key
        /\ header' = [header EXCEPT ![h].at = "verify", ![h].key = NotImported]
     \/ /\ header' = [header EXCEPT ![h].at = "audit", ![h].key = NotImported]
        /\ UNCHANGED imported
  /\ UNCHANGED <<started, currentStatus, mutex, generation, keyActive, manifestVersion, overlapped,
                 refresh, published>>

Verifies(h) ==
  /\ HeaderAt(h, "verify")
  /\ \E valid \in {0, 1} : header' = [header EXCEPT ![h].at = "audit", ![h].code = valid]
  /\ UNCHANGED <<started, currentStatus, mutex, keyVars, refresh, published>>

(* The verification throws: the lock is released, with nothing logged and  *)
(* the status of the header before.                                        *)
VerifyThrows(h) ==
  /\ HeaderAt(h, "verify")
  /\ Released(h)
  /\ UNCHANGED <<started, currentStatus, keyVars, refresh, published>>

(* getDomCode: the code the tab shows; none if it does not answer within a *)
(* second, or shows none.                                                  *)
GetDomCode == {"none", "same", "other"}

(* verifyControlCode *)
VerifyControlCode(attested, dom) ==
  CASE attested = 0 /\ dom = "none" -> "not_applicable"
    [] attested = 0 /\ dom # "none" -> "dom_only"
    [] attested = 1 /\ dom = "other" -> "rat_detected"
    [] attested = 1 /\ dom # "other" -> "verified"

(* Variant: the lock is not released for a header that is not attested.    *)
Audited_FailureKeepsLock(h) ==
  /\ HeaderAt(h, "audit")
  /\ \E dom \in GetDomCode : currentStatus' = VerifyControlCode(header[h].code, dom)
  /\ IF header[h].code = 1 THEN Released(h)
     ELSE header' = [header EXCEPT ![h] = Gone] /\ UNCHANGED mutex
  /\ UNCHANGED <<started, keyVars, refresh, published>>

(* The event is logged (a log that cannot be written is passed over), the  *)
(* status set and the lock released.                                       *)
Audited(h) ==
  /\ HeaderAt(h, "audit")
  /\ \E dom \in GetDomCode : currentStatus' = VerifyControlCode(header[h].code, dom)
  /\ Released(h)
  /\ UNCHANGED <<started, keyVars, refresh, published>>

-----------------------------------------------------------------------------
(* refreshKeyManifest *)

(* refresh-rp-keys, from a popup whose button is disabled meanwhile.       *)
(* (Bound: no popup is opened while the call of another runs.)             *)
HandleRefresh ==
  /\ started = 1 /\ refresh["popup"] = Idle
  /\ refresh' = [refresh EXCEPT !["popup"].at = "fetch"]
  /\ UNCHANGED <<started, currentStatus, mutex, header, keyVars, published>>

(* The manifest as it is published now; or the fetch fails, is aborted     *)
(* after 10 s, or what comes is no manifest or not signed.                 *)
Fetches(q) ==
  /\ refresh[q].at = "fetch"
  /\ \/ refresh' = [refresh EXCEPT ![q] = [at |-> "verify", version |-> published]]
     \/ refresh' = [refresh EXCEPT ![q] = Idle]
  /\ UNCHANGED <<started, currentStatus, mutex, header, keyVars, published>>

(* Variant: the imported key of before is kept.                            *)
AddKey_ImportKept(new) == generation' = new /\ keyActive' = 1 /\ UNCHANGED imported

(* addKey *)
AddKey(new) == generation' = new /\ keyActive' = 1 /\ imported' = NotImported

(* updateManifest, once the signature is verified: only a newer version.   *)
(* The keys of the manifest replace those of the same name.  (What         *)
(* persistLastSeenVersions then writes is never read.)                     *)
UpdateManifest(q) ==
  /\ refresh[q].at = "verify" /\ refresh[q].version > manifestVersion
  /\ AddKey(refresh[q].version)
  /\ manifestVersion' = refresh[q].version
  /\ overlapped' = IF \E h \in Headers : HeaderAt(h, "import") THEN 1 ELSE 0
  /\ refresh' = [refresh EXCEPT ![q] = Idle]
  /\ UNCHANGED <<started, currentStatus, mutex, header, published>>
ManifestRejected(q) ==
  /\ refresh[q].at = "verify"
  /\ refresh' = [refresh EXCEPT ![q] = Idle]
  /\ UNCHANGED <<started, currentStatus, mutex, header, keyVars, published>>

(* Outside: a manifest is published; the key runs out.                     *)
Publish ==
  /\ published < MaxPublished /\ published' = published + 1
  /\ UNCHANGED <<started, currentStatus, mutex, header, keyVars, refresh>>
KeyExpires ==
  /\ keyActive = 1 /\ keyActive' = 0
  /\ UNCHANGED <<started, currentStatus, mutex, header, generation, imported, manifestVersion,
                 overlapped, refresh, published>>

-----------------------------------------------------------------------------
HeaderStep(h) ==
  \/ Enters(h) \/ GetImportedKey(h) \/ Imports(h) \/ Verifies(h) \/ VerifyThrows(h)
  \/ Audited(h)

AttestationNext ==
  \/ InitializeAttestation \/ AttestationLost \/ HandleRefresh \/ Publish \/ KeyExpires
  \/ \E h \in Headers : HandleHeadersReceived(h) \/ HeaderStep(h)
  \/ \E q \in Refreshes : Fetches(q) \/ UpdateManifest(q) \/ ManifestRejected(q)

AttestationSpec == AttestationInit /\ [][AttestationNext]_attestationVars

-----------------------------------------------------------------------------
AttestationTypeOK ==
  /\ started \in {0, 1} /\ mutex \in Headers \cup {Nobody}
  /\ currentStatus \in {"not_applicable", "dom_only", "verified", "rat_detected"}
  /\ generation \in 0..MaxPublished /\ keyActive \in {0, 1} /\ overlapped \in {0, 1}
  /\ imported \in {NotImported} \cup 0..MaxPublished
  /\ manifestVersion = generation
  /\ published \in 0..MaxPublished
  /\ header \in [Headers ->
       [at : {"none", "lock", "dom", "import", "verify", "audit"},
        waits : Headers \cup {Nobody},
        key : {NotImported} \cup 0..MaxPublished, code : {0, 1}]]
  /\ refresh \in [Refreshes -> [at : {"none", "fetch", "verify"},
                                version : 0..MaxPublished]]

(* getImportedKey checks nothing about a key it finds imported, so what is *)
(* imported must be the key of the newest manifest taken; it is, whatever  *)
(* headers and refreshes are in progress, unless a manifest was taken just *)
(* while the key before it was being imported.                             *)
ImportedCurrent == overlapped = 0 => imported \in {NotImported, generation}

(* Nobody awaits the lock in vain: whatever a header's verification comes  *)
(* to, and although several may hold the lock at once and newcomers await  *)
(* only the last to enter, what is awaited is a header that has entered    *)
(* and is not done yet.                                                    *)
Holding == {"dom", "import", "verify", "audit"}
WaitersServed ==
  /\ mutex # Nobody => header[mutex].at \in Holding
  /\ \A h \in Headers : header[h].waits # Nobody =>
       HeaderAt(h, "lock") /\ header[header[h].waits].at \in Holding
=============================================================================
