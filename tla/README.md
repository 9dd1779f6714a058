# Verification of the SmartID2 browser extension

TLA+ models of the stateful parts of this repository: a Chrome MV3 extension
(TypeScript) that pairs with a phone and authenticates through it, a native
messaging host (Go) that reaches the phone over USB, and a signaling server for
the WebRTC path. The models follow the source; each definition's lines are in
`PROJECT.json` under `map`.

Contents: 1 inventory, 2 plan, 3 modules and how they correspond to the code,
4 runs, 5 proofs, 6 observed deviations, 7 what is not modelled.

## 1. Inventory

| Component | State | Operations | What is hard | Correct means |
|---|---|---|---|---|
| Backpressure queue `lib/channel/backpressureQueue.ts` | queue, pendingBytes, draining, generation | `send`, `drain`, `clear`, close listener | `clear()` and a new drain while an old drain sleeps; close while asleep | payloads leave in order, none is stranded, the browser's buffer is bounded, every promise settles |
| Native host `apps/native-host` | Session (device, endpoints, crypto session, read loop), sequence trackers | `connect`, `send-payload`, `rekey`, `disconnect`, read loops, hotplug monitor | three kinds of goroutine on one Session; rekey releases the mutex; loops that outlive their stop; unplugging | a connected Session is usable and read, a closed one stays closed, payloads are accepted in order |
| Command client `lib/channel/commandClient.ts` | `pending`, `abortControllers`, message count, counter in `storage.session` | `sendCommand`, response handler, retry timers, key rotation | awaits between number and transmission, late and repeated responses, restarts | each response settles its own command; each command settles; no two have one number |
| Heartbeat (same file, `rttEstimator.ts`) | interval timer, open ping, miss count | interval tick, ping, pong, ping timeout, ping commands | timers racing pongs; a ping that replaces an open one, always if the RTO is above 5 s | a dead phone is noticed in bounded time; a live one never |
| Device registry `background/deviceRegistry.ts` | cache in memory, `storage.session` list, `storage.local` shadow, revocation queue | add, remove, revoke, activate, touch, reconcile, queries, broadcast | two stores written one after the other; unlocked loads; restarts, failing storage | completed pairings and revocations survive; lists stay within the limit |
| Session manager `background/sessionManager.ts` | session in `storage.session`, copy in `storage.local`, two alarms | activate, clear, get, silent re-authentication, restore, alarms, idle listener | lock-free async functions that overlap; worker and browser restarts | no session outlives its TTL; a cleared one stays cleared |
| Message handlers `background/messageHandlers.ts` | authentication lock and its timer, rate limiters, the transport manager | ~40 message types, ~25 of which change state | a lock released by timer, tab close or result; early returns; handlers that overlap at every await | one authentication at a time, always released; no assertion accepted twice |
| Pairing `pairingCoordinator.ts`, `pairingService.ts`, `PairingPanel.tsx` | active session, pending key, Noise session, SAS and device in `storage.session` | start, handshake, confirm, reject, passkey creation | confirm and reject overlap; the registration fails after the pairing is stored; restart in the middle | a stored pairing is a registered one; a rejected one is not stored |
| Transport manager `lib/transport` | active transport, switch in progress, polling timer, USB handle or relay | initialize, switch, poll, fail over, destroy, replace | requests that join a switch to the other transport; drops during a switch; managers destroyed while they initialize | at rest the active transport is connected; every switch ends; a lost one is replaced |
| Offscreen WebRTC `offscreen-webrtc/main.ts` | peer connection, reconnect timer and attempts, signaling sockets | start, disconnect, reconnect, relay-only fall-back, credentials | timers that await, events of abandoned connections, disconnect in between | no connection after a disconnect; no failure is the last word |
| Signaling server `signaling-server/server.js` | rooms, commitments, revocations, cleanup timers | connect, join, relay, revoke, disconnect | cleanup timer against a peer that joins again | a room holds exactly the connected peers that joined; an empty one has its timer |
| Attestation `attestationManager.ts`, `lib/attestation` | key store, imported keys, manifest version, lock | header, verification, manifest refresh | a lock that lets several in; keys replaced while they are used | the key used is the newest; nobody waits in vain |
| Replay cache and limiters `lib/replayProtection.ts`, `lib/rateLimit` | timestamps | check, reserve, allow | window edges, trimming, a hash awaited before the lookup, a cache lost with the worker | no tuple twice in a window |
| Content scripts and approval `contentScriptManager.ts`, `content/`, `DomainPrompt`, `SettingsPanel.tsx` | approved domains in `storage.sync`, registered scripts, pending and denied domains, registration lock | approve, deny, revoke, detect, re-register at start | lists read and written in two awaits; script and list written one after the other; updates drop scripts; other browsers write the list | an approved domain has its script; one registration at a time |
| Challenge-bound authentication `auth/main.ts`, `AuthPanel.tsx` | pending assertion and result in `storage.session`, tabs | open, sign, report, cancel, time out | reports of earlier pages, a popup that closes | see the authentication lock |
| Detectors, remote registry, API relay, WebUSB demo stack, TLS binding, Android verifiers | little or UI state | | | see section 7 |

Interactions: the popup and pages call the message handlers; they use the
session manager, the registry, pairing and the transport manager; the command
client sends through the active transport (USB by way of the native host, or
the offscreen document's data channel, which the backpressure queue is meant
for) and the heartbeat calls `onTransportDead`, on which the transport manager
fails over. Storage areas and alarms are shared by all of the background.

## 2. Plan

1. `BackpressureQueue` with `OrderedDelivery` as its abstract specification (done).
2. `NativeHost` (done), 3. `CommandClient` (done), 4. `Heartbeat` (done),
5. `DeviceRegistry` (done), 6. `SessionManager` (done).
7. `ChallengeAssertion` and `ReplayProtection` (done), 8. `TransportManager`
   (done), 9. `SignalingServer` composed with the offscreen document in
   `WebRtcLink` (done), 10. `Pairing` (done), 11. `ContentScripts` with its
   theorems (done), 12. `Attestation` with its theorems (done), 13. the five parts
   of 7, 8, 11 and 12 composed in `BackgroundHandlers`, with theorems for all (done),
   14. those of 1, 3 and 4 composed in `Channel` (done).

Left, in order of value:

- storage accesses of the command client that throw inside `messageCountLock`;
- `TransportManager` composed with `Heartbeat`'s declaration that a transport is
  dead (at this commit the heartbeat has no caller, so there is nothing to
  compose with yet);
- the MFA mode of the authentication page, the remote registry's shared
  initialization, `RekeyableSession`, the Android challenge verifier.

## 3. Modules

Conventions: 0 or `None` is null; variables named "history" in a comment exist
only for a property; definitions whose name has a suffix after an underscore and
whose comment begins with "Variant" are plausible wrong versions of the
definition that follows, used to see that the properties notice them.

**OrderedDelivery** - what the users of the queue rely on: a payload is sent,
refused or accepted; accepted ones are sent or rejected from the head, or all
rejected; nothing overtakes (`NoOvertaking` in `BackpressureQueueProofs`).

**BackpressureQueue** - `send()` has two branches (`SendQueue`, `SendDirect`) and
an early throw (`SendNotOpen`); the drain's loop is `DrainSend`, `DrainWait`,
`DrainWake`, `DrainExit`; a drain is identified by its generation. `clear()`,
the close listener and the browser's emptying of the buffer are actions. The
class is used only by its tests at this commit.

**NativeHost** - the Session's fields under their names; the stdin goroutine as
`host` with one action per message and per point where it waits; one program
counter per read loop with the copies the loop takes (`ldev`, `lcs`, `lexp`);
the hotplug monitor's poll and its `Close`; the phone and the cable. A loop that
has passed its context check waits for the mutex in a state of its own (`locking`), in
which it may be told to stop. A report to stdout may fail, which ends the loop, and
once one has failed no later report gets through (`broken`). The USB pipe
carries key-exchange replies and payloads in order, so a late reply to an
exchange that timed out can be taken for the answer to the next. Framing, `ping`,
`get-status` and AOA negotiation (unreachable from `connect`) are left out.

**CommandClient** - a call is in one of the awaits of `sendCommand` or `sendPing`;
`entries`, `controllers` and `armed` are the two maps and the running timers. Calls
may overlap in `getNextSequence`, as in the code: `ahead` records, per call, who was
between get and set when it made its get, and `Beside(c, d)` says that two calls were
there together. Only such calls can have the same number; the properties say what
holds of all others, and what those two can do to each other and to nobody else.

**Heartbeat** - discrete time. Timers fire when due. The ping
timeout, three RTOs, is any of `Timeouts`, below the interval or above it. `Command` restarts
the interval timer, `SendPing` (the public `sendPing`) only notes the time, so that
the next tick of the timer skips its ping. `slow` is history: since the phone was
lost a ping got an interval or more to wait. `startHeartbeat` has no caller in production code at this
commit.

**Channel** - the three modules of `lib/channel` in one specification. What they have
in common is abstracted in each (the queue takes any payload, `sendData` of the client
fails or not, a ping of the client comes at any time), so no step of one enables,
disables or changes a step of another; `part` chooses the one that moves, and TLC
explores the sum of the state spaces. `MCChannel` gives it its constants;
`MCCommandClient` and `MCHeartbeat` are for the two counterexamples.

**DeviceRegistry** - the operation that holds the lock as a program counter with
its local lists; loads without the lock (`rec`); revocations' broadcast and
queue; failing accesses; restarts of the worker and the browser.

**SessionManager** - each async function call as a slot with the await it is in;
`resetIdleTimeout` beside it, because `activateSession` does not await it; alarms
with due times, possibly late; alarms may or may not survive the browser.
`RestoreAsks` and `RestoreRead` are the two awaited reads of a restoration. The
reads of `performSilentReauth` are one step: nothing they read is taken back
while the browser runs. The audit in `clearSession` only logs.

**SignalingServer** - `rooms` with peers and timer, `roomMetadata` with the
commitment a room was opened with, the revocation list; `Connection`,
`ConnectionLost`, `JoinRoom`, `CleanupRoom`, `Revoke` and `RevocationExpires` are
the handlers and timers. A commitment is the nonce it was computed from. It has no
`Next` of its own: **WebRtcLink** extends it with the offscreen document, a
phone that may do anything and the network between them. `pc` is the document's
peer connection, `client` its sockets with the events each has yet to send,
`fetching` the fetches of credentials in flight; what follows such an await
(`StartContinues`, `ReconnectContinues`) is an action, and a `disconnect` may come
before it. `AbandonedStateChange` is an event of a peer connection the document no
longer refers to, `connected` among them, which resets the attempts of the current
one. `RelayFallback` needs a failed ICE state and no reconnect, in whatever state the
connection is. The phone may also register rooms. `calm` is a history variable: a disconnect ran with nothing
awaited.

**Pairing** - `panel` is the popup, `calls` its calls of the background with the
await each is in, `flow` the background's pairing flow up to the stored emoji,
`dev` and `registry` the two places a pairing is kept in. The turns of the Noise
handshake are one step that ends with the phone's key or fails: they share no
state with the calls. The popup may close and open again during its calls.
`RevokeDevice` and `RevokeEnds` are `revokeDevice`, which replaces whichever pairing is
stored by a key pair without remote key (`EmptyKey`) before the device leaves the
registry; in between it holds the registry's lock (`revoking`). Removals may fail
(`ClearFails`, `FlowRemoves`), and a confirmation may throw between its two writes
(`ConfirmThrows`).
`owner` and `rejected` are history variables. Its names carry prefixes
(`PairingInit`, `PairingNext`, `NoKey`), because `PairingProofs` extends it together
with `WebRtcLink`.

**TransportManager** - the manager with both transports, whoever holds one
(`init`, `initPromise`, `orphan`) and the two handlers that replace it. `switch`
is the one `doSwitch` in progress, its target and what it leaves; requests that
join it are not recorded, as they only share its result, except for the WebRTC
drop callback, which awaits it (`dropWaits`). `slipped` names the two exceptions of
`ActiveConnected`: a message to the offscreen document that failed in the middle of
a switch, and a USB connection lost before the switch to it was done. That property
speaks of what a transport believes of itself (`isConnected`), not of the link behind
it (section 6).

**ReplayProtection** - the handler of `mfa-assertion` up to its await (limiter,
expiry) and after it (lookup, reservation, trimming). The Map is a function from keys
to their age and the keys in front of them, which is the order trimming goes by: a
key that is set again keeps its place. `CacheAssumption` relates limiter and cache
size: as many windows of the limiter as cover the replay window let in no more calls
than there is room for, so trimming never drops an entry of the window. The code's
numbers (3 a minute, 5 minutes, 1000 entries) satisfy it by far. `accepted` survives a
restart of the worker while the cache does not; `replayed` tells the acceptances
repeated in one run of the worker from those after a restart.

**ChallengeAssertion** - the popup's call, `begin-challenge-assertion` in three
steps, the pages and `assertion-complete` of each. `leaked` is history: an early
return left the lock set. `assertion-complete` stops the timer first, and storing its
result may throw before the reset (`ResultNotStored`): the router answers the page
with an error, the page reports once more (`ReportsAgain`) and closes itself, and the
listener of `tabs.onRemoved` releases the lock, or the tab's user does. `LockReleased`
says that the lock is released, `LockGuarded` who will do it in each state. Whether the caller has a tab with an origin is a choice of
`Begin`: the popup at this commit has none, so all but the refusal stands for a
caller the handler was written for.

**ContentScripts** - `request` holds the handlers in progress: their operation, the
await they are in and the list they have read. `RegistersScript` is Chrome's call,
which may fail; `AccessFails` ends a handler at any of its storage accesses.
`SyncArrives` is a list another browser wrote, which Chrome sync puts in the place of
the one here; no code listens for it, so scripts neither come nor go. `lacking` is
history: domains whose script an update dropped, or that sync listed, and that no
registration has reached since. `BrowserStarts(1)` is an update of the extension, which drops
dynamic scripts; `ReRegisters` handles one domain of the list read at start.

**Attestation** - `header` is the way of a response header through lock, DOM query,
key import, verification and audit. One relying party with one key: generation n
is the key of manifest n. `VerifyThrows` is an exception in the verifier, which
releases the lock without audit or status. `mutex` names the header that will resolve the promise
`attestationMutex` holds; a header waits for the one it found there.

**BackgroundHandlers** - five parts of the background that share no state (replay,
assertion, transport, approval, attestation) in one specification. No step of one
enables, disables or changes a step of another, so a property of one part holds in
their product exactly if it holds when only that part moves, as in `Channel`. The definitions of all parts but
`ContentScripts` carry prefixes (`ReplayInit`, `TransportNext`) for this module.
`MCHandlers` gives it its constants.

Storage: accesses to one area are answered in the order they were made. A read
and the code up to the next await are one step in `DeviceRegistry`; in
`SessionManager` and `ContentScripts` a read and what follows from it are separate
steps. Badges, logging and wording are left out everywhere.

`MC*` modules give the constants their values for TLC.

## 4. Runs

| Run | Bounds | Shows |
|---|---|---|
| `channel` | queue: 4 payloads of sizes 3, 1, 2, 1, high mark 3, threshold 1, 2 clears; client: 2 commands, 1 ping, 2 attempts, rotation after 2 messages, 1 restart; heartbeat: interval 5, timeouts 2, 4 and 6, latency 1, horizon 26 | no stranded payload, exact byte count, bounded buffer, refinement of `OrderedDelivery`, every send settles; no response settles a command that drew its number later, orphans only by overlap, every lone command settles; no false alarm, detection bound |
| `command_lost` | 2 commands, 1 ping, 2 attempts, no restart | a counterexample: a command never settles (section 6) |
| `heartbeat_never` | interval 15, timeout 18, latency 2 | a counterexample: a lost phone is never declared dead (section 6) |
| `native_host` | 2 handles, 2 keys, 2 loops, 1 send and 2 transfers per key | consistent Session, live reader, no resurrection, in-order acceptance; a loop told to stop ends, also while it waits for the mutex |
| `native_host_nonce` | 1 handle, key and loop, 2 sends | a counterexample: a sequence number is used twice (section 6) |
| `registry` | 3 devices, limit 2, 1 restart, 2 reconciliations, 2 failing accesses, 1 revocation | well-formed copies, durable membership, registered active device |
| `session` | 2 calls at a time, 2 activations, TTL 2, idle 1, clock to 4, 1 restart, any number of failing calls | freshness, finality of clear |
| `link` | 2 sockets of the document, 1 of the phone (with the right commitment or none; it may register the room), 1 room, 1 device, 1 fetch of each kind | rooms, sockets and timers agree, disconnect is final, no failure is the last word |
| `pairing` | 2 phones, room for 1 device, 2 calls of the popup at a time, any number of restarts, revocations and failures | a stored pairing is a registered one, a rejected one is not stored |
| `handlers` | 5 assertions, window 1, cache 4, 1 hit a tick, 2 hashes in flight; 2 authentication tabs, any number of attempts and restarts; 1 manager with its orphan and 2 replacing calls; 1 domain, 4 requests, 2 at a time, any lists of sync, restarts and updates; 2 headers, 2 refreshes, 1 manifest after the bundled one | types of all parts; no replay in one run of the worker; the lock has somebody who releases it, and is released; active transport connected, switches end; listed domains have scripts, exclusive registration; current keys, nobody waits in vain |
| `replay_restart` | the same | a counterexample: a replay accepted after a restart (section 6) |
| `approval_revoke` | 1 domain, 4 requests, 2 at a time | a counterexample: a revoked domain stays approved (section 6) |

Why the bounds are enough: each is the smallest at which the hazard it is for
occurs. Four payloads let a small one try to overtake a queued large one while a
second drain runs; two handles and two keys let a loop of the first connection
meet the second; two commands and a ping collide on numbers; the registry's limit
is reached with a third device left over; a clock to 4 goes past the expiry of
a session that a restart restored. Two sockets of the document are the current one
and one an earlier attempt left; rooms share nothing, so one is enough. Two phones
and room for one make the second registration fail after its pairing is stored.
A cache of 4 is what `CacheAssumption` asks for with the chosen windows, and the fifth
assertion would need room: old entries are trimmed, none of the window is. Timeouts of
4 and 6 lie on either side of the interval of 5, and the horizon is past four intervals
and the longest timeout below it. Two tabs are the page of an attempt and one of an
earlier attempt. Four requests of one domain detect it, approve it twice at once and
revoke it; what several domains do to one another is left to the theorems. `pairing` and
`session` use symmetry: nothing tells phones or calls apart. Two
headers and two refreshes let a manifest replace a key while it is imported; three
headers, which the lock lets in together, are covered by the theorem. The theorems of
section 5 lift every invariant of the passing runs to all values.

`CHECK_DEADLOCK FALSE` is set where the system may rest: all payloads settled,
all commands settled, the host exited.

`EverySendSettles`, `LoneCommandSettles`, `LockReleased`, `StoppedLoopsEnd` and
`SwitchEnds` are written as "again and again nobody is waiting". Payloads, loops and
commands are finitely many and none of them waits a second time, so for them this says
that each wait ends; a lock that is taken again, or a switch after a switch, must have
been released or over in between.

Fairness. Backpressure queue: the drain's timer fires and the browser empties
an open channel's buffer. Native host: a connect ends, as USB transfers
end by their timeouts (`main.go:39-45`), and a loop that can run again and again does
run: a waiter for the mutex gets it if it is free again and again (Go's mutex is
starvation free); nothing is assumed of the user or the phone. Command client: awaits of a call that was made return and timers fire;
the phone owes nothing. Heartbeat (`heartbeat_never` only): what is due happens, and
time goes on.
Link: the reconnect timer fires and its fetch of credentials ends, with or without
credentials (the code catches its failure); no peer and no user owes anything.
Assertion: what `begin-challenge-assertion` awaits settles (the content script's answer
has a timeout), the 120 s timer fires, a failed report is stored or refused, and a
page that has nothing to wait for ends (WebAuthn times out, the page then closes itself).
Nothing is assumed of the transport that a verified report waits for, as
`initializeTransportManager` and `tm.send` have no timeout and the only timer is stopped
by then: that it answers is the premise of `LockReleased`. Transport: the awaits of a switch settle, as Chrome's and WebUSB's
promises do, in either way.

Temporal properties (`EverySendSettles`, `StoppedLoopsEnd`,
`LoneCommandSettles`, `FailureAnswered`, `LockReleased`,
`SwitchEnds`) are model-checked only. The types of `Heartbeat`,
`SessionManager` and `BackpressureQueue` are proved with their invariants and checked in no run;
the registry's are a conjunct of `CopiesWellFormed`.

## 5. Proofs

All are for arbitrary constants that satisfy the named assumptions of the
modules (natural numbers, non-empty windows and the like).

- `BackpressureQueueProofs`: `NoOvertaking` of `OrderedDelivery`: wire and queue
  together are ordered by call. `TypeCorrect`; `DrainDiscipline`: the drain of the
  current generation is alive exactly while it must be, and it is the only
  one; the invariant has to speak of older generations too, whose drains may wake
  at any time. `BytesCounted`: the counter is the recursive sum `QueuedBytes`. The
  invariant has partial sums of the queue as a witness, which the steps extend and
  cut; that they are the recursive sum (`SumIsPrefixSum`) is an induction over the
  queue, done as a least counterexample: the set of places where the two differ
  would have a least member. `BufferIsBounded`, `QueuedPromises`.
  `Refinement`: each step maps to a step of `OrderedDelivery` or to a stutter, from
  which `QueueInOrder` carries the order over to the queue.
- `NativeHostProofs`: `HostTyped`, `Consistent`, `Reading`, `ClosedStaysClosed`,
  `InOrder`. The invariant of the first four
  describes the Session during a rekey (the key in use, the exchange's own key
  and endpoints are different numbers, older than what is allocated next) and the
  loops that are about to mark the Session: theirs is a handle that is gone.
  `InOrder` needs more, `OrderInv`: per key, a payload on its way (in the pipe or in a
  loop's hands) is not below the number of accepted ones (`PayloadsAhead`), no
  payload is on its way twice (`PayloadsDistinct`), a tracker is at most that number
  (`Counted`; a reset may put it back), and so is a loop's copy of the tracker
  (`CopiesBehind`). A loop with a stale copy can then only drop a payload; it never
  accepts one that another loop has accepted or one that leaves a hole.
- `CommandClientProofs`: `ClientTyped`, `NoCrossTalk` and `NothingOrphaned`, with no
  assumption on who overlaps. The invariant `NumberInv`: a call between get and set holds
  the stored number or the next, in the order of the gets; all other numbers in use are
  at most the stored one; and two calls share a number only if they drew it beside
  each other. So a response, a timer or a map entry reaches nobody else.
- `HeartbeatProofs`: `AlarmsAreTrue` and `DetectedInTime`, for any set of timeouts. The
  invariant counts lost pings (`MissInv`) and, until a ping gets an interval or more to
  wait, relates time without phone to pings sent (`LossInv`). Four intervals, not three:
  a ping command may make the first tick of the timer skip its ping.
- `SessionManagerProofs`: `Fresh`: every copy of a session carries the expiry its
  activation computed. `ClearIsFinal`: while calls do not overlap, between its two
  removals a clear leaves nothing in `storage.session`, and above the mark set by
  the second removal nothing is left anywhere.
- `DeviceRegistryProofs`, for any devices and limit: `RegistryLists` from the lists
  every operation and every unlocked load holds between its awaits, which are
  well formed too; `MembershipDurable`, from `MembershipInv`: cache, both
  stores and the list an operation is about to write agree with every decided
  device, except for the operation's own one between its two writes, so whatever
  copy a load or a restart reads is right; `ActiveDevice`, from `ActiveInv`: while nothing has failed the
  active device is in its list in every copy, and what an unlocked load may put into
  the cache in the middle of an operation is covered by the list about to be written.
- `PairingProofs` has the pairing and the link that pairing starts. `PairingTyped`,
  `StoredIsRegistered` and `RejectionFinal` come from `PairingInv`: the owner of a
  stored pairing is registered, or its own confirmation is still between its writes
  (`OwnerInv`); a rejection has taken the pending key, so that a confirmation
  behind it finds none, or has its removal still ahead (`RejectInv`). `LinkTyped`,
  `RoomsAgree` and `DisconnectIsFinal` come from `LinkInv`: a socket of the document is
  open exactly if the server counts it as connected and it names no device
  (`ClientsOK`, without which a revocation could close a socket the document
  believes open), the agreement room by room (`ServerInv`), and after a disconnect
  with nothing awaited no fetch is outstanding (`CalmInv`), so no continuation is
  left that could open a connection.
- `HandlersProofs`, the parts of `BackgroundHandlers`, each of its own specification,
  and their composition.
  - Approval: `ListedHasScript`, `OneRegistration`, for any number of
    domains, overlapping handlers, failing calls and restarts. The first needs: what
    a handler has read and is about to write back, plus its own domain, has its
    scripts already or lacks them (a list read long ago is still covered, as `scripts`
    and `lacking` together never shrink). The second: who works on a domain has locked it, and no
    other works on it, which only holds because lookup and taking of the lock are
    in one step after the await. `ApprovalTyped` needs that a
    handler that serves a message serves a domain.
  - Attestation: `AttestationTyped`; `KeysCurrent`, from the strengthening that every
    import in progress is of the current key unless the last replacement overlapped
    one; `NobodyWaitsInVain`, in which what the mutex names and what each waiter
    awaits is a header inside; it does not say that only one is inside, which is false.
  - Replay: `ReplayTyped` and `AcceptedOnce`, from `ReplayInv`. An accepted assertion is
    found again throughout its window (`KeptInv`), unless the worker has restarted since, because nothing is trimmed within it
    (`RoomInv`), and that is counted: some function `past` bounds the calls that passed
    the limiter in the last w ticks, for every w. In any window of the limiter these are
    at most `MaxHits` (`Past`), since the youngest of them are its recorded hits
    (`Seen`), and keys set in the last w ticks and calls that still await their hash are
    no more than those, plus the ones that waited before (`Counted`). `PastBounded` adds
    up the windows, again by a least counterexample, and `CacheAssumption` does the rest.
    The witness `past` says what the limiter forgets: it only keeps its last window.
  - Authentication: `AssertionTyped` and `LockHasReleaser`, for any number of tabs;
    `LockGuarded` is inductive together with the types: who closes the page that the
    lock names releases it, and whoever takes the lock opens one or resets.
  - Transport: `TransportTyped` and `OnConnectedTransport`, from `TransportInv`: a switch
    that is over leaves no joined drop behind and only one that is for USB connects it
    (`SwitchInv`), a call waits for a transport only in `destroy()` (`LeavingInv`), and
    the active transport is connected also while a switch still connects USB, as that
    may fail and leave the manager where it is (`UsableInv`).
  - The lemma `PartsImplemented` carries what is proved of a part to `HandlersSpec`, the
    specification TLC checks; it holds by the construction of that sum and says nothing of
    the code. `HandlersTyped` uses it.

The inductive invariants of `InOrder` and of the theorems of the registry, pairing
and the link were model-checked on the instances of section 4 before they
were proved.

Left to TLC: the temporal properties listed in section 4 (liveness under fairness is
out of the prover's reach; `LockHasReleaser` is the safety core of one of them) and the
runs that end in a counterexample. The library's induction theorems cannot be
instantiated by the installed provers; the two inductions over data there are go
through the least member of a set of natural numbers instead.

## 6. Observed deviations

Five are checked as runs that end in a counterexample:

- `native_host_nonce`: `RevertOutbound` (`apps/native-host/main.go:301`) takes the
  number back after every failed write, also after one that reached the phone; the
  specification says "Monotonic, per-direction sequence numbers SHALL prevent
  replay attacks on the USB transport."
- `command_lost`: `getNextSequence` (`lib/channel/commandClient.ts:46`) reads and
  writes in two awaits; of two callers with one number the first is never settled,
  and a response to either settles the second, although "the command promise SHALL reject with `Error('Command N failed after 3
  retries')`".
- `heartbeat_never`: with an RTO above 5 s (`rttEstimator.ts:16` sets no upper bound) three RTOs are
  longer than the interval; each ping replaces the open one (`commandClient.ts:162`)
  before its timer counts a miss. "WHEN 3 consecutive pings are not answered within the
  adaptive RTO THEN the transport SHALL be declared dead".
- `replay_restart`: the replay cache (`replayProtection.ts:4`) is lost with the worker,
  which Chrome stops when it is idle; the same assertion is accepted again within "5
  minutes", in which "the handler SHALL return [...] Assertion replay detected".
- `approval_revoke`: Revoke in the settings (`popup/panels/SettingsPanel.tsx:42`)
  sends `domain-denied` and takes the domain off the displayed list; the
  specification says "the dynamic content script for that domain SHALL be
  unregistered and the domain SHALL be removed from the approved list".

Others follow from the models as they stand; no run is kept for them:

- Two commands whose callers overlap in `getNextSequence` go out under one number: "the
  command SHALL include a monotonically increasing `sequence` number".
- The active USB connection fails; `doSwitch` first awaits `current.disconnect()`
  (`TransportManager.ts:172`), whose message fails if no offscreen document is there; the
  exception is swallowed and USB stays active (`slipped`), although "the TransportManager
  SHALL immediately activate the standby WebRTC transport".
- `authInProgress` (`messageHandlers.ts:957`) belongs to no attempt and is kept in memory.
  A restart of the worker or a late report of an earlier page releases it while the page
  asks the user, although "new auth requests SHALL be rejected".
- A domain on the synchronized list has no script here until the next start, and
  `registerForDomain` (`contentScriptManager.ts:32`) takes it for registered (`lacking`):
  Allow succeeds without "the dynamic script SHALL be registered".
- A superseded read loop drops the payload the session waits for
  (`readloop.go:64`): "WHEN a received sequence number equals the expected sequence
  number THEN the payload SHALL be accepted and decrypted".
- A read loop that finds the device gone forgets handle and key without closing
  or zeroing them (`readloop.go:80-82`, `main.go:266`): "the previous session key
  SHALL be zeroed before the new one is created".
- `send-payload` waits for a rekey, as one goroutine handles all messages
  (`main.go:134`), while the comment at `main.go:358-360` says it is not blocked.
- A larger command number may reach the wire first (`commandClient.ts:263`): "the
  command SHALL include a monotonically increasing `sequence` number".
- After a browser restart no device is active (`deviceRegistry.ts:83`): "the last
  active device SHALL be re-selected".
- Two revocations that queue themselves at once lose one (`deviceRegistry.ts:315`).
- After two failed persists the active device may not be a registered one, if a
  reconciliation runs in the middle of a revocation; `ActiveRegistered` is
  therefore stated for runs without failures.
- A restored session has no alarms (`sessionManager.ts:222`), so the idle timeout
  does not apply to it; a clear that overlaps a restoration can be undone.
  `ClearFinal` is therefore stated for calls that do not overlap. While PRF is
  available `restorePersistedSession` restores nothing (`sessionManager.ts:203`).

Link:

- The extension's socket sends no commitment, so its own `join-room` gets it
  disconnected where a room has one; `pendingCredentials` is keyed by the bare code
  and never found.
- The relay-only connection has no reconnect attached; `FailureAnswered` is stated
  for the other. `offerAlreadyCreated` is not reset on a reconnect.
- A reconnect that awaits credentials when `disconnect` comes opens a connection
  after it (`offscreen-webrtc/main.ts:286`); `DisconnectFinal` is stated for a
  disconnect with nothing awaited. A second start overwrites `pc` without closing it,
  and old sockets stay open.
- The two ends of the keepalive port use different names (`background/index.ts:37`).
- After a worker restart `offscreenCreated` is false while the document exists, so it
  can be neither used nor closed.

Pairing:

- The popup's router (`App.tsx:38-80`) shows "Loading..." in the state in which the
  emoji are to be confirmed. `startPairingFlow` of the service,
  `handleDataChannel*` and `disconnectSession` have no caller.
- Reset in the panel does not tell the background, so the next start is refused as
  already in progress.
- Confirm reads the pending key again after its awaits; confirm and reject at once
  can leave the device registered although rejected (the pairing is not stored).
- An earlier flow's clean-up clears the next pairing; a stale emoji survives a restart;
  a restart between the two writes, a throw of `getDeviceCount` or `resolveDeviceName`
  (`pairingCoordinator.ts:329-331`) and a failing rollback leave a pairing without
  registered device. A revocation replaces the stored pairing also if it is of another phone.

Transport:

- A failed `webrtc-disconnect` is taken for a failure of USB; a failing relay
  disconnect leaves USB active though dead; a USB read error during a switch to USB
  joins that switch. These are what `slipped` stands for.
- `webrtc-disconnect` makes the document close its USB relay as well, so a switch from
  WebRTC to the relay ends on a closed relay.
- A second caller of a switch gets the first one's result, of whichever target.
- `get-connection-state` sent by the background reaches no listener; `requestDevice`
  needs a user gesture, which an offscreen document does not have.
- Polling is triggered by an edge, which a poll can consume without a switch. With no
  transport at initialization WebRTC is never adopted later. `failed` and `closed`
  do not reach `WebRtcTransport`, and a drop of the relay is not noticed.
- `destroy` during initialization leaves a manager that nobody holds and that clears
  its successor's init promise. `initialize` never rejects, so the rollback of
  `switch-device` is unreachable. `selectTransport` and `monitorQuality` have no caller.

Authentication:

- `begin-challenge-assertion` is sent only by the popup, which has no tab, and the
  handler refuses a caller without one.
- Its early returns leave the lock set with no timer (`messageHandlers.ts:545`);
  `LockReleased` excludes them. A late report of an earlier page releases the lock of a
  newer attempt. The panel ignores the result `timeout`.
- Without a transport manager the result is `verified` although nothing was sent.

Content scripts:

- Two domains approved at once lose one in the list (its script stays); pending and
  denied domains have the same race, so an answered domain may be asked about again.
- A second caller of a registration reports success though the first failed.
- `setLoginSelectors` has no caller, so credentials are never injected.

Attestation:

- The lock does not exclude: all who await the same header enter together, and the
  status may be that of an older header. It is kept for all tabs together.
- A key replaced during its own import is cached stale (`keyStore.ts:51-58`);
  `ImportedCurrent` excludes it. An imported key is used after it has expired, and a
  manifest can only add keys.
- The stored `attestation:lastVersion` is never read, so after a restart an older
  manifest is accepted. A DOM query that times out counts as `verified`.

The authentication page's MFA mode (`auth/main.ts:127`) leaves both buttons disabled
after a registration though the status says "You can now authenticate".

## 7. Not modelled

- Cryptography (Noise, AES-GCM, WebAuthn, SAS words) and encodings (QR, JSON
  framing): computations without state of their own; a signature or a handshake
  succeeds or fails.
- DOM scraping, detectors, PII filter, domain parsing: pure functions on strings and
  pages, out of TLC's reach beyond toy inputs and covered by unit tests.
- Rendering of the popup; the popup is a caller that sends what its state allows.
- SDP and ICE exchange, credential lifetimes and refresh timers, the connection
  timeout (it only notifies), the keepalive, a start without offer.
- In the transport manager payloads, latencies and backoff; at most one
  `switch-device` and one `revoke-device` at a time (the popup is not opened again
  while its call runs).
- In the authentication flow the challenge's contents and the MFA mode of the page. One
  `begin-challenge-assertion` at a time: a second popup's is refused by the lock
  (`SecondPopupRefused`); that it runs beside the first after a late report has released
  the lock is left out. The page's first write of the pending assertion does not fail.
- In attestation several relying parties and keys (they share no entry of the key
  store), header parsing and the demo mode.
- HTTP relays, floating point in the RTT estimator, TURN and build configuration,
  third-party code.
- Code no production code calls: `WebUSB` demo stack, TLS binding and fall-back
  authentication helpers, `RekeyableSession`.

The parts of section 2 that are left are listed in `PROJECT.json` with status
`not_modelled` or `partly`. Storage accesses of the command client do not fail in
the model.
