# A TLA+ model of the Remote Agent Connector

These modules specify the part of `remote_agent_connector` that is hard to test:
how commands, relay sessions, heartbeats, operators and restarts interleave over
one event loop and one SQLite database. TLC checks them on small instances;
TLAPS proves the most important safety properties for every instance. Paths
below are relative to `src/remote_agent_connector/` unless they start with
`src/`.

## The system

An MCP client calls a typed tool (`server.py`). `RemoteAgentService.device_command`
(`service.py`) routes the call to one device process, claims its idempotency key
in the table `agent_requests` (`store.py`), takes a collision guard, writes a frame
to the WebSocket of the device's relay session (`relay.py`) and waits for the answer.
Devices connect to `/relay`, authenticate, and send heartbeats and answers.
An operator enrolls, revokes, deletes, lists and cancels over HTTP routes.

| Component | State | Operations | What makes it correct |
|---|---|---|---|
| Command dispatch (`service.py`, `store.py`) | `_in_flight`, `session.pending`, futures, `agent_requests` | `device_command`, `cancel_request`, `claim_request`, `complete_request` | no two equal mutations in flight; a key is one request; ledger and caller agree; every call returns |
| Relay sessions, registry (`relay.py`) | registered session per device, progress of each `handle()` | register (supersede), remove, heartbeat, response, protocol error, disconnect | no waiter is left behind by supersession, failure or close |
| Presence (`store.py`, `service.py`) | `live_instances`, `remote_agent_devices` | upsert, heartbeat, disconnect, sweep, revoke, delete, routing reads | a row tells the truth about its own connection; a revoked device is not routable |
| Enrollment (`service.py`, `store.py`, `relay.py`) | tokens, challenges, devices, the stage of each handshake | issue, consume, enroll, authenticate, time out, revoke, delete | a token is good for one attempt and pairs its connector or nothing; a challenge is used once; a refusal is explained |
| Certificate renewal (`src/scripts/renew_relay_certificate.py`) | `relay.crt` and `relay.key`, the backup, what nginx has loaded | issue, install, reload, handshake, restore | the pair on disk matches, a failure restores the old one, no expired leaf is served |
| App assertions (`app_assertion.py`, `protocol.py`) | the device's keyset and replay cache | verify delegation, dispatch, fetch keyset, verify, reject replay | an assertion is accepted once; a revoked key fades; a prompt frame is in time |
| Diagnostics (`errors.py`) | none | `relay_diagnostic` | a closed set of codes, each with its stage and whether to retry |
| Delegation parsing (`protocol.py`), tools and routes (`server.py`) | none | parse, check, call | pure |
| Migrations, CA, config, audit, `db.py`, deployment | tables, files | | see PROJECT.json |

Components interact by calls and shared state: `device_command` reads
`live_instances` and the registry and writes `session.pending`; the relay resolves
the futures in it; the registry's `register` and `remove` fail them; `revoke_device`
writes only tables. All Python code runs on one event loop, so a step lasts from
one suspension to the next. The registry's lock is never contended (nothing awaits
while holding it), so the suspensions that matter are: `send_json` and `wait_for` in
`device_command`, `send_json` in `cancel_request`, and the writes of error and close
frames in `handle()`. Two parts run elsewhere: the renewal script on the relay's host,
once a day, and the assertion verifier inside the device.

The hard behaviours, each with its line, are the list `hazards` of PROJECT.json.

## Modules

| Module | Models |
|---|---|
| `Relay` | what a WebSocket's `handle()` and the registry share: `stage`, `peer`, `registered`, and one fragment per step (register, start of an error, the finally block, process death). No `Next` of its own: the others conjoin its fragments. |
| `Commands` | `device_command` and `cancel_request`, the ledger, the collision guard, `session.pending`, the device's answers, supersession, close and crash. A call is a task with program counter `pc`; a fresh uuid is the call itself, a signed assertion's `request_id` is a member of `SignedId`, which several calls may present. Implements `Idempotency`. |
| `Idempotency` | abstract: what an idempotency key promises a caller. A call owns its key or is refused; an outcome is decided once; a call is answered with what its key has, or is lost. |
| `Presence` | `live_instances` and device enrollment with a clock in seconds: authenticate, heartbeat, close, sweep, revoke, delete, re-enroll, restart. |
| `Connector` | the composition: routing reads (with their sweep) before the claim, the digest's `instance_id` and `context_epoch`, and the effect of each session step on calls and presence together. It INSTANCEs the other two and implements both. |
| `RelayDiagnostics` | `relay_diagnostic` as operators; `Enrollment` tells its clients what they give. |
| `Pairing` | abstract: a token is good for one attempt, which in one step pairs the connector it was issued for or makes the token void. |
| `Enrollment` | tokens, challenges and the handshake half of `handle()`, with `complete_enrollment` as its three transactions and a death of the process between any two. Implements `Pairing`. |
| `Renewal` | the script as steps over two files, a backup and an nginx that acts on a signal later; a failing command or a death at every step, also in the middle of a copy that restores a file. Implements `Rotation`. |
| `Rotation` | abstract: leaves replaced one at a time. A trial leaf is kept or given up; what a server loads is a whole pair. |
| `Assertions` | an assertion from the Hub's signature (external) over `verify_delegation_headers` and `device_command` to the device's `verify`, with clocks that drift and frames sent again, late, lost or out of order. |
| `...Proofs` (six) | the theorems about the module each is named after. |
| `DataInduction` | lemmas for inductions over numbers and sequences, on which `AssertionsProofs` rests. |
| `MC...` (six) | constants and symmetry for TLC. |

How state corresponds: `pending[s][rid]` is `session.pending` of connection `s`;
`inFlight` is `service._in_flight`; `ledger` is `agent_requests` by connector and
client-with-key (`Key` stands for the pair); `fut` is the state of the future a call
waits on; `owed` is what the device has been sent and may yet answer, at most once,
whenever it likes; `row` is `live_instances` by `instance_id`; `stage` "closing" is a
session whose error frame is being written and that is still registered.
In `Enrollment`, `task` is the `complete_enrollment` whose next transaction is due; time is
kept as seconds left. In `Renewal`, a generation is a leaf with its key, `disk` the two
files, `pc` the next thing `main()` does; for `Rotation`, what is kept is the pair
the run found, and the trial is the leaf it was issued, until it ends.
For `Idempotency`, a command runs while it is dispatched and in flight, the owner of a key is the
`request_id` of its row in `agent_requests`, and the key's outcome is the outcome of that row. In `Assertions`, a call stands for the headers,
the assertion and their ids; `seen` is `AppAssertionVerifier._seen`, oldest first.

Abstracted: arguments (an `Intent`), results (`ok`, `device_error`, too large or
not), frames, audit rows, all refusals before the claim (one action, since none of
them changes more than the sweep). A session authenticates and registers in one step,
since nothing suspends in between. A client of `Enrollment` may send any frame, with any
challenge, token and key; `signed` says whether the signature is its own. Key windows,
scopes and app ids are one value each in `Assertions`; `pending_root` is left out. In
`Renewal` a file is `Torn` from the moment `shutil.copy2` opens it until the copy ends, whatever
bytes it then holds; runs of the script do not overlap.

## Runs

| Run | Question | Bounds |
|---|---|---|
| `commands` | Do guard, ledger, pending tables and replies agree? | three calls are enough for one in flight, one refused and one retry; two keys; one request_id signed by a Hub that two calls may share; two sessions to supersede; one crash. One mutating intent, as the guard is per intent; read verbs run in `connector`. |
| `commands_live` | With an operator who cancels: do ledger and replies agree, does every call return, is every slot freed? | two calls, an operator who cancels, two sessions, one crash; no symmetry. An operator in `commands` itself, with three calls and signed ids, is beyond five minutes of TLC: there cancels are covered by the theorems, which hold for any set of operators. |
| `presence` | Is presence truthful, is a revoked device offline? | three connections (an old one, its successor, and one of another device that uses the same process id), two devices, two processes, a window of two seconds in three, epochs 0 and 1. |
| `connector` | Do the parts compose, are commands routed to live rows only? | two calls of a read verb under one key, two connections of two processes, one operator, one crash, a window of one second in one. |
| `enrollment` | Does a token pair one device, once, and is every refusal explained? | two connections, tokens, connectors and keys (an attempt and a rival for the same device or token), a good and a bad profile, a challenge of two seconds under a timeout of one, one crash. |
| `renewal` | Which failures are repaired, when can a served leaf expire? | three leaves issued after the one found (a failed one, its successor and one that replaces that), four days of validity, a window of two, so that one failed run is allowed and two are not. |
| `assertions` | What does a device accept, and how often? | two calls of two identities on one device, a cache of one entry so that it evicts, a clock one second ahead or behind, six seconds, of which an assertion lives four and may be under way two, two keys, one keyset after the first, two frames. A longer cache, in which some but not enough others follow an entry, is left to `ReplaysRefused`. |
| `stranded_key`, `resent_request`, `ignored_cancel`, `digest_conflict`, `untold_refusal` | Does the code do what a sentence of `src/README.md` says? | the smallest instance that reaches the counterexample. |

`CHECK_DEADLOCK FALSE` everywhere: calls, sessions, leaves and seconds are finite, so every
behaviour of an instance ends. Time in `Presence` is bounded by `MaxTime`, epochs by
`MaxEpoch`, deaths of the process by `MaxCrashes`, leaves by `MaxRuns`, and in `Assertions`
the clock by `MaxTime`, keysets by `MaxKeysets`, frames by `MaxFrames`. `Enrollment` needs no
bound on time: what has expired or was consumed has no seconds left.

### What the runs show

The passing runs: the collision guard is exclusive and always has a holder, through
supersession, cancels, late timers, duplicates of a signed request and restarts; a
key stays with one `request_id`; no waiter is lost, also when a session is superseded
while a frame is being written to it or dispatched to while closing; the ledger holds
what callers were told and never changes its mind; an answer resolves its own caller only, never
one that took the place of a call that timed out or was cancelled; a key is undecided only because
its call is in flight, died with the process or was refused as busy; rows of `live_instances` are
opened, advanced and closed by their own connection only; a revoked or deleted device
has no online row however its WebSocket goes on; frames go only to a WebSocket whose
own row is fresh.

`Commands` implements `Idempotency`, which says in one page what a caller may rely on. It also
shows where that ends: a call refused as busy owns its key all the same, a call lost with the
process leaves its key undecided, and two calls that present one signed `request_id` may both
run, one after the other, and be told different outcomes.

Enrollment: whatever dies or fails between the three transactions, a token is good for
one attempt, also after its device was deleted; no challenge is used twice or for two
purposes although `complete_enrollment` takes the challenge of any connection; and a client
whose token was spent for nothing is told a final error that does not invite it to try the
same token again (`untold_refusal` is the exception: a profile that does not exist).

Renewal: a failing command never leaves a mixed pair, and a run that reports a failure
leaves the pair it found. nginx never loads the files of two leaves nor a torn one, not even
those of a run that died (`Renewal` implements `Rotation`): restarted over them, it goes down.
Three limits are stated in the properties, because the code has them.

- A run that *dies* between the two replacements leaves certificate and key of
  different leaves, although the docs say that the pair is swapped atomically
  (`src/README.md:164`); only its parts are.
- A run that dies while it restores leaves a torn file, since `shutil.copy2` writes into the
  live one (`restore`, line 210 of the script), or files of two leaves. A torn `relay.crt` is
  more than an outage: `leaf_not_after` fails on it before `--force` is looked at, so every
  later run fails until somebody removes or repairs the file.
- A run that dies after the swap, or anywhere in the restore, before nginx was told leaves
  another leaf on disk than in nginx: later runs look at the disk and may skip, so the old leaf
  may be served beyond its expiry.

In every other case nginx serves no expired leaf while fewer runs in a row have failed than
the window has days.
A missing `docker` is an `OSError`, not a `RenewalError`, so it counts as a death.
`live_handshake` may verify the old leaf; nginx nevertheless comes to serve what is on disk.

Assertions: a replay is refused while the assertion lives, with two exceptions, both in
`ReplayIsRefused`: the cache drops its oldest entry at `seen_limit` even if it has not
expired, and if the clock reaches the expiry between `verify`'s reading and
`_reject_replay`'s the entry is purged just before the lookup. `verify_keyset` takes an
older keyset, or one past its `expires_at`, at any time; `RevokedKeyFades` bounds what that
is worth to the lifetime of one assertion.

Five runs find a behaviour that contradicts the documentation (PROJECT.json `findings`
quotes each):

- `stranded_key`: `command_in_flight` leaves the caller's key pending for ever.
- `resent_request`: a retry with the same signed `request_id` is dispatched again
  after the first call completed.
- `digest_conflict`: a heartbeat that advances `context_epoch`, or a reconnect, turns
  the retry of the same intent into `idempotency_conflict`.
- `ignored_cancel`: the answer to a cancelled request ends the session of a device
  that ignores cancel frames.
- `untold_refusal`: a token with an unknown profile is consumed and the WebSocket ends
  without a diagnostic. The property speaks of ends that waste a token. A client that sends a
  binary frame in the handshake is told nothing either (`UnreadableFrame`: what `receive_text`
  raises at `relay.py:348` passes the same except clauses), but loses nothing.

Two smaller observations have no run: the operator of a cancel is told `cancelled` also when
the caller was answered otherwise meanwhile (`service.py:131`), and the close of a WebSocket
overwrites the `disconnected_at` of a row that a sweep had closed (`store.py:517`).

### Fairness

`FairSpec` assumes, per call, weak fairness of the end of the frame's write and of
being resumed with a result or by its timer. asyncio's run queue is FIFO and its
timers fire; the write ends because the server's keepalive pings fail a dead
connection. The write is outside `wait_for`, so if it did not end the call would
hold its slot beyond the relay window: the assumption is needed, and it is the only
one about the network. Nothing is assumed of the device, the operator, or new calls.
`Renewal` assumes that nginx acts upon a signal it was sent (weak fairness of `Load`), and
nothing of the script. The other specifications state safety only.

## Proofs

Everything below is proved for any sets of calls, keys, intents, sessions, devices,
processes, tokens, keys, leaves, signed ids and operators, any windows and any bounds, from
the named assumptions of the modules only: the null value is no datum, fresh ids are not
signed ids, `Mutating` is a set of intents, bounds are natural numbers, the replay cache has room
for an entry, the null value is no set of calls; a handshake timeout
is shorter than the life of a challenge, a validity longer than the renewal window, and an
assertion outlives age, delivery and skew (`TtlOutlivesDelivery`, 180 s against 90 + 30 + 5).

**`CommandsProofs`**: `TypeCorrect`, `CollisionGuard`, `SlotsHeld`, `OneRequestPerKey`,
`OnceWithoutAssertions`, `WaitersReachable`, `RepliesRecorded`, `OutcomesFinal`.
The inductive invariant `IInv` adds to the checked properties what they rest on:
`RegistryInv` (a registered session is live and belongs to its device), `CallInv`
(what each `pc` says of `req`, `sess`, `fut` and `reply`), `KeyInv` (a dispatched call's row
exists and has its `request_id`), `UnusedInv` (a call that has not begun appears in no
row), `HolderInv` (a guarded call in flight holds its slot; without it a release could
free a slot of someone else) and `ReplyInv`. `StepCases` sorts `Next` into cases; one
lemma per part of `IInv` shows that every case preserves it; `InvStep` combines them;
each theorem follows from `InductiveInvariant` by PTL.
Three results build on `IInv`:
`AnswersFindTheirCaller`, with `EntryInv` (an entry of `session.pending` names a call on this
session, under its own `request_id`); `PendingKeysExplained`, where `ExplanationStays` shows that
no step takes the reason of a pending key away and `NewRowExplained` that a new row comes with
one; and `IdempotencyImplemented`, one lemma per kind of step: a claim is a `Start` or one of the
three refusals, what ends a call is `Finish`, a crash is `Lose`, and all else stutters.
`GuardIsBusy` is its hinge: by `HolderInv` and `GuardHasHolder` the slot in `_in_flight` is taken
exactly when an equal mutation runs, which is how the abstract specification says it.
That a call under its own `request_id` finds its key undecided needs `KeyInv`.

**`PresenceProofs`**: `PresenceTypeCorrect`, `RevokedDeviceOffline`, `RoutingAgrees`,
`ReapedNotOutliving`, `ClosedOnlyForCause`, `ClosedStaysClosed`: all the properties of
the run `presence`. One lemma per SQL statement says what it does to a row. `PInv` adds
`SessionInv` (a registered session is live and authenticated as its device), `RowInv` (a
row was written by a connection that has authenticated, for a device that is not
deleted, not in the future) and `OwnRowInv` (`RoutedByOwnRow` of closed rows too).
`RowInv` is what makes a re-enrolled device start without rows, and what tells a new
connection from the one that wrote a closed row.

**`ConnectorProofs`**: `CommandsImplemented`, `PresenceImplemented`, `LiveDeviceOnly`,
`LedgerNames`: all the properties of the run `connector`. Each refinement needs a fact
the other component keeps (the epoch of the routed row is an epoch; an unmatched answer
arrives on a session), so `IInv` and `PInv` are carried together: under both, each step of
the connector is a step of each component (`CommandsStep`, `PresenceStep`), and so keeps
the invariant of each (`JointStep`). The theorems of the two components therefore hold
of the composed process: `ProcessIsSafe` states the main ones for `ConnectorSpec`, and
`ProcessIsIdempotent` that the process implements `Idempotency`. `LiveDeviceOnly` combines
`NewDispatch` (only a routed command is sent) with `OwnRowInv` and `RevokedIsOffline`. `LedgerNames` needs `UnusedInv`: the claim
of a fresh call finds no row with its `request_id`, so the digest is its own.
`SameCommands` and `SamePresence` identify the definitions the proof modules extend with
those `Connector` instantiates.

**`EnrollmentProofs`**: `EnrollmentTypeCorrect`, `PairingImplemented`, `GrantsStand`,
`WasteIsExplained`, `ChallengesAreSingleUse`, `OfferStands`: all the properties of the run
`enrollment`. One lemma per statement of `store.py`, then four invariants. `PairInv` (the
running attempt holds a consumed token of its connector that has not paired) carries the
refinement: consuming the token is a stutter of `Pairing`, the insert of the device is
`Pair`, and whatever ends the attempt before it, a death included, is `Void`.
`ChallengeInv` (no challenge exists before its connection has come to it) makes ids fresh.
`SpenderInv` (only a closed connection was told anything, and it is told nothing more)
makes an explanation last. `FreshInv` says that a challenge has more seconds left than the
wait for its answer.

**`RenewalProofs`**: `RenewalTypeCorrect`, `PairsMatch`, `FailuresRestore`, `LeafStaysValid`,
`RotationImplemented`: all the safety properties of the run `renewal`. `DiskInv` says for each `pc` which pair is on
disk and that the backup is the pair the run found. `LeafInv` is the argument of
`--renew-before-days`: days left plus failures in a row never fall below the window, and
nginx serves nothing older than the disk unless it has been signalled; it is carried
through a failure at every step. The refinement of `Rotation` needs `DiskInv` for the pair on disk
when a run ends, and two consequences: what nginx loads is whole (`LoadedIsWhole`), and each
file is the one kept, the one tried or torn (`EachFileOfOne`). `DiedOver` (a run died while it
exchanged the files) is what the invariant allows a mixed or torn pair for.

**`AssertionsProofs`**: `AssertionsTypeCorrect`, `ReplaysRefused`, `RevocationBounds`,
`DeliveryInTime`: all the properties of the run `assertions`. `TimeInv`
keeps what the connector established of each frame (`Admitted`), that no key of the
current keyset is revoked, and so that what is signed with a key was signed before its
revocation. `CacheInv` is about the replay cache: its entries are distinct, each was accepted,
and those accepted after an entry are counted in `since` (`Tracked`); an accepted assertion that is
not in the cache has expired or has `seen_limit` others after it (`Covered`). A purge takes
expired entries only and an eviction takes the oldest, so both keep it.

**`DataInduction`**: the library's induction theorems take an operator as a parameter, which the
installed provers cannot instantiate. The inductions that are needed here are done with a set
instead: `LeastNumber` says that a nonempty set of naturals has a least member (by the
well-foundedness of strict inclusion of finite sets), `NumberInduction` that a set with 0 and
with every successor is all of them. With them it follows that the purge of a sequence of any
length leaves a subsequence, namely of what has not expired (`SiftNext`, `PurgeExists`,
`PurgeSifts`). `Remembered` in `Assertions` is for this reason a function on lengths.

Model-checked only: liveness (`CallsReturn`, `GuardIsReleased`, `RenewedIsServed`), which needs
fairness and ENABLED. Every other property of a passing run is a theorem.

## Plan

1. done: `Relay`, `Commands`, `Presence`, `Connector` and their proofs.
2. done: `Enrollment` against `Pairing`, `Renewal`, `Assertions`, `RelayDiagnostics`, and their proofs.
3. done: `Idempotency`, which `Commands` implements, and `Rotation`, which `Renewal` implements, and
   the proofs of both; the replay cache of `Assertions` by induction over its length.
4. `pending_root` in `Assertions`: the window in which two trust anchors are in use.
5. Overlapping runs of the renewal script.
6. `RequestMigration`: the backfill of `003_request_client_isolation.sql` as an operator
   checked over small tables.

## Not modelled

Parsing, signatures, canonical JSON, X.509, configuration, audit rows and redaction,
nginx's own configuration, container files, and `db.py` (which nothing uses). PROJECT.json
says why for each component. Five hazards have no property. Overlapping renewals and the migration's backfill are not modelled
(items 5 and 6). That the row of a failed call replays as a normal result (`store.py:657`) is a
difference the modules do not make: an outcome is one value, raised or returned. A write that
never ends (`service.py:658`) is assumed away by the fairness of `CallsReturn`. And that a
delegation must match its assertion (`protocol.py:561`) is a guard of the step that sends the
frame, which no later step can undo.
