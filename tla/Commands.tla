------------------------------ MODULE Commands ------------------------------
(***************************************************************************)
(* RemoteAgentService.device_command and cancel_request (service.py), the  *)
(* agent_requests ledger they share (store.py), and the half of a relay    *)
(* session that answers them (relay.py).                                   *)
(*                                                                         *)
(* device_command runs without suspending from its first line to the write *)
(* of the relay frame, and from the moment it is resumed to its return:    *)
(* those are the actions Dispatch (or a refusal) and the ones that Settle. *)
(* In between the task is suspended twice, in send_json (pc "sending") and *)
(* in wait_for (pc "waiting").                                             *)
(*                                                                         *)
(* The routing reads belong to Presence: here a command finds the          *)
(* registered session of its connector or is not dispatched, and the       *)
(* routed row's instance_id and context_epoch are one value of Context.    *)
(***************************************************************************)
EXTENDS Relay, Naturals

CONSTANTS
    Call,           \* executions of device_command
    Key,            \* pairs of client_id and idempotency_key
    Intent,         \* pairs of tool and arguments
    Mutating,       \* the intents whose tool is in MUTATING_RELAY_TOOLS
    SignedId,       \* request_ids that signed app assertions carry
    Context,        \* instance_id and context_epoch of the routed row
    Operator,       \* tasks running cancel_request
    MaxCrashes      \* bound: how often the process dies

ASSUME CommandsAssumption ==
    /\ Mutating \subseteq Intent
    /\ Call \intersect SignedId = {}
    /\ None \notin Call \union SignedId
    /\ MaxCrashes \in Nat

VARIABLES
    pc,             \* [Call -> where the task stands]
    req,            \* [Call -> Request or None], its arguments once it claims
    sess,           \* [Call -> Session or None], where it was dispatched
    fut,            \* [Call -> state of its future]
    reply,          \* [Call -> what the caller got, or None]
    pending,        \* session.pending: [Session -> [Rid -> Call or None]]
    inFlight,       \* service._in_flight: [guard -> request_id or None]
    ledger,         \* table agent_requests: [Slot -> Row or None]
    owed,           \* the calls whose frame the device has yet to answer
    cancelling,     \* [Operator -> the call whose cancel frame is written]
    crashes

callVars == <<pc, req, sess, reply>>
commandVars == <<callVars, fut, pending, inFlight, ledger, owed, cancelling,
                 crashes>>
vars == <<relayVars, commandVars>>

(***************************************************************************)
(* The fresh uuid of a call whose delegation carries no signed assertion   *)
(* is the call itself.                                                     *)
(***************************************************************************)
Rid == Call \union SignedId
RidsOf(c) == {c} \union SignedId

Request == [connector : Connector, key : Key, intent : Intent, rid : Rid]
Slot == Connector \X Key
Guard == Connector \X Intent

Result == {"ok", "device_error", "cancelled"}
Failure == {"device_timeout", "device_offline", "result_too_large"}
Outcome == Result \union Failure

(***************************************************************************)
(* "not_dispatched" is every AgentError raised before the claim: no fresh  *)
(* row or no registered session, capability_not_granted, an assertion for  *)
(* another connector or expired, a timeout beyond the relay window.        *)
(***************************************************************************)
Refusal == {"not_dispatched", "idempotency_conflict", "request_pending",
            "command_in_flight"}

Row == [rid : Rid, digest : Intent \X Context,
        outcome : {"pending"} \union Outcome]

ASSUME NoDataAssumption ==
    /\ None \notin Row
    /\ None \notin Outcome \union Refusal

TypeOK ==
    /\ RelayTypeOK
    /\ pc \in [Call -> {"idle", "sending", "waiting", "done", "lost"}]
    /\ req \in [Call -> Request \union {None}]
    /\ sess \in [Call -> Session \union {None}]
    /\ fut \in [Call -> {"none", "unset", "device_offline"} \union Result]
    /\ reply \in [Call -> Outcome \union Refusal \union {None}]
    /\ pending \in [Session -> [Rid -> Call \union {None}]]
    /\ inFlight \in [Guard -> Rid \union {None}]
    /\ ledger \in [Slot -> Row \union {None}]
    /\ owed \subseteq Call
    /\ cancelling \in [Operator -> Call \union {None}]
    /\ crashes \in 0..MaxCrashes

CommandsInit ==
    /\ pc = [c \in Call |-> "idle"]
    /\ req = [c \in Call |-> None]
    /\ sess = [c \in Call |-> None]
    /\ fut = [c \in Call |-> "none"]
    /\ reply = [c \in Call |-> None]
    /\ pending = [s \in Session |-> [r \in Rid |-> None]]
    /\ inFlight = [g \in Guard |-> None]
    /\ ledger = [k \in Slot |-> None]
    /\ owed = {}
    /\ cancelling = [o \in Operator |-> None]
    /\ crashes = 0

Init == RelayInit /\ CommandsInit

-----------------------------------------------------------------------------
(***************************************************************************)
(* The parts of device_command.                                            *)
(***************************************************************************)
InFlight(c) == pc[c] \in {"sending", "waiting"}

SlotOf(r) == <<r.connector, r.key>>
GuardOf(r) == <<r.connector, r.intent>>
Guarded(r) == r.intent \in Mutating

(***************************************************************************)
(* claim_request.  INSERT OR IGNORE keeps a row that is there; the claim   *)
(* is new if the row carries this request_id, whatever else it holds.      *)
(***************************************************************************)
ClaimedLedger(r, ctx) ==
    IF ledger[SlotOf(r)] = None
      THEN [ledger EXCEPT ![SlotOf(r)] =
                [rid |-> r.rid, digest |-> <<r.intent, ctx>>,
                 outcome |-> "pending"]]
      ELSE ledger

MutantReclaimPending(r) ==
    ledger[SlotOf(r)] # None => ledger[SlotOf(r)].outcome = "pending"

ClaimIsNew(r) ==
    ledger[SlotOf(r)] # None => ledger[SlotOf(r)].rid = r.rid

SameDigest(r, ctx) == ledger[SlotOf(r)].digest = <<r.intent, ctx>>

(***************************************************************************)
(* complete_request: UPDATE ... WHERE status = 'pending'.                  *)
(***************************************************************************)
MutantOverwrite(r, outcome) ==
    [ledger EXCEPT ![SlotOf(r)].outcome = outcome]

MutantForgetFailure(r, outcome) ==
    IF outcome \in Result
      THEN [ledger EXCEPT ![SlotOf(r)].outcome = outcome]
      ELSE ledger

CompletedLedger(r, outcome) ==
    IF ledger[SlotOf(r)].outcome = "pending"
      THEN [ledger EXCEPT ![SlotOf(r)].outcome = outcome]
      ELSE ledger

(***************************************************************************)
(* _acquire_collision_guard and _release_collision_guard.  The slot holds  *)
(* the request_id, and is popped without looking at it.                    *)
(***************************************************************************)
MutantGuardPerKey(r) == Guarded(r) /\ inFlight[GuardOf(r)] = r.rid

GuardHeld(r) == Guarded(r) /\ inFlight[GuardOf(r)] # None

MutantHoldIntent(r) ==
    IF Guarded(r) THEN [inFlight EXCEPT ![GuardOf(r)] = r.intent] ELSE inFlight

AcquiredGuard(r) ==
    IF Guarded(r) THEN [inFlight EXCEPT ![GuardOf(r)] = r.rid] ELSE inFlight

MutantKeepGuard(r) == inFlight

ReleasedGuard(r) ==
    IF Guarded(r) THEN [inFlight EXCEPT ![GuardOf(r)] = None] ELSE inFlight

(***************************************************************************)
(* fail_pending of a session: every future still waiting gets              *)
(* AgentError("device_offline"), and the session forgets them all.         *)
(***************************************************************************)
AwaitedOn(s) == {c \in Call : fut[c] = "unset"
                                /\ \E r \in Rid : pending[s][r] = c}

FailPending(s) ==
    /\ fut' = [c \in Call |->
                 IF c \in AwaitedOn(s) THEN "device_offline" ELSE fut[c]]
    /\ pending' = [pending EXCEPT ![s] = [r \in Rid |-> None]]

-----------------------------------------------------------------------------
(***************************************************************************)
(* device_command, up to its first suspension.                             *)
(***************************************************************************)
Answered(c, r, code) ==
    /\ pc[c] = "idle"
    /\ pc' = [pc EXCEPT ![c] = "done"]
    /\ req' = [req EXCEPT ![c] = r]
    /\ reply' = [reply EXCEPT ![c] = code]
    /\ UNCHANGED <<sess, fut, pending, inFlight, owed, cancelling, crashes>>

Routed(r) == registered[r.connector] # None

MutantClaimBeforeRoute(c) ==
    /\ Answered(c, None, "not_dispatched")
    /\ \E r \in Request, ctx \in Context :
          r.rid \in RidsOf(c) /\ ClaimIsNew(r) /\ ledger' = ClaimedLedger(r, ctx)

NotDispatched(c) ==
    /\ Answered(c, None, "not_dispatched")
    /\ UNCHANGED ledger

Conflict(c, r, ctx) ==
    /\ Routed(r) /\ ~ClaimIsNew(r)
    /\ ~SameDigest(r, ctx)
    /\ Answered(c, r, "idempotency_conflict")
    /\ UNCHANGED ledger

MutantPendingAlways(c, r, ctx) ==
    /\ Routed(r) /\ ~ClaimIsNew(r)
    /\ SameDigest(r, ctx)
    /\ Answered(c, r, "request_pending")
    /\ UNCHANGED ledger

StillPending(c, r, ctx) ==
    /\ Routed(r) /\ ~ClaimIsNew(r)
    /\ SameDigest(r, ctx)
    /\ ledger[SlotOf(r)].outcome = "pending"
    /\ Answered(c, r, "request_pending")
    /\ UNCHANGED ledger

(***************************************************************************)
(* The stored result_json is returned as a normal result even when the     *)
(* first call raised its code as an error.                                 *)
(***************************************************************************)
Replay(c, r, ctx) ==
    /\ Routed(r) /\ ~ClaimIsNew(r)
    /\ SameDigest(r, ctx)
    /\ ledger[SlotOf(r)].outcome # "pending"
    /\ Answered(c, r, ledger[SlotOf(r)].outcome)
    /\ UNCHANGED ledger

(***************************************************************************)
(* The guard is acquired after the claim and outside the try: the row the  *)
(* claim inserted stays.                                                   *)
(***************************************************************************)
Busy(c, r, ctx) ==
    /\ Routed(r) /\ ClaimIsNew(r)
    /\ GuardHeld(r)
    /\ ledger' = ClaimedLedger(r, ctx)
    /\ Answered(c, r, "command_in_flight")

Dispatch(c, r, ctx) ==
    /\ pc[c] = "idle"
    /\ Routed(r) /\ ClaimIsNew(r)
    /\ ~GuardHeld(r)
    /\ ledger' = ClaimedLedger(r, ctx)
    /\ inFlight' = AcquiredGuard(r)
    /\ pending' = [pending EXCEPT ![registered[r.connector]][r.rid] = c]
    /\ fut' = [fut EXCEPT ![c] = "unset"]
    /\ sess' = [sess EXCEPT ![c] = registered[r.connector]]
    /\ owed' = owed \union {c}
    /\ pc' = [pc EXCEPT ![c] = "sending"]
    /\ req' = [req EXCEPT ![c] = r]
    /\ UNCHANGED <<reply, cancelling, crashes>>

Begin(c, r, ctx) ==
    \/ Conflict(c, r, ctx)
    \/ StillPending(c, r, ctx)
    \/ Replay(c, r, ctx)
    \/ Busy(c, r, ctx)
    \/ Dispatch(c, r, ctx)

-----------------------------------------------------------------------------
(***************************************************************************)
(* device_command, once resumed.                                           *)
(***************************************************************************)
SendReturns(c) ==
    /\ pc[c] = "sending"
    /\ pc' = [pc EXCEPT ![c] = "waiting"]
    /\ UNCHANGED <<req, sess, fut, reply, pending, inFlight, ledger, owed,
                   cancelling, crashes>>

(***************************************************************************)
(* The finally block, complete_request and the return or raise.  The       *)
(* future is dropped, so nothing can resolve it for this caller any more.  *)
(***************************************************************************)
Settle(c, outcome) ==
    /\ pending' = [pending EXCEPT ![sess[c]][req[c].rid] = None]
    /\ inFlight' = ReleasedGuard(req[c])
    /\ ledger' = CompletedLedger(req[c], outcome)
    /\ reply' = [reply EXCEPT ![c] = outcome]
    /\ fut' = [fut EXCEPT ![c] = "none"]
    /\ pc' = [pc EXCEPT ![c] = "done"]
    /\ UNCHANGED <<req, sess, owed, cancelling, crashes>>

SendFails(c) ==
    /\ pc[c] = "sending"
    /\ Settle(c, "device_offline")

(***************************************************************************)
(* wait_for returns the result or raises the exception of the future.      *)
(* Only a device's payload can exceed RESULT_MAX_BYTES.                    *)
(***************************************************************************)
OutcomesOf(c) ==
    CASE fut[c] \in {"ok", "device_error"} -> {fut[c], "result_too_large"}
      [] fut[c] \in {"cancelled", "device_offline"} -> {fut[c]}
      [] OTHER -> {}

Resume(c) ==
    /\ pc[c] = "waiting"
    /\ \E outcome \in OutcomesOf(c) : Settle(c, outcome)

(***************************************************************************)
(* The timer of wait_for.  It can fire after the future was resolved and   *)
(* before the task ran again: the task is then cancelled and the result    *)
(* is lost.                                                                *)
(***************************************************************************)
MutantNoTimer(c) == pc[c] = "waiting" /\ fut[c] # "unset"

TimerFires(c) == pc[c] = "waiting"

TimeOut(c) ==
    /\ TimerFires(c)
    /\ Settle(c, "device_timeout")

-----------------------------------------------------------------------------
(***************************************************************************)
(* cancel_request: the future is looked up, the frame is written (the task *)
(* is suspended), and then the future is resolved if nothing did so before.*)
(* A request_id that is not in flight is refused and changes nothing.      *)
(***************************************************************************)
CancelRequest(o, d, id) ==
    /\ cancelling[o] = None
    /\ registered[d] # None
    /\ pending[registered[d]][id] # None
    /\ cancelling' = [cancelling EXCEPT ![o] = pending[registered[d]][id]]
    /\ UNCHANGED <<callVars, fut, pending, inFlight, ledger, owed, crashes>>

MutantCancelCompletes(o) ==
    LET c == cancelling[o] IN
    /\ c # None
    /\ fut' = IF fut[c] = "unset" THEN [fut EXCEPT ![c] = "cancelled"] ELSE fut
    /\ ledger' = [ledger EXCEPT ![SlotOf(req[c])].outcome = "cancelled"]
    /\ cancelling' = [cancelling EXCEPT ![o] = None]
    /\ UNCHANGED <<callVars, pending, inFlight, owed, crashes>>

CancelResolves(o) ==
    LET c == cancelling[o] IN
    /\ c # None
    /\ fut' = IF fut[c] = "unset" THEN [fut EXCEPT ![c] = "cancelled"] ELSE fut
    /\ cancelling' = [cancelling EXCEPT ![o] = None]
    /\ UNCHANGED <<callVars, pending, inFlight, ledger, owed, crashes>>

CancelFails(o) ==
    /\ cancelling[o] # None
    /\ cancelling' = [cancelling EXCEPT ![o] = None]
    /\ UNCHANGED <<callVars, fut, pending, inFlight, ledger, owed, crashes>>

-----------------------------------------------------------------------------
(***************************************************************************)
(* _receive_response: the device answers the frame of c, at most once and  *)
(* when it likes.  An answer nobody waits for is a protocol error, which   *)
(* ends the session.                                                       *)
(***************************************************************************)
MutantWaiterFor(c) ==
    LET s == registered[req[c].connector]
    IN  IF s = None THEN None ELSE pending[s][req[c].rid]

WaiterFor(c) == pending[sess[c]][req[c].rid]

HasWaiter(c) == WaiterFor(c) # None /\ fut[WaiterFor(c)] = "unset"

AnswerAccepted(c) ==
    /\ c \in owed /\ Serving(sess[c])
    /\ HasWaiter(c)
    /\ \E answer \in {"ok", "device_error"} :
          fut' = [fut EXCEPT ![WaiterFor(c)] = answer]
    /\ owed' = owed \ {c}
    /\ UNCHANGED <<relayVars, callVars, pending, inFlight, ledger, cancelling,
                   crashes>>

AnswerUnmatched(c) ==
    /\ c \in owed /\ Serving(sess[c])
    /\ ~HasWaiter(c)
    /\ StartClosing(sess[c])
    /\ owed' = owed \ {c}
    /\ UNCHANGED <<callVars, fut, pending, inFlight, ledger, cancelling,
                   crashes>>

(***************************************************************************)
(* What the steps of a session do to the commands.  Frames on a WebSocket  *)
(* that is gone are never answered.                                        *)
(***************************************************************************)
MutantSupersedeSilently(d) == UNCHANGED <<fut, pending>>

FailSuperseded(d) ==
    IF registered[d] = None THEN UNCHANGED <<fut, pending>>
                            ELSE FailPending(registered[d])

Connect(s, p) ==
    /\ Register(s, p)
    /\ FailSuperseded(p.connector)
    /\ UNCHANGED <<callVars, inFlight, ledger, owed, cancelling, crashes>>

SessionFails(s) ==
    /\ StartClosing(s)
    /\ UNCHANGED commandVars

MutantRemoveSilently(s) == UNCHANGED <<fut, pending>>

FailRemoved(s) == FailPending(s)

EndSession(s) ==
    /\ Remove(s)
    /\ FailRemoved(s)
    /\ owed' = {c \in owed : sess[c] # s}
    /\ UNCHANGED <<callVars, inFlight, ledger, cancelling, crashes>>

(***************************************************************************)
(* The process dies and starts again: the database is all that is left.    *)
(* A shutdown that cancels the tasks leaves the same: CancelledError is    *)
(* not an Exception, so no row is completed.                               *)
(***************************************************************************)
LoseCommands ==
    /\ pc' = [c \in Call |-> IF InFlight(c) THEN "lost" ELSE pc[c]]
    /\ fut' = [c \in Call |-> "none"]
    /\ pending' = [s \in Session |-> [r \in Rid |-> None]]
    /\ inFlight' = [g \in Guard |-> None]
    /\ owed' = {}
    /\ cancelling' = [o \in Operator |-> None]
    /\ UNCHANGED <<req, sess, reply, ledger>>

Crash ==
    /\ crashes < MaxCrashes
    /\ crashes' = crashes + 1
    /\ LoseSessions
    /\ LoseCommands

-----------------------------------------------------------------------------
CallStep ==
    /\ \E c \in Call :
          \/ NotDispatched(c)
          \/ \E r \in Request, ctx \in Context :
                r.rid \in RidsOf(c) /\ Begin(c, r, ctx)
          \/ SendReturns(c)
          \/ SendFails(c)
          \/ Resume(c)
          \/ TimeOut(c)
    /\ UNCHANGED relayVars

CancelStep ==
    /\ \E o \in Operator :
          \/ \E d \in Connector, id \in Rid : CancelRequest(o, d, id)
          \/ CancelResolves(o)
          \/ CancelFails(o)
    /\ UNCHANGED relayVars

DeviceStep == \E c \in Call : AnswerAccepted(c) \/ AnswerUnmatched(c)

SessionStep ==
    \E s \in Session :
       \/ \E p \in Peer : Connect(s, p)
       \/ SessionFails(s)
       \/ EndSession(s)

Next == CallStep \/ CancelStep \/ DeviceStep \/ SessionStep \/ Crash

Spec == Init /\ [][Next]_vars

(***************************************************************************)
(* asyncio's timer and run queue are fair, and a write to a WebSocket ends *)
(* (the server's keepalive pings fail it when the peer is gone).  Nothing  *)
(* is assumed of the device, of the operator or of new calls.              *)
(***************************************************************************)
Fairness ==
    \A c \in Call :
       /\ WF_vars((SendReturns(c) \/ SendFails(c)) /\ UNCHANGED relayVars)
       /\ WF_vars((Resume(c) \/ TimeOut(c)) /\ UNCHANGED relayVars)

FairSpec == Spec /\ Fairness

-----------------------------------------------------------------------------
Fresh(c) == req[c].rid = c
Dispatched(c) == sess[c] # None

(***************************************************************************)
(* "A second identical call inside that window is refused" (README, In-    *)
(* flight collision guard): two calls of one mutating tool with the same   *)
(* arguments are never both in flight on a device, whatever their keys,    *)
(* across supersession, cancels, late timers and restarts.                 *)
(***************************************************************************)
GuardExclusive ==
    \A c, d \in Call :
       /\ InFlight(c) /\ InFlight(d)
       /\ Guarded(req[c])
       /\ GuardOf(req[c]) = GuardOf(req[d])
       => c = d

(***************************************************************************)
(* "every terminal path frees it" (service.py, before the guard is taken): *)
(* a slot of _in_flight that is taken belongs to a call that is in flight, *)
(* and names its request_id.                                               *)
(***************************************************************************)
GuardHasHolder ==
    \A g \in Guard : inFlight[g] # None =>
       \E c \in Call : /\ InFlight(c)
                       /\ Guarded(req[c]) /\ GuardOf(req[c]) = g
                       /\ req[c].rid = inFlight[g]

(***************************************************************************)
(* claim_request binds an idempotency key to one request_id for good: all  *)
(* frames ever sent under one key carry the same request_id, so that with  *)
(* fresh uuids at most one call is dispatched per key, even across a       *)
(* restart.                                                                *)
(***************************************************************************)
KeyHasOneRequest ==
    \A c, d \in Call :
       /\ Dispatched(c) /\ Dispatched(d)
       /\ SlotOf(req[c]) = SlotOf(req[d])
       => req[c].rid = req[d].rid

(***************************************************************************)
(* A caller that waits can be reached: its future is in the pending table  *)
(* of the session that is registered for its device, and that session's    *)
(* handle() has yet to run the finally block that fails what it left.  So  *)
(* neither supersession nor a command dispatched while the session is      *)
(* already closing leaves a caller behind.  (A request_id of a signed      *)
(* assertion that is presented twice overwrites the first entry.)          *)
(***************************************************************************)
WaiterIsReachable ==
    \A c \in Call : fut[c] = "unset" /\ Fresh(c) =>
       /\ Live(sess[c])
       /\ registered[req[c].connector] = sess[c]
       /\ pending[sess[c]][c] = c

(***************************************************************************)
(* What a caller was told under a key is what the ledger holds for it and  *)
(* so what every replay will say: complete_request runs on every path that *)
(* ends a dispatched call, before the caller hears of it.                  *)
(***************************************************************************)
ReplyIsRecorded ==
    \A c \in Call : /\ reply[c] \in Outcome
                    /\ Dispatched(c) => Fresh(c)
                    => ledger[SlotOf(req[c])].outcome = reply[c]

(***************************************************************************)
(* A key is undecided for a reason a caller could name: the call that owns *)
(* it is in flight, was lost with the process, or was refused as           *)
(* command_in_flight after its claim.  A timeout, a cancel, a broken send  *)
(* or a superseded session never leaves a key pending.                     *)
(***************************************************************************)
PendingKeyHasReason ==
    \A k \in Slot : ledger[k] # None /\ ledger[k].outcome = "pending" =>
       \E c \in Call : /\ req[c] \in Request
                       /\ SlotOf(req[c]) = k /\ req[c].rid = ledger[k].rid
                       /\ \/ InFlight(c)
                          \/ pc[c] = "lost"
                          \/ reply[c] = "command_in_flight"

(***************************************************************************)
(* complete_request decides a key once: a late timer, an answer after a    *)
(* timeout, or a second call with the same request_id changes nothing.     *)
(***************************************************************************)
OutcomeStays ==
    \A k \in Slot : ledger[k] # None =>
       /\ ledger'[k] # None
       /\ ledger'[k].rid = ledger[k].rid
       /\ ledger[k].outcome # "pending" => ledger'[k] = ledger[k]

OutcomeIsFinal == [][OutcomeStays]_vars

(***************************************************************************)
(* An answer resolves a caller that waits for this request_id on the       *)
(* connection the answer came on, and so, if its request_id is a fresh     *)
(* uuid, the caller whose frame was answered: not one that took the place  *)
(* of a call that timed out, was cancelled or lost its session.            *)
(***************************************************************************)
AnswerIsItsOwn ==
    \A d \in Call : fut[d] = "unset" /\ fut'[d] \in {"ok", "device_error"} =>
       \E c \in owed \ owed' :
          /\ sess[c] = sess[d] /\ req[c].rid = req[d].rid
          /\ Fresh(d) => c = d

AnswersReachTheirCaller == [][AnswerIsItsOwn]_vars

(***************************************************************************)
(* The command path seen as Idempotency: calls under way, and of each row  *)
(* of the ledger its request_id and its outcome.                           *)
(***************************************************************************)
Begun == {c \in Call : pc[c] # "idle"}

Running == {[call |-> c, of |-> req[c]] : c \in {d \in Call : InFlight(d)}}

Owner == [k \in Slot |-> IF ledger[k] = None THEN None ELSE ledger[k].rid]

Decided == [k \in Slot |->
               IF ledger[k] = None THEN "pending" ELSE ledger[k].outcome]

Idm == INSTANCE Idempotency WITH
    begun <- Begun, running <- Running, owner <- Owner, outcome <- Decided,
    told <- reply

(***************************************************************************)
(* Whatever happens to sessions, frames, futures and cancels, the callers  *)
(* of device_command get what Idempotency promises.                        *)
(***************************************************************************)
ImplementsIdempotency == Idm!Spec

(***************************************************************************)
(* Every dispatched call returns unless the process dies first, though the *)
(* device may never answer.                                                *)
(***************************************************************************)
CallsReturn == \A c \in Call : InFlight(c) ~> pc[c] \in {"done", "lost"}

(***************************************************************************)
(* No mutating call is refused for ever: a collision slot becomes free.    *)
(***************************************************************************)
GuardIsReleased ==
    \A g \in Guard : inFlight[g] # None ~> inFlight[g] = None

(***************************************************************************)
(* README, In-flight collision guard: command_in_flight "is safe to retry  *)
(* once the first call settles": a retry made when no call at all is in    *)
(* flight is not refused as request_pending.                               *)
(***************************************************************************)
RetryAfterSettleIsTaken ==
    [][\A c \in Call : /\ reply[c] = None /\ reply'[c] = "request_pending"
                      => \E d \in Call : InFlight(d)]_vars

(***************************************************************************)
(* README, In-flight collision guard: "A same-key retry with the same      *)
(* intent replays the first result".                                       *)
(***************************************************************************)
RetryIsReplayed ==
    [][\A c \in Call, k \in Slot :
          /\ ledger[k] # None /\ ledger[k].outcome # "pending"
          /\ ~Dispatched(c) /\ sess'[c] # None
          => SlotOf(req'[c]) # k]_vars

(***************************************************************************)
(* README, Cancel: "A device that has not implemented cancel ignores the   *)
(* frame, so this is safe to deploy": the answer such a device sends to a  *)
(* request that was cancelled does not end the session of the others.      *)
(***************************************************************************)
CancelIgnoredIsHarmless ==
    [][\A c \in Call : reply[c] = "cancelled" /\ c \in owed /\ c \notin owed'
          => stage'[sess[c]] # "closing"]_vars
=============================================================================
