----------------------------- MODULE Assertions -----------------------------
(***************************************************************************)
(* The way of a signed app assertion: the Hub signs one for every call     *)
(* (external), the connector admits it (protocol.py, service.py) and the   *)
(* device verifies it against the keyset it fetched and against what it    *)
(* accepted before (app_assertion.py).                                     *)
(*                                                                         *)
(* A call stands for everything the Hub makes for it: the delegation       *)
(* headers with their nonce, and the assertion with its assertion_id and   *)
(* request_id.  Whoever sends the headers may pair a delegation with the   *)
(* envelope of another call, name another device, and send the same call   *)
(* again: no component but the device remembers what it has seen.          *)
(*                                                                         *)
(* The Hub and the connector share a clock.  A device's clock is off by a  *)
(* drift of its own, and it may tick while an assertion is being verified. *)
(* Key windows, scopes and client and app ids are one value each: a key is *)
(* usable or not, an identity is the same or not.                          *)
(***************************************************************************)
EXTENDS Integers, FiniteSets, Sequences, SequencesExt

CONSTANTS
    Device,         \* connector_ids
    Identity,       \* client_id, app_id and scopes
    Key,            \* signing keys
    Call,
    Caller,         \* [Call -> Identity]
    Target,         \* [Call -> Device], connector_id of the assertion
    Binding,        \* [Device -> SUBSET Identity], what the device approves
    SeenLimit,      \* seen_limit
    Ttl,            \* lifetime of an assertion
    MaxAge,         \* max_age_seconds of a delegation
    Allowance,      \* ASSERTION_DELIVERY_ALLOWANCE_SECONDS
    Skew,           \* clock_skew_seconds
    Drift,          \* what device clocks may be off
    MaxTime,        \* bound: the clock
    MaxKeysets,     \* bound: keysets published
    MaxFrames,      \* bound: frames under way
    None

ASSUME AssertionsAssumption ==
    /\ Caller \in [Call -> Identity]
    /\ Target \in [Call -> Device]
    /\ Binding \in [Device -> SUBSET Identity]
    /\ {SeenLimit, Ttl, MaxAge, Allowance, Skew, MaxTime, MaxKeysets,
        MaxFrames} \subseteq Nat
    /\ SeenLimit >= 1
    /\ Drift \subseteq -Skew..Skew
    /\ Key # {}

(***************************************************************************)
(* The published numbers: the Hub signs for at least 180 s; 90 s of age, a *)
(* delivery allowance of 30 s and 5 s of skew have to fit in.              *)
(***************************************************************************)
ASSUME TtlOutlivesDelivery == Ttl > MaxAge + Allowance + Skew

ASSUME NoDeviceOrCall ==
    /\ None \notin Device \union Call \union Nat
    /\ \A calls \in SUBSET Call : calls # None

VARIABLES
    now,            \* clock of the Hub and the connector
    drift,          \* [Device -> its clock minus now]
    call,           \* [Call -> [key, at] or None], what the Hub signed
    published,      \* the keysets the Hub published, as sets of usable keys
    revoked,        \* history: [Key -> when it left the keyset, or None]
    frames,         \* relay frames under way
    held,           \* [Device -> index of its keyset, 0 for none]
    verifying,      \* [Device -> the frame whose checks passed, or None]
    seen,           \* AppAssertionVerifier._seen, oldest first
    since           \* history: [Device -> [Call -> calls accepted after it,
                    \* or None if the device did not accept it]]

hub == <<call, published, revoked>>
device == <<held, verifying, seen, since>>
vars == <<now, drift, hub, frames, device>>

Frame == [envelope : Call, to : Device, at : 0..MaxTime]

Signed == {c \in Call : call[c] # None}

Clock(d) == now + drift[d]

AssertionsTypeOK ==
    /\ now \in 0..MaxTime
    /\ drift \in [Device -> Drift]
    /\ call \in [Call -> [key : Key, at : 0..MaxTime] \union {None}]
    /\ published \in Seq(SUBSET Key)
    /\ revoked \in [Key -> (0..MaxTime) \union {None}]
    /\ frames \subseteq Frame
    /\ held \in [Device -> 0..Len(published)]
    /\ \A d \in Device :
           /\ verifying[d] = None \/ verifying[d].frame \in Frame
           /\ seen[d] \in Seq(Signed)
           /\ Len(seen[d]) <= SeenLimit
           /\ IsInjective(seen[d])
    /\ since \in [Device -> [Call -> (SUBSET Call) \union {None}]]

Unseen == [c \in Call |-> None]

Init ==
    /\ now = 0
    /\ drift \in [Device -> Drift]
    /\ call = [c \in Call |-> None]
    /\ published = <<Key>>
    /\ revoked = [k \in Key |-> None]
    /\ frames = {}
    /\ held = [d \in Device |-> 0]
    /\ verifying = [d \in Device |-> None]
    /\ seen = [d \in Device |-> <<>>]
    /\ since = [d \in Device |-> Unseen]

Tick ==
    /\ now < MaxTime
    /\ \A d \in Device :
           verifying[d] # None => verifying[d].started = Clock(d)
    /\ now' = now + 1
    /\ UNCHANGED <<drift, hub, frames, device>>

-----------------------------------------------------------------------------
(***************************************************************************)
(* The Hub.  It signs with a key of its latest keyset and does not take a  *)
(* revoked key into use again.                                             *)
(***************************************************************************)
Sign(c) ==
    /\ call[c] = None
    /\ \E k \in Last(published) :
           call' = [call EXCEPT ![c] = [key |-> k, at |-> now]]
    /\ UNCHANGED <<now, drift, published, revoked, frames, device>>

Publish(usable) ==
    /\ Len(published) < MaxKeysets
    /\ usable # {}
    /\ \A k \in usable : revoked[k] = None
    /\ published' = Append(published, usable)
    /\ revoked' = [k \in Key |-> IF k \in Last(published) \ usable
                                 THEN now ELSE revoked[k]]
    /\ UNCHANGED <<now, drift, call, frames, device>>

-----------------------------------------------------------------------------
(***************************************************************************)
(* verify_delegation_headers: a delegation in its age window, with the     *)
(* envelope that names its client, app, scopes and nonce.                  *)
(***************************************************************************)
Matched(c, e) == e = c

MutantStaleDelegation(c) == TRUE

DelegationValid(c) == now - call[c].at <= MaxAge

(***************************************************************************)
(* device_command, as far as an assertion is concerned: the device is the  *)
(* one it was signed for and it has not expired.  The ledger does not      *)
(* prevent a second frame: claim_request is "new" for a request_id it has, *)
(* and for another idempotency key.                                        *)
(***************************************************************************)
Expiry(c) == call[c].at + Ttl

Dispatch(c, e, d) ==
    /\ {c, e} \subseteq Signed
    /\ DelegationValid(c)
    /\ Matched(c, e)
    /\ Target[e] = d
    /\ Expiry(e) > now
    /\ Cardinality(frames) < MaxFrames
    /\ frames' = frames \union {[envelope |-> e, to |-> d, at |-> now]}
    /\ UNCHANGED <<now, drift, hub, device>>

Lose(f) ==
    /\ frames' = frames \ {f}
    /\ UNCHANGED <<now, drift, hub, device>>

-----------------------------------------------------------------------------
(***************************************************************************)
(* verify_keyset: signed by the pinned root and not of the future.  It is  *)
(* not compared with the keyset in use, nor with its own expires_at: any   *)
(* published keyset will do, in any order.                                 *)
(***************************************************************************)
FetchKeyset(d, i) ==
    /\ held' = [held EXCEPT ![d] = i]
    /\ UNCHANGED <<now, drift, hub, frames, verifying, seen, since>>

UsableKeys(d) == IF held[d] = 0 THEN {} ELSE published[held[d]]

(***************************************************************************)
(* verify, up to the replay check; "ok" if every check passes.             *)
(***************************************************************************)
MutantExpired(d, c) == Expiry(c) + Skew <= Clock(d)

Expired(d, c) == Expiry(c) <= Clock(d)

NotYetIssued(d, c) == call[c].at > Clock(d) + Skew

Checks(d, c) ==
    CASE Expired(d, c) -> "app_assertion_expired"
      [] ~Expired(d, c) /\ (\/ NotYetIssued(d, c)
                            \/ call[c].key \notin UsableKeys(d)) ->
            "app_assertion_unverified"
      [] OTHER -> IF Target[c] = d /\ Caller[c] \in Binding[d]
                  THEN "ok" ELSE "app_identity_mismatch"

Refuse(d, f) ==
    /\ f.to = d
    /\ verifying[d] = None
    /\ Checks(d, f.envelope) # "ok"
    /\ frames' = frames \ {f}
    /\ UNCHANGED <<now, drift, hub, device>>

Verify(d, f) ==
    /\ f.to = d
    /\ verifying[d] = None
    /\ Checks(d, f.envelope) = "ok"
    /\ frames' = frames \ {f}
    /\ verifying' = [verifying EXCEPT ![d] =
                        [frame |-> f, started |-> Clock(d)]]
    /\ UNCHANGED <<now, drift, hub, held, seen, since>>

(***************************************************************************)
(* _reject_replay reads the clock again, forgets what has expired, and     *)
(* remembers at most SeenLimit assertions, dropping the oldest.            *)
(***************************************************************************)
Remembered(d) ==
    LET s == seen[d]
        kept[n \in 0..Len(s)] ==
            IF n = 0 THEN <<>>
            ELSE IF Expired(d, s[n]) THEN kept[n - 1]
            ELSE Append(kept[n - 1], s[n])
    IN  kept[Len(s)]

Replayed(d, c) == c \in ToSet(Remembered(d))

MutantUncapped(s) == s

MutantEvicted(s) ==
    IF Len(s) > SeenLimit THEN Front(s) ELSE s

Evicted(s) ==
    IF Len(s) > SeenLimit THEN Tail(s) ELSE s

RejectReplay(d) ==
    /\ verifying[d] # None
    /\ Replayed(d, verifying[d].frame.envelope)
    /\ seen' = [seen EXCEPT ![d] = Remembered(d)]
    /\ verifying' = [verifying EXCEPT ![d] = None]
    /\ UNCHANGED <<now, drift, hub, frames, held, since>>

Accept(d) ==
    LET c == verifying[d].frame.envelope IN
    /\ verifying[d] # None
    /\ ~Replayed(d, c)
    /\ seen' = [seen EXCEPT ![d] = Evicted(Append(Remembered(d), c))]
    /\ since' = [since EXCEPT ![d] = [x \in Call |->
                    CASE x = c -> {}
                      [] x # c /\ @[x] = None -> None
                      [] OTHER -> @[x] \union {c}]]
    /\ verifying' = [verifying EXCEPT ![d] = None]
    /\ UNCHANGED <<now, drift, hub, frames, held>>

(***************************************************************************)
(* The device starts anew: the anchor is pinned, the rest was in memory.   *)
(***************************************************************************)
Restart(d) ==
    /\ held' = [held EXCEPT ![d] = 0]
    /\ verifying' = [verifying EXCEPT ![d] = None]
    /\ seen' = [seen EXCEPT ![d] = <<>>]
    /\ since' = [since EXCEPT ![d] = Unseen]
    /\ UNCHANGED <<now, drift, hub, frames>>

Next ==
    \/ Tick
    \/ \E c \in Call : Sign(c)
    \/ \E usable \in SUBSET Key : Publish(usable)
    \/ \E c, e \in Call, d \in Device : Dispatch(c, e, d)
    \/ \E f \in frames : Lose(f)
    \/ \E d \in Device : \E i \in DOMAIN published : FetchKeyset(d, i)
    \/ \E d \in Device, f \in frames : Refuse(d, f) \/ Verify(d, f)
    \/ \E d \in Device : RejectReplay(d) \/ Accept(d) \/ Restart(d)

Spec == Init /\ [][Next]_vars

-----------------------------------------------------------------------------
(***************************************************************************)
(* "Refuse an assertion id already accepted inside its lifetime": as long  *)
(* as the assertion has not expired and fewer than SeenLimit others were   *)
(* accepted since, it is refused, whatever was sent again and in whatever  *)
(* order.  Both exceptions are real: the oldest entry is dropped although  *)
(* it has not expired, and when the clock reaches the expiry between the   *)
(* first check and _reject_replay the entry is purged just before the      *)
(* lookup.                                                                 *)
(***************************************************************************)
ReplayIsRefused ==
    \A d \in Device :
        verifying[d] # None =>
            LET c == verifying[d].frame.envelope IN
            \/ since[d][c] = None
            \/ Cardinality(since[d][c]) >= SeenLimit
            \/ Expiry(c) <= Clock(d)
            \/ Replayed(d, c)

(***************************************************************************)
(* verify_keyset takes an old keyset at any time, so a device may trust a  *)
(* revoked key for ever.  What it accepts under that key it accepts only   *)
(* for the lifetime of an assertion after the revocation, give or take its *)
(* drift.                                                                  *)
(***************************************************************************)
RevokedKeyFades ==
    \A d \in Device :
        verifying[d] # None =>
            LET k == call[verifying[d].frame.envelope].key IN
            revoked[k] # None =>
                verifying[d].started - revoked[k] < Ttl

(***************************************************************************)
(* The timing invariant of the contract: a frame that arrives within the   *)
(* delivery allowance is neither too old nor too new for a device whose    *)
(* clock is within the skew, provided it knows the key.  The age of the    *)
(* delegation counts against the lifetime too.                             *)
(***************************************************************************)
PromptFrameIsTaken ==
    \A f \in frames :
        now - f.at <= Allowance /\ call[f.envelope].key \in UsableKeys(f.to)
            => Checks(f.to, f.envelope) \in {"ok", "app_identity_mismatch"}
=============================================================================
