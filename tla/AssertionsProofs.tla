-------------------------- MODULE AssertionsProofs --------------------------
(***************************************************************************)
(* Theorems about Assertions, for any devices, keys and calls, any drift   *)
(* within the skew and any lifetime that outlives the delivery.            *)
(*                                                                         *)
(* TimeInv is about times and identities, CacheInv about the replay cache. *)
(***************************************************************************)
EXTENDS Assertions, DataInduction

(***************************************************************************)
(* What the connector has established of a frame it sent, and what stays   *)
(* true of it.                                                             *)
(***************************************************************************)
Admitted(f) ==
    /\ f \in Frame
    /\ call[f.envelope] # None
    /\ call[f.envelope].at <= f.at
    /\ f.at - call[f.envelope].at <= MaxAge
    /\ f.at <= now

ClockInv ==
    /\ now \in 0..MaxTime
    /\ drift \in [Device -> Drift]

KeyInv ==
    /\ published \in Seq(SUBSET Key)
    /\ published # <<>>
    /\ revoked \in [Key -> (0..MaxTime) \union {None}]
    /\ \A k \in Last(published) : revoked[k] = None

CallInv ==
    /\ call \in [Call -> [key : Key, at : 0..MaxTime] \union {None}]
    /\ \A c \in Call : call[c] # None =>
           /\ call[c].at <= now
           /\ revoked[call[c].key] # None =>
                  call[c].at <= revoked[call[c].key]

FrameInv == \A f \in frames : Admitted(f)

VerifyInv ==
    /\ verifying \in [Device -> [frame : Frame, started : Int] \union {None}]
    /\ \A d \in Device : verifying[d] # None =>
           /\ Admitted(verifying[d].frame)
           /\ verifying[d].started < Expiry(verifying[d].frame.envelope)

TimeInv == ClockInv /\ KeyInv /\ CallInv /\ FrameInv /\ VerifyInv

(***************************************************************************)
(* A device's clock is within the skew of the Hub's.                       *)
(***************************************************************************)
LEMMA ClockSkew ==
    ASSUME TimeInv, NEW d \in Device
    PROVE  now \in Int /\ drift[d] \in -Skew..Skew
<1>1. drift[d] \in Drift /\ now \in Int
  BY DEF TimeInv, ClockInv
<1>2. Drift \subseteq -Skew..Skew
  BY ONLY AssertionsAssumption
<1>3. QED
  BY <1>1, <1>2

(***************************************************************************)
(* Before anything is signed the invariant holds.                          *)
(***************************************************************************)
LEMMA TimeInit == Init => TimeInv
<1> SUFFICES ASSUME Init
             PROVE  TimeInv
  OBVIOUS
<1> USE AssertionsAssumption DEF Init
<1>1. ClockInv
  BY DEF ClockInv
<1>2. KeyInv
  <2>1. published \in Seq(SUBSET Key) /\ published # <<>>
    OBVIOUS
  <2>2. Last(published) = Key
    BY DEF Last
  <2>3. QED
    BY <2>1, <2>2 DEF KeyInv
<1>3. CallInv
  BY DEF CallInv
<1>4. FrameInv
  BY DEF FrameInv
<1>5. VerifyInv
  BY DEF VerifyInv
<1>6. QED
  BY <1>1, <1>2, <1>3, <1>4, <1>5 DEF TimeInv

(***************************************************************************)
(* What was established of a frame survives the signing of other calls and *)
(* the passing of time.                                                    *)
(***************************************************************************)
LEMMA StaysAdmitted ==
    ASSUME NEW f, Admitted(f), now \in Int, now' \in Int, now <= now',
           \A c \in Call : call[c] # None => call'[c] = call[c]
    PROVE  Admitted(f)'
<1>1. f.envelope \in Call /\ f.at \in Int
  BY DEF Admitted, Frame
<1>2. QED
  BY <1>1 DEF Admitted

(***************************************************************************)
(* The steps of the Hub and the clock.                                     *)
(***************************************************************************)
LEMMA HubStep ==
    ASSUME TimeInv,
           \/ Tick
           \/ \E c \in Call : Sign(c)
           \/ \E usable \in SUBSET Key : Publish(usable)
    PROVE  TimeInv'
<1> USE AssertionsAssumption
<1>1. now \in 0..MaxTime /\ now' \in 0..MaxTime /\ now <= now'
      /\ UNCHANGED <<frames, verifying, drift>>
  BY DEF TimeInv, ClockInv, Tick, Sign, Publish, device, hub
<1>2. \A c \in Call : call[c] # None => call'[c] = call[c]
  BY DEF TimeInv, CallInv, Tick, Sign, Publish, hub
<1>3. ClockInv'
  BY <1>1 DEF TimeInv, ClockInv
<1>4. FrameInv'
  BY <1>1, <1>2, StaysAdmitted DEF TimeInv, FrameInv
<1>5. VerifyInv'
  <2> SUFFICES ASSUME NEW d \in Device, verifying[d] # None
               PROVE  /\ Admitted(verifying[d].frame)'
                      /\ verifying[d].started <
                             Expiry(verifying[d].frame.envelope)'
    BY <1>1 DEF TimeInv, VerifyInv
  <2>1. Admitted(verifying[d].frame)
    BY DEF TimeInv, VerifyInv
  <2>2. Admitted(verifying[d].frame)'
    BY <1>1, <1>2, <2>1, StaysAdmitted
  <2>3. verifying[d].frame.envelope \in Call
        /\ call[verifying[d].frame.envelope] # None
    BY <2>1 DEF Admitted, Frame
  <2>4. QED
    BY <1>1, <1>2, <2>2, <2>3 DEF TimeInv, VerifyInv, Expiry
<1>6. KeyInv' /\ CallInv'
  <2>1. CASE Tick
    <3>1. UNCHANGED <<call, published, revoked>> /\ now' >= now
      BY <1>1, <2>1 DEF Tick, hub
    <3>2. QED
      BY <1>1, <3>1 DEF TimeInv, KeyInv, CallInv
  <2>2. ASSUME NEW c \in Call, Sign(c)
        PROVE  KeyInv' /\ CallInv'
    <3>1. PICK k \in Last(published) :
              call' = [call EXCEPT ![c] = [key |-> k, at |-> now]]
      BY <2>2 DEF Sign
    <3>2. UNCHANGED <<now, published, revoked>>
      BY <2>2 DEF Sign
    <3>3. k \in Key /\ revoked[k] = None
      BY DEF TimeInv, KeyInv, Last
    <3>4. call' \in [Call -> [key : Key, at : 0..MaxTime] \union {None}]
      BY <1>1, <3>1, <3>3 DEF TimeInv, CallInv
    <3>5. ASSUME NEW x \in Call, call'[x] # None
          PROVE  /\ call'[x].at <= now
                 /\ revoked[call'[x].key] # None =>
                        call'[x].at <= revoked[call'[x].key]
      <4>1. CASE x = c
        BY <1>1, <3>1, <3>3, <4>1 DEF TimeInv, CallInv
      <4>2. CASE x # c
        BY <3>1, <3>5, <4>2 DEF TimeInv, CallInv
      <4>3. QED
        BY <4>1, <4>2
    <3>6. QED
      BY <3>2, <3>4, <3>5 DEF TimeInv, KeyInv, CallInv
  <2>3. ASSUME NEW usable \in SUBSET Key, Publish(usable)
        PROVE  KeyInv' /\ CallInv'
    <3>1. published' = Append(published, usable)
          /\ UNCHANGED <<now, call>>
          /\ revoked' = [k \in Key |-> IF k \in Last(published) \ usable
                                       THEN now ELSE revoked[k]]
          /\ \A k \in usable : revoked[k] = None
      BY <2>3 DEF Publish
    <3>2. published' \in Seq(SUBSET Key) /\ published' # <<>>
          /\ Last(published') = usable
      BY <3>1 DEF TimeInv, KeyInv, Last
    <3>3. revoked' \in [Key -> (0..MaxTime) \union {None}]
          /\ \A k \in usable : revoked'[k] = None
      BY <1>1, <3>1 DEF TimeInv, KeyInv
    <3>4. KeyInv'
      BY <3>2, <3>3 DEF KeyInv
    <3>5. ASSUME NEW c \in Call, call[c] # None,
                 revoked'[call[c].key] # None
          PROVE  call[c].at <= revoked'[call[c].key]
      BY <1>1, <3>1, <3>5 DEF TimeInv, CallInv
    <3>6. QED
      BY <3>1, <3>4, <3>5 DEF TimeInv, CallInv
  <2>4. QED
    BY <2>1, <2>2, <2>3
<1>7. QED
  BY <1>3, <1>4, <1>5, <1>6 DEF TimeInv

(***************************************************************************)
(* The steps of the connector, of the wire and of the devices.             *)
(***************************************************************************)
LEMMA DeviceStep ==
    ASSUME TimeInv,
           \/ \E c, e \in Call, d \in Device : Dispatch(c, e, d)
           \/ \E f \in frames : Lose(f)
           \/ \E d \in Device : \E i \in DOMAIN published : FetchKeyset(d, i)
           \/ \E d \in Device, f \in frames : Refuse(d, f) \/ Verify(d, f)
           \/ \E d \in Device : RejectReplay(d) \/ Accept(d) \/ Restart(d)
    PROVE  TimeInv'
<1> USE AssertionsAssumption
<1>1. UNCHANGED <<now, drift, call, published, revoked>>
  BY DEF Dispatch, Lose, FetchKeyset, Refuse, Verify, RejectReplay, Accept,
         Restart, hub
<1>2. ClockInv' /\ KeyInv' /\ CallInv'
  BY <1>1 DEF TimeInv, ClockInv, KeyInv, CallInv
<1>3. \A f : Admitted(f) => Admitted(f)'
  BY <1>1 DEF Admitted
<1>4. \A c : Expiry(c)' = Expiry(c)
  BY <1>1 DEF Expiry
<1>5. FrameInv'
  <2>1. ASSUME NEW c \in Call, NEW e \in Call, NEW d \in Device,
               Dispatch(c, e, d)
        PROVE  FrameInv'
    <3> DEFINE g == [envelope |-> e, to |-> d, at |-> now]
    <3>1. frames' = frames \union {g} /\ c = e /\ call[c] # None
          /\ now - call[c].at <= MaxAge
      BY <2>1 DEF Dispatch, Matched, DelegationValid, Signed
    <3>2. call[c].at <= now /\ now \in 0..MaxTime
      BY <3>1 DEF TimeInv, CallInv, ClockInv
    <3>3. Admitted(g)
      BY <3>1, <3>2 DEF Admitted, Frame
    <3>4. QED
      BY <1>3, <3>1, <3>3 DEF TimeInv, FrameInv
  <2>2. frames' \subseteq frames => FrameInv'
    BY <1>3 DEF TimeInv, FrameInv
  <2>3. QED
    BY <2>1, <2>2 DEF Lose, FetchKeyset, Refuse, Verify, RejectReplay, Accept,
                      Restart
<1>6. VerifyInv'
  <2>1. ASSUME NEW d \in Device, NEW f \in frames, Verify(d, f)
        PROVE  VerifyInv'
    <3>1. Admitted(f)
      BY DEF TimeInv, FrameInv
    <3>2. ~Expired(d, f.envelope)
          /\ verifying' = [verifying EXCEPT ![d] =
                              [frame |-> f, started |-> Clock(d)]]
      BY <2>1 DEF Verify, Checks
    <3>3. f \in Frame /\ Clock(d) \in Int /\ Expiry(f.envelope) \in Int
      <4>1. f \in Frame /\ f.envelope \in Call /\ call[f.envelope] # None
        BY <3>1 DEF Admitted, Frame
      <4>2. call[f.envelope].at \in 0..MaxTime
        BY <4>1 DEF TimeInv, CallInv
      <4>3. now \in Int /\ drift[d] \in -Skew..Skew
        BY ClockSkew
      <4>4. Ttl \in Int /\ Skew \in Int
        OBVIOUS
      <4>5. QED
        BY <4>1, <4>2, <4>3, <4>4 DEF Clock, Expiry
    <3>4. Clock(d) < Expiry(f.envelope)
      BY <3>2, <3>3 DEF Expired
    <3>5. verifying' \in
              [Device -> [frame : Frame, started : Int] \union {None}]
      BY <3>2, <3>3 DEF TimeInv, VerifyInv
    <3>6. ASSUME NEW x \in Device, verifying'[x] # None
          PROVE  /\ Admitted(verifying'[x].frame)
                 /\ verifying'[x].started <
                        Expiry(verifying'[x].frame.envelope)
      <4>1. CASE x = d
        BY <3>1, <3>2, <3>4, <4>1 DEF TimeInv, VerifyInv
      <4>2. CASE x # d
        BY <3>2, <3>6, <4>2 DEF TimeInv, VerifyInv
      <4>3. QED
        BY <4>1, <4>2
    <3>7. QED
      BY <1>3, <1>4, <3>5, <3>6 DEF VerifyInv
  <2>2. ASSUME NEW d \in Device,
               verifying' = [verifying EXCEPT ![d] = None]
        PROVE  VerifyInv'
    BY <1>3, <1>4, <2>2 DEF TimeInv, VerifyInv
  <2>3. UNCHANGED verifying => VerifyInv'
    BY <1>3, <1>4 DEF TimeInv, VerifyInv
  <2>4. QED
    BY <2>1, <2>2, <2>3 DEF Dispatch, Lose, FetchKeyset, Refuse, RejectReplay,
                            Accept, Restart, device
<1>7. QED
  BY <1>2, <1>5, <1>6 DEF TimeInv

(***************************************************************************)
(* The invariant holds in every reachable state.                           *)
(***************************************************************************)
LEMMA TimeInvariant == Spec => []TimeInv
<1>1. TimeInv /\ [Next]_vars => TimeInv'
  <2> SUFFICES ASSUME TimeInv, [Next]_vars
               PROVE  TimeInv'
    OBVIOUS
  <2>1. CASE UNCHANGED vars
    BY <2>1 DEF vars, hub, device, TimeInv, ClockInv, KeyInv, CallInv,
                FrameInv, VerifyInv, Admitted, Expiry
  <2>2. QED
    BY <2>1, HubStep, DeviceStep DEF Next
<1>2. QED
  BY <1>1, TimeInit, PTL DEF Spec

(***************************************************************************)
(* A device accepts under a revoked key only within one lifetime of the    *)
(* revocation, however old the keyset it was made to take.                 *)
(***************************************************************************)
THEOREM RevocationBounds == Spec => []RevokedKeyFades
<1>1. TimeInv => RevokedKeyFades
  <2> SUFFICES ASSUME TimeInv, NEW d \in Device, verifying[d] # None,
                      revoked[call[verifying[d].frame.envelope].key] # None
               PROVE  verifying[d].started
                          - revoked[call[verifying[d].frame.envelope].key] < Ttl
    BY DEF RevokedKeyFades
  <2> DEFINE c == verifying[d].frame.envelope
  <2>1. c \in Call /\ call[c] # None /\ verifying[d].started < Expiry(c)
        /\ verifying[d].started \in Int
    BY DEF TimeInv, VerifyInv, Admitted, Frame
  <2>2. call[c].at <= revoked[call[c].key] /\ call[c].at \in Int
        /\ revoked[call[c].key] \in Int
    BY <2>1, AssertionsAssumption DEF TimeInv, CallInv, KeyInv
  <2>3. QED
    BY <2>1, <2>2, AssertionsAssumption DEF Expiry
<1>2. QED
  BY <1>1, TimeInvariant, PTL

(***************************************************************************)
(* The timing invariant of the contract, from TtlOutlivesDelivery: a frame *)
(* within the allowance is not refused for its age.                        *)
(***************************************************************************)
THEOREM DeliveryInTime == Spec => []PromptFrameIsTaken
<1>1. TimeInv => PromptFrameIsTaken
  <2> SUFFICES ASSUME TimeInv, NEW f \in frames, now - f.at <= Allowance,
                      call[f.envelope].key \in UsableKeys(f.to)
               PROVE  Checks(f.to, f.envelope)
                          \in {"ok", "app_identity_mismatch"}
    BY DEF PromptFrameIsTaken
  <2> USE AssertionsAssumption
  <2> DEFINE c == f.envelope
  <2>1. c \in Call /\ f.to \in Device /\ f.at \in Int /\ call[c] # None
        /\ f.at - call[c].at <= MaxAge
    BY DEF TimeInv, FrameInv, Admitted, Frame
  <2>2. now \in Int /\ drift[f.to] \in -Skew..Skew /\ call[c].at \in Int
        /\ call[c].at <= now
    <3>1. now \in Int /\ drift[f.to] \in -Skew..Skew
      BY <2>1, ClockSkew
    <3>2. call[c].at \in 0..MaxTime /\ call[c].at <= now
      BY <2>1 DEF TimeInv, CallInv
    <3>3. QED
      BY <3>1, <3>2
  <2>3. ~Expired(f.to, c)
    BY <2>1, <2>2, TtlOutlivesDelivery DEF Expired, Expiry, Clock
  <2>4. ~NotYetIssued(f.to, c)
    BY <2>1, <2>2 DEF NotYetIssued, Clock
  <2>5. QED
    BY <2>3, <2>4 DEF Checks
<1>2. QED
  BY <1>1, TimeInvariant, PTL

-----------------------------------------------------------------------------
(***************************************************************************)
(* The cache of a device: at most SeenLimit signed calls, each accepted,   *)
(* and each accepted after those before it.                                *)
(***************************************************************************)
Tracked(d) ==
    /\ Len(seen[d]) <= SeenLimit
    /\ \A i \in 1..Len(seen[d]) :
           /\ call[seen[d][i]] # None
           /\ since[d][seen[d][i]] # None
    /\ \A i, j \in 1..Len(seen[d]) : i < j =>
           /\ seen[d][i] # seen[d][j]
           /\ seen[d][j] \in since[d][seen[d][i]]

(***************************************************************************)
(* What was accepted and is not in the cache has expired or was followed   *)
(* by enough others to be dropped.                                         *)
(***************************************************************************)
Forgotten(d, c) ==
    \/ Expiry(c) <= Clock(d)
    \/ Cardinality(since[d][c]) >= SeenLimit

Covered(d) ==
    \A c \in Call : since[d][c] # None =>
        /\ call[c] # None
        /\ IsFiniteSet(since[d][c])
        /\ \/ \E i \in 1..Len(seen[d]) : seen[d][i] = c
           \/ Forgotten(d, c)

CacheInv ==
    /\ held \in [Device -> 0..Len(published)]
    /\ seen \in [Device -> Seq(Call)]
    /\ since \in [Device -> [Call -> (SUBSET Call) \union {None}]]
    /\ \A d \in Device : Tracked(d) /\ Covered(d)

(***************************************************************************)
(* The first lookup of _reject_replay finds nothing.                       *)
(***************************************************************************)
LEMMA CacheInit == Init => CacheInv
<1> SUFFICES ASSUME Init
             PROVE  CacheInv
  OBVIOUS
<1>1. \A d \in Device : seen[d] = <<>> /\ since[d] = Unseen
  BY DEF Init
<1>2. \A d \in Device : Tracked(d)
  BY <1>1, AssertionsAssumption DEF Tracked
<1>3. \A d \in Device : Covered(d)
  BY <1>1 DEF Covered, Unseen
<1>4. seen \in [Device -> Seq(Call)]
  BY DEF Init
<1>5. since \in [Device -> [Call -> (SUBSET Call) \union {None}]]
  BY DEF Init, Unseen
<1>6. held \in [Device -> 0..Len(published)]
  BY DEF Init
<1>7. QED
  BY <1>2, <1>3, <1>4, <1>5, <1>6 DEF CacheInv

(***************************************************************************)
(* What _reject_replay has left after it dropped the expired entries: the  *)
(* others, in their order.                                                 *)
(***************************************************************************)
LEMMA RememberedSifts ==
    ASSUME NEW d \in Device, seen[d] \in Seq(Call)
    PROVE  LET Stale == {c \in Call : Expired(d, c)}
           IN  /\ Remembered(d) \in Seq(Call)
               /\ Len(Remembered(d)) <= Len(seen[d])
               /\ \E pos : Sifted(Remembered(d), pos, seen[d],
                                  Len(seen[d]), Stale)
<1> DEFINE s == seen[d]
           Stale == {c \in Call : Expired(d, c)}
           Body(f) == [n \in 0..Len(s) |->
                          IF n = 0 THEN <<>>
                          ELSE IF Expired(d, s[n]) THEN f[n - 1]
                          ELSE Append(f[n - 1], s[n])]
           kept == CHOOSE f : f = Body(f)
<1>1. \A n \in 0..Len(s) : n # 0 => (s[n] \in Stale <=> Expired(d, s[n]))
  OBVIOUS
<1>2. \A f : Purge(f, s, Stale) <=> f = Body(f)
  BY <1>1 DEF Purge
<1>3. \E f : f = Body(f)
  BY <1>2, PurgeExists
<1>4. kept = Body(kept)
  <2> HIDE DEF Body
  <2>1. QED
    BY <1>3
<1>5. Purge(kept, s, Stale)
  BY <1>2, <1>4
<1>6. Remembered(d) = kept[Len(s)]
  BY DEF Remembered
<1> HIDE DEF kept, Stale
<1>7. QED
  BY <1>5, <1>6, PurgeSifts DEF Stale

(***************************************************************************)
(* The entries that are left are in the order of their acceptance, and     *)
(* every entry that has not expired is left.                               *)
(***************************************************************************)
LEMMA RememberedTracked ==
    ASSUME CacheInv, NEW d \in Device
    PROVE  LET r == Remembered(d)
           IN  /\ r \in Seq(Call) /\ Len(r) <= SeenLimit
               /\ \A i \in 1..Len(r) : /\ r[i] \in Call /\ call[r[i]] # None
                                      /\ since[d][r[i]] # None
                                      /\ ~Expired(d, r[i])
               /\ \A i, j \in 1..Len(r) : i < j =>
                      r[i] # r[j] /\ r[j] \in since[d][r[i]]
               /\ \A k \in 1..Len(seen[d]) :
                      \/ Expired(d, seen[d][k])
                      \/ \E i \in 1..Len(r) : r[i] = seen[d][k]
<1> DEFINE r == Remembered(d)
           s == seen[d]
           Stale == {c \in Call : Expired(d, c)}
<1>1. /\ s \in Seq(Call) /\ Tracked(d)
      /\ \A k \in 1..Len(s) : s[k] \in Call
  BY DEF CacheInv
<1>2. r \in Seq(Call) /\ Len(r) <= Len(s)
  BY <1>1, RememberedSifts
<1>3. PICK pos : Sifted(r, pos, s, Len(s), Stale)
  BY <1>1, RememberedSifts
<1> HIDE DEF r, s, Stale
<1>4. Len(r) \in Nat /\ Len(s) \in Nat /\ SeenLimit \in Nat
  BY <1>1, <1>2, AssertionsAssumption
<1>5. \A i \in 1..Len(r) : r[i] = s[pos[i]] /\ pos[i] \in 1..Len(s)
  BY <1>3 DEF Sifted
<1>6. Len(r) <= SeenLimit
  BY <1>1, <1>2, <1>4 DEF Tracked, s
<1>7. \A i \in 1..Len(r) : r[i] \in Call /\ ~Expired(d, r[i])
  BY <1>1, <1>3, <1>5 DEF Sifted, Stale
<1>8. \A i \in 1..Len(r) : call[r[i]] # None /\ since[d][r[i]] # None
  BY <1>1, <1>5 DEF Tracked, s
<1>9. ASSUME NEW i \in 1..Len(r), NEW j \in 1..Len(r), i < j
      PROVE  r[i] # r[j] /\ r[j] \in since[d][r[i]]
  <2>1. pos[i] < pos[j]
    BY <1>3, <1>9 DEF Sifted
  <2>2. QED
    BY <1>1, <1>5, <2>1 DEF Tracked, s
<1>10. ASSUME NEW k \in 1..Len(s), ~Expired(d, s[k])
       PROVE  \E i \in 1..Len(r) : r[i] = s[k]
  <2>1. s[k] \notin Stale
    BY <1>10 DEF Stale
  <2>2. PICK i \in 1..Len(r) : pos[i] = k
    BY <1>3, <2>1 DEF Sifted
  <2>3. QED
    BY <1>5, <2>2
<1>11. QED
  BY <1>2, <1>6, <1>7, <1>8, <1>9, <1>10 DEF r, s

(***************************************************************************)
(* The lookup finds what has been accepted, has not expired and was not    *)
(* dropped.                                                                *)
(***************************************************************************)
LEMMA LookupFinds ==
    ASSUME CacheInv, NEW d \in Device, NEW k \in 1..Len(seen[d]),
           ~Expired(d, seen[d][k])
    PROVE  Replayed(d, seen[d][k])
<1>1. PICK i \in 1..Len(Remembered(d)) : Remembered(d)[i] = seen[d][k]
  BY RememberedTracked
<1>2. DOMAIN Remembered(d) = 1..Len(Remembered(d))
  BY RememberedTracked
<1>3. QED
  BY <1>1, <1>2 DEF Replayed, ToSet

-----------------------------------------------------------------------------
(***************************************************************************)
(* A device that a step leaves alone keeps its cache's invariant: calls    *)
(* stay signed and its clock does not go back.                             *)
(***************************************************************************)
LEMMA CacheKept ==
    ASSUME TimeInv, CacheInv, now \in Int, now' \in Int, now <= now',
           UNCHANGED drift,
           \A c \in Call : call[c] # None => call'[c] = call[c],
           NEW d \in Device, seen'[d] = seen[d], since'[d] = since[d]
    PROVE  Tracked(d)' /\ Covered(d)'
<1>1. Tracked(d) /\ Covered(d) /\ seen[d] \in Seq(Call)
  BY DEF CacheInv
<1>2. \A i \in 1..Len(seen[d]) : seen[d][i] \in Call
  BY <1>1
<1>3. Tracked(d)'
  BY <1>1, <1>2 DEF Tracked
<1>4. ASSUME NEW c \in Call, since[d][c] # None, Forgotten(d, c)
      PROVE  Forgotten(d, c)'
  <2>1. call[c] # None /\ call'[c] = call[c]
    BY <1>1, <1>4 DEF Covered
  <2>2. CASE Expiry(c) <= Clock(d)
    <3>1. call[c].at \in Int /\ Ttl \in Int
      BY <2>1, AssertionsAssumption DEF TimeInv, CallInv
    <3>2. drift[d] \in Int
      BY ClockSkew, AssertionsAssumption
    <3>3. QED
      BY <2>1, <2>2, <3>1, <3>2 DEF Forgotten, Expiry, Clock
  <2>3. CASE Cardinality(since[d][c]) >= SeenLimit
    BY <2>3 DEF Forgotten
  <2>4. QED
    BY <1>4, <2>2, <2>3 DEF Forgotten
<1>5. Covered(d)'
  BY <1>1, <1>4 DEF Covered
<1>6. QED
  BY <1>3, <1>5
(***************************************************************************)
(* _reject_replay finds the assertion: only expired entries go.            *)
(***************************************************************************)
LEMMA RejectKeepsCache ==
    ASSUME TimeInv, CacheInv, NEW d \in Device, RejectReplay(d)
    PROVE  Tracked(d)' /\ Covered(d)'
<1> DEFINE r == Remembered(d)
<1>1. /\ seen'[d] = r
      /\ UNCHANGED <<now, drift, call, since>>
  BY DEF RejectReplay, CacheInv, hub
<1>2. Tracked(d)'
  <2>1. /\ Len(r) <= SeenLimit
        /\ \A i \in 1..Len(r) : call[r[i]] # None /\ since[d][r[i]] # None
        /\ \A i, j \in 1..Len(r) : i < j =>
               r[i] # r[j] /\ r[j] \in since[d][r[i]]
    BY RememberedTracked
  <2> HIDE DEF r
  <2>2. QED
    BY <1>1, <2>1 DEF Tracked
<1>3. \A c : Forgotten(d, c)' = Forgotten(d, c)
  BY <1>1 DEF Forgotten, Expiry, Clock
<1>4. ASSUME NEW k \in 1..Len(seen[d])
      PROVE  Forgotten(d, seen[d][k]) \/ \E i \in 1..Len(r) : r[i] = seen[d][k]
  <2>1. \/ Expired(d, seen[d][k])
        \/ \E i \in 1..Len(r) : r[i] = seen[d][k]
    BY RememberedTracked
  <2> HIDE DEF r
  <2>2. QED
    BY <2>1 DEF Expired, Forgotten
<1> HIDE DEF r
<1>5. ASSUME NEW c \in Call, since[d][c] # None
      PROVE  /\ call[c] # None
             /\ IsFiniteSet(since[d][c])
             /\ Forgotten(d, c) \/ \E i \in 1..Len(r) : r[i] = c
  <2>1. /\ call[c] # None /\ IsFiniteSet(since[d][c])
        /\ \/ \E k \in 1..Len(seen[d]) : seen[d][k] = c
           \/ Forgotten(d, c)
    BY <1>5 DEF CacheInv, Covered
  <2>2. ASSUME NEW k \in 1..Len(seen[d]), seen[d][k] = c
        PROVE  Forgotten(d, c) \/ \E i \in 1..Len(r) : r[i] = c
    BY <1>4, <2>2
  <2>3. QED
    BY <2>1, <2>2
<1>6. Covered(d)'
  BY <1>1, <1>3, <1>5 DEF Covered
<1>7. QED
  BY <1>2, <1>6

(***************************************************************************)
(* What an acceptance does to the history: the accepted call starts anew,  *)
(* every other has one more after it.                                      *)
(***************************************************************************)
LEMMA SinceStep ==
    ASSUME TimeInv, CacheInv, NEW d \in Device, Accept(d),
           NEW c, c = verifying[d].frame.envelope
    PROVE  /\ c \in Call /\ call[c] # None
           /\ since'[d][c] = {}
           /\ \A x \in Call : x # c =>
                  since'[d][x] = IF since[d][x] = None THEN None
                                 ELSE since[d][x] \union {c}
           /\ since' \in [Device -> [Call -> (SUBSET Call) \union {None}]]
<1>1. c \in Call /\ call[c] # None
  BY DEF Accept, TimeInv, VerifyInv, Admitted, Frame
<1> DEFINE row == [x \in Call |-> CASE x = c -> {}
                                   [] x # c /\ since[d][x] = None -> None
                                   [] OTHER -> since[d][x] \union {c}]
<1>2. since' = [since EXCEPT ![d] = row]
  BY DEF Accept
<1>3. \A x \in Call : row[x] = IF x = c THEN {}
                               ELSE IF since[d][x] = None THEN None
                               ELSE since[d][x] \union {c}
  OBVIOUS
<1>4. row \in [Call -> (SUBSET Call) \union {None}]
  <2>1. \A x \in Call : row[x] \in (SUBSET Call) \union {None}
    BY <1>1, <1>3 DEF CacheInv
  <2>2. QED
    BY <2>1
<1>5. since'[d] = row
  BY <1>2 DEF CacheInv
<1> HIDE DEF row
<1>6. since' \in [Device -> [Call -> (SUBSET Call) \union {None}]]
  BY <1>2, <1>4 DEF CacheInv
<1>7. QED
  BY <1>1, <1>3, <1>5, <1>6

(***************************************************************************)
(* _reject_replay does not find the assertion: it becomes the last entry,  *)
(* and the oldest goes if there is no room.                                *)
(***************************************************************************)
LEMMA AcceptKeepsCache ==
    ASSUME TimeInv, CacheInv, NEW d \in Device, Accept(d)
    PROVE  /\ seen'[d] \in Seq(Call)
           /\ Tracked(d)' /\ Covered(d)'
<1> DEFINE c == verifying[d].frame.envelope
           r == Remembered(d)
           a == Append(r, c)
           m == Len(r) + 1
           cut == m > SeenLimit
<1>1. /\ seen' = [seen EXCEPT ![d] = Evicted(a)]
      /\ UNCHANGED <<now, drift, call>>
      /\ ~Replayed(d, c)
  BY DEF Accept, hub
<1>2. /\ c \in Call /\ call[c] # None
      /\ since'[d][c] = {}
      /\ \A x \in Call : x # c =>
             since'[d][x] = IF since[d][x] = None THEN None
                            ELSE since[d][x] \union {c}
      /\ since'[d] \in [Call -> (SUBSET Call) \union {None}]
  BY SinceStep
<1>3. /\ r \in Seq(Call) /\ Len(r) <= SeenLimit
      /\ \A i \in 1..Len(r) : /\ r[i] \in Call /\ call[r[i]] # None
                             /\ since[d][r[i]] # None
                             /\ ~Expired(d, r[i])
      /\ \A i, j \in 1..Len(r) : i < j =>
             r[i] # r[j] /\ r[j] \in since[d][r[i]]
      /\ \A k \in 1..Len(seen[d]) :
             \/ Expired(d, seen[d][k])
             \/ \E i \in 1..Len(r) : r[i] = seen[d][k]
  BY RememberedTracked
<1>4. \A i \in 1..Len(r) : r[i] # c
  BY <1>1, <1>3 DEF Replayed, ToSet
<1> HIDE DEF c, r
<1>5. SeenLimit \in Nat /\ SeenLimit >= 1 /\ Len(r) \in Nat
  BY <1>3, AssertionsAssumption
<1>6. /\ a \in Seq(Call) /\ Len(a) = m
      /\ a[m] = c
      /\ \A i \in 1..Len(r) : a[i] = r[i]
  BY <1>2, <1>3
<1> HIDE DEF a
<1>7. \A i \in 1..m : i = m \/ i \in 1..Len(r)
  BY <1>5
<1>8. {} # None
  BY NoDeviceOrCall
<1>9. \A x \in Call :
          /\ x = c \/ since[d][x] # None => since'[d][x] # None
          /\ x # c /\ since'[d][x] # None => since[d][x] # None
  <2> SUFFICES ASSUME NEW x \in Call, x # c
               PROVE  since[d][x] # None <=> since'[d][x] # None
    BY <1>2, <1>8
  <2>1. CASE since[d][x] # None
    <3>1. since[d][x] \union {c} \in SUBSET Call
      BY <1>2, <2>1 DEF CacheInv
    <3>2. QED
      BY <1>2, <2>1, <3>1, NoDeviceOrCall
  <2>2. CASE since[d][x] = None
    BY <1>2, <2>2
  <2>3. QED
    BY <2>1, <2>2
<1>10. \A i \in 1..m : /\ a[i] \in Call /\ call[a[i]] # None
                       /\ since'[d][a[i]] # None
  <2>1. a[m] \in Call /\ call[a[m]] # None /\ since'[d][a[m]] # None
    <3>1. since'[d][c] # None
      BY <1>2, <1>9
    <3>2. QED
      BY <1>2, <1>6, <3>1
  <2>2. ASSUME NEW i \in 1..Len(r)
        PROVE  a[i] \in Call /\ call[a[i]] # None /\ since'[d][a[i]] # None
    <3>1. a[i] = r[i] /\ r[i] \in Call /\ call[r[i]] # None
          /\ since[d][r[i]] # None
      BY <1>3, <1>6
    <3>2. since'[d][r[i]] # None
      BY <1>9, <3>1
    <3>3. QED
      BY <3>1, <3>2
  <2> HIDE DEF m
  <2>3. QED
    BY <1>7, <2>1, <2>2
<1>11. ASSUME NEW i \in 1..m, NEW j \in 1..m, i < j
       PROVE  a[i] # a[j] /\ a[j] \in since'[d][a[i]]
  <2>1. i \in 1..Len(r)
    BY <1>5, <1>11
  <2>2. a[i] = r[i] /\ r[i] # c /\ r[i] \in Call /\ since[d][r[i]] # None
    BY <1>3, <1>4, <1>6, <2>1
  <2>3. since'[d][a[i]] = since[d][r[i]] \union {c}
    BY <1>2, <2>2
  <2>4. CASE j = m
    BY <1>6, <2>2, <2>3, <2>4
  <2>5. CASE j \in 1..Len(r)
    BY <1>3, <1>6, <1>11, <2>1, <2>2, <2>3, <2>5
  <2>6. QED
    BY <1>7, <2>4, <2>5
<1>12. seen'[d] = IF cut THEN Tail(a) ELSE a
  BY <1>1, <1>6 DEF Evicted, CacheInv
<1>13. cut => /\ m = SeenLimit + 1 /\ Tail(a) \in Seq(Call)
              /\ Len(Tail(a)) = SeenLimit
              /\ \A i \in 1..SeenLimit : Tail(a)[i] = a[i + 1]
  <2> SUFFICES ASSUME cut
               PROVE  /\ m = SeenLimit + 1 /\ Tail(a) \in Seq(Call)
                      /\ Len(Tail(a)) = SeenLimit
                      /\ \A i \in 1..SeenLimit : Tail(a)[i] = a[i + 1]
    OBVIOUS
  <2>1. m = SeenLimit + 1
    BY <1>3, <1>5
  <2>2. Len(a) = SeenLimit + 1
    BY <1>6, <2>1
  <2> HIDE DEF m, cut
  <2>3. QED
    BY <1>5, <1>6, <2>1, <2>2
<1>14. Tracked(d)'
  <2>1. CASE cut
    BY <1>5, <1>10, <1>11, <1>12, <1>13, <1>1, <2>1 DEF Tracked
  <2>2. CASE ~cut
    BY <1>5, <1>6, <1>10, <1>11, <1>12, <1>1, <2>2 DEF Tracked
  <2>3. QED
    BY <2>1, <2>2
<1>15. \A x : Forgotten(d, x)' <=>
           \/ Expiry(x) <= Clock(d)
           \/ Cardinality(since'[d][x]) >= SeenLimit
  BY <1>1 DEF Forgotten, Expiry, Clock
<1>16. ASSUME NEW i \in 1..m
       PROVE  \/ \E k \in 1..Len(seen'[d]) : seen'[d][k] = a[i]
              \/ cut /\ i = 1
  <2>1. CASE ~cut
    BY <1>6, <1>12, <2>1
  <2>2. CASE cut /\ i # 1
    <3>1. i - 1 \in 1..SeenLimit
      BY <1>5, <1>13, <2>2
    <3>2. Tail(a)[i - 1] = a[i]
      BY <1>13, <2>2, <3>1
    <3>3. QED
      BY <1>12, <1>13, <2>2, <3>1, <3>2
  <2>3. QED
    BY <2>1, <2>2
<1>17. ASSUME NEW x \in Call, x # c, since'[d][x] # None
       PROVE  /\ since'[d][x] = since[d][x] \union {c}
              /\ since[d][x] # None /\ call[x] # None
              /\ IsFiniteSet(since[d][x]) /\ IsFiniteSet(since'[d][x])
              /\ Cardinality(since'[d][x]) >= Cardinality(since[d][x])
              /\ Cardinality(since[d][x]) \in Nat
              /\ Cardinality(since'[d][x]) \in Nat
  <2>1. since[d][x] # None /\ since'[d][x] = since[d][x] \union {c}
    BY <1>2, <1>9, <1>17
  <2>2. call[x] # None /\ IsFiniteSet(since[d][x])
    BY <2>1 DEF CacheInv, Covered
  <2>3. IsFiniteSet(since'[d][x])
    BY <2>1, <2>2, FS_AddElement
  <2>4. Cardinality(since[d][x]) <= Cardinality(since'[d][x])
    BY <2>1, <2>3, FS_Subset
  <2>5. /\ Cardinality(since[d][x]) \in Nat
        /\ Cardinality(since'[d][x]) \in Nat
    BY <2>2, <2>3, FS_CardinalityType
  <2>6. QED
    BY <2>1, <2>2, <2>3, <2>4, <2>5
<1>18. ASSUME cut, a[1] # c
       PROVE  Cardinality(since'[d][a[1]]) >= SeenLimit
  <2> DEFINE T == since'[d][a[1]]
  <2>1. 1 \in 1..m /\ a[1] \in Call /\ T # None
    BY <1>5, <1>10
  <2>2. IsFiniteSet(T) /\ Cardinality(T) \in Nat
    BY <1>17, <1>18, <2>1
  <2>3. \A i \in 2..m : a[i] \in T
    BY <1>5, <1>11, <2>1
  <2>4. \A i, j \in 2..m : a[i] = a[j] => i = j
    BY <1>5, <1>11
  <2>5. m \in Nat
    BY <1>5
  <2> HIDE DEF T, m
  <2>6. m - 2 + 1 <= Cardinality(T)
    BY <2>2, <2>3, <2>4, <2>5, DistinctElements
  <2>7. QED
    BY <1>5, <1>13, <1>18, <2>2, <2>5, <2>6 DEF T
<1>19. ASSUME NEW x \in Call, since'[d][x] # None
       PROVE  /\ call'[x] # None
              /\ IsFiniteSet(since'[d][x])
              /\ \/ \E k \in 1..Len(seen'[d]) : seen'[d][k] = x
                 \/ Forgotten(d, x)'
  <2>1. CASE x = c
    <3>1. IsFiniteSet(since'[d][x]) /\ call'[x] # None
      BY <1>1, <1>2, <2>1, FS_EmptySet
    <3>2. m \in 1..m /\ ~(cut /\ m = 1)
      BY <1>5
    <3>3. \E k \in 1..Len(seen'[d]) : seen'[d][k] = a[m]
      BY <1>16, <3>2
    <3>4. QED
      BY <1>6, <2>1, <3>1, <3>3
  <2>2. CASE x # c
    <3>1. /\ call'[x] # None /\ IsFiniteSet(since'[d][x])
          /\ since[d][x] # None
      BY <1>1, <1>17, <1>19, <2>2
    <3>2. \/ \E k \in 1..Len(seen[d]) : seen[d][k] = x
          \/ Forgotten(d, x)
      BY <3>1 DEF CacheInv, Covered
    <3>3. CASE Forgotten(d, x)
      BY <1>5, <1>15, <1>17, <1>19, <2>2, <3>1, <3>3 DEF Forgotten
    <3>4. ASSUME NEW i \in 1..Len(r), r[i] = x
          PROVE  \/ \E k \in 1..Len(seen'[d]) : seen'[d][k] = x
                 \/ Forgotten(d, x)'
      <4>1. i \in 1..m /\ a[i] = x
        BY <1>5, <1>6, <3>4
      <4>2. CASE cut /\ i = 1
        BY <1>15, <1>18, <2>2, <4>1, <4>2
      <4>3. QED
        BY <1>16, <4>1, <4>2
    <3>5. ASSUME NEW k \in 1..Len(seen[d]), seen[d][k] = x,
                 ~Forgotten(d, x)
          PROVE  \E i \in 1..Len(r) : r[i] = x
      BY <1>3, <3>5 DEF Expired, Forgotten
    <3>6. QED
      BY <3>1, <3>2, <3>3, <3>4, <3>5
  <2>3. QED
    BY <2>1, <2>2
<1>20. Covered(d)'
  BY <1>19 DEF Covered
<1>21. seen'[d] \in Seq(Call)
  BY <1>6, <1>12, <1>13
<1>22. QED
  BY <1>14, <1>20, <1>21

(***************************************************************************)
(* Every step keeps the invariant of the caches.                           *)
(***************************************************************************)
LEMMA CacheStep ==
    ASSUME TimeInv, CacheInv, [Next]_vars
    PROVE  CacheInv'
<1> USE AssertionsAssumption
<1> DEFINE Untouched(x) == seen'[x] = seen[x] /\ since'[x] = since[x]
<1>1. /\ now \in Int /\ now' \in Int /\ now <= now' /\ UNCHANGED drift
      /\ \A c \in Call : call[c] # None => call'[c] = call[c]
  <2>1. now \in Int
    BY DEF TimeInv, ClockInv
  <2>2. CASE Tick
    BY <2>1, <2>2 DEF Tick, hub
  <2>3. CASE \E c \in Call : Sign(c)
    BY <2>1, <2>3 DEF Sign, TimeInv, CallInv
  <2>4. CASE UNCHANGED <<now, drift, call>>
    BY <2>1, <2>4
  <2>5. QED
    BY <2>2, <2>3, <2>4
       DEF Next, vars, hub, Publish, Dispatch, Lose, FetchKeyset, Refuse,
           Verify, RejectReplay, Accept, Restart
<1>2. \A x \in Device : Untouched(x) => Tracked(x)' /\ Covered(x)'
  BY <1>1, CacheKept
<1>3. held' \in [Device -> 0..Len(published')]
  <2>1. published \in Seq(SUBSET Key) /\ held \in [Device -> 0..Len(published)]
    BY DEF TimeInv, KeyInv, CacheInv
  <2>2. CASE \E usable \in SUBSET Key : Publish(usable)
    <3>1. Len(published') = Len(published) + 1 /\ Len(published) \in Nat
          /\ held' = held
      BY <2>1, <2>2 DEF Publish, device
    <3>2. QED
      BY <2>1, <3>1
  <2>3. ASSUME NEW d \in Device, NEW i \in DOMAIN published,
               FetchKeyset(d, i)
        PROVE  held' \in [Device -> 0..Len(published')]
    <3>1. i \in 0..Len(published)
      BY <2>1
    <3>2. QED
      BY <2>1, <2>3, <3>1 DEF FetchKeyset, hub
  <2>4. ASSUME NEW d \in Device, Restart(d)
        PROVE  held' \in [Device -> 0..Len(published')]
    BY <2>1, <2>4 DEF Restart, hub
  <2>5. UNCHANGED <<held, published>>
            => held' \in [Device -> 0..Len(published')]
    BY <2>1
  <2>6. QED
    BY <2>2, <2>3, <2>4, <2>5
       DEF Next, vars, hub, device, Tick, Sign, Dispatch, Lose, Refuse, Verify,
           RejectReplay, Accept
<1>4. CASE UNCHANGED <<seen, since>>
  BY <1>2, <1>3, <1>4 DEF CacheInv
<1>5. ASSUME NEW d \in Device, RejectReplay(d)
      PROVE  CacheInv'
  <2>1. /\ seen' = [seen EXCEPT ![d] = Remembered(d)] /\ UNCHANGED since
        /\ Remembered(d) \in Seq(Call)
    BY <1>5, RememberedTracked DEF RejectReplay
  <2>2. seen' \in [Device -> Seq(Call)]
    BY <2>1 DEF CacheInv
  <2>3. Tracked(d)' /\ Covered(d)'
    BY <1>5, RejectKeepsCache
  <2>4. \A x \in Device : x # d => Untouched(x)
    BY <2>1 DEF CacheInv
  <2> HIDE DEF Untouched
  <2>5. QED
    BY <1>2, <1>3, <2>1, <2>2, <2>3, <2>4 DEF CacheInv
<1>6. ASSUME NEW d \in Device, Accept(d)
      PROVE  CacheInv'
  <2>1. seen'[d] \in Seq(Call) /\ Tracked(d)' /\ Covered(d)'
    BY <1>6, AcceptKeepsCache
  <2>2. since' \in [Device -> [Call -> (SUBSET Call) \union {None}]]
    BY <1>6, SinceStep
  <2>3. DOMAIN seen' = Device /\ \A x \in Device : x # d => Untouched(x)
    BY <1>6 DEF Accept, CacheInv
  <2>4. seen' \in [Device -> Seq(Call)]
    <3>1. \A x \in Device : seen'[x] \in Seq(Call)
      BY <2>1, <2>3 DEF CacheInv
    <3>2. seen' = [x \in Device |-> seen'[x]]
      BY <1>6 DEF Accept, CacheInv
    <3>3. QED
      BY <3>1, <3>2
  <2> HIDE DEF Untouched
  <2>5. QED
    BY <1>2, <1>3, <2>1, <2>2, <2>3, <2>4 DEF CacheInv
<1>7. ASSUME NEW d \in Device, Restart(d)
      PROVE  CacheInv'
  <2>1. /\ seen' = [seen EXCEPT ![d] = <<>>]
        /\ since' = [since EXCEPT ![d] = Unseen]
    BY <1>7 DEF Restart
  <2>2. seen' \in [Device -> Seq(Call)] /\ seen'[d] = <<>>
    BY <2>1 DEF CacheInv
  <2>3. since' \in [Device -> [Call -> (SUBSET Call) \union {None}]]
        /\ since'[d] = Unseen
    BY <2>1 DEF CacheInv, Unseen
  <2>4. Tracked(d)' /\ Covered(d)'
    BY <2>2, <2>3 DEF Tracked, Covered, Unseen
  <2>5. \A x \in Device : x # d => Untouched(x)
    BY <2>1 DEF CacheInv
  <2> HIDE DEF Untouched
  <2>6. QED
    BY <1>2, <1>3, <2>2, <2>3, <2>4, <2>5 DEF CacheInv
<1>8. QED
  BY <1>4, <1>5, <1>6, <1>7
     DEF Next, vars, device, Tick, Sign, Publish, Dispatch, Lose, FetchKeyset,
         Refuse, Verify

(***************************************************************************)
(* The caches' invariant holds in every reachable state.                   *)
(***************************************************************************)
LEMMA CacheInvariant == Spec => []CacheInv
<1>1. TimeInv /\ CacheInv /\ [Next]_vars => CacheInv'
  BY CacheStep
<1>2. QED
  BY <1>1, CacheInit, TimeInvariant, PTL DEF Spec

(***************************************************************************)
(* _reject_replay refuses what the device accepted before, while it lives  *)
(* and the cache has room: for any limit, any number of devices and calls, *)
(* any frames sent again and in any order, restarts included.              *)
(***************************************************************************)
THEOREM ReplaysRefused == Spec => []ReplayIsRefused
<1>1. TimeInv /\ CacheInv => ReplayIsRefused
  <2> SUFFICES ASSUME TimeInv, CacheInv, NEW d \in Device,
                      verifying[d] # None,
                      NEW c, c = verifying[d].frame.envelope,
                      since[d][c] # None, ~Forgotten(d, c)
               PROVE  Replayed(d, c)
    BY DEF ReplayIsRefused, Forgotten
  <2>1. c \in Call
    BY DEF TimeInv, VerifyInv, Admitted, Frame
  <2>2. PICK k \in 1..Len(seen[d]) : seen[d][k] = c
    BY <2>1 DEF CacheInv, Covered
  <2>3. ~Expired(d, c)
    BY DEF Forgotten, Expired
  <2>4. QED
    BY <2>2, <2>3, LookupFinds
<1>2. QED
  BY <1>1, TimeInvariant, CacheInvariant, PTL

(***************************************************************************)
(* Type correctness; among others, the cache never holds more than         *)
(* seen_limit assertions and none of them twice.                           *)
(***************************************************************************)
THEOREM AssertionsTypeCorrect == Spec => []AssertionsTypeOK
<1>1. TimeInv /\ CacheInv => AssertionsTypeOK
  <2> SUFFICES ASSUME TimeInv, CacheInv
               PROVE  AssertionsTypeOK
    OBVIOUS
  <2>1. /\ now \in 0..MaxTime /\ drift \in [Device -> Drift]
        /\ call \in [Call -> [key : Key, at : 0..MaxTime] \union {None}]
        /\ published \in Seq(SUBSET Key)
        /\ revoked \in [Key -> (0..MaxTime) \union {None}]
    BY DEF TimeInv, ClockInv, CallInv, KeyInv
  <2>2. frames \subseteq Frame
    BY DEF TimeInv, FrameInv, Admitted
  <2>3. /\ held \in [Device -> 0..Len(published)]
        /\ since \in [Device -> [Call -> (SUBSET Call) \union {None}]]
    BY DEF CacheInv
  <2>4. ASSUME NEW d \in Device
        PROVE  /\ verifying[d] = None \/ verifying[d].frame \in Frame
               /\ seen[d] \in Seq(Signed)
               /\ Len(seen[d]) <= SeenLimit
               /\ IsInjective(seen[d])
    <3>1. verifying[d] = None \/ verifying[d].frame \in Frame
      BY DEF TimeInv, VerifyInv, Admitted
    <3>2. seen[d] \in Seq(Call) /\ Tracked(d)
      BY DEF CacheInv
    <3>3. \A i \in 1..Len(seen[d]) : seen[d][i] \in Signed
      BY <3>2 DEF Tracked, Signed
    <3>4. seen[d] \in Seq(Signed)
      BY <3>2, <3>3
    <3>5. ASSUME NEW i \in 1..Len(seen[d]), NEW j \in 1..Len(seen[d]),
                 seen[d][i] = seen[d][j]
          PROVE  i = j
      <4>1. ~(i < j) /\ ~(j < i)
        BY <3>2, <3>5 DEF Tracked
      <4>2. QED
        BY <4>1
    <3>6. IsInjective(seen[d])
      BY <3>2, <3>5 DEF IsInjective
    <3>7. QED
      BY <3>1, <3>2, <3>4, <3>6 DEF Tracked
  <2>5. QED
    BY <2>1, <2>2, <2>3, <2>4 DEF AssertionsTypeOK
<1>2. QED
  BY <1>1, TimeInvariant, CacheInvariant, PTL
=============================================================================
