---------------------------- MODULE Enrollment ----------------------------
(***************************************************************************)
(* How a device pairs and comes online: enrollment tokens and relay        *)
(* challenges (store.py), complete_enrollment and the handshake half of    *)
(* authenticate_relay (service.py), and the stages of a WebSocket's        *)
(* handle() up to "ready" (relay.py).                                      *)
(*                                                                         *)
(* complete_enrollment never suspends, so no other task of the process     *)
(* sees its middle; but it is three transactions, and the process may die  *)
(* between them.  task is the attempt whose next transaction is due; while *)
(* there is one, only it moves, or the process dies.  It reads the clock   *)
(* once, so no second passes for it either.                                *)
(*                                                                         *)
(* Time is kept as seconds left: 0 is expires_at <= now.  A consumed row   *)
(* has none left, as nothing asks any more.  A challenge is written and    *)
(* its wait begins in one step: the write of its frame is assumed to take  *)
(* no second.  A client may send any frame: one it built for an earlier    *)
(* connection, or for another token.                                       *)
(*                                                                         *)
(* Left out: audit rows; the presence row of an authenticated session and  *)
(* what follows "ready" (Presence); connector_ids and platforms that do    *)
(* not parse (Malformed); enroll_device finding a row get_device did not,  *)
(* which takes a second writer.                                            *)
(***************************************************************************)
EXTENDS RelayDiagnostics, Naturals, FiniteSets

CONSTANTS
    Session,        \* connection generations, one per accepted WebSocket
    Token,          \* raw enrollment tokens
    Connector,      \* connector_ids
    PublicKey,      \* Ed25519 public keys
    Profile,        \* capability_profile strings an operator may send
    Supported,      \* the keys of CAPABILITIES_BY_PROFILE
    TokenLife,      \* expires_in_seconds an operator may send
    ChallengeLife,  \* create_challenge's expires_in_seconds
    HandshakeTimeout, \* relay_handshake_timeout_seconds
    MaxCrashes,     \* bound: how often the process dies
    None

(***************************************************************************)
(* config.py keeps the timeout within 1..60; challenges live 120 seconds.  *)
(***************************************************************************)
ASSUME EnrollmentAssumption ==
    /\ Supported \subseteq Profile
    /\ TokenLife \subseteq Nat
    /\ ChallengeLife \in Nat
    /\ HandshakeTimeout \in Nat \ {0}
    /\ HandshakeTimeout < ChallengeLife
    /\ MaxCrashes \in Nat

VARIABLES
    token,          \* table enrollment_tokens: [Token -> TokenRow or None]
    challenge,      \* table relay_challenges: [Challenge -> row or None]
    device,         \* table remote_agent_devices: [Connector -> row or None]
    stage,          \* [Session -> Stage], the variable stage of handle()
    timer,          \* [Session -> seconds left of wait_for]
    told,           \* [Session -> the diagnostic sent, or None]
    task,           \* the complete_enrollment in progress, or None
    spentOn,        \* history: [Token -> the session that consumed it]
    paired,         \* history: the tokens that enrolled a device
    uses,           \* history: who consumed which challenge, and for what
    crashes

tables == <<token, challenge, device>>
connections == <<stage, timer, told>>
history == <<spentOn, paired, uses>>
vars == <<tables, connections, task, history, crashes>>

(***************************************************************************)
(* issue_relay_challenge runs at most twice on a connection, and ids and   *)
(* values are fresh: a challenge is named by the connection it was for.    *)
(***************************************************************************)
Challenge == Session \X {"first", "second"}

TokenRow == [connector : Connector, profile : Profile, left : Nat,
             consumed : BOOLEAN]
ChallengeRow == [left : 0..ChallengeLife, consumed : BOOLEAN]

(***************************************************************************)
(* The display_label and capability_profile of a device are those of the   *)
(* token that enrolled it: grant names that token.                         *)
(***************************************************************************)
DeviceRow == [key : PublicKey, grant : Token, revoked : BOOLEAN]

EnrollFrame == [challenge : Challenge, connector : Connector, token : Token,
                key : PublicKey, signed : BOOLEAN]
AuthFrame == [challenge : Challenge, connector : Connector, key : PublicKey]

(***************************************************************************)
(* A complete_enrollment between two transactions.                         *)
(***************************************************************************)
Attempt == [session : Session, frame : EnrollFrame,
            next : {"challenge", "device"}]

ASSUME NoRecord ==
    None \notin TokenRow \union ChallengeRow \union DeviceRow \union Attempt

ASSUME NoDiagnostic == None \notin Diagnostic

(***************************************************************************)
(* "closed" is the server's doing; "lost" the client's, or the process     *)
(* died.                                                                   *)
(***************************************************************************)
Stage == {"new", "challenge", "enrollment", "authentication", "ready",
          "closed", "lost"}

Waiting(s) == stage[s] \in {"challenge", "authentication"}
Offered(s) == <<s, IF stage[s] = "challenge" THEN "first" ELSE "second">>

EnrollmentTypeOK ==
    /\ token \in [Token -> TokenRow \union {None}]
    /\ challenge \in [Challenge -> ChallengeRow \union {None}]
    /\ device \in [Connector -> DeviceRow \union {None}]
    /\ stage \in [Session -> Stage]
    /\ timer \in [Session -> 0..HandshakeTimeout]
    /\ told \in [Session -> Diagnostic \union {None}]
    /\ task \in Attempt \union {None}
    /\ spentOn \in [Token -> Session \union {None}]
    /\ paired \subseteq Token
    /\ uses \subseteq [challenge : Challenge, session : Session,
                       purpose : {"enroll", "authenticate"}]
    /\ crashes \in 0..MaxCrashes

Init ==
    /\ token = [t \in Token |-> None]
    /\ challenge = [ch \in Challenge |-> None]
    /\ device = [c \in Connector |-> None]
    /\ stage = [s \in Session |-> "new"]
    /\ timer = [s \in Session |-> 0]
    /\ told = [s \in Session |-> None]
    /\ task = None
    /\ spentOn = [t \in Token |-> None]
    /\ paired = {}
    /\ uses = {}
    /\ crashes = 0

-----------------------------------------------------------------------------
(***************************************************************************)
(* store.py: consume_enrollment_token_detailed, create_challenge and       *)
(* consume_challenge.                                                      *)
(***************************************************************************)
Consumed(row) == [row EXCEPT !.consumed = TRUE, !.left = 0]

MutantReuseUnpaired(f) ==
    LET row == token[f.token] IN
    IF row = None THEN "enrollment_token_invalid"
    ELSE IF row.connector # f.connector THEN "connector_id_mismatch"
    ELSE IF row.consumed /\ device[f.connector] # None
           THEN "enrollment_token_consumed"
    ELSE IF row.left = 0 /\ ~row.consumed THEN "enrollment_token_expired"
    ELSE "accepted"

MutantAnyConnector(f) ==
    LET row == token[f.token] IN
    IF row = None THEN "enrollment_token_invalid"
    ELSE IF row.consumed THEN "enrollment_token_consumed"
    ELSE IF row.left = 0 THEN "enrollment_token_expired"
    ELSE "accepted"

TokenVerdict(f) ==
    LET row == token[f.token] IN
    IF row = None THEN "enrollment_token_invalid"
    ELSE IF row.connector # f.connector THEN "connector_id_mismatch"
    ELSE IF row.consumed THEN "enrollment_token_consumed"
    ELSE IF row.left = 0 THEN "enrollment_token_expired"
    ELSE "accepted"

MutantIssued(ch) ==
    [challenge EXCEPT ![ch] = [left |-> HandshakeTimeout, consumed |-> FALSE]]

Issued(ch) ==
    [challenge EXCEPT ![ch] = [left |-> ChallengeLife, consumed |-> FALSE]]

MutantConsumedStands(ch) ==
    challenge[ch] # None /\ (challenge[ch].consumed \/ challenge[ch].left > 0)

ChallengeValid(ch) ==
    /\ challenge[ch] # None
    /\ ~challenge[ch].consumed
    /\ challenge[ch].left > 0

ConsumeChallenge(ch, s, purpose) ==
    /\ challenge' = [challenge EXCEPT ![ch] = Consumed(@)]
    /\ uses' = uses \union
                 {[challenge |-> ch, session |-> s, purpose |-> purpose]}

-----------------------------------------------------------------------------
(***************************************************************************)
(* relay.py: the handshake.                                                *)
(***************************************************************************)
Goto(s, st, seconds) ==
    /\ stage' = [stage EXCEPT ![s] = st]
    /\ timer' = [timer EXCEPT ![s] = seconds]

(***************************************************************************)
(* An AgentError, ProtocolError or ValueError: the diagnostic is sent and  *)
(* the WebSocket closed.                                                   *)
(***************************************************************************)
Refuse(s, code, during) ==
    /\ Goto(s, "closed", 0)
    /\ told' = [told EXCEPT ![s] = RelayDiagnostic(code, during)]

Accept(s) ==
    /\ task = None
    /\ stage[s] = "new"
    /\ challenge' = Issued(<<s, "first">>)
    /\ Goto(s, "challenge", HandshakeTimeout)
    /\ UNCHANGED <<token, device, told, task, history, crashes>>

(***************************************************************************)
(* An enroll frame arrives: the first transaction of complete_enrollment   *)
(* consumes the token.                                                     *)
(***************************************************************************)
RefuseToken(s, f) ==
    /\ task = None
    /\ stage[s] = "challenge"
    /\ TokenVerdict(f) # "accepted"
    /\ Refuse(s, TokenVerdict(f), "enrollment")
    /\ UNCHANGED <<tables, task, history, crashes>>

ConsumeToken(s, f) ==
    /\ task = None
    /\ stage[s] = "challenge"
    /\ TokenVerdict(f) = "accepted"
    /\ token' = [token EXCEPT ![f.token] = Consumed(@)]
    /\ spentOn' = [spentOn EXCEPT ![f.token] = s]
    /\ task' = [session |-> s, frame |-> f, next |-> "challenge"]
    /\ Goto(s, "enrollment", 0)
    /\ UNCHANGED <<challenge, device, told, paired, uses, crashes>>

(***************************************************************************)
(* The second transaction consumes the challenge the frame names, whatever *)
(* connection it was issued on; then the signature is checked.             *)
(***************************************************************************)
EnrollmentChallenge ==
    /\ task # None
    /\ task.next = "challenge"
    /\ \/ /\ ~ChallengeValid(task.frame.challenge)
          /\ Refuse(task.session, "invalid_challenge", "enrollment")
          /\ task' = None
          /\ UNCHANGED <<challenge, uses>>
       \/ /\ ChallengeValid(task.frame.challenge)
          /\ ConsumeChallenge(task.frame.challenge, task.session, "enroll")
          /\ \/ /\ task.frame.signed
                /\ task' = [task EXCEPT !.next = "device"]
                /\ UNCHANGED connections
             \/ /\ ~task.frame.signed
                /\ Refuse(task.session, "enrollment_signature_invalid",
                          "enrollment")
                /\ task' = None
    /\ UNCHANGED <<token, device, spentOn, paired, crashes>>

(***************************************************************************)
(* The third inserts the device, if the connector has none.                *)
(***************************************************************************)
Free(c) == device[c] = None

AlreadyEnrolled ==
    /\ task # None
    /\ task.next = "device"
    /\ ~Free(task.frame.connector)
    /\ Refuse(task.session,
              IF device[task.frame.connector].revoked
                THEN "device_revoked" ELSE "device_already_enrolled",
              "enrollment")
    /\ task' = None
    /\ UNCHANGED <<tables, history, crashes>>

(***************************************************************************)
(* issue_enrollment_token takes any profile; capabilities_for_profile      *)
(* looks it up only now, and its KeyError is none of the exceptions        *)
(* handle() catches: the WebSocket ends without a diagnostic.              *)
(***************************************************************************)
ProfileUnknown ==
    /\ task # None
    /\ task.next = "device"
    /\ Free(task.frame.connector)
    /\ token[task.frame.token].profile \notin Supported
    /\ Goto(task.session, "closed", 0)
    /\ task' = None
    /\ UNCHANGED <<tables, told, history, crashes>>

EnrollDevice ==
    /\ task # None
    /\ task.next = "device"
    /\ Free(task.frame.connector)
    /\ token[task.frame.token].profile \in Supported
    /\ device' = [device EXCEPT ![task.frame.connector] =
                     [key |-> task.frame.key, grant |-> task.frame.token,
                      revoked |-> FALSE]]
    /\ paired' = paired \union {task.frame.token}
    /\ task' = None
    /\ UNCHANGED <<token, challenge, connections, spentOn, uses, crashes>>

CompleteEnrollment ==
    EnrollmentChallenge \/ AlreadyEnrolled \/ ProfileUnknown \/ EnrollDevice

(***************************************************************************)
(* The "enrolled" frame is written; the second challenge follows.          *)
(***************************************************************************)
SecondChallenge(s) ==
    /\ task = None
    /\ stage[s] = "enrollment"
    /\ challenge' = Issued(<<s, "second">>)
    /\ Goto(s, "authentication", HandshakeTimeout)
    /\ UNCHANGED <<token, device, told, task, history, crashes>>

(***************************************************************************)
(* An authenticate frame, the first one or the second: it must carry the   *)
(* challenge of this connection.  The challenge is consumed before the     *)
(* device and its signature are looked at.                                 *)
(***************************************************************************)
AuthVerdict(f) ==
    IF device[f.connector] = None THEN "relay_authentication_failed"
    ELSE IF device[f.connector].revoked THEN "device_revoked"
    ELSE IF device[f.connector].key # f.key THEN "relay_authentication_failed"
    ELSE "accepted"

RefuseChallenge(s, f) ==
    /\ task = None
    /\ Waiting(s)
    /\ \/ /\ f.challenge # Offered(s)
          /\ Refuse(s, ProtocolCode("authentication"), "authentication")
       \/ /\ f.challenge = Offered(s)
          /\ ~ChallengeValid(f.challenge)
          /\ Refuse(s, "invalid_challenge", "authentication")
    /\ UNCHANGED <<tables, task, history, crashes>>

Authenticate(s, f) ==
    /\ task = None
    /\ Waiting(s)
    /\ f.challenge = Offered(s)
    /\ ChallengeValid(f.challenge)
    /\ ConsumeChallenge(f.challenge, s, "authenticate")
    /\ \/ /\ AuthVerdict(f) = "accepted"
          /\ Goto(s, "ready", 0)
          /\ UNCHANGED told
       \/ /\ AuthVerdict(f) # "accepted"
          /\ Refuse(s, AuthVerdict(f), "authentication")
    /\ UNCHANGED <<token, device, task, spentOn, paired, crashes>>

(***************************************************************************)
(* A text frame that is too large, no JSON object, has other fields or     *)
(* another version.  The stage follows from its type; a frame that is not  *)
(* understood leaves the stage as it was.                                  *)
(***************************************************************************)
Malformed(s, during) ==
    /\ task = None
    /\ Waiting(s)
    /\ stage[s] = "authentication" => during = "authentication"
    /\ Refuse(s, ProtocolCode(during), during)
    /\ UNCHANGED <<tables, task, history, crashes>>

(***************************************************************************)
(* A binary frame: receive_text has no text to return, and what it raises  *)
(* passes handle()'s except clauses.                                       *)
(***************************************************************************)
UnreadableFrame(s) ==
    /\ task = None
    /\ Waiting(s)
    /\ Goto(s, "closed", 0)
    /\ UNCHANGED <<tables, told, task, history, crashes>>

Expired(s) == Waiting(s) /\ timer[s] = 0

Timeout(s) ==
    /\ task = None
    /\ Expired(s)
    /\ Refuse(s, "relay_challenge_timeout", stage[s])
    /\ UNCHANGED <<tables, task, history, crashes>>

(***************************************************************************)
(* WebSocketDisconnect while a frame is written or awaited.                *)
(***************************************************************************)
Drop(s) ==
    /\ task = None
    /\ Waiting(s) \/ stage[s] = "enrollment"
    /\ Goto(s, "lost", 0)
    /\ UNCHANGED <<tables, told, task, history, crashes>>

-----------------------------------------------------------------------------
(***************************************************************************)
(* The operator, the clock and the process.                                *)
(***************************************************************************)
IssueToken(t, c, profile, life) ==
    /\ task = None
    /\ token[t] = None
    /\ token' = [token EXCEPT ![t] =
                    [connector |-> c, profile |-> profile, left |-> life,
                     consumed |-> FALSE]]
    /\ UNCHANGED <<challenge, device, connections, task, history, crashes>>

RevokedRow(row) == [row EXCEPT !.revoked = TRUE]

RevokeDevice(c) ==
    /\ task = None
    /\ device[c] # None
    /\ device' = [device EXCEPT ![c] = RevokedRow(@)]
    /\ UNCHANGED <<token, challenge, connections, task, history, crashes>>

DeleteRevokedDevice(c) ==
    /\ task = None
    /\ device[c] # None
    /\ device[c].revoked
    /\ device' = [device EXCEPT ![c] = None]
    /\ UNCHANGED <<token, challenge, connections, task, history, crashes>>

MutantLess(n) == n - 1

Less(n) == IF n = 0 THEN 0 ELSE n - 1

Aged(row) == IF row = None THEN None ELSE [row EXCEPT !.left = Less(@)]

(***************************************************************************)
(* A second passes.  The timers of wait_for fire within their second.      *)
(***************************************************************************)
Tick ==
    /\ task = None
    /\ \A s \in Session : Waiting(s) => timer[s] > 0
    /\ token' = [t \in Token |-> Aged(token[t])]
    /\ challenge' = [ch \in Challenge |-> Aged(challenge[ch])]
    /\ timer' = [s \in Session |-> Less(timer[s])]
    /\ UNCHANGED <<device, stage, told, task, history, crashes>>

Crash ==
    /\ crashes < MaxCrashes
    /\ crashes' = crashes + 1
    /\ task' = None
    /\ stage' = [s \in Session |->
                   IF stage[s] \in {"challenge", "enrollment",
                                    "authentication", "ready"}
                     THEN "lost" ELSE stage[s]]
    /\ timer' = [s \in Session |-> 0]
    /\ UNCHANGED <<tables, told, history>>

HandshakeStep(s) ==
    \/ Accept(s)
    \/ SecondChallenge(s)
    \/ Timeout(s)
    \/ Drop(s)
    \/ \E f \in EnrollFrame : RefuseToken(s, f) \/ ConsumeToken(s, f)
    \/ \E f \in AuthFrame : RefuseChallenge(s, f) \/ Authenticate(s, f)
    \/ \E during \in {"challenge", "enrollment", "authentication"} :
           Malformed(s, during)
    \/ UnreadableFrame(s)

OperatorStep ==
    \/ \E t \in Token, c \in Connector, p \in Profile, life \in TokenLife :
           IssueToken(t, c, p, life)
    \/ \E c \in Connector : RevokeDevice(c) \/ DeleteRevokedDevice(c)

Next ==
    \/ \E s \in Session : HandshakeStep(s)
    \/ CompleteEnrollment
    \/ OperatorStep
    \/ Tick
    \/ Crash

Spec == Init /\ [][Next]_vars

-----------------------------------------------------------------------------
(***************************************************************************)
(* Three transactions and a crash between any two of them are one step of  *)
(* Pairing: a consumed token counts as open while its attempt is running,  *)
(* so a token pairs one device, once, also after the device was deleted.   *)
(***************************************************************************)
Attempted(t) == task # None /\ task.frame.token = t

TokenStatus ==
    [t \in Token |->
        IF token[t] = None THEN "unissued"
        ELSE IF ~token[t].consumed \/ Attempted(t) THEN "open"
        ELSE IF t \in paired THEN "paired"
        ELSE "void"]

IssuedFor ==
    [t \in Token |-> IF token[t] = None THEN None ELSE token[t].connector]

P == INSTANCE Pairing WITH status <- TokenStatus, issuedFor <- IssuedFor,
                           device <- device

ImplementsPairing == P!Spec

(***************************************************************************)
(* complete_enrollment consumes the token before it has looked at          *)
(* challenge, signature and device.  If the token was spent for nothing,   *)
(* the client was told an error that is not retryable and does not blame   *)
(* the token, unless the process died or the operator's profile is none:   *)
(* no client is invited to retry with a token that is gone.                *)
(***************************************************************************)
Wasted(t) ==
    token[t] # None /\ token[t].consumed /\ t \notin paired /\ ~Attempted(t)

WastedTokenExplained ==
    \A t \in Token :
        Wasted(t) =>
            \/ stage[spentOn[t]] = "lost"
            \/ token[t].profile \notin Supported
            \/ /\ told[spentOn[t]] # None
               /\ ~told[spentOn[t]].retryable
               /\ told[spentOn[t]].code \notin TokenError

(***************************************************************************)
(* A challenge is consumed once, by one connection for one purpose, across *)
(* reconnections and restarts; and a connection authenticates with a       *)
(* challenge of its own only.                                              *)
(***************************************************************************)
ChallengeAnsweredOnce ==
    /\ \A u, v \in uses : u.challenge = v.challenge => u = v
    /\ \A u \in uses :
           u.purpose = "authenticate" => u.challenge[1] = u.session

(***************************************************************************)
(* While handle() waits for an answer the challenge it sent has not        *)
(* expired, though another connection may have consumed it: a client       *)
(* inside the handshake window is never refused for being late.            *)
(***************************************************************************)
OfferedChallengeIsFresh ==
    \A s \in Session :
        Waiting(s) => /\ challenge[Offered(s)] # None
                      /\ \/ challenge[Offered(s)].left > 0
                         \/ challenge[Offered(s)].consumed

(***************************************************************************)
(* A device row that routes commands carries what the operator granted to  *)
(* that connector: its token was issued for it, is spent, and names a      *)
(* profile with capabilities.                                              *)
(***************************************************************************)
GrantedAsIssued ==
    \A c \in Connector :
        device[c] # None =>
            LET row == token[device[c].grant] IN
            /\ row # None
            /\ row.connector = c
            /\ row.consumed
            /\ row.profile \in Supported

(***************************************************************************)
(* README: "A client that reaches the Python relay receives a fixed        *)
(* diagnostic".  Where it matters most: the server that ends a connection  *)
(* on which it has spent a token for nothing said why.                     *)
(***************************************************************************)
RefusalIsTold ==
    \A t \in Token :
        Wasted(t) /\ stage[spentOn[t]] = "closed" => told[spentOn[t]] # None
=============================================================================
