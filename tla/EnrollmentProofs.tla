-------------------------- MODULE EnrollmentProofs --------------------------
(***************************************************************************)
(* Theorems about Enrollment, for any connections, tokens, connectors,     *)
(* keys and lives, and any number of deaths of the process.                *)
(*                                                                         *)
(* First what the statements of store.py do to a row, then types, then     *)
(* the pairing and its refinement, then challenges.                        *)
(***************************************************************************)
EXTENDS Enrollment, TLAPS

(***************************************************************************)
(* Every diagnostic is one of the closed set.                              *)
(***************************************************************************)
LEMMA DiagnosticIsKnown ==
    ASSUME NEW code,
           NEW during \in {"challenge", "enrollment", "authentication"}
    PROVE  RelayDiagnostic(code, during) \in Diagnostic
<1>1. Canonical(code, during) \in RelayErrorCode
  <2>1. Known(code, during) \in RelayErrorCode
    BY DEF Known, RelayErrorCode
  <2>2. QED
    BY <2>1 DEF Canonical, RelayErrorCode
<1>2. \A c \in RelayErrorCode : StageTold(c, during) \in
          {"tls", "upgrade", "challenge", "enrollment", "authentication",
           "ready", "session"}
  BY DEF StageTold, HomeStage, RelayErrorCode, TokenError
<1>3. QED
  BY <1>1, <1>2 DEF RelayDiagnostic, Diagnostic

(***************************************************************************)
(* Consuming keeps a token's grant.                                        *)
(***************************************************************************)
LEMMA ConsumedToken ==
    ASSUME NEW r \in TokenRow
    PROVE  /\ Consumed(r) \in TokenRow
           /\ Consumed(r).consumed
           /\ Consumed(r).connector = r.connector
           /\ Consumed(r).profile = r.profile
BY DEF Consumed, TokenRow

(***************************************************************************)
(* Consuming a challenge marks it.                                         *)
(***************************************************************************)
LEMMA ConsumedChallenge ==
    ASSUME NEW r \in ChallengeRow
    PROVE  Consumed(r) \in ChallengeRow /\ Consumed(r).consumed
<1>1. 0 \in 0..ChallengeLife
  BY EnrollmentAssumption
<1>2. QED
  BY <1>1 DEF Consumed, ChallengeRow

(***************************************************************************)
(* A second takes nothing from a token but its time.                       *)
(***************************************************************************)
LEMMA AgedToken ==
    ASSUME NEW r \in TokenRow \union {None}
    PROVE  /\ Aged(r) \in TokenRow \union {None}
           /\ Aged(r) = None <=> r = None
           /\ r # None => /\ Aged(r).consumed = r.consumed
                          /\ Aged(r).connector = r.connector
                          /\ Aged(r).profile = r.profile
<1>1. CASE r = None
  BY <1>1 DEF Aged
<1>2. CASE r \in TokenRow
  <2>1. r.left \in Nat
    BY <1>2 DEF TokenRow
  <2>2. Less(r.left) \in Nat
    BY <2>1 DEF Less
  <2>3. r # None /\ Aged(r) = [r EXCEPT !.left = Less(r.left)]
    BY <1>2, NoRecord DEF Aged
  <2>4. Aged(r) \in TokenRow /\ Aged(r).consumed = r.consumed
        /\ Aged(r).connector = r.connector /\ Aged(r).profile = r.profile
    BY <1>2, <2>2, <2>3 DEF TokenRow
  <2>5. QED
    BY <2>3, <2>4, NoRecord
<1>3. QED
  BY <1>1, <1>2

(***************************************************************************)
(* Nor from a challenge.                                                   *)
(***************************************************************************)
LEMMA AgedChallenge ==
    ASSUME NEW r \in ChallengeRow \union {None}
    PROVE  /\ Aged(r) \in ChallengeRow \union {None}
           /\ Aged(r) = None <=> r = None
           /\ r # None => Aged(r).consumed = r.consumed
<1>1. CASE r = None
  BY <1>1 DEF Aged
<1>2. CASE r \in ChallengeRow
  <2>1. r.left \in 0..ChallengeLife
    BY <1>2 DEF ChallengeRow
  <2>2. Less(r.left) \in 0..ChallengeLife
    BY <2>1, EnrollmentAssumption DEF Less
  <2>3. r # None /\ Aged(r) = [r EXCEPT !.left = Less(r.left)]
    BY <1>2, NoRecord DEF Aged
  <2>4. Aged(r) \in ChallengeRow /\ Aged(r).consumed = r.consumed
    BY <1>2, <2>2, <2>3 DEF ChallengeRow
  <2>5. QED
    BY <2>3, <2>4, NoRecord
<1>3. QED
  BY <1>1, <1>2

(***************************************************************************)
(* A revoked row keeps its key and its grant.                              *)
(***************************************************************************)
LEMMA RevokedKeepsGrant ==
    ASSUME NEW r \in DeviceRow
    PROVE  /\ RevokedRow(r) \in DeviceRow
           /\ RevokedRow(r).grant = r.grant
BY DEF RevokedRow, DeviceRow
-----------------------------------------------------------------------------
(***************************************************************************)
(* Types of the connections and of what they are told.                     *)
(***************************************************************************)
ConnectionsOK ==
    /\ stage \in [Session -> Stage]
    /\ timer \in [Session -> 0..HandshakeTimeout]
    /\ told \in [Session -> Diagnostic \union {None}]

(***************************************************************************)
(* A refusal leaves well-typed connections.                                *)
(***************************************************************************)
LEMMA RefuseOK ==
    ASSUME ConnectionsOK, NEW s \in Session, NEW code,
           NEW during \in {"challenge", "enrollment", "authentication"},
           Refuse(s, code, during)
    PROVE  ConnectionsOK'
<1>1. 0 \in 0..HandshakeTimeout
  BY EnrollmentAssumption
<1>2. RelayDiagnostic(code, during) \in Diagnostic
  BY DiagnosticIsKnown
<1>3. QED
  BY <1>1, <1>2 DEF Refuse, Goto, ConnectionsOK, Stage

(***************************************************************************)
(* So does a move to another stage with a timer of its own or none.        *)
(***************************************************************************)
LEMMA GotoOK ==
    ASSUME ConnectionsOK, NEW s \in Session, NEW st \in Stage,
           NEW n \in {0, HandshakeTimeout}, Goto(s, st, n), UNCHANGED told
    PROVE  ConnectionsOK'
<1>1. n \in 0..HandshakeTimeout
  BY EnrollmentAssumption
<1>2. QED
  BY <1>1 DEF Goto, ConnectionsOK

(***************************************************************************)
(* Every step keeps the connections well typed.                            *)
(***************************************************************************)
LEMMA ConnectionsStep ==
    ASSUME EnrollmentTypeOK, [Next]_vars
    PROVE  ConnectionsOK'
<1>1. ConnectionsOK
  BY DEF EnrollmentTypeOK, ConnectionsOK
<1>2. ASSUME NEW s \in Session, HandshakeStep(s)
      PROVE  ConnectionsOK'
  <2>1. CASE Accept(s)
    BY <1>1, <2>1, GotoOK DEF Accept, Stage
  <2>2. CASE SecondChallenge(s)
    BY <1>1, <2>2, GotoOK DEF SecondChallenge, Stage
  <2>3. CASE Timeout(s)
    <3>1. stage[s] \in {"challenge", "enrollment", "authentication"}
      BY <2>3 DEF Timeout, Expired, Waiting
    <3>2. QED
      BY <1>1, <2>3, <3>1, RefuseOK DEF Timeout
  <2>4. CASE Drop(s)
    BY <1>1, <2>4, GotoOK DEF Drop, Stage
  <2>5. ASSUME NEW f \in EnrollFrame, RefuseToken(s, f) \/ ConsumeToken(s, f)
        PROVE  ConnectionsOK'
    BY <1>1, <2>5, RefuseOK, GotoOK DEF RefuseToken, ConsumeToken, Stage
  <2>6. ASSUME NEW f \in AuthFrame, RefuseChallenge(s, f) \/ Authenticate(s, f)
        PROVE  ConnectionsOK'
    BY <1>1, <2>6, RefuseOK, GotoOK DEF RefuseChallenge, Authenticate, Stage
  <2>7. ASSUME NEW during \in {"challenge", "enrollment", "authentication"},
               Malformed(s, during)
        PROVE  ConnectionsOK'
    BY <1>1, <2>7, RefuseOK DEF Malformed
  <2>8. CASE UnreadableFrame(s)
    BY <1>1, <2>8, GotoOK DEF UnreadableFrame, Stage
  <2>9. QED
    BY <1>2, <2>1, <2>2, <2>3, <2>4, <2>5, <2>6, <2>7, <2>8 DEF HandshakeStep
<1>3. CASE CompleteEnrollment
  <2>1. task # None => task.session \in Session
    BY DEF EnrollmentTypeOK, Attempt
  <2>2. CASE EnrollmentChallenge
    <3>1. UNCHANGED connections
          \/ (\E code : Refuse(task.session, code, "enrollment"))
      BY <2>2 DEF EnrollmentChallenge
    <3>2. UNCHANGED connections => ConnectionsOK'
      BY <1>1 DEF connections, ConnectionsOK
    <3>3. QED
      BY <1>1, <2>1, <2>2, <3>1, <3>2, RefuseOK DEF EnrollmentChallenge
  <2>3. CASE AlreadyEnrolled
    BY <1>1, <2>1, <2>3, RefuseOK DEF AlreadyEnrolled
  <2>4. CASE ProfileUnknown
    BY <1>1, <2>1, <2>4, GotoOK DEF ProfileUnknown, Stage
  <2>5. CASE EnrollDevice
    BY <1>1, <2>5 DEF EnrollDevice, connections, ConnectionsOK
  <2>6. QED
    BY <1>3, <2>2, <2>3, <2>4, <2>5 DEF CompleteEnrollment
<1>4. CASE OperatorStep
  BY <1>1, <1>4 DEF OperatorStep, IssueToken, RevokeDevice,
                    DeleteRevokedDevice, connections, ConnectionsOK
<1>5. CASE Tick
  <2>1. \A n \in 0..HandshakeTimeout : Less(n) \in 0..HandshakeTimeout
    BY EnrollmentAssumption DEF Less
  <2>2. QED
    BY <1>1, <1>5, <2>1 DEF Tick, ConnectionsOK
<1>6. CASE Crash
  <2>1. 0 \in 0..HandshakeTimeout
    BY EnrollmentAssumption
  <2>2. QED
    BY <1>1, <1>6, <2>1 DEF Crash, ConnectionsOK, Stage
<1>7. CASE UNCHANGED vars
  BY <1>1, <1>7 DEF vars, connections, ConnectionsOK
<1>8. QED
  BY <1>2, <1>3, <1>4, <1>5, <1>6, <1>7 DEF Next

-----------------------------------------------------------------------------
(***************************************************************************)
(* Types of the tables, of the attempt and of the histories.               *)
(***************************************************************************)
TablesOK ==
    /\ token \in [Token -> TokenRow \union {None}]
    /\ challenge \in [Challenge -> ChallengeRow \union {None}]
    /\ device \in [Connector -> DeviceRow \union {None}]
    /\ task \in Attempt \union {None}

HistoryOK ==
    /\ spentOn \in [Token -> Session \union {None}]
    /\ paired \subseteq Token
    /\ uses \subseteq [challenge : Challenge, session : Session,
                       purpose : {"enroll", "authenticate"}]
    /\ crashes \in 0..MaxCrashes

(***************************************************************************)
(* A new challenge is well typed, and so is a consumed one.                *)
(***************************************************************************)
LEMMA ChallengesOK ==
    ASSUME TablesOK, NEW ch \in Challenge
    PROVE  /\ Issued(ch) \in [Challenge -> ChallengeRow \union {None}]
           /\ challenge[ch] # None =>
                  [challenge EXCEPT ![ch] = Consumed(@)]
                      \in [Challenge -> ChallengeRow \union {None}]
<1>1. [left |-> ChallengeLife, consumed |-> FALSE] \in ChallengeRow
  BY EnrollmentAssumption DEF ChallengeRow
<1>2. challenge[ch] # None => Consumed(challenge[ch]) \in ChallengeRow
  BY ConsumedChallenge DEF TablesOK
<1>3. QED
  BY <1>1, <1>2 DEF Issued, TablesOK

(***************************************************************************)
(* Every step keeps the tables and the attempt well typed.                 *)
(***************************************************************************)
LEMMA TablesStep ==
    ASSUME EnrollmentTypeOK, [Next]_vars
    PROVE  TablesOK'
<1>1. TablesOK
  BY DEF EnrollmentTypeOK, TablesOK
<1>2. ASSUME NEW s \in Session, HandshakeStep(s)
      PROVE  TablesOK'
  <2>1. <<s, "first">> \in Challenge /\ <<s, "second">> \in Challenge
    BY DEF Challenge
  <2>2. CASE Accept(s)
    BY <1>1, <2>1, <2>2, ChallengesOK DEF Accept, TablesOK
  <2>3. CASE SecondChallenge(s)
    BY <1>1, <2>1, <2>3, ChallengesOK DEF SecondChallenge, TablesOK
  <2>4. ASSUME NEW f \in EnrollFrame, ConsumeToken(s, f)
        PROVE  TablesOK'
    <3>1. token[f.token] \in TokenRow /\ f.token \in Token
      BY <1>1, <2>4 DEF ConsumeToken, TokenVerdict, TablesOK, EnrollFrame
    <3>2. Consumed(token[f.token]) \in TokenRow
      BY <3>1, ConsumedToken
    <3>3. [session |-> s, frame |-> f, next |-> "challenge"] \in Attempt
      BY DEF Attempt
    <3>4. QED
      BY <1>1, <2>4, <3>1, <3>2, <3>3 DEF ConsumeToken, TablesOK
  <2>5. ASSUME NEW f \in AuthFrame, Authenticate(s, f)
        PROVE  TablesOK'
    <3>1. f.challenge \in Challenge /\ challenge[f.challenge] # None
      BY <2>5 DEF Authenticate, AuthFrame, ChallengeValid
    <3>2. QED
      BY <1>1, <2>5, <3>1, ChallengesOK
         DEF Authenticate, ConsumeChallenge, TablesOK
  <2>6. UNCHANGED <<tables, task>> => TablesOK'
    BY <1>1 DEF tables, TablesOK
  <2>7. QED
    BY <1>2, <2>2, <2>3, <2>4, <2>5, <2>6
       DEF HandshakeStep, Timeout, Drop, RefuseToken, RefuseChallenge,
           Malformed, UnreadableFrame
<1>3. CASE CompleteEnrollment
  <2>1. CASE EnrollmentChallenge
    <3>1. task \in Attempt /\ task.frame.challenge \in Challenge
      BY <1>1, <2>1 DEF EnrollmentChallenge, TablesOK, Attempt, EnrollFrame
    <3>2. challenge' \in [Challenge -> ChallengeRow \union {None}]
      BY <1>1, <2>1, <3>1, ChallengesOK
         DEF EnrollmentChallenge, ConsumeChallenge, ChallengeValid, TablesOK
    <3>3. [task EXCEPT !.next = "device"] \in Attempt
      BY <3>1 DEF Attempt
    <3>4. task' \in Attempt \union {None}
      BY <2>1, <3>3 DEF EnrollmentChallenge
    <3>5. UNCHANGED <<token, device>>
      BY <2>1 DEF EnrollmentChallenge
    <3>6. QED
      BY <1>1, <3>2, <3>4, <3>5 DEF TablesOK
  <2>2. CASE AlreadyEnrolled \/ ProfileUnknown
    BY <1>1, <2>2 DEF AlreadyEnrolled, ProfileUnknown, tables, TablesOK
  <2>3. CASE EnrollDevice
    <3>1. task \in Attempt /\ task.frame.connector \in Connector
          /\ task.frame.key \in PublicKey /\ task.frame.token \in Token
      BY <1>1, <2>3 DEF EnrollDevice, TablesOK, Attempt, EnrollFrame
    <3>2. [key |-> task.frame.key, grant |-> task.frame.token,
           revoked |-> FALSE] \in DeviceRow
      BY <3>1 DEF DeviceRow
    <3>3. QED
      BY <1>1, <2>3, <3>1, <3>2 DEF EnrollDevice, TablesOK
  <2>4. QED
    BY <1>3, <2>1, <2>2, <2>3 DEF CompleteEnrollment
<1>4. CASE OperatorStep
  <2>1. ASSUME NEW t \in Token, NEW c \in Connector, NEW p \in Profile,
               NEW life \in TokenLife, IssueToken(t, c, p, life)
        PROVE  TablesOK'
    <3>1. [connector |-> c, profile |-> p, left |-> life,
           consumed |-> FALSE] \in TokenRow
      BY EnrollmentAssumption DEF TokenRow
    <3>2. QED
      BY <1>1, <2>1, <3>1 DEF IssueToken, TablesOK
  <2>2. ASSUME NEW c \in Connector, RevokeDevice(c)
        PROVE  TablesOK'
    <3>1. RevokedRow(device[c]) \in DeviceRow
      BY <1>1, <2>2, RevokedKeepsGrant DEF RevokeDevice, TablesOK
    <3>2. QED
      BY <1>1, <2>2, <3>1 DEF RevokeDevice, TablesOK
  <2>3. ASSUME NEW c \in Connector, DeleteRevokedDevice(c)
        PROVE  TablesOK'
    BY <1>1, <2>3 DEF DeleteRevokedDevice, TablesOK
  <2>4. QED
    BY <1>4, <2>1, <2>2, <2>3 DEF OperatorStep
<1>5. CASE Tick
  <2>1. \A t \in Token : Aged(token[t]) \in TokenRow \union {None}
    BY <1>1, AgedToken DEF TablesOK
  <2>2. \A ch \in Challenge :
            Aged(challenge[ch]) \in ChallengeRow \union {None}
    BY <1>1, AgedChallenge DEF TablesOK
  <2>3. QED
    BY <1>1, <1>5, <2>1, <2>2 DEF Tick, TablesOK
<1>6. CASE Crash
  BY <1>1, <1>6 DEF Crash, tables, TablesOK
<1>7. CASE UNCHANGED vars
  BY <1>1, <1>7 DEF vars, tables, TablesOK
<1>8. QED
  BY <1>2, <1>3, <1>4, <1>5, <1>6, <1>7 DEF Next

(***************************************************************************)
(* Every step keeps the histories well typed.                              *)
(***************************************************************************)
LEMMA HistoryStep ==
    ASSUME EnrollmentTypeOK, [Next]_vars
    PROVE  HistoryOK'
<1>1. HistoryOK /\ TablesOK
  BY DEF EnrollmentTypeOK, HistoryOK, TablesOK
<1>2. UNCHANGED <<history, crashes>> => HistoryOK'
  BY <1>1 DEF history, HistoryOK
<1>3. ASSUME NEW s \in Session, HandshakeStep(s)
      PROVE  HistoryOK'
  <2>1. ASSUME NEW f \in EnrollFrame, ConsumeToken(s, f)
        PROVE  HistoryOK'
    BY <1>1, <2>1 DEF ConsumeToken, HistoryOK, EnrollFrame
  <2>2. ASSUME NEW f \in AuthFrame, Authenticate(s, f)
        PROVE  HistoryOK'
    BY <1>1, <2>2 DEF Authenticate, ConsumeChallenge, HistoryOK, AuthFrame
  <2>3. QED
    BY <1>2, <1>3, <2>1, <2>2
       DEF HandshakeStep, Accept, SecondChallenge, Timeout, Drop, RefuseToken,
           RefuseChallenge, Malformed, UnreadableFrame
<1>4. CASE CompleteEnrollment
  <2>1. task # None => /\ task.session \in Session
                       /\ task.frame.challenge \in Challenge
                       /\ task.frame.token \in Token
    BY <1>1 DEF TablesOK, Attempt, EnrollFrame
  <2>2. CASE EnrollmentChallenge
    BY <1>1, <2>1, <2>2
       DEF EnrollmentChallenge, ConsumeChallenge, HistoryOK
  <2>3. CASE EnrollDevice
    BY <1>1, <2>1, <2>3 DEF EnrollDevice, HistoryOK
  <2>4. QED
    BY <1>2, <1>4, <2>2, <2>3
       DEF CompleteEnrollment, AlreadyEnrolled, ProfileUnknown
<1>5. CASE Crash
  BY <1>1, <1>5, EnrollmentAssumption DEF Crash, history, HistoryOK
<1>6. QED
  BY <1>2, <1>3, <1>4, <1>5
     DEF Next, vars, Tick, OperatorStep, IssueToken, RevokeDevice,
         DeleteRevokedDevice

(***************************************************************************)
(* Type correctness of the enrollment.                                     *)
(***************************************************************************)
THEOREM EnrollmentTypeCorrect == Spec => []EnrollmentTypeOK
<1>1. Init => EnrollmentTypeOK
  BY EnrollmentAssumption DEF Init, EnrollmentTypeOK, Stage
<1>2. EnrollmentTypeOK /\ [Next]_vars => EnrollmentTypeOK'
  BY ConnectionsStep, TablesStep, HistoryStep
     DEF EnrollmentTypeOK, ConnectionsOK, TablesOK, HistoryOK
<1>3. QED
  BY <1>1, <1>2, PTL DEF Spec
-----------------------------------------------------------------------------
(***************************************************************************)
(* What pairing rests on: a token that paired is consumed, and the running *)
(* attempt holds a consumed token of its connector that has not paired.    *)
(***************************************************************************)
PairedInv == \A t \in paired : token[t] # None /\ token[t].consumed

AttemptInv ==
    task # None =>
        LET t == task.frame.token IN
        /\ token[t] # None
        /\ token[t].consumed
        /\ token[t].connector = task.frame.connector
        /\ t \notin paired

PairInv == GrantedAsIssued /\ PairedInv /\ AttemptInv

(***************************************************************************)
(* The steps that touch neither tokens nor devices, and leave the attempt  *)
(* alone, end it, or move it on with the frame it has.                     *)
(***************************************************************************)
Quiet ==
    /\ UNCHANGED <<token, device, paired, spentOn>>
    /\ \/ UNCHANGED task
       \/ task # None /\ task' = None
       \/ /\ task # None
          /\ task' # None
          /\ task'.frame = task.frame

(***************************************************************************)
(* Every step is quiet or one of the six that write tokens or devices.     *)
(***************************************************************************)
LEMMA StepCases ==
    ASSUME EnrollmentTypeOK, [Next]_vars
    PROVE  \/ Quiet
           \/ \E s \in Session, f \in EnrollFrame : ConsumeToken(s, f)
           \/ EnrollDevice
           \/ OperatorStep
           \/ Tick
<1>1. EnrollmentChallenge => Quiet
  <2> SUFFICES ASSUME EnrollmentChallenge
               PROVE  Quiet
    OBVIOUS
  <2>1. task \in Attempt
    BY DEF EnrollmentChallenge, EnrollmentTypeOK
  <2>2. [task EXCEPT !.next = "device"] \in Attempt
        /\ [task EXCEPT !.next = "device"].frame = task.frame
    BY <2>1 DEF Attempt
  <2>3. QED
    BY <2>1, <2>2, NoRecord DEF EnrollmentChallenge, Quiet
<1>2. AlreadyEnrolled \/ ProfileUnknown => Quiet
  BY DEF AlreadyEnrolled, ProfileUnknown, tables, history, Quiet
<1>3. Crash => Quiet
  BY DEF Crash, tables, history, Quiet
<1>4. UNCHANGED vars => Quiet
  BY DEF vars, tables, history, Quiet
<1>5. ASSUME NEW s \in Session, HandshakeStep(s)
      PROVE  Quiet \/ \E f \in EnrollFrame : ConsumeToken(s, f)
  BY <1>5 DEF HandshakeStep, Accept, SecondChallenge, Timeout, Drop,
              RefuseToken, RefuseChallenge, Authenticate, Malformed,
              UnreadableFrame, tables, history, Quiet
<1>6. QED
  BY <1>1, <1>2, <1>3, <1>4, <1>5 DEF Next, CompleteEnrollment

(***************************************************************************)
(* Every step preserves what pairing rests on.                             *)
(***************************************************************************)
LEMMA PairStep ==
    ASSUME EnrollmentTypeOK, PairInv, [Next]_vars
    PROVE  PairInv'
<1>1. TablesOK /\ paired \subseteq Token
  BY DEF EnrollmentTypeOK, TablesOK
<1> USE DEF PairInv
<1>2. CASE Quiet
  BY <1>2 DEF Quiet, GrantedAsIssued, PairedInv, AttemptInv
<1>3. ASSUME NEW s \in Session, NEW f \in EnrollFrame, ConsumeToken(s, f)
      PROVE  PairInv'
  <2>1. f.token \in Token /\ token[f.token] \in TokenRow
        /\ ~token[f.token].consumed
        /\ token[f.token].connector = f.connector
    BY <1>1, <1>3
       DEF ConsumeToken, TokenVerdict, TablesOK, EnrollFrame
  <2>2. token' = [token EXCEPT ![f.token] = Consumed(token[f.token])]
        /\ UNCHANGED <<device, paired>>
        /\ task' = [session |-> s, frame |-> f, next |-> "challenge"]
    BY <1>3 DEF ConsumeToken
  <2>3. token'[f.token] # None /\ token'[f.token].consumed
        /\ token'[f.token].connector = f.connector
        /\ token'[f.token].profile = token[f.token].profile
    BY <1>1, <2>1, <2>2, ConsumedToken, NoRecord DEF TablesOK
  <2>4. \A t \in Token : t # f.token => token'[t] = token[t]
    BY <1>1, <2>2 DEF TablesOK
  <2>5. f.token \notin paired
    BY <2>1 DEF PairedInv
  <2>6. GrantedAsIssued'
    <3> SUFFICES ASSUME NEW c \in Connector, device[c] # None
                 PROVE  /\ token'[device[c].grant] # None
                        /\ token'[device[c].grant].connector = c
                        /\ token'[device[c].grant].consumed
                        /\ token'[device[c].grant].profile \in Supported
      BY <2>2 DEF GrantedAsIssued
    <3>1. device[c].grant \in Token /\ device[c].grant # f.token
      BY <1>1, <2>1 DEF TablesOK, DeviceRow, GrantedAsIssued
    <3>2. QED
      BY <2>4, <3>1 DEF GrantedAsIssued
  <2>7. PairedInv'
    BY <1>1, <2>2, <2>4, <2>5 DEF PairedInv
  <2>8. AttemptInv'
    BY <2>2, <2>3, <2>5 DEF AttemptInv
  <2>9. QED
    BY <2>6, <2>7, <2>8
<1>4. CASE EnrollDevice
  <2> DEFINE c == task.frame.connector
             t == task.frame.token
             new == [key |-> task.frame.key, grant |-> t, revoked |-> FALSE]
  <2>1. device' = [device EXCEPT ![c] = new] /\ paired' = paired \union {t}
        /\ task' = None /\ UNCHANGED token
    BY <1>4 DEF EnrollDevice
  <2>2. token[t] # None /\ token[t].consumed /\ token[t].connector = c
        /\ token[t].profile \in Supported
    BY <1>4 DEF EnrollDevice, AttemptInv
  <2>3. new.grant = t
    OBVIOUS
  <2>4. ASSUME NEW x \in Connector, device'[x] # None
        PROVE  /\ token[device'[x].grant] # None
               /\ token[device'[x].grant].connector = x
               /\ token[device'[x].grant].consumed
               /\ token[device'[x].grant].profile \in Supported
    <3>1. CASE x = c
      BY <1>1, <2>1, <2>2, <2>3, <3>1 DEF TablesOK
    <3>2. CASE x # c
      BY <1>1, <2>1, <2>4, <3>2 DEF TablesOK, GrantedAsIssued
    <3>3. QED
      BY <3>1, <3>2
  <2>5. QED
    BY <2>1, <2>2, <2>4 DEF GrantedAsIssued, PairedInv, AttemptInv
<1>5. ASSUME NEW t \in Token, NEW c \in Connector, NEW p \in Profile,
             NEW life \in TokenLife, IssueToken(t, c, p, life)
      PROVE  PairInv'
  <2>1. token[t] = None /\ task = None
        /\ \A x \in Token : x # t => token'[x] = token[x]
    BY <1>1, <1>5 DEF IssueToken, TablesOK
  <2>2. UNCHANGED <<device, paired, task>>
    BY <1>5 DEF IssueToken, history
  <2>3. \A x \in Connector : device[x] # None =>
            device[x].grant \in Token /\ device[x].grant # t
    BY <1>1, <2>1 DEF TablesOK, DeviceRow, GrantedAsIssued
  <2>4. t \notin paired
    BY <2>1 DEF PairedInv
  <2>5. QED
    BY <1>1, <2>1, <2>2, <2>3, <2>4
       DEF GrantedAsIssued, PairedInv, AttemptInv
<1>6. ASSUME NEW c \in Connector, RevokeDevice(c) \/ DeleteRevokedDevice(c)
      PROVE  PairInv'
  <2>1. UNCHANGED <<token, paired, task>>
    BY <1>6 DEF RevokeDevice, DeleteRevokedDevice, history
  <2>2. \A x \in Connector : device'[x] # None =>
            device[x] # None /\ device'[x].grant = device[x].grant
    BY <1>1, <1>6, RevokedKeepsGrant
       DEF RevokeDevice, DeleteRevokedDevice, TablesOK
  <2>3. QED
    BY <2>1, <2>2 DEF GrantedAsIssued, PairedInv, AttemptInv
<1>7. CASE Tick
  <2>1. UNCHANGED <<device, paired, task>> /\ task = None
    BY <1>7 DEF Tick, history
  <2>2. \A t \in Token : token'[t] = Aged(token[t])
    BY <1>7 DEF Tick
  <2>3. \A t \in Token : token[t] # None =>
            /\ token'[t] # None
            /\ token'[t].consumed = token[t].consumed
            /\ token'[t].connector = token[t].connector
            /\ token'[t].profile = token[t].profile
    BY <1>1, <2>2, AgedToken DEF TablesOK
  <2>4. \A x \in Connector : device[x] # None => device[x].grant \in Token
    BY <1>1 DEF TablesOK, DeviceRow
  <2>5. QED
    BY <1>1, <2>1, <2>3, <2>4 DEF GrantedAsIssued, PairedInv, AttemptInv
<1>8. QED
  BY <1>2, <1>3, <1>4, <1>5, <1>6, <1>7, StepCases DEF OperatorStep

(***************************************************************************)
(* It holds in every reachable state.                                      *)
(***************************************************************************)
LEMMA PairInvariant == Spec => [](EnrollmentTypeOK /\ PairInv)
<1>1. Init => PairInv
  BY DEF Init, PairInv, GrantedAsIssued, PairedInv, AttemptInv
<1>2. EnrollmentTypeOK /\ PairInv /\ [Next]_vars => PairInv'
  BY PairStep
<1>3. QED
  BY <1>1, <1>2, EnrollmentTypeCorrect, PTL DEF Spec

(***************************************************************************)
(* A device row carries what the operator granted to its connector.        *)
(***************************************************************************)
THEOREM GrantsStand == Spec => []GrantedAsIssued
<1>1. PairInv => GrantedAsIssued
  BY DEF PairInv
<1>2. QED
  BY <1>1, PairInvariant, PTL
-----------------------------------------------------------------------------
(***************************************************************************)
(* If the standing of one token changes, the whole is changed at it.       *)
(***************************************************************************)
LEMMA StandingChanges ==
    ASSUME NEW t \in Token, NEW v, TokenStatus'[t] = v,
           \A x \in Token : x # t => TokenStatus'[x] = TokenStatus[x]
    PROVE  TokenStatus' = [TokenStatus EXCEPT ![t] = v]
<1> DEFINE old == TokenStatus
           new == TokenStatus'
<1>1. old = [x \in Token |-> old[x]] /\ new = [x \in Token |-> new[x]]
  BY DEF TokenStatus
<1>2. \A x \in Token : new[x] = IF x = t THEN v ELSE old[x]
  OBVIOUS
<1> HIDE DEF old, new
<1>3. new = [old EXCEPT ![t] = v]
  BY <1>1, <1>2
<1>4. QED
  BY <1>3 DEF old, new

(***************************************************************************)
(* If none does, nothing changes.                                          *)
(***************************************************************************)
LEMMA StandingStays ==
    ASSUME \A x \in Token : TokenStatus'[x] = TokenStatus[x]
    PROVE  UNCHANGED TokenStatus
<1> DEFINE old == TokenStatus
           new == TokenStatus'
<1>1. old = [x \in Token |-> old[x]] /\ new = [x \in Token |-> new[x]]
  BY DEF TokenStatus
<1>2. \A x \in Token : new[x] = old[x]
  OBVIOUS
<1> HIDE DEF old, new
<1>3. new = old
  BY <1>1, <1>2
<1>4. QED
  BY <1>3 DEF old, new

(***************************************************************************)
(* A token is what its row, the attempt and the history say.               *)
(***************************************************************************)
LEMMA Standing ==
    ASSUME NEW x \in Token
    PROVE  /\ TokenStatus[x] =
                 IF token[x] = None THEN "unissued"
                 ELSE IF ~token[x].consumed \/ Attempted(x) THEN "open"
                 ELSE IF x \in paired THEN "paired"
                 ELSE "void"
           /\ TokenStatus'[x] =
                 IF token'[x] = None THEN "unissued"
                 ELSE IF ~token'[x].consumed \/ Attempted(x)' THEN "open"
                 ELSE IF x \in paired' THEN "paired"
                 ELSE "void"
BY DEF TokenStatus

(***************************************************************************)
(* Every step of the three transactions is a step of Pairing, or none: the *)
(* last one pairs, whatever ends an attempt before it makes the token      *)
(* void, and consuming the token is not visible.                           *)
(***************************************************************************)
LEMMA PairingStep ==
    ASSUME EnrollmentTypeOK, PairInv, [Next]_vars
    PROVE  [P!Next]_(P!vars)
<1>1. TablesOK /\ paired \subseteq Token
  BY DEF EnrollmentTypeOK, TablesOK
<1>2. task # None => task.frame.token \in Token
                     /\ task.frame.connector \in Connector
                     /\ task.frame.key \in PublicKey
  BY <1>1 DEF TablesOK, Attempt, EnrollFrame
<1>3. PairedInv /\ AttemptInv
  BY DEF PairInv
<1>4. CASE Quiet
  <2>1. UNCHANGED <<token, device, paired, IssuedFor>>
    BY <1>4 DEF Quiet, IssuedFor
  <2>2. ASSUME task # None, task' = None
        PROVE  P!Void(task.frame.token)
    <3> DEFINE t == task.frame.token
    <3>1. t \in Token /\ token[t] # None /\ token[t].consumed
          /\ t \notin paired
      BY <1>2, <1>3, <2>2 DEF AttemptInv
    <3>2. Attempted(t) /\ \A x : ~Attempted(x)'
      BY <2>2 DEF Attempted
    <3>3. \A x : x # t => ~Attempted(x)
      BY DEF Attempted
    <3>4. TokenStatus[t] = "open" /\ TokenStatus'[t] = "void"
      BY <2>1, <3>1, <3>2, Standing
    <3>5. \A x \in Token : x # t => TokenStatus'[x] = TokenStatus[x]
      BY <2>1, <3>2, <3>3, Standing
    <3>6. TokenStatus' = [TokenStatus EXCEPT ![t] = "void"]
      BY <3>1, <3>4, <3>5, StandingChanges
    <3>7. QED
      BY <2>1, <3>4, <3>6 DEF P!Void
  <2>3. ASSUME \A x : Attempted(x)' <=> Attempted(x)
        PROVE  UNCHANGED P!vars
    <3>1. UNCHANGED TokenStatus
      BY <2>1, <2>3, Standing, StandingStays
    <3>2. QED
      BY <2>1, <3>1 DEF P!vars
  <2>4. (task # None /\ task' = None)
        \/ \A x : Attempted(x)' <=> Attempted(x)
    BY <1>4 DEF Quiet, Attempted
  <2>5. QED
    BY <1>2, <2>2, <2>3, <2>4 DEF P!Next
<1>5. ASSUME NEW s \in Session, NEW f \in EnrollFrame, ConsumeToken(s, f)
      PROVE  UNCHANGED P!vars
  <2>1. f.token \in Token /\ token[f.token] \in TokenRow
        /\ ~token[f.token].consumed
    BY <1>1, <1>5
       DEF ConsumeToken, TokenVerdict, TablesOK, EnrollFrame
  <2>2. token' = [token EXCEPT ![f.token] = Consumed(token[f.token])]
        /\ UNCHANGED <<device, paired>> /\ task = None
        /\ task' = [session |-> s, frame |-> f, next |-> "challenge"]
    BY <1>5 DEF ConsumeToken
  <2>3. token'[f.token] # None /\ token[f.token] # None
        /\ token'[f.token].connector = token[f.token].connector
    BY <1>1, <2>1, <2>2, ConsumedToken, NoRecord DEF TablesOK
  <2>4. \A x \in Token : x # f.token => token'[x] = token[x]
    BY <1>1, <2>2 DEF TablesOK
  <2>5. task' \in Attempt /\ task'.frame = f
    BY <2>2 DEF Attempt
  <2>6. \A x : (Attempted(x)' <=> x = f.token) /\ ~Attempted(x)
    BY <2>2, <2>5, NoRecord DEF Attempted
  <2>7. \A x \in Token : TokenStatus'[x] = TokenStatus[x]
    BY <2>1, <2>2, <2>3, <2>4, <2>6, Standing
  <2>8. UNCHANGED IssuedFor
    BY <2>3, <2>4 DEF IssuedFor
  <2>9. QED
    BY <2>2, <2>7, <2>8, StandingStays DEF P!vars
<1>6. CASE EnrollDevice
  <2> DEFINE c == task.frame.connector
             t == task.frame.token
  <2>1. device' = [device EXCEPT ![c] = [key |-> task.frame.key, grant |-> t,
                                         revoked |-> FALSE]]
        /\ paired' = paired \union {t} /\ task # None /\ task' = None
        /\ device[c] = None /\ UNCHANGED token
    BY <1>6 DEF EnrollDevice, Free
  <2>2. t \in Token /\ token[t] # None /\ token[t].consumed
        /\ token[t].connector = c /\ task.frame.key \in PublicKey
    BY <1>2, <1>3, <2>1 DEF AttemptInv
  <2>3. Attempted(t) /\ (\A x : x # t => ~Attempted(x))
        /\ \A x : ~Attempted(x)'
    BY <2>1 DEF Attempted
  <2>4. TokenStatus[t] = "open" /\ TokenStatus'[t] = "paired"
    BY <2>1, <2>2, <2>3, Standing
  <2>5. \A x \in Token : x # t => TokenStatus'[x] = TokenStatus[x]
    BY <2>1, <2>3, Standing
  <2>6. TokenStatus' = [TokenStatus EXCEPT ![t] = "paired"]
    BY <2>2, <2>4, <2>5, StandingChanges
  <2>7. IssuedFor[t] = c /\ UNCHANGED IssuedFor
    BY <2>1, <2>2 DEF IssuedFor
  <2>8. P!Pair(t, task.frame.key)
    BY <2>1, <2>4, <2>6, <2>7 DEF P!Pair
  <2>9. QED
    BY <2>2, <2>8 DEF P!Next
<1>7. ASSUME NEW t \in Token, NEW c \in Connector, NEW p \in Profile,
             NEW life \in TokenLife, IssueToken(t, c, p, life)
      PROVE  P!Issue(t, c)
  <2> DEFINE row == [connector |-> c, profile |-> p, left |-> life,
                     consumed |-> FALSE]
  <2>1. token[t] = None /\ token' = [token EXCEPT ![t] = row]
        /\ UNCHANGED <<device, paired, task>> /\ task = None
    BY <1>7 DEF IssueToken, history
  <2>2. row \in TokenRow
    BY EnrollmentAssumption DEF TokenRow
  <2>3. token'[t] # None /\ token'[t].connector = c /\ ~token'[t].consumed
        /\ \A x \in Token : x # t => token'[x] = token[x]
    BY <1>1, <2>1, <2>2, NoRecord DEF TablesOK
  <2>4. \A x : ~Attempted(x) /\ ~Attempted(x)'
    BY <2>1 DEF Attempted
  <2>5. TokenStatus[t] = "unissued" /\ TokenStatus'[t] = "open"
    BY <2>1, <2>3, Standing
  <2>6. \A x \in Token : x # t => TokenStatus'[x] = TokenStatus[x]
    BY <2>1, <2>3, <2>4, Standing
  <2>7. TokenStatus' = [TokenStatus EXCEPT ![t] = "open"]
    BY <2>5, <2>6, StandingChanges
  <2>8. IssuedFor' = [IssuedFor EXCEPT ![t] = c]
    BY <2>3 DEF IssuedFor
  <2>9. QED
    BY <2>1, <2>5, <2>7, <2>8 DEF P!Issue
<1>8. ASSUME NEW c \in Connector, RevokeDevice(c) \/ DeleteRevokedDevice(c)
      PROVE  P!Revoke(c) \/ P!Delete(c)
  <2>1. UNCHANGED <<token, paired, task>>
    BY <1>8 DEF RevokeDevice, DeleteRevokedDevice, history
  <2>2. UNCHANGED <<TokenStatus, IssuedFor>>
    BY <2>1 DEF TokenStatus, IssuedFor, Attempted
  <2>3. CASE RevokeDevice(c)
    BY <2>2, <2>3 DEF RevokeDevice, RevokedRow, P!Revoke, P!Revoked
  <2>4. CASE DeleteRevokedDevice(c)
    BY <2>2, <2>4 DEF DeleteRevokedDevice, P!Delete
  <2>5. QED
    BY <1>8, <2>3, <2>4
<1>9. CASE Tick
  <2>1. UNCHANGED <<device, paired, task>>
        /\ \A x \in Token : token'[x] = Aged(token[x])
    BY <1>9 DEF Tick, history
  <2>2. \A x \in Token :
            /\ token'[x] = None <=> token[x] = None
            /\ token[x] # None =>
                   /\ token'[x].consumed = token[x].consumed
                   /\ token'[x].connector = token[x].connector
    BY <1>1, <2>1, AgedToken DEF TablesOK
  <2>3. \A x : Attempted(x)' <=> Attempted(x)
    BY <2>1 DEF Attempted
  <2>4. \A x \in Token : TokenStatus'[x] = TokenStatus[x]
    BY <2>1, <2>2, <2>3, Standing
  <2>5. UNCHANGED IssuedFor
    BY <2>2 DEF IssuedFor
  <2>6. QED
    BY <2>1, <2>4, <2>5, StandingStays DEF P!vars
<1>10. QED
  BY <1>4, <1>5, <1>6, <1>7, <1>8, <1>9, StepCases DEF OperatorStep, P!Next

(***************************************************************************)
(* Enrollment implements Pairing: a token is good for one attempt, and the *)
(* attempt pairs the connector it was issued for or nothing.               *)
(***************************************************************************)
THEOREM PairingImplemented == Spec => ImplementsPairing
<1>1. Init => P!Init
  BY DEF Init, P!Init, TokenStatus, IssuedFor
<1>2. EnrollmentTypeOK /\ PairInv /\ [Next]_vars => [P!Next]_(P!vars)
  BY PairingStep
<1>3. QED
  BY <1>1, <1>2, PairInvariant, PTL DEF Spec, ImplementsPairing, P!Spec
-----------------------------------------------------------------------------
(***************************************************************************)
(* A challenge is not there before its connection has come to it, and a    *)
(* used one is consumed.                                                   *)
(***************************************************************************)
ChallengeInv ==
    /\ \A s \in Session :
           /\ stage[s] = "new" => challenge[<<s, "first">>] = None
           /\ stage[s] \in {"new", "challenge", "enrollment"} =>
                  challenge[<<s, "second">>] = None
    /\ \A u \in uses : challenge[u.challenge] # None
                       /\ challenge[u.challenge].consumed
    /\ ChallengeAnsweredOnce

(***************************************************************************)
(* Consuming a valid challenge keeps the uses apart.                       *)
(***************************************************************************)
LEMMA ConsumeOnce ==
    ASSUME EnrollmentTypeOK, ChallengeInv, NEW ch \in Challenge,
           NEW s \in Session, NEW purpose \in {"enroll", "authenticate"},
           ChallengeValid(ch), ConsumeChallenge(ch, s, purpose),
           purpose = "authenticate" => ch[1] = s
    PROVE  /\ \A u \in uses' : challenge'[u.challenge] # None
                               /\ challenge'[u.challenge].consumed
           /\ ChallengeAnsweredOnce'
           /\ \A x \in Challenge : challenge[x] = None =>
                                      challenge'[x] = None
<1> DEFINE new == [challenge |-> ch, session |-> s, purpose |-> purpose]
<1>1. uses' = uses \union {new}
      /\ challenge' = [challenge EXCEPT ![ch] = Consumed(challenge[ch])]
  BY DEF ConsumeChallenge
<1>2. challenge \in [Challenge -> ChallengeRow \union {None}]
      /\ uses \subseteq [challenge : Challenge, session : Session,
                         purpose : {"enroll", "authenticate"}]
  BY DEF EnrollmentTypeOK
<1>3. challenge[ch] \in ChallengeRow /\ challenge[ch] # None
      /\ ~challenge[ch].consumed
  BY <1>2 DEF ChallengeValid
<1>4. challenge'[ch] # None /\ challenge'[ch].consumed
  BY <1>1, <1>2, <1>3, ConsumedChallenge, NoRecord
<1>5. \A x \in Challenge : x # ch => challenge'[x] = challenge[x]
  BY <1>1, <1>2
<1>6. \A u \in uses : u.challenge # ch
  BY <1>3 DEF ChallengeInv
<1>7. \A u \in uses' : challenge'[u.challenge] # None
                      /\ challenge'[u.challenge].consumed
  BY <1>1, <1>2, <1>4, <1>5 DEF ChallengeInv
<1>8. ChallengeAnsweredOnce'
  <2>1. ASSUME NEW u \in uses', NEW v \in uses', u.challenge = v.challenge
        PROVE  u = v
    BY <1>1, <1>6, <2>1 DEF ChallengeInv, ChallengeAnsweredOnce
  <2>2. ASSUME NEW u \in uses', u.purpose = "authenticate"
        PROVE  u.challenge[1] = u.session
    BY <1>1, <2>2 DEF ChallengeInv, ChallengeAnsweredOnce
  <2>3. QED
    BY <2>1, <2>2 DEF ChallengeAnsweredOnce
<1>9. QED
  BY <1>3, <1>5, <1>7, <1>8

(***************************************************************************)
(* Issuing one that is not there yet does too.                             *)
(***************************************************************************)
LEMMA IssueFresh ==
    ASSUME EnrollmentTypeOK, ChallengeInv, NEW ch \in Challenge,
           challenge[ch] = None, challenge' = Issued(ch), UNCHANGED uses
    PROVE  /\ \A u \in uses' : challenge'[u.challenge] # None
                               /\ challenge'[u.challenge].consumed
           /\ ChallengeAnsweredOnce'
           /\ \A x \in Challenge : x # ch => challenge'[x] = challenge[x]
<1>1. challenge \in [Challenge -> ChallengeRow \union {None}]
      /\ uses \subseteq [challenge : Challenge, session : Session,
                         purpose : {"enroll", "authenticate"}]
  BY DEF EnrollmentTypeOK
<1>2. \A x \in Challenge : x # ch => challenge'[x] = challenge[x]
  BY <1>1 DEF Issued
<1>3. \A u \in uses : u.challenge \in Challenge /\ u.challenge # ch
  BY <1>1 DEF ChallengeInv
<1>4. QED
  BY <1>2, <1>3 DEF ChallengeInv, ChallengeAnsweredOnce

(***************************************************************************)
(* Every step preserves the invariant of the challenges.                   *)
(***************************************************************************)
LEMMA ChallengeStep ==
    ASSUME EnrollmentTypeOK, ChallengeInv, [Next]_vars
    PROVE  ChallengeInv'
<1>1. stage \in [Session -> Stage]
      /\ challenge \in [Challenge -> ChallengeRow \union {None}]
      /\ uses \subseteq [challenge : Challenge, session : Session,
                         purpose : {"enroll", "authenticate"}]
  BY DEF EnrollmentTypeOK
<1>2. \A s \in Session : <<s, "first">> \in Challenge
                         /\ <<s, "second">> \in Challenge
  BY DEF Challenge
<1> DEFINE Onward == \A x \in Session :
                         \/ stage'[x] = stage[x]
                         \/ stage'[x] \notin {"new", "challenge",
                                              "enrollment"}
                         \/ /\ stage[x] = "challenge"
                            /\ stage'[x] = "enrollment"
<1>3. ASSUME Onward,
             \A x \in Challenge : challenge[x] = None => challenge'[x] = None,
             \A u \in uses' : challenge'[u.challenge] # None
                              /\ challenge'[u.challenge].consumed,
             ChallengeAnsweredOnce'
      PROVE  ChallengeInv'
  BY <1>2, <1>3 DEF ChallengeInv
<1>4. ASSUME Onward, UNCHANGED <<challenge, uses>>
      PROVE  ChallengeInv'
  BY <1>3, <1>4 DEF ChallengeInv, ChallengeAnsweredOnce
<1>5. ASSUME NEW s \in Session, HandshakeStep(s)
      PROVE  ChallengeInv'
  <2>1. CASE Accept(s)
    <3>1. challenge[<<s, "first">>] = None
          /\ challenge' = Issued(<<s, "first">>) /\ UNCHANGED uses
          /\ stage' = [stage EXCEPT ![s] = "challenge"] /\ stage[s] = "new"
      BY <2>1 DEF Accept, Goto, history, ChallengeInv
    <3>2. /\ \A u \in uses' : challenge'[u.challenge] # None
                              /\ challenge'[u.challenge].consumed
          /\ ChallengeAnsweredOnce'
          /\ \A x \in Challenge :
                 x # <<s, "first">> => challenge'[x] = challenge[x]
      BY <1>2, <3>1, IssueFresh
    <3>3. QED
      BY <1>1, <1>2, <3>1, <3>2 DEF ChallengeInv
  <2>2. CASE SecondChallenge(s)
    <3>1. challenge[<<s, "second">>] = None
          /\ challenge' = Issued(<<s, "second">>) /\ UNCHANGED uses
          /\ stage' = [stage EXCEPT ![s] = "authentication"]
      BY <2>2 DEF SecondChallenge, Goto, history, ChallengeInv
    <3>2. /\ \A u \in uses' : challenge'[u.challenge] # None
                              /\ challenge'[u.challenge].consumed
          /\ ChallengeAnsweredOnce'
          /\ \A x \in Challenge :
                 x # <<s, "second">> => challenge'[x] = challenge[x]
      BY <1>2, <3>1, IssueFresh
    <3>3. QED
      BY <1>1, <1>2, <3>1, <3>2 DEF ChallengeInv
  <2>3. ASSUME NEW f \in AuthFrame, Authenticate(s, f)
        PROVE  ChallengeInv'
    <3>1. f.challenge \in Challenge /\ ChallengeValid(f.challenge)
          /\ ConsumeChallenge(f.challenge, s, "authenticate")
          /\ f.challenge[1] = s
      BY <2>3 DEF Authenticate, AuthFrame, Offered
    <3>2. Onward
      BY <1>1, <2>3 DEF Authenticate, Goto, Refuse
    <3>3. QED
      BY <1>3, <3>1, <3>2, ConsumeOnce
  <2>4. ASSUME NEW f \in EnrollFrame, ConsumeToken(s, f)
        PROVE  ChallengeInv'
    <3>1. Onward /\ UNCHANGED <<challenge, uses>>
      BY <1>1, <2>4 DEF ConsumeToken, Goto
    <3>2. QED
      BY <1>4, <3>1
  <2>5. ASSUME \E st \in {"closed", "lost"} :
                   stage' = [stage EXCEPT ![s] = st],
               UNCHANGED <<challenge, uses>>
        PROVE  ChallengeInv'
    <3>1. Onward
      BY <1>1, <2>5
    <3>2. QED
      BY <1>4, <2>5, <3>1
  <2>6. QED
    BY <1>5, <2>1, <2>2, <2>3, <2>4, <2>5
       DEF HandshakeStep, Timeout, Drop, RefuseToken, RefuseChallenge,
           Malformed, UnreadableFrame, Refuse, Goto, tables, history
<1>6. CASE CompleteEnrollment
  <2>1. Onward
    BY <1>1, <1>6
       DEF CompleteEnrollment, EnrollmentChallenge, AlreadyEnrolled,
           ProfileUnknown, EnrollDevice, Refuse, Goto, connections
  <2>2. CASE EnrollmentChallenge
    <3>1. task.frame.challenge \in Challenge /\ task.session \in Session
      BY <2>2 DEF EnrollmentChallenge, EnrollmentTypeOK, Attempt, EnrollFrame
    <3>2. CASE ChallengeValid(task.frame.challenge)
      <4>1. ConsumeChallenge(task.frame.challenge, task.session, "enroll")
        BY <2>2, <3>2 DEF EnrollmentChallenge
      <4>2. QED
        BY <1>3, <2>1, <3>1, <3>2, <4>1, ConsumeOnce
    <3>3. CASE ~ChallengeValid(task.frame.challenge)
      BY <1>4, <2>1, <2>2, <3>3 DEF EnrollmentChallenge
    <3>4. QED
      BY <3>2, <3>3
  <2>3. UNCHANGED <<challenge, uses>> => ChallengeInv'
    BY <1>4, <2>1
  <2>4. QED
    BY <1>6, <2>2, <2>3
       DEF CompleteEnrollment, AlreadyEnrolled, ProfileUnknown, EnrollDevice,
           tables, history
<1>7. CASE Tick
  <2>1. UNCHANGED <<stage, uses>>
        /\ \A x \in Challenge : challenge'[x] = Aged(challenge[x])
    BY <1>7 DEF Tick, history
  <2>2. \A x \in Challenge :
            /\ challenge'[x] = None <=> challenge[x] = None
            /\ challenge[x] # None =>
                   challenge'[x].consumed = challenge[x].consumed
    BY <1>1, <2>1, AgedChallenge
  <2>3. QED
    BY <1>1, <1>3, <2>1, <2>2 DEF ChallengeInv, ChallengeAnsweredOnce
<1>8. CASE Crash
  <2>1. Onward /\ UNCHANGED <<challenge, uses>>
    BY <1>1, <1>8 DEF Crash, tables, history
  <2>2. QED
    BY <1>4, <2>1
<1>9. CASE OperatorStep \/ UNCHANGED vars
  BY <1>4, <1>9 DEF OperatorStep, IssueToken, RevokeDevice,
                    DeleteRevokedDevice, vars, connections, tables, history
<1>10. QED
  BY <1>5, <1>6, <1>7, <1>8, <1>9 DEF Next

(***************************************************************************)
(* A challenge is consumed once, for one connection and one purpose.       *)
(***************************************************************************)
THEOREM ChallengesAreSingleUse == Spec => []ChallengeAnsweredOnce
<1>1. Init => ChallengeInv
  BY DEF Init, ChallengeInv, ChallengeAnsweredOnce, Challenge
<1>2. EnrollmentTypeOK /\ ChallengeInv /\ [Next]_vars => ChallengeInv'
  BY ChallengeStep
<1>3. ChallengeInv => ChallengeAnsweredOnce
  BY DEF ChallengeInv
<1>4. QED
  BY <1>1, <1>2, <1>3, EnrollmentTypeCorrect, PTL DEF Spec
-----------------------------------------------------------------------------
(***************************************************************************)
(* A challenge that is waited for outlives the wait.                       *)
(***************************************************************************)
Outlives(s) ==
    LET r == challenge[Offered(s)] IN
    /\ r # None
    /\ r.consumed \/ r.left > timer[s]

FreshInv == \A s \in Session : Waiting(s) => Outlives(s)

(***************************************************************************)
(* A wait goes on, on a challenge that stayed or was consumed.             *)
(***************************************************************************)
LEMMA WaitGoesOn ==
    ASSUME FreshInv, NEW s \in Session, Waiting(s),
           stage'[s] = stage[s], timer'[s] = timer[s],
           \/ challenge'[Offered(s)] = challenge[Offered(s)]
           \/ /\ challenge'[Offered(s)] # None
              /\ challenge'[Offered(s)].consumed
    PROVE  Outlives(s)'
BY DEF FreshInv, Outlives, Offered

(***************************************************************************)
(* A consumed challenge is there and consumed; the others stay.            *)
(***************************************************************************)
LEMMA ConsumeLeaves ==
    ASSUME EnrollmentTypeOK, NEW ch \in Challenge, NEW s, NEW purpose,
           ChallengeValid(ch), ConsumeChallenge(ch, s, purpose)
    PROVE  \A x \in Challenge : \/ challenge'[x] = challenge[x]
                               \/ /\ challenge'[x] # None
                                  /\ challenge'[x].consumed
<1>1. challenge \in [Challenge -> ChallengeRow \union {None}]
  BY DEF EnrollmentTypeOK
<1>2. challenge[ch] \in ChallengeRow
  BY <1>1 DEF ChallengeValid
<1>3. challenge' = [challenge EXCEPT ![ch] = Consumed(challenge[ch])]
  BY DEF ConsumeChallenge
<1>4. Consumed(challenge[ch]) # None /\ Consumed(challenge[ch]).consumed
  BY <1>2, ConsumedChallenge, NoRecord
<1>5. QED
  BY <1>1, <1>3, <1>4

(***************************************************************************)
(* A step that sends a connection to a stage where it does not wait.       *)
(***************************************************************************)
LEMMA StopsWaiting ==
    ASSUME EnrollmentTypeOK, FreshInv, NEW s \in Session,
           NEW st \in {"enrollment", "ready", "closed", "lost"},
           Goto(s, st, 0),
           \A x \in Challenge : \/ challenge'[x] = challenge[x]
                               \/ /\ challenge'[x] # None
                                  /\ challenge'[x].consumed
    PROVE  FreshInv'
<1> SUFFICES ASSUME NEW x \in Session, Waiting(x)'
             PROVE  Outlives(x)'
  BY DEF FreshInv
<1>1. stage \in [Session -> Stage]
      /\ timer \in [Session -> 0..HandshakeTimeout]
  BY DEF EnrollmentTypeOK
<1>2. x # s /\ stage'[x] = stage[x] /\ timer'[x] = timer[x] /\ Waiting(x)
  BY <1>1 DEF Goto, Waiting
<1>3. Offered(x) \in Challenge
  BY DEF Offered, Challenge
<1>4. QED
  BY <1>2, <1>3, WaitGoesOn

(***************************************************************************)
(* A step that issues a challenge and waits for its answer.                *)
(***************************************************************************)
LEMMA StartsWaiting ==
    ASSUME EnrollmentTypeOK, FreshInv, NEW s \in Session,
           NEW st \in {"challenge", "authentication"},
           Goto(s, st, HandshakeTimeout),
           challenge' = Issued(<<s, IF st = "challenge" THEN "first"
                                                        ELSE "second">>)
    PROVE  FreshInv'
<1> SUFFICES ASSUME NEW x \in Session, Waiting(x)'
             PROVE  Outlives(x)'
  BY DEF FreshInv
<1> DEFINE ch == <<s, IF st = "challenge" THEN "first" ELSE "second">>
<1>1. stage \in [Session -> Stage]
      /\ timer \in [Session -> 0..HandshakeTimeout]
      /\ challenge \in [Challenge -> ChallengeRow \union {None}]
  BY DEF EnrollmentTypeOK
<1>2. ch \in Challenge
  BY DEF Challenge
<1>3. CASE x = s
  <2>1. stage'[s] = st /\ timer'[s] = HandshakeTimeout
    BY <1>1 DEF Goto
  <2>2. Offered(s)' = ch
    BY <2>1 DEF Offered
  <2>3. challenge'[ch] = [left |-> ChallengeLife, consumed |-> FALSE]
    BY <1>1, <1>2 DEF Issued
  <2>4. challenge'[ch] # None /\ challenge'[ch].left > timer'[s]
    <3>1. [left |-> ChallengeLife, consumed |-> FALSE] \in ChallengeRow
      BY EnrollmentAssumption DEF ChallengeRow
    <3>2. challenge'[ch] # None
      BY <2>3, <3>1, NoRecord
    <3>3. challenge'[ch].left = ChallengeLife
      BY <2>3
    <3>4. QED
      BY <2>1, <3>2, <3>3, EnrollmentAssumption
  <2>5. QED
    BY <1>3, <2>2, <2>4 DEF Outlives
<1>4. CASE x # s
  <2>1. stage'[x] = stage[x] /\ timer'[x] = timer[x] /\ Waiting(x)
    BY <1>1, <1>4 DEF Goto, Waiting
  <2>2. Offered(x) \in Challenge /\ Offered(x) # ch
    BY <1>4 DEF Offered, Challenge
  <2>3. challenge'[Offered(x)] = challenge[Offered(x)]
    BY <1>1, <2>2 DEF Issued
  <2>4. QED
    BY <2>1, <2>3, WaitGoesOn
<1>5. QED
  BY <1>3, <1>4

(***************************************************************************)
(* Every step preserves it.                                                *)
(***************************************************************************)
LEMMA FreshStep ==
    ASSUME EnrollmentTypeOK, FreshInv, [Next]_vars
    PROVE  FreshInv'
<1>1. stage \in [Session -> Stage]
      /\ timer \in [Session -> 0..HandshakeTimeout]
      /\ challenge \in [Challenge -> ChallengeRow \union {None}]
  BY DEF EnrollmentTypeOK
<1>2. ASSUME NEW s \in Session, HandshakeStep(s)
      PROVE  FreshInv'
  <2>1. CASE Accept(s)
    BY <2>1, StartsWaiting DEF Accept
  <2>2. CASE SecondChallenge(s)
    BY <2>2, StartsWaiting DEF SecondChallenge
  <2>3. ASSUME NEW f \in AuthFrame, Authenticate(s, f)
        PROVE  FreshInv'
    <3>1. f.challenge \in Challenge /\ ChallengeValid(f.challenge)
          /\ ConsumeChallenge(f.challenge, s, "authenticate")
          /\ \E st \in {"ready", "closed"} : Goto(s, st, 0)
      BY <2>3 DEF Authenticate, AuthFrame, Refuse
    <3>2. QED
      BY <3>1, ConsumeLeaves, StopsWaiting
  <2>4. ASSUME UNCHANGED challenge,
               \E st \in {"enrollment", "closed", "lost"} : Goto(s, st, 0)
        PROVE  FreshInv'
    BY <2>4, StopsWaiting
  <2>5. QED
    BY <1>2, <2>1, <2>2, <2>3, <2>4
       DEF HandshakeStep, Timeout, Drop, RefuseToken, ConsumeToken,
           RefuseChallenge, Malformed, UnreadableFrame, Refuse, tables
<1>3. ASSUME UNCHANGED <<challenge, stage, timer>>
      PROVE  FreshInv'
  BY <1>3 DEF FreshInv, Waiting, Outlives, Offered
<1>4. CASE CompleteEnrollment
  <2>1. task # None => task.session \in Session
                       /\ task.frame.challenge \in Challenge
    BY DEF EnrollmentTypeOK, Attempt, EnrollFrame
  <2>2. CASE EnrollmentChallenge
    <3>1. \A x \in Challenge : \/ challenge'[x] = challenge[x]
                              \/ /\ challenge'[x] # None
                                 /\ challenge'[x].consumed
      BY <2>1, <2>2, ConsumeLeaves DEF EnrollmentChallenge
    <3>2. UNCHANGED <<stage, timer>> \/ Goto(task.session, "closed", 0)
      BY <2>2 DEF EnrollmentChallenge, Refuse, connections
    <3>3. ASSUME UNCHANGED <<stage, timer>>, NEW x \in Session, Waiting(x)
          PROVE  Outlives(x)'
      <4>1. Offered(x) \in Challenge
        BY DEF Offered, Challenge
      <4>2. QED
        BY <3>1, <3>3, <4>1, WaitGoesOn
    <3>4. UNCHANGED <<stage, timer>> => FreshInv'
      BY <3>3 DEF FreshInv, Waiting
    <3>5. QED
      BY <2>1, <2>2, <3>1, <3>2, <3>4, StopsWaiting DEF EnrollmentChallenge
  <2>3. CASE AlreadyEnrolled \/ ProfileUnknown
    BY <2>1, <2>3, StopsWaiting
       DEF AlreadyEnrolled, ProfileUnknown, Refuse, tables
  <2>4. CASE EnrollDevice
    BY <1>3, <2>4 DEF EnrollDevice, connections
  <2>5. QED
    BY <1>4, <2>2, <2>3, <2>4 DEF CompleteEnrollment
<1>5. CASE Tick
  <2> SUFFICES ASSUME NEW s \in Session, Waiting(s)'
               PROVE  Outlives(s)'
    BY DEF FreshInv
  <2> DEFINE r == challenge[Offered(s)]
  <2>1. UNCHANGED stage /\ Waiting(s) /\ timer[s] > 0
        /\ timer'[s] = Less(timer[s])
    BY <1>5 DEF Tick, Waiting
  <2>2. Offered(s) \in Challenge /\ Offered(s)' = Offered(s)
    BY <2>1 DEF Offered, Challenge
  <2>3. challenge'[Offered(s)] = Aged(r) /\ r \in ChallengeRow
        /\ (r.consumed \/ r.left > timer[s])
    BY <1>1, <1>5, <2>1, <2>2 DEF Tick, FreshInv, Outlives
  <2>4. Aged(r) # None /\ Aged(r).consumed = r.consumed
    BY <2>3, AgedChallenge, NoRecord
  <2>5. Aged(r).left = Less(r.left)
    BY <2>3, NoRecord DEF Aged, ChallengeRow
  <2>6. r.left > timer[s] => Less(r.left) > Less(timer[s])
    <3>1. r.left \in 0..ChallengeLife /\ timer[s] \in 0..HandshakeTimeout
      BY <1>1, <2>3 DEF ChallengeRow
    <3>2. QED
      BY <2>1, <3>1, EnrollmentAssumption DEF Less
  <2>7. QED
    BY <2>1, <2>2, <2>3, <2>4, <2>5, <2>6 DEF Outlives
<1>6. CASE Crash
  BY <1>1, <1>6 DEF Crash, FreshInv, Waiting
<1>7. CASE OperatorStep \/ UNCHANGED vars
  BY <1>3, <1>7 DEF OperatorStep, IssueToken, RevokeDevice,
                    DeleteRevokedDevice, connections, vars, tables
<1>8. QED
  BY <1>2, <1>4, <1>5, <1>6, <1>7 DEF Next

(***************************************************************************)
(* The handshake window closes before the challenge it was opened with     *)
(* expires.                                                                *)
(***************************************************************************)
THEOREM OfferStands == Spec => []OfferedChallengeIsFresh
<1>1. Init => FreshInv
  BY DEF Init, FreshInv, Waiting
<1>2. EnrollmentTypeOK /\ FreshInv /\ [Next]_vars => FreshInv'
  BY FreshStep
<1>3. EnrollmentTypeOK /\ FreshInv => OfferedChallengeIsFresh
  <2> SUFFICES ASSUME EnrollmentTypeOK, FreshInv, NEW s \in Session, Waiting(s)
               PROVE  /\ challenge[Offered(s)] # None
                      /\ \/ challenge[Offered(s)].left > 0
                         \/ challenge[Offered(s)].consumed
    BY DEF OfferedChallengeIsFresh
  <2>1. Offered(s) \in Challenge
    BY DEF Offered, Challenge
  <2>2. timer[s] \in Nat /\ challenge[Offered(s)] # None
        /\ (challenge[Offered(s)].left \in Nat)
    BY <2>1, EnrollmentAssumption
       DEF EnrollmentTypeOK, ChallengeRow, FreshInv, Outlives
  <2>3. QED
    BY <2>2 DEF FreshInv, Outlives
<1>4. QED
  BY <1>1, <1>2, <1>3, EnrollmentTypeCorrect, PTL DEF Spec
-----------------------------------------------------------------------------
(***************************************************************************)
(* The session that spent a token is known; it is waiting for the running  *)
(* attempt; and only a closed connection was told anything.                *)
(***************************************************************************)
SpenderInv ==
    /\ \A t \in Token : token[t] # None /\ token[t].consumed =>
                           spentOn[t] \in Session
    /\ task # None => /\ stage[task.session] = "enrollment"
                      /\ spentOn[task.frame.token] = task.session
    /\ \A s \in Session : told[s] # None => stage[s] = "closed"

ExplainInv == SpenderInv /\ WastedTokenExplained

Final ==
    \A s \in Session : stage[s] \in {"closed", "lost"} =>
        stage'[s] = stage[s] /\ told'[s] = told[s]

(***************************************************************************)
(* What complete_enrollment tells after the token is gone: final, and not  *)
(* about the token.                                                        *)
(***************************************************************************)
LEMMA ToldTheReason ==
    ASSUME NEW code \in {"invalid_challenge", "enrollment_signature_invalid",
                         "device_revoked", "device_already_enrolled"}
    PROVE  /\ RelayDiagnostic(code, "enrollment") # None
           /\ ~RelayDiagnostic(code, "enrollment").retryable
           /\ RelayDiagnostic(code, "enrollment").code \notin TokenError
<1>1. Canonical(code, "enrollment") \in
          {"enrollment_challenge_invalid", "enrollment_signature_invalid",
           "device_revoked", "device_already_enrolled"}
  BY DEF Canonical, Known, RelayErrorCode
<1>2. RelayDiagnostic(code, "enrollment") \in Diagnostic
  BY DiagnosticIsKnown
<1>3. QED
  BY <1>1, <1>2, NoDiagnostic DEF RelayDiagnostic, Retryable, TokenError

(***************************************************************************)
(* A connection that has ended neither moves nor is told more.             *)
(***************************************************************************)
LEMMA EndsAreFinal ==
    ASSUME EnrollmentTypeOK, SpenderInv, [Next]_vars
    PROVE  Final
<1>1. ConnectionsOK
  BY DEF EnrollmentTypeOK, ConnectionsOK
<1>2. ASSUME NEW s \in Session, HandshakeStep(s)
      PROVE  Final
  <2>1. stage[s] \notin {"closed", "lost"}
    BY <1>2 DEF HandshakeStep, Accept, SecondChallenge, Timeout, Drop,
                RefuseToken, ConsumeToken, RefuseChallenge, Authenticate,
                Malformed, UnreadableFrame, Expired, Waiting
  <2>2. \A x \in Session : x # s => stage'[x] = stage[x] /\ told'[x] = told[x]
    BY <1>1, <1>2
       DEF HandshakeStep, Accept, SecondChallenge, Timeout, Drop, RefuseToken,
           ConsumeToken, RefuseChallenge, Authenticate, Malformed,
           UnreadableFrame, Refuse, Goto, ConnectionsOK
  <2>3. QED
    BY <2>1, <2>2 DEF Final
<1>3. CASE CompleteEnrollment
  <2>1. task # None
    BY <1>3 DEF CompleteEnrollment, EnrollmentChallenge, AlreadyEnrolled,
                ProfileUnknown, EnrollDevice
  <2>2. stage[task.session] = "enrollment" /\ task.session \in Session
    BY <2>1 DEF SpenderInv, EnrollmentTypeOK, Attempt
  <2>3. \A x \in Session : x # task.session => stage'[x] = stage[x]
                                             /\ told'[x] = told[x]
    BY <1>1, <1>3
       DEF CompleteEnrollment, EnrollmentChallenge, AlreadyEnrolled,
           ProfileUnknown, EnrollDevice, Refuse, Goto, connections,
           ConnectionsOK
  <2>4. QED
    BY <2>2, <2>3 DEF Final
<1>4. CASE Crash
  BY <1>1, <1>4 DEF Crash, Final, ConnectionsOK
<1>5. CASE OperatorStep \/ Tick \/ UNCHANGED vars
  BY <1>5 DEF OperatorStep, IssueToken, RevokeDevice, DeleteRevokedDevice,
              Tick, vars, connections, Final
<1>6. QED
  BY <1>2, <1>3, <1>4, <1>5 DEF Next

(***************************************************************************)
(* Only a closed connection has been told anything, after every step.      *)
(***************************************************************************)
LEMMA ToldWhenClosed ==
    ASSUME EnrollmentTypeOK, SpenderInv, [Next]_vars,
           NEW x \in Session, told'[x] # None
    PROVE  stage'[x] = "closed"
<1>1. ConnectionsOK
  BY DEF EnrollmentTypeOK, ConnectionsOK
<1>2. \A s \in Session : \A code, during :
          Refuse(s, code, during) => stage'[s] = "closed"
  BY <1>1 DEF Refuse, Goto, ConnectionsOK
<1>3. CASE told'[x] = told[x]
  <2>1. stage[x] = "closed"
    BY <1>3 DEF SpenderInv
  <2>2. QED
    BY <2>1, EndsAreFinal DEF Final
<1>4. CASE told'[x] # told[x]
  <2>1. ASSUME NEW s \in Session, HandshakeStep(s)
        PROVE  \E code, during : Refuse(x, code, during)
    <3>1. UNCHANGED told \/ \E code, during : Refuse(s, code, during)
      BY <2>1 DEF HandshakeStep, Accept, SecondChallenge, Timeout, Drop,
                  RefuseToken, ConsumeToken, RefuseChallenge, Authenticate,
                  Malformed, UnreadableFrame
    <3>2. x # s => ~\E code, during : Refuse(s, code, during)
      BY <1>1, <1>4 DEF Refuse, ConnectionsOK
    <3>3. QED
      BY <1>4, <3>1, <3>2
  <2>2. ASSUME CompleteEnrollment
        PROVE  \E code, during : Refuse(x, code, during)
    <3>1. task # None => task.session \in Session
      BY DEF EnrollmentTypeOK, Attempt
    <3>2. \/ UNCHANGED told
          \/ /\ task # None
             /\ \E code, during : Refuse(task.session, code, during)
      <4>1. CASE EnrollmentChallenge
        BY <4>1 DEF EnrollmentChallenge, connections
      <4>2. CASE AlreadyEnrolled
        BY <4>2 DEF AlreadyEnrolled
      <4>3. CASE ProfileUnknown \/ EnrollDevice
        BY <4>3 DEF ProfileUnknown, EnrollDevice, connections
      <4>4. QED
        BY <2>2, <4>1, <4>2, <4>3 DEF CompleteEnrollment
    <3>3. task # None /\ x # task.session =>
              ~\E code, during : Refuse(task.session, code, during)
      BY <1>1, <1>4, <3>1 DEF Refuse, ConnectionsOK
    <3>4. QED
      BY <1>4, <3>2, <3>3
  <2>3. OperatorStep \/ Tick \/ Crash \/ UNCHANGED vars => UNCHANGED told
    BY DEF OperatorStep, IssueToken, RevokeDevice, DeleteRevokedDevice, Tick,
           Crash, vars, connections
  <2>4. QED
    BY <1>2, <1>4, <2>1, <2>2, <2>3 DEF Next
<1>5. QED
  BY <1>3, <1>4

(***************************************************************************)
(* Every step preserves what is known of the spender.                      *)
(***************************************************************************)
LEMMA SpenderStep ==
    ASSUME EnrollmentTypeOK, PairInv, SpenderInv, [Next]_vars
    PROVE  SpenderInv'
<1>1. ConnectionsOK /\ TablesOK /\ HistoryOK
  BY DEF EnrollmentTypeOK, ConnectionsOK, TablesOK, HistoryOK
<1>2. \A s \in Session : told'[s] # None => stage'[s] = "closed"
  BY ToldWhenClosed
<1>3. ASSUME NEW s \in Session, NEW f \in EnrollFrame, ConsumeToken(s, f)
      PROVE  SpenderInv'
  <2>1. f.token \in Token
    BY DEF EnrollFrame
  <2>2. spentOn' = [spentOn EXCEPT ![f.token] = s]
        /\ token' = [token EXCEPT ![f.token] = Consumed(token[f.token])]
        /\ task' = [session |-> s, frame |-> f, next |-> "challenge"]
        /\ stage' = [stage EXCEPT ![s] = "enrollment"]
    BY <1>3 DEF ConsumeToken, Goto
  <2>3. \A t \in Token : token'[t] # None /\ token'[t].consumed =>
                            spentOn'[t] \in Session
    BY <1>1, <2>1, <2>2 DEF SpenderInv, TablesOK, HistoryOK
  <2>4. stage'[task'.session] = "enrollment"
        /\ spentOn'[task'.frame.token] = task'.session
    BY <1>1, <2>1, <2>2 DEF ConnectionsOK, HistoryOK
  <2>5. QED
    BY <1>2, <2>3, <2>4 DEF SpenderInv
<1>4. CASE Quiet
  <2>1. task' # None => /\ stage'[task'.session] = "enrollment"
                        /\ spentOn'[task'.frame.token] = task'.session
    <3>1. CASE EnrollmentChallenge
      <4>1. task \in Attempt
        BY <1>1, <3>1 DEF EnrollmentChallenge, TablesOK
      <4>2. task' = None \/ /\ UNCHANGED connections
                            /\ task' = [task EXCEPT !.next = "device"]
        BY <3>1 DEF EnrollmentChallenge
      <4>3. [task EXCEPT !.next = "device"].session = task.session
            /\ [task EXCEPT !.next = "device"].frame = task.frame
        BY <4>1 DEF Attempt
      <4>4. QED
        BY <1>4, <3>1, <4>2, <4>3
           DEF Quiet, connections, SpenderInv, EnrollmentChallenge
    <3>2. CASE task' = None
      BY <3>2
    <3>3. CASE UNCHANGED <<task, stage>>
      BY <1>4, <3>3 DEF Quiet, SpenderInv
    <3>4. EnrollmentChallenge \/ task' = None \/ UNCHANGED <<task, stage>>
      <4>1. ASSUME NEW s \in Session, HandshakeStep(s)
            PROVE  task = None
        BY <4>1 DEF HandshakeStep, Accept, SecondChallenge, Timeout, Drop,
                    RefuseToken, ConsumeToken, RefuseChallenge, Authenticate,
                    Malformed, UnreadableFrame
      <4>2. OperatorStep \/ Tick => task = None
        BY DEF OperatorStep, IssueToken, RevokeDevice, DeleteRevokedDevice,
               Tick
      <4>3. AlreadyEnrolled \/ ProfileUnknown \/ EnrollDevice \/ Crash
              => task' = None
        BY DEF AlreadyEnrolled, ProfileUnknown, EnrollDevice, Crash
      <4>4. UNCHANGED vars => UNCHANGED <<task, stage>>
        BY DEF vars, connections
      <4>5. task = None => task' = None
        BY <1>4 DEF Quiet
      <4>6. QED
        BY <4>1, <4>2, <4>3, <4>4, <4>5 DEF Next, CompleteEnrollment
    <3>5. QED
      BY <3>1, <3>2, <3>3, <3>4
  <2>2. QED
    BY <1>2, <1>4, <2>1 DEF Quiet, SpenderInv
<1>5. CASE EnrollDevice
  BY <1>2, <1>5 DEF EnrollDevice, SpenderInv
<1>6. CASE OperatorStep
  <2>1. task = None /\ task' = None /\ UNCHANGED spentOn
    BY <1>6 DEF OperatorStep, IssueToken, RevokeDevice, DeleteRevokedDevice,
                history
  <2>2. \A t \in Token : token'[t] # None /\ token'[t].consumed =>
                            token'[t] = token[t]
    BY <1>1, <1>6 DEF OperatorStep, IssueToken, RevokeDevice,
                      DeleteRevokedDevice, TablesOK
  <2>3. QED
    BY <1>2, <2>1, <2>2 DEF SpenderInv
<1>7. CASE Tick
  <2>1. task = None /\ task' = None /\ UNCHANGED spentOn
        /\ \A t \in Token : token'[t] = Aged(token[t])
    BY <1>7 DEF Tick, history
  <2>2. \A t \in Token : token'[t] # None /\ token'[t].consumed =>
                            token[t] # None /\ token[t].consumed
    BY <1>1, <2>1, AgedToken DEF TablesOK
  <2>3. QED
    BY <1>2, <2>1, <2>2 DEF SpenderInv
<1>8. QED
  BY <1>3, <1>4, <1>5, <1>6, <1>7, StepCases

(***************************************************************************)
(* What counts as an explanation.                                          *)
(***************************************************************************)
Explained(t) ==
    \/ stage[spentOn[t]] = "lost"
    \/ token[t].profile \notin Supported
    \/ /\ told[spentOn[t]] # None
       /\ ~told[spentOn[t]].retryable
       /\ told[spentOn[t]].code \notin TokenError

(***************************************************************************)
(* An explanation lasts.                                                   *)
(***************************************************************************)
LEMMA ExplanationLasts ==
    ASSUME EnrollmentTypeOK, SpenderInv, [Next]_vars, NEW t \in Token,
           token[t] # None, token[t].consumed, Explained(t),
           spentOn'[t] = spentOn[t], token'[t].profile = token[t].profile
    PROVE  Explained(t)'
<1>1. spentOn[t] \in Session
  BY DEF SpenderInv
<1>2. told[spentOn[t]] # None => stage[spentOn[t]] = "closed"
  BY <1>1 DEF SpenderInv
<1>3. QED
  BY <1>1, <1>2, EndsAreFinal DEF Explained, Final

(***************************************************************************)
(* Every step leaves wasted tokens explained.                              *)
(***************************************************************************)
LEMMA ExplainStep ==
    ASSUME EnrollmentTypeOK, PairInv, ExplainInv, [Next]_vars
    PROVE  WastedTokenExplained'
<1> SUFFICES ASSUME NEW t \in Token, Wasted(t)'
             PROVE  Explained(t)'
  BY DEF WastedTokenExplained, Explained
<1>1. ConnectionsOK /\ TablesOK /\ HistoryOK /\ SpenderInv
  BY DEF EnrollmentTypeOK, ConnectionsOK, TablesOK, HistoryOK, ExplainInv
<1>2. Wasted(t) => Explained(t)
  BY DEF ExplainInv, WastedTokenExplained, Explained
<1>3. token'[t] # None /\ token'[t].consumed /\ t \notin paired'
      /\ ~Attempted(t)'
  BY DEF Wasted
<1>4. ASSUME Wasted(t), spentOn'[t] = spentOn[t],
             token'[t].profile = token[t].profile
      PROVE  Explained(t)'
  BY <1>1, <1>2, <1>4, ExplanationLasts DEF Wasted
<1>5. CASE Quiet
  <2>1. UNCHANGED <<token, paired, spentOn>>
    BY <1>5 DEF Quiet
  <2>2. CASE ~Attempted(t)
    <3>1. Wasted(t)
      BY <1>3, <2>1, <2>2 DEF Wasted
    <3>2. QED
      BY <1>4, <2>1, <3>1
  <2>3. CASE Attempted(t)
    <3>1. task # None /\ t = task.frame.token /\ task' = None
      BY <1>3, <1>5, <2>3 DEF Attempted, Quiet
    <3>2. spentOn[t] = task.session /\ task.session \in Session
          /\ stage[task.session] = "enrollment"
      BY <1>1, <3>1 DEF SpenderInv, TablesOK, Attempt
    <3>3. CASE EnrollmentChallenge \/ AlreadyEnrolled
      <4>1. task \in Attempt
        BY <1>1, <3>1 DEF TablesOK
      <4>2. [task EXCEPT !.next = "device"] # None
        BY <4>1, NoRecord DEF Attempt
      <4>3. PICK code \in {"invalid_challenge", "enrollment_signature_invalid",
                           "device_revoked", "device_already_enrolled"} :
                Refuse(task.session, code, "enrollment")
        BY <3>1, <3>3, <4>2 DEF EnrollmentChallenge, AlreadyEnrolled
      <4>4. told'[task.session] = RelayDiagnostic(code, "enrollment")
        BY <1>1, <3>2, <4>3 DEF Refuse, ConnectionsOK
      <4>5. QED
        BY <2>1, <3>2, <4>4, ToldTheReason DEF Explained
    <3>4. CASE ProfileUnknown
      BY <2>1, <3>1, <3>4 DEF ProfileUnknown, Explained
    <3>5. CASE Crash
      BY <1>1, <2>1, <3>2, <3>5 DEF Crash, Explained, ConnectionsOK
    <3>6. EnrollmentChallenge \/ AlreadyEnrolled \/ ProfileUnknown \/ Crash
      <4>1. ~EnrollDevice
        BY <1>3, <2>1, <3>1 DEF EnrollDevice
      <4>2. ~UNCHANGED vars
        BY <3>1 DEF vars
      <4>3. QED
        BY <3>1, <4>1, <4>2
           DEF Next, HandshakeStep, CompleteEnrollment, OperatorStep, Accept,
               SecondChallenge, Timeout, Drop, RefuseToken, ConsumeToken,
               RefuseChallenge, Authenticate, Malformed,
               UnreadableFrame, IssueToken, RevokeDevice, DeleteRevokedDevice, Tick
    <3>7. QED
      BY <3>3, <3>4, <3>5, <3>6
  <2>4. QED
    BY <2>2, <2>3
<1>6. ASSUME NEW s \in Session, NEW f \in EnrollFrame, ConsumeToken(s, f)
      PROVE  Explained(t)'
  <2>1. task = None /\ UNCHANGED paired
        /\ task' = [session |-> s, frame |-> f, next |-> "challenge"]
        /\ token' = [token EXCEPT ![f.token] = Consumed(token[f.token])]
        /\ spentOn' = [spentOn EXCEPT ![f.token] = s]
    BY <1>6 DEF ConsumeToken
  <2>2. task' \in Attempt /\ task'.frame = f
    BY <2>1 DEF Attempt
  <2>3. t # f.token
    BY <1>3, <2>2, NoRecord DEF Attempted
  <2>4. token'[t] = token[t] /\ spentOn'[t] = spentOn[t]
    BY <1>1, <2>1, <2>3 DEF TablesOK, HistoryOK
  <2>5. Wasted(t)
    BY <1>3, <2>1, <2>4 DEF Wasted, Attempted
  <2>6. QED
    BY <1>4, <2>4, <2>5
<1>7. CASE EnrollDevice
  <2>1. UNCHANGED <<token, spentOn>> /\ paired' = paired \union {task.frame.token}
    BY <1>7 DEF EnrollDevice
  <2>2. Wasted(t)
    BY <1>3, <2>1 DEF Wasted, Attempted
  <2>3. QED
    BY <1>4, <2>1, <2>2
<1>8. CASE OperatorStep
  <2>1. task = None /\ UNCHANGED <<paired, spentOn>>
    BY <1>8 DEF OperatorStep, IssueToken, RevokeDevice, DeleteRevokedDevice,
                history
  <2>2. token'[t] = token[t]
    BY <1>1, <1>3, <1>8 DEF OperatorStep, IssueToken, RevokeDevice,
                            DeleteRevokedDevice, TablesOK
  <2>3. Wasted(t)
    BY <1>3, <2>1, <2>2 DEF Wasted, Attempted
  <2>4. QED
    BY <1>4, <2>1, <2>2, <2>3
<1>9. CASE Tick
  <2>1. task = None /\ UNCHANGED <<paired, spentOn>>
        /\ token'[t] = Aged(token[t])
    BY <1>9 DEF Tick, history
  <2>2. token[t] # None /\ token[t].consumed
        /\ token'[t].profile = token[t].profile
    BY <1>1, <1>3, <2>1, AgedToken DEF TablesOK
  <2>3. Wasted(t)
    BY <1>3, <2>1, <2>2 DEF Wasted, Attempted
  <2>4. QED
    BY <1>4, <2>1, <2>2, <2>3
<1>10. QED
  BY <1>5, <1>6, <1>7, <1>8, <1>9, StepCases

(***************************************************************************)
(* A token spent for nothing was explained to the client that spent it, or *)
(* the client was lost with the process or by its own doing, or the        *)
(* operator had named a profile that does not exist.                       *)
(***************************************************************************)
THEOREM WasteIsExplained == Spec => []WastedTokenExplained
<1>1. Init => ExplainInv
  BY DEF Init, ExplainInv, SpenderInv, WastedTokenExplained, Wasted
<1>2. EnrollmentTypeOK /\ PairInv /\ ExplainInv /\ [Next]_vars => ExplainInv'
  BY SpenderStep, ExplainStep DEF ExplainInv
<1>3. ExplainInv => WastedTokenExplained
  BY DEF ExplainInv
<1>4. QED
  BY <1>1, <1>2, <1>3, PairInvariant, PTL DEF Spec
=============================================================================
