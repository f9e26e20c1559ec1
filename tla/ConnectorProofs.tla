--------------------------- MODULE ConnectorProofs ---------------------------
(***************************************************************************)
(* Proofs about Connector, for every value of its constants: it implements *)
(* Commands and Presence, so their theorems hold of it, and commands reach *)
(* live devices only.                                                      *)
(*                                                                         *)
(* Each of the two refinements needs a fact the other component keeps: the *)
(* epoch a command is routed by is that of a well-typed row, and an answer *)
(* arrives on a WebSocket.  The invariants of the two are therefore        *)
(* carried together, and every step of the connector is shown to be a step *)
(* of each under both.                                                     *)
(***************************************************************************)
EXTENDS Connector, TLAPS

CmdP == INSTANCE CommandsProofs
PrsP == INSTANCE PresenceProofs

(***************************************************************************)
(* The assumptions of the two components.                                  *)
(***************************************************************************)
LEMMA ComponentAssumptions ==
    /\ None \notin CmdP!Row
    /\ None \notin CmdP!Outcome \union CmdP!Refusal
    /\ None \notin PrsP!LiveRow
    /\ None \notin Session
    /\ None \notin [connector : Connector, instance : Instance]
    /\ None \notin Call \union SignedId
    /\ {MaxCrashes, MaxTime, MaxEpoch} \subseteq Nat
BY ConnectorAssumption, ConnectorNoneAssumption
   DEF Cmd!Row, CmdP!Row, Cmd!Rid, CmdP!Rid, Cmd!Outcome, CmdP!Outcome,
       Cmd!Refusal, CmdP!Refusal, Cmd!Result, CmdP!Result, Cmd!Failure,
       CmdP!Failure, Cmd!Peer, Prs!LiveRow, PrsP!LiveRow, Prs!OnlineRow,
       PrsP!OnlineRow, Prs!OfflineRow, PrsP!OfflineRow, Prs!Epoch, PrsP!Epoch,
       Prs!Time, PrsP!Time

(***************************************************************************)
(* CommandsProofs and PresenceProofs extend the modules that Connector     *)
(* instantiates: their definitions are the same, one by one.               *)
(***************************************************************************)
LEMMA SameCommands ==
    /\ CmdP!Init <=> Cmd!Init
    /\ [CmdP!Next]_(CmdP!vars) <=> [Cmd!Next]_(Cmd!vars)
BY
   DEF Cmd!Init, CmdP!Init, Cmd!Next, CmdP!Next, Cmd!vars, CmdP!vars,
       Cmd!RelayInit, CmdP!RelayInit, Cmd!CommandsInit, CmdP!CommandsInit,
       Cmd!CallStep, CmdP!CallStep, Cmd!CancelStep, CmdP!CancelStep,
       Cmd!DeviceStep, CmdP!DeviceStep, Cmd!SessionStep, CmdP!SessionStep,
       Cmd!Crash, CmdP!Crash, Cmd!relayVars, CmdP!relayVars,
       Cmd!commandVars, CmdP!commandVars, Cmd!Rid, CmdP!Rid, Cmd!Guard,
       CmdP!Guard, Cmd!Slot, CmdP!Slot, Cmd!NotDispatched,
       CmdP!NotDispatched, Cmd!Request, CmdP!Request, Cmd!RidsOf,
       CmdP!RidsOf, Cmd!Begin, CmdP!Begin, Cmd!SendReturns,
       CmdP!SendReturns, Cmd!SendFails, CmdP!SendFails, Cmd!Resume,
       CmdP!Resume, Cmd!TimeOut, CmdP!TimeOut, Cmd!CancelRequest,
       CmdP!CancelRequest, Cmd!CancelResolves, CmdP!CancelResolves,
       Cmd!CancelFails, CmdP!CancelFails, Cmd!AnswerAccepted,
       CmdP!AnswerAccepted, Cmd!AnswerUnmatched, CmdP!AnswerUnmatched,
       Cmd!Peer, CmdP!Peer, Cmd!Connect, CmdP!Connect, Cmd!SessionFails,
       CmdP!SessionFails, Cmd!EndSession, CmdP!EndSession,
       Cmd!LoseSessions, CmdP!LoseSessions, Cmd!LoseCommands,
       CmdP!LoseCommands, Cmd!callVars, CmdP!callVars, Cmd!Answered,
       CmdP!Answered, Cmd!Conflict, CmdP!Conflict, Cmd!StillPending,
       CmdP!StillPending, Cmd!Replay, CmdP!Replay, Cmd!Busy, CmdP!Busy,
       Cmd!Dispatch, CmdP!Dispatch, Cmd!Settle, CmdP!Settle,
       Cmd!OutcomesOf, CmdP!OutcomesOf, Cmd!TimerFires, CmdP!TimerFires,
       Cmd!Serving, CmdP!Serving, Cmd!HasWaiter, CmdP!HasWaiter,
       Cmd!WaiterFor, CmdP!WaiterFor, Cmd!StartClosing, CmdP!StartClosing,
       Cmd!Register, CmdP!Register, Cmd!FailSuperseded,
       CmdP!FailSuperseded, Cmd!Remove, CmdP!Remove, Cmd!FailRemoved,
       CmdP!FailRemoved, Cmd!Live, CmdP!Live, Cmd!InFlight, CmdP!InFlight,
       Cmd!Routed, CmdP!Routed, Cmd!ClaimIsNew, CmdP!ClaimIsNew,
       Cmd!SameDigest, CmdP!SameDigest, Cmd!SlotOf, CmdP!SlotOf,
       Cmd!GuardHeld, CmdP!GuardHeld, Cmd!ClaimedLedger,
       CmdP!ClaimedLedger, Cmd!AcquiredGuard, CmdP!AcquiredGuard,
       Cmd!ReleasedGuard, CmdP!ReleasedGuard, Cmd!CompletedLedger,
       CmdP!CompletedLedger, Cmd!FailPending, CmdP!FailPending,
       Cmd!IsRegistered, CmdP!IsRegistered, Cmd!Guarded, CmdP!Guarded,
       Cmd!GuardOf, CmdP!GuardOf, Cmd!AwaitedOn, CmdP!AwaitedOn

(***************************************************************************)
(* The same of Presence.                                                   *)
(***************************************************************************)
LEMMA SamePresence ==
    /\ PrsP!PresenceInit <=> Prs!PresenceInit
    /\ [PrsP!PresenceNext]_(PrsP!allVars) <=> [Prs!PresenceNext]_(Prs!allVars)
BY
   DEF Prs!PresenceInit, PrsP!PresenceInit, Prs!PresenceNext,
       PrsP!PresenceNext, Prs!allVars, PrsP!allVars, Prs!RelayInit,
       PrsP!RelayInit, Prs!Peer, PrsP!Peer, Prs!Epoch, PrsP!Epoch,
       Prs!Authenticate, PrsP!Authenticate, Prs!Heartbeat, PrsP!Heartbeat,
       Prs!RejectHeartbeat, PrsP!RejectHeartbeat, Prs!FailSession,
       PrsP!FailSession, Prs!DropSession, PrsP!DropSession, Prs!Enroll,
       PrsP!Enroll, Prs!Revoke, PrsP!Revoke, Prs!DeleteRevoked,
       PrsP!DeleteRevoked, Prs!Read, PrsP!Read, Prs!Tick, PrsP!Tick,
       Prs!Restart, PrsP!Restart, Prs!relayVars, PrsP!relayVars,
       Prs!presenceVars, PrsP!presenceVars, Prs!MayAuthenticate,
       PrsP!MayAuthenticate, Prs!Register, PrsP!Register, Prs!Upserted,
       PrsP!Upserted, Prs!Serving, PrsP!Serving, Prs!HeartbeatAccepted,
       PrsP!HeartbeatAccepted, Prs!Beaten, PrsP!Beaten, Prs!StartClosing,
       PrsP!StartClosing, Prs!Remove, PrsP!Remove, Prs!IsRegistered,
       PrsP!IsRegistered, Prs!Disconnected, PrsP!Disconnected,
       Prs!ClosedOf, PrsP!ClosedOf, Prs!Swept, PrsP!Swept,
       Prs!LoseSessions, PrsP!LoseSessions, Prs!Online, PrsP!Online,
       Prs!Live, PrsP!Live, Prs!Closed, PrsP!Closed, Prs!IsStale,
       PrsP!IsStale

-----------------------------------------------------------------------------
(***************************************************************************)
(* What each component needs of the other.                                 *)
(***************************************************************************)
RoutedEpochs == \A i \in Instance : row[i] # None => row[i].epoch \in Prs!Epoch

AnsweredSessions == \A c \in owed : sess[c] \in Session

(***************************************************************************)
(* A call that is owed an answer was dispatched on a WebSocket.            *)
(***************************************************************************)
LEMMA OwedOnSession ==
    ASSUME CmdP!IInv
    PROVE  AnsweredSessions
<1>1. sess \in [Call -> Session \union {None}] /\ owed \subseteq Call
  BY DEF CmdP!IInv, CmdP!TypeOK
<1>2. \A c \in owed : sess[c] # None
  BY DEF CmdP!IInv, CmdP!CallInv, CmdP!Dispatched
<1>3. QED
  BY <1>1, <1>2 DEF AnsweredSessions

(***************************************************************************)
(* The epoch of a row is one.                                              *)
(***************************************************************************)
LEMMA EpochOfRow ==
    ASSUME PrsP!PInv
    PROVE  RoutedEpochs
<1>1. row \in [Instance -> PrsP!LiveRow \union {None}]
  BY DEF PrsP!PInv, PrsP!PresenceTypeOK
<1>2. \A r \in PrsP!LiveRow : r.epoch \in Prs!Epoch
  BY DEF PrsP!LiveRow, PrsP!OnlineRow, PrsP!OfflineRow, PrsP!Epoch, Prs!Epoch
<1>3. QED
  BY <1>1, <1>2 DEF RoutedEpochs

(***************************************************************************)
(* A routed row is one of the table, online and fresh, and its process is  *)
(* the one registered.                                                     *)
(***************************************************************************)
LEMMA RouteFields ==
    ASSUME NEW d, NEW pinned, NEW i \in RoutesOf(d, pinned)
    PROVE  /\ i \in Instance
           /\ Prs!Fresh(i)
           /\ row[i] # None /\ row[i].state = "online"
           /\ row[i].connector = d
           /\ registered[d] # None
           /\ peer[registered[d]].instance = i
BY DEF RoutesOf, Prs!LatestOf, Prs!FreshOf, Prs!Fresh, Prs!Online, Prs!Reaches

(***************************************************************************)
(* Every step of the connector is a step of Commands or changes nothing of *)
(* it.                                                                     *)
(***************************************************************************)
LEMMA CommandsStep ==
    ASSUME RoutedEpochs, [ConnectorNext]_connectorVars
    PROVE  [Cmd!Next]_(Cmd!vars)
<1> USE DEF Cmd!Next, Cmd!relayVars, presenceVars
<1>1. ASSUME NEW c \in Call, RefuseCommand(c)
      PROVE  Cmd!Next
  BY <1>1 DEF RefuseCommand, Cmd!CallStep
<1>2. ASSUME NEW c \in Call, NEW r \in Cmd!Request, r.rid \in Cmd!RidsOf(c),
             NEW pinned, RouteCommand(c, r, pinned)
      PROVE  Cmd!Next
  <2>1. PICK i \in RoutesOf(r.connector, pinned) :
           Cmd!Begin(c, r, <<i, row[i].epoch>>)
    BY <1>2 DEF RouteCommand
  <2>2. <<i, row[i].epoch>> \in Context
    BY RouteFields DEF Context, RoutedEpochs
  <2>3. QED
    BY <1>2, <2>1, <2>2 DEF RouteCommand, Cmd!CallStep
<1>3. ASSUME NEW c \in Call,
             \/ Cmd!SendReturns(c)
             \/ Cmd!SendFails(c)
             \/ Cmd!Resume(c)
             \/ Cmd!TimeOut(c),
             UNCHANGED <<stage, peer, registered>>
      PROVE  Cmd!Next
  BY <1>3 DEF Cmd!CallStep
<1>4. ASSUME NEW c \in Call, Cmd!AnswerAccepted(c) \/ Cmd!AnswerUnmatched(c)
      PROVE  Cmd!Next
  BY <1>4 DEF Cmd!DeviceStep
<1>5. ASSUME NEW o \in Operator, NEW d \in Connector, NEW id \in Cmd!Rid,
             CancelCommand(o, d, id)
      PROVE  Cmd!Next
  BY <1>5 DEF CancelCommand, Cmd!CancelStep
<1>6. ASSUME NEW o \in Operator, Cmd!CancelResolves(o) \/ Cmd!CancelFails(o),
             UNCHANGED <<stage, peer, registered>>
      PROVE  Cmd!Next
  BY <1>6 DEF Cmd!CancelStep
<1>7. ASSUME NEW s \in Session, NEW p \in Cmd!Peer, NEW e \in Prs!Epoch,
             OpenSession(s, p, e)
      PROVE  Cmd!Next
  BY <1>7 DEF OpenSession, Cmd!SessionStep
<1>8. ASSUME NEW s \in Session, BreakSession(s) \/ CloseSession(s)
      PROVE  Cmd!Next
  BY <1>8 DEF BreakSession, CloseSession, Cmd!SessionStep
<1>9. ASSUME NEW s \in Session, NEW e \in Prs!Epoch, Prs!Heartbeat(s, e),
             UNCHANGED commandVars
      PROVE  UNCHANGED Cmd!vars
  BY <1>9
     DEF Prs!Heartbeat, Prs!relayVars, commandVars, Cmd!vars, Cmd!commandVars,
         Cmd!callVars
<1>10. CASE OtherStep
  <2>1. UNCHANGED <<stage, peer, registered>>
    BY <1>10
       DEF OtherStep, Prs!Enroll, Prs!Revoke, Prs!DeleteRevoked, Prs!Read,
           Prs!Tick, Prs!relayVars
  <2>2. UNCHANGED Cmd!vars
    BY <1>10, <2>1
       DEF OtherStep, commandVars, Cmd!vars, Cmd!commandVars, Cmd!callVars
  <2>3. QED
    BY <2>2
<1>11. CASE CrashConnector
  BY <1>11 DEF CrashConnector
<1>12. CASE UNCHANGED connectorVars
  BY <1>12
     DEF connectorVars, commandVars, Cmd!vars, Cmd!commandVars, Cmd!callVars
<1>13. CASE CommandStep
  BY <1>1, <1>2, <1>3, <1>4, <1>5, <1>6, <1>13 DEF CommandStep
<1>14. CASE SessionStep
  BY <1>7, <1>8, <1>9, <1>14 DEF SessionStep
<1>15. QED
  BY <1>10, <1>11, <1>12, <1>13, <1>14 DEF ConnectorNext

(***************************************************************************)
(* Every step of the connector is a step of Presence or changes nothing of *)
(* it: the sweep before a command is routed is a Read, and an answer that  *)
(* nobody waits for ends its session.                                      *)
(***************************************************************************)
LEMMA PresenceStep ==
    ASSUME AnsweredSessions, [ConnectorNext]_connectorVars
    PROVE  [Prs!PresenceNext]_(Prs!allVars)
<1> USE DEF Prs!PresenceNext, Prs!relayVars, Prs!presenceVars, presenceVars
<1>1. ASSUME row' \in {row, Prs!Swept},
             UNCHANGED <<stage, peer, registered, now, device>>
      PROVE  [Prs!PresenceNext]_(Prs!allVars)
  BY <1>1 DEF Prs!Read, Prs!allVars
<1>2. ASSUME UNCHANGED <<stage, peer, registered, presenceVars>>
      PROVE  [Prs!PresenceNext]_(Prs!allVars)
  BY <1>2 DEF Prs!allVars
<1>3. CASE CommandStep
  <2>1. ASSUME NEW c \in Call,
               \/ RefuseCommand(c)
               \/ \E r \in Cmd!Request, pinned \in Instance \union {None} :
                     RouteCommand(c, r, pinned)
        PROVE  [Prs!PresenceNext]_(Prs!allVars)
    BY <1>1, <2>1 DEF RefuseCommand, RouteCommand
  <2>2. ASSUME NEW c \in Call, Cmd!AnswerAccepted(c), UNCHANGED presenceVars
        PROVE  [Prs!PresenceNext]_(Prs!allVars)
    BY <1>2, <2>2 DEF Cmd!AnswerAccepted, Cmd!relayVars
  <2>3. ASSUME NEW c \in Call, Cmd!AnswerUnmatched(c), UNCHANGED presenceVars
        PROVE  Prs!PresenceNext
    <3>1. sess[c] \in Session
      BY <2>3 DEF Cmd!AnswerUnmatched, AnsweredSessions
    <3>2. Prs!FailSession(sess[c])
      BY <2>3
         DEF Cmd!AnswerUnmatched, Cmd!StartClosing, Cmd!Serving,
             Prs!FailSession, Prs!StartClosing, Prs!Serving
    <3>3. QED
      BY <3>1, <3>2
  <2>4. ASSUME NEW o \in Operator, NEW d \in Connector, NEW id \in Cmd!Rid,
               CancelCommand(o, d, id)
        PROVE  [Prs!PresenceNext]_(Prs!allVars)
    BY <1>1, <2>4 DEF CancelCommand
  <2>5. QED
    BY <1>2, <1>3, <2>1, <2>2, <2>3, <2>4 DEF CommandStep
<1>4. CASE SessionStep
  <2>1. ASSUME NEW s \in Session, NEW p \in Cmd!Peer, NEW e \in Prs!Epoch,
               OpenSession(s, p, e)
        PROVE  Prs!PresenceNext
    BY <2>1 DEF OpenSession, Cmd!Peer, Prs!Peer
  <2>2. ASSUME NEW s \in Session,
               \/ \E e \in Prs!Epoch : Prs!Heartbeat(s, e)
               \/ BreakSession(s)
               \/ CloseSession(s)
        PROVE  Prs!PresenceNext
    BY <2>2 DEF BreakSession, CloseSession
  <2>3. QED
    BY <1>4, <2>1, <2>2 DEF SessionStep
<1>5. CASE OtherStep
  BY <1>5 DEF OtherStep
<1>6. CASE CrashConnector
  BY <1>6 DEF CrashConnector
<1>7. CASE UNCHANGED connectorVars
  BY <1>2, <1>7 DEF connectorVars
<1>8. QED
  BY <1>3, <1>4, <1>5, <1>6, <1>7 DEF ConnectorNext

-----------------------------------------------------------------------------
(***************************************************************************)
(* The invariants of both, carried together.                               *)
(***************************************************************************)
JInv == CmdP!IInv /\ PrsP!PInv

(***************************************************************************)
(* The two invariants feed each other's step.                              *)
(***************************************************************************)
LEMMA JointStep ==
    ASSUME JInv, [ConnectorNext]_connectorVars
    PROVE  /\ [Cmd!Next]_(Cmd!vars)
           /\ [Prs!PresenceNext]_(Prs!allVars)
           /\ JInv'
<1>1. [Cmd!Next]_(Cmd!vars)
  BY EpochOfRow, CommandsStep DEF JInv
<1>2. [Prs!PresenceNext]_(Prs!allVars)
  BY OwedOnSession, PresenceStep DEF JInv
<1>3. CmdP!IInv'
  <2>1. CmdP!IInv /\ [CmdP!Next]_(CmdP!vars)
    BY <1>1, SameCommands DEF JInv
  <2>2. QED
    BY <2>1, CmdP!InvStep, ConnectorAssumption, ComponentAssumptions
<1>4. PrsP!PInv'
  <2>1. PrsP!PInv /\ [PrsP!PresenceNext]_(PrsP!allVars)
    BY <1>2, SamePresence DEF JInv
  <2>2. QED
    BY <2>1, PrsP!PInvStep, ConnectorAssumption, ComponentAssumptions
<1>5. QED
  BY <1>1, <1>2, <1>3, <1>4 DEF JInv

(***************************************************************************)
(* Both invariants hold of every behaviour of the connector.               *)
(***************************************************************************)
THEOREM JointInvariant == ConnectorSpec => []JInv
<1>1. ConnectorInit => JInv
  <2>1. ConnectorInit => CmdP!Init /\ PrsP!PresenceInit
    BY SameCommands, SamePresence DEF ConnectorInit
  <2>2. CmdP!Init => CmdP!IInv
    BY CmdP!InitInv, ConnectorAssumption, ComponentAssumptions
  <2>3. PrsP!PresenceInit => PrsP!PInv
    BY PrsP!PresenceInitInv, ConnectorAssumption, ComponentAssumptions
  <2>4. QED
    BY <2>1, <2>2, <2>3 DEF JInv
<1>2. JInv /\ [ConnectorNext]_connectorVars => JInv'
  BY JointStep
<1>3. QED
  BY <1>1, <1>2, PTL DEF ConnectorSpec

(***************************************************************************)
(* The process does what Commands specifies of device_command and          *)
(* cancel_request, whatever presence does.                                 *)
(***************************************************************************)
THEOREM CommandsImplemented == ConnectorSpec => ImplementsCommands
<1>1. ConnectorInit => Cmd!Init
  BY DEF ConnectorInit
<1>2. JInv /\ [ConnectorNext]_connectorVars => [Cmd!Next]_(Cmd!vars)
  BY JointStep
<1>3. QED
  BY <1>1, <1>2, JointInvariant, PTL
     DEF ConnectorSpec, ImplementsCommands, Cmd!Spec

(***************************************************************************)
(* The process does what Presence specifies of heartbeats, sweeps and      *)
(* enrollment, whatever the commands do.                                   *)
(***************************************************************************)
THEOREM PresenceImplemented == ConnectorSpec => ImplementsPresence
<1>1. ConnectorInit => Prs!PresenceInit
  BY DEF ConnectorInit
<1>2. JInv /\ [ConnectorNext]_connectorVars
         => [Prs!PresenceNext]_(Prs!allVars)
  BY JointStep
<1>3. QED
  BY <1>1, <1>2, JointInvariant, PTL
     DEF ConnectorSpec, ImplementsPresence, Prs!PresenceSpec

(***************************************************************************)
(* What the command path and the presence path keep apart, the process     *)
(* keeps as a whole, with every step of a session taken in both.           *)
(***************************************************************************)
ProcessInvariants ==
    /\ CmdP!GuardExclusive /\ CmdP!GuardHasHolder
    /\ CmdP!WaiterIsReachable /\ CmdP!ReplyIsRecorded
    /\ PrsP!RevokedIsOffline /\ PrsP!RoutedByOwnRow /\ PrsP!ReapedAtHeartbeat

(***************************************************************************)
(* The invariants of both components hold in every state of the process.   *)
(***************************************************************************)
THEOREM ProcessIsSafe == ConnectorSpec => []ProcessInvariants
<1>1. JInv => ProcessInvariants
  BY DEF JInv, ProcessInvariants, CmdP!IInv, CmdP!ReplyInv,
         CmdP!ReplyIsRecorded, PrsP!PInv, PrsP!OwnRowInv,
         PrsP!RoutedByOwnRow, PrsP!FreshOf, PrsP!Fresh, PrsP!Online
<1>2. QED
  BY <1>1, JointInvariant, PTL

(***************************************************************************)
(* The process keeps to Idempotency though commands are routed by rows     *)
(* that heartbeats, sweeps, revocations and reconnects rewrite: the        *)
(* context_epoch that enters a digest may change between a command and its *)
(* retry, and no more comes of it than a conflict.                         *)
(***************************************************************************)
THEOREM ProcessIsIdempotent == ConnectorSpec => CmdP!ImplementsIdempotency
<1>1. ConnectorInit => CmdP!Idm!Init
  <2>1. ConnectorInit => CmdP!Init
    BY SameCommands DEF ConnectorInit
  <2>2. CmdP!Init => CmdP!Idm!Init
    BY CmdP!IdempotencyInit, ConnectorAssumption, ComponentAssumptions
  <2>3. QED
    BY <2>1, <2>2
<1>2. JInv /\ [ConnectorNext]_connectorVars
        => [CmdP!Idm!Next]_(CmdP!Idm!vars)
  <2> SUFFICES ASSUME JInv, [ConnectorNext]_connectorVars
               PROVE  [CmdP!Idm!Next]_(CmdP!Idm!vars)
    OBVIOUS
  <2>1. CmdP!IInv /\ [CmdP!Next]_(CmdP!vars)
    BY JointStep, SameCommands DEF JInv
  <2>2. QED
    BY <2>1, CmdP!IdempotencyStep, ConnectorAssumption, ComponentAssumptions
<1>3. QED
  BY <1>1, <1>2, JointInvariant, PTL
     DEF ConnectorSpec, CmdP!ImplementsIdempotency, CmdP!Idm!Spec

-----------------------------------------------------------------------------
(***************************************************************************)
(* A command is sent where it was routed: only RouteCommand dispatches.    *)
(***************************************************************************)
LEMMA NewDispatch ==
    ASSUME JInv, [ConnectorNext]_connectorVars,
           NEW c \in Call, sess[c] = None, sess'[c] # None
    PROVE  \E r \in Cmd!Request, pinned \in Instance \union {None} :
           \E i \in RoutesOf(r.connector, pinned) :
              /\ Cmd!Dispatch(c, r, <<i, row[i].epoch>>)
              /\ UNCHANGED <<stage, peer, registered, now, device>>
<1>1. sess \in [Call -> Session \union {None}]
  BY DEF JInv, CmdP!IInv, CmdP!TypeOK
<1>2. sess' # sess
  OBVIOUS
<1>3. ASSUME NEW e \in Call, RefuseCommand(e)
      PROVE  sess' = sess
  BY <1>3 DEF RefuseCommand, Cmd!NotDispatched, Cmd!Answered
<1>4. ASSUME NEW e \in Call, NEW r \in Cmd!Request,
             NEW pinned \in Instance \union {None}, RouteCommand(e, r, pinned)
      PROVE  \E i \in RoutesOf(r.connector, pinned) :
                /\ Cmd!Dispatch(c, r, <<i, row[i].epoch>>)
                /\ UNCHANGED <<stage, peer, registered, now, device>>
  <2>1. PICK i \in RoutesOf(r.connector, pinned) :
           Cmd!Begin(e, r, <<i, row[i].epoch>>)
    BY <1>4 DEF RouteCommand
  <2>2. Cmd!Dispatch(e, r, <<i, row[i].epoch>>)
    BY <1>2, <2>1
       DEF Cmd!Begin, Cmd!Conflict, Cmd!StillPending, Cmd!Replay, Cmd!Busy,
           Cmd!Answered
  <2>3. e = c
    BY <1>1, <2>2 DEF Cmd!Dispatch
  <2>4. QED
    BY <1>4, <2>2, <2>3 DEF RouteCommand
<1>5. ASSUME NEW e \in Call,
             \/ Cmd!SendReturns(e)
             \/ Cmd!SendFails(e)
             \/ Cmd!Resume(e)
             \/ Cmd!TimeOut(e)
             \/ Cmd!AnswerAccepted(e)
             \/ Cmd!AnswerUnmatched(e)
      PROVE  sess' = sess
  BY <1>5
     DEF Cmd!SendReturns, Cmd!SendFails, Cmd!Resume, Cmd!TimeOut, Cmd!Settle,
         Cmd!AnswerAccepted, Cmd!AnswerUnmatched, Cmd!callVars
<1>6. ASSUME NEW o \in Operator,
             \/ \E d \in Connector, id \in Cmd!Rid : CancelCommand(o, d, id)
             \/ Cmd!CancelResolves(o)
             \/ Cmd!CancelFails(o)
      PROVE  sess' = sess
  BY <1>6
     DEF CancelCommand, Cmd!CancelRequest, Cmd!CancelResolves,
         Cmd!CancelFails, Cmd!callVars
<1>7. CASE SessionStep
  BY <1>7
     DEF SessionStep, OpenSession, BreakSession, CloseSession, commandVars,
         Cmd!Connect, Cmd!SessionFails, Cmd!EndSession, Cmd!callVars,
         Cmd!commandVars
<1>8. CASE OtherStep \/ CrashConnector \/ UNCHANGED connectorVars
  BY <1>8
     DEF OtherStep, CrashConnector, Cmd!Crash, Cmd!LoseCommands,
         connectorVars, commandVars
<1>9. QED
  BY <1>2, <1>3, <1>4, <1>5, <1>6, <1>7, <1>8 DEF ConnectorNext, CommandStep

(***************************************************************************)
(* The row a command is routed by is fresh, of an enrolled device, and     *)
(* that of the very connection the frame is written to.                    *)
(***************************************************************************)
LEMMA DispatchStep ==
    ASSUME JInv, [ConnectorNext]_connectorVars
    PROVE  DispatchIsLive
<1> SUFFICES ASSUME NEW c \in Call, sess[c] = None, sess'[c] # None
             PROVE  /\ device[req'[c].connector] = "enrolled"
                    /\ Prs!Fresh(peer[sess'[c]].instance)
                    /\ row[peer[sess'[c]].instance].connector
                         = req'[c].connector
                    /\ row[peer[sess'[c]].instance].generation = sess'[c]
  BY DEF DispatchIsLive
<1>1. PICK r \in Cmd!Request, pinned \in Instance \union {None} :
        \E i \in RoutesOf(r.connector, pinned) :
           /\ Cmd!Dispatch(c, r, <<i, row[i].epoch>>)
           /\ UNCHANGED <<stage, peer, registered, now, device>>
  BY NewDispatch
<1>2. PICK i \in RoutesOf(r.connector, pinned) :
        Cmd!Dispatch(c, r, <<i, row[i].epoch>>)
  BY <1>1
<1>3. req'[c] = r /\ sess'[c] = registered[r.connector]
  BY <1>2 DEF Cmd!Dispatch, JInv, CmdP!IInv, CmdP!TypeOK
<1>4. r.connector \in Connector
  BY DEF Cmd!Request
<1>5. row[i].generation = registered[r.connector]
  BY <1>4, RouteFields DEF JInv, PrsP!PInv, PrsP!OwnRowInv, PrsP!Reaches
<1>6. device[r.connector] = "enrolled"
  BY <1>4, RouteFields
     DEF JInv, PrsP!PInv, PrsP!RevokedIsOffline, PrsP!Online
<1>7. QED
  BY <1>3, <1>5, <1>6, RouteFields

(***************************************************************************)
(* Frames go only to the WebSocket of a live, enrolled device.             *)
(***************************************************************************)
THEOREM LiveDeviceOnly == ConnectorSpec => DispatchedToLiveDevice
<1>1. JInv /\ [ConnectorNext]_connectorVars => [DispatchIsLive]_connectorVars
  BY DispatchStep
<1>2. QED
  BY <1>1, JointInvariant, PTL DEF ConnectorSpec, DispatchedToLiveDevice

-----------------------------------------------------------------------------
(***************************************************************************)
(* LedgerNamesProcess is inductive once the session of a dispatched call   *)
(* is known to have authenticated: its peer is then fixed.                 *)
(***************************************************************************)
KInv ==
    /\ LedgerNamesProcess
    /\ \A c \in Call : sess[c] # None => stage[sess[c]] # "new"

(***************************************************************************)
(* The digest is written by the claim that goes before the dispatch, for   *)
(* the fresh request_id of a new call is in no row, and neither the        *)
(* digest nor the session's peer changes later.                            *)
(***************************************************************************)
LEMMA KStep ==
    ASSUME JInv, KInv, [ConnectorNext]_connectorVars
    PROVE  KInv'
<1> USE DEF KInv, LedgerNamesProcess
<1>1. CmdP!IInv /\ [CmdP!Next]_(CmdP!vars)
  BY JointStep, SameCommands DEF JInv
<1>2. SUFFICES ASSUME NEW c \in Call, sess'[c] # None
               PROVE  /\ stage'[sess'[c]] # "new"
                      /\ req'[c].rid = c =>
                           LET digest == ledger'[Cmd!SlotOf(req'[c])].digest
                           IN  /\ digest[1] = req'[c].intent
                               /\ digest[2][1] = peer'[sess'[c]].instance
  BY DEF Cmd!SlotOf
<1>3. CASE sess[c] # None
  <2>1. req'[c] = req[c] /\ sess'[c] = sess[c]
    BY <1>1, <1>3, CmdP!SentStays, ConnectorAssumption, ComponentAssumptions
       DEF CmdP!Dispatched
  <2>2. /\ sess[c] \in Session
        /\ Cmd!SlotOf(req[c]) \in CmdP!Slot
        /\ ledger[Cmd!SlotOf(req[c])] # None
    BY <1>1, <1>3, CmdP!DispatchedCall, ConnectorAssumption,
       ComponentAssumptions
       DEF CmdP!Dispatched, CmdP!SlotOf, Cmd!SlotOf
  <2>3. stage'[sess[c]] # "new" /\ peer'[sess[c]] = peer[sess[c]]
    BY <1>1, <1>3, <2>2, CmdP!PeerStays, ConnectorAssumption,
       ComponentAssumptions
  <2>4. ledger'[Cmd!SlotOf(req[c])].digest = ledger[Cmd!SlotOf(req[c])].digest
    BY <1>1, <2>2, CmdP!DecidedRowStays, ConnectorAssumption,
       ComponentAssumptions
  <2>5. QED
    BY <1>3, <2>1, <2>3, <2>4
<1>4. CASE sess[c] = None
  <2>1. PICK r \in Cmd!Request, pinned \in Instance \union {None} :
          \E i \in RoutesOf(r.connector, pinned) :
             /\ Cmd!Dispatch(c, r, <<i, row[i].epoch>>)
             /\ UNCHANGED <<stage, peer, registered, now, device>>
    BY <1>2, <1>4, NewDispatch
  <2>2. PICK i \in RoutesOf(r.connector, pinned) :
          Cmd!Dispatch(c, r, <<i, row[i].epoch>>)
    BY <2>1
  <2>3. req'[c] = r /\ sess'[c] = registered[r.connector]
    BY <2>2 DEF Cmd!Dispatch, JInv, CmdP!IInv, CmdP!TypeOK
  <2>4. r.connector \in Connector /\ Cmd!SlotOf(r) \in CmdP!Slot
    BY DEF Cmd!Request, Cmd!SlotOf, CmdP!Slot
  <2>5. stage[registered[r.connector]] # "new"
    BY <2>4, RouteFields DEF JInv, PrsP!PInv, PrsP!SessionInv, PrsP!Live
  <2>6. ASSUME r.rid = c
        PROVE  ledger'[Cmd!SlotOf(r)].digest = <<r.intent, <<i, row[i].epoch>>>>
    <3>1. pc[c] = "idle" /\ Cmd!ClaimIsNew(r)
          /\ ledger' = Cmd!ClaimedLedger(r, <<i, row[i].epoch>>)
      BY <2>2 DEF Cmd!Dispatch
    <3>2. ledger[Cmd!SlotOf(r)] = None
      BY <1>1, <2>4, <2>6, <3>1
         DEF CmdP!IInv, CmdP!UnusedInv, Cmd!ClaimIsNew
    <3>3. QED
      BY <1>1, <2>4, <3>1, <3>2
         DEF Cmd!ClaimedLedger, CmdP!IInv, CmdP!TypeOK
  <2>7. peer[registered[r.connector]].instance = i
    BY RouteFields
  <2>8. stage' = stage /\ peer' = peer
    BY <2>1
  <2>9. QED
    BY <2>3, <2>5, <2>6, <2>7, <2>8
<1>5. QED
  BY <1>3, <1>4

(***************************************************************************)
(* The ledger names the intent and the process that a call was sent with.  *)
(***************************************************************************)
THEOREM LedgerNames == ConnectorSpec => []LedgerNamesProcess
<1>1. ConnectorInit => KInv
  BY DEF ConnectorInit, Cmd!Init, Cmd!CommandsInit, KInv, LedgerNamesProcess
<1>2. JInv /\ KInv /\ [ConnectorNext]_connectorVars => KInv'
  BY KStep
<1>3. KInv => LedgerNamesProcess
  BY DEF KInv
<1>4. QED
  BY <1>1, <1>2, <1>3, JointInvariant, PTL DEF ConnectorSpec
=============================================================================
