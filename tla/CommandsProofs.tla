--------------------------- MODULE CommandsProofs ---------------------------
(***************************************************************************)
(* Proofs about Commands, for every set of devices, calls, keys, intents,  *)
(* signed request_ids, contexts, connections and cancels.                  *)
(*                                                                         *)
(* The inductive invariant IInv strengthens the checked invariants with    *)
(* what relates a call to the three tables it is entered in: the ledger,   *)
(* the collision guard and the pending table of a session.                 *)
(***************************************************************************)
EXTENDS Commands, TLAPS

(***************************************************************************)
(* A registered session authenticated for that device, and its handle()    *)
(* has not reached the finally block.                                      *)
(***************************************************************************)
RegistryInv ==
    /\ \A s \in Session : Live(s) => peer[s] \in Peer
    /\ \A d \in Connector : registered[d] # None =>
          Live(registered[d]) /\ peer[registered[d]].connector = d

(***************************************************************************)
(* What a call has at each point of device_command.                        *)
(***************************************************************************)
CallInv ==
    /\ \A c \in Call :
          /\ pc[c] = "idle" => sess[c] = None /\ reply[c] = None
          /\ fut[c] = "unset" => InFlight(c)
          /\ InFlight(c) => Dispatched(c) /\ reply[c] = None
          /\ Dispatched(c) => req[c] \in Request /\ req[c].rid \in RidsOf(c)
    /\ \A c \in owed : Dispatched(c)

(***************************************************************************)
(* The row of a dispatched call carries its request_id, and is pending     *)
(* while a call with a fresh one is in flight.                             *)
(***************************************************************************)
KeyInv ==
    \A c \in Call : Dispatched(c) =>
       /\ ledger[SlotOf(req[c])] \in Row
       /\ ledger[SlotOf(req[c])].rid = req[c].rid
       /\ InFlight(c) /\ Fresh(c) => ledger[SlotOf(req[c])].outcome = "pending"

(***************************************************************************)
(* The uuid of a call that has not begun is in no row.                     *)
(***************************************************************************)
UnusedInv ==
    \A c \in Call, k \in Slot :
       pc[c] = "idle" /\ ledger[k] # None => ledger[k].rid # c

(***************************************************************************)
(* A guarded call in flight holds its collision slot.                      *)
(***************************************************************************)
HolderInv ==
    \A c \in Call : InFlight(c) /\ Guarded(req[c]) =>
       inFlight[GuardOf(req[c])] = req[c].rid

(***************************************************************************)
(* ReplyIsRecorded, with the row known to be there.                        *)
(***************************************************************************)
ReplyInv ==
    \A c \in Call : reply[c] \in Outcome /\ (Dispatched(c) => Fresh(c)) =>
       /\ req[c] \in Request
       /\ ledger[SlotOf(req[c])] \in Row
       /\ ledger[SlotOf(req[c])].outcome = reply[c]

IInv ==
    /\ TypeOK
    /\ RegistryInv
    /\ CallInv
    /\ KeyInv /\ UnusedInv
    /\ GuardExclusive /\ GuardHasHolder /\ HolderInv
    /\ WaiterIsReachable
    /\ ReplyInv

-----------------------------------------------------------------------------
(***************************************************************************)
(* The steps of Next, sorted by what they do to the state.                 *)
(***************************************************************************)
Refused(c) ==
    /\ \E r \in Request \union {None}, code \in Refusal : Answered(c, r, code)
    /\ UNCHANGED <<ledger, relayVars>>

Settles(c) ==
    /\ InFlight(c)
    /\ \E outcome \in Outcome : Settle(c, outcome)
    /\ UNCHANGED relayVars

(***************************************************************************)
(* A step of Next is a refusal, one of the actions of device_command and   *)
(* cancel_request, a step of a session or the death of the process; the    *)
(* ways a dispatched call ends are one case.                               *)
(***************************************************************************)
LEMMA StepCases ==
    ASSUME Next
    PROVE
    \/ \E c \in Call : Refused(c)
    \/ \E c \in Call, r \in Request, ctx \in Context :
          /\ r.rid \in RidsOf(c)
          /\ Replay(c, r, ctx) \/ Busy(c, r, ctx) \/ Dispatch(c, r, ctx)
          /\ UNCHANGED relayVars
    \/ \E c \in Call : SendReturns(c) /\ UNCHANGED relayVars
    \/ \E c \in Call : Settles(c)
    \/ \E o \in Operator, d \in Connector, id \in Rid :
          CancelRequest(o, d, id) /\ UNCHANGED relayVars
    \/ \E o \in Operator : CancelResolves(o) /\ UNCHANGED relayVars
    \/ \E o \in Operator : CancelFails(o) /\ UNCHANGED relayVars
    \/ \E c \in Call : AnswerAccepted(c) \/ AnswerUnmatched(c)
    \/ \E s \in Session, p \in Peer : Connect(s, p)
    \/ \E s \in Session : SessionFails(s) \/ EndSession(s)
    \/ Crash
<1>1. CASE CallStep
  <2>1. PICK c \in Call :
          \/ NotDispatched(c)
          \/ \E r \in Request, ctx \in Context :
                r.rid \in RidsOf(c) /\ Begin(c, r, ctx)
          \/ SendReturns(c)
          \/ SendFails(c)
          \/ Resume(c)
          \/ TimeOut(c)
    BY <1>1 DEF CallStep
  <2>2. UNCHANGED relayVars
    BY <1>1 DEF CallStep
  <2>3. CASE NotDispatched(c)
    BY <2>2, <2>3 DEF NotDispatched, Refused, Refusal
  <2>4. ASSUME NEW r \in Request, NEW ctx \in Context, r.rid \in RidsOf(c),
               Begin(c, r, ctx)
        PROVE  \/ Refused(c)
               \/ Replay(c, r, ctx) \/ Busy(c, r, ctx) \/ Dispatch(c, r, ctx)
    BY <2>2, <2>4 DEF Begin, Conflict, StillPending, Refused, Refusal
  <2>5. CASE SendFails(c) \/ Resume(c) \/ TimeOut(c)
    <3>1. InFlight(c)
      BY <2>5 DEF SendFails, Resume, TimeOut, TimerFires, InFlight
    <3>2. OutcomesOf(c) \subseteq Outcome
      BY DEF OutcomesOf, Outcome, Result, Failure
    <3>3. \E outcome \in Outcome : Settle(c, outcome)
      BY <2>5, <3>2
         DEF SendFails, Resume, TimeOut, Outcome, Result, Failure
    <3>4. QED
      BY <2>2, <3>1, <3>3 DEF Settles
  <2>6. QED
    BY <2>1, <2>2, <2>3, <2>4, <2>5
<1>2. CASE CancelStep
  BY <1>2 DEF CancelStep
<1>3. CASE DeviceStep
  BY <1>3 DEF DeviceStep
<1>4. CASE SessionStep
  BY <1>4 DEF SessionStep
<1>5. QED
  BY <1>1, <1>2, <1>3, <1>4 DEF Next

-----------------------------------------------------------------------------
(***************************************************************************)
(* What the steps do to the ledger: rows are added, keep their request_id  *)
(* and, once decided, their outcome.                                       *)
(***************************************************************************)
LEMMA ClaimedLedgerRow ==
    ASSUME TypeOK, NEW c \in Call, NEW r \in Request, NEW ctx \in Context,
           ledger' = ClaimedLedger(r, ctx)
    PROVE  /\ ledger' \in [Slot -> Row \union {None}]
           /\ ledger'[SlotOf(r)] \in Row
           /\ ClaimIsNew(r) => ledger'[SlotOf(r)].rid = r.rid
           /\ ledger[SlotOf(r)] = None =>
                 ledger'[SlotOf(r)].outcome = "pending"
           /\ \A k \in Slot : ledger[k] # None => ledger'[k] = ledger[k]
<1>1. SlotOf(r) \in Slot
  BY DEF SlotOf, Slot, Request
<1>2. [rid |-> r.rid, digest |-> <<r.intent, ctx>>, outcome |-> "pending"]
        \in Row
  BY DEF Row, Request
<1>3. CASE ledger[SlotOf(r)] = None
  BY <1>1, <1>2, <1>3 DEF TypeOK, ClaimedLedger
<1>4. CASE ledger[SlotOf(r)] # None
  BY <1>1, <1>4 DEF TypeOK, ClaimedLedger, ClaimIsNew
<1>5. QED
  BY <1>3, <1>4

(***************************************************************************)
(* complete_request changes only the outcome of the row of r, from pending.*)
(***************************************************************************)
LEMMA CompletedLedgerRow ==
    ASSUME TypeOK, NEW r \in Request, NEW outcome \in Outcome,
           ledger[SlotOf(r)] \in Row,
           ledger' = CompletedLedger(r, outcome)
    PROVE  /\ ledger' \in [Slot -> Row \union {None}]
           /\ ledger'[SlotOf(r)] \in Row
           /\ ledger'[SlotOf(r)].rid = ledger[SlotOf(r)].rid
           /\ ledger'[SlotOf(r)].digest = ledger[SlotOf(r)].digest
           /\ ledger[SlotOf(r)].outcome = "pending" =>
                 ledger'[SlotOf(r)].outcome = outcome
           /\ ledger[SlotOf(r)].outcome # "pending" => ledger' = ledger
           /\ \A k \in Slot : k # SlotOf(r) => ledger'[k] = ledger[k]
<1>1. SlotOf(r) \in Slot
  BY DEF SlotOf, Slot, Request
<1>2. CASE ledger[SlotOf(r)].outcome = "pending"
  BY <1>1, <1>2 DEF TypeOK, CompletedLedger, Row
<1>3. CASE ledger[SlotOf(r)].outcome # "pending"
  BY <1>3 DEF TypeOK, CompletedLedger
<1>4. QED
  BY <1>2, <1>3

(***************************************************************************)
(* The session of a dispatched call, and the arguments of one in flight.   *)
(***************************************************************************)
LEMMA DispatchedCall ==
    ASSUME IInv, NEW c \in Call, Dispatched(c)
    PROVE  /\ req[c] \in Request /\ req[c].rid \in RidsOf(c)
           /\ req[c].rid \in Rid /\ req[c].rid # None
           /\ sess[c] \in Session
           /\ SlotOf(req[c]) \in Slot
           /\ GuardOf(req[c]) \in Guard
           /\ ledger[SlotOf(req[c])] \in Row
<1>1. req[c] \in Request /\ req[c].rid \in RidsOf(c)
  BY DEF IInv, CallInv
<1>2. req[c].rid \in Rid /\ req[c].rid # None
  BY <1>1, CommandsAssumption DEF Request, Rid
<1>3. sess[c] \in Session
  BY DEF IInv, TypeOK, Dispatched
<1>4. SlotOf(req[c]) \in Slot /\ GuardOf(req[c]) \in Guard
  BY <1>1 DEF SlotOf, Slot, GuardOf, Guard, Request
<1>5. ledger[SlotOf(req[c])] \in Row
  BY DEF IInv, KeyInv
<1>6. QED
  BY <1>1, <1>2, <1>3, <1>4, <1>5

-----------------------------------------------------------------------------
(***************************************************************************)
(* Type correctness.                                                       *)
(***************************************************************************)
LEMMA InitInv == Init => IInv
<1> SUFFICES ASSUME Init PROVE IInv
  OBVIOUS
<1> USE DEF Init, RelayInit, CommandsInit
<1>1. TypeOK
  BY CommandsAssumption
     DEF TypeOK, RelayTypeOK, Stage, Rid, Outcome, Result, Failure
<1>2. RegistryInv /\ CallInv /\ KeyInv /\ UnusedInv
  BY DEF RegistryInv, CallInv, KeyInv, UnusedInv, Live, InFlight, Dispatched
<1>3. GuardExclusive /\ GuardHasHolder /\ HolderInv
  BY DEF GuardExclusive, GuardHasHolder, HolderInv, InFlight
<1>4. WaiterIsReachable /\ ReplyInv
  BY NoDataAssumption DEF WaiterIsReachable, ReplyInv
<1>5. QED
  BY <1>1, <1>2, <1>3, <1>4 DEF IInv

(***************************************************************************)
(* fail_pending keeps the types of the futures and of session.pending.     *)
(***************************************************************************)
LEMMA FailPendingType ==
    ASSUME TypeOK, NEW s \in Session, FailPending(s)
    PROVE  /\ fut' \in [Call -> {"none", "unset", "device_offline"}
                                 \union Result]
           /\ pending' \in [Session -> [Rid -> Call \union {None}]]
BY DEF TypeOK, FailPending

(***************************************************************************)
(* Every step keeps every variable's type.                                 *)
(***************************************************************************)
LEMMA TypeStep ==
    ASSUME IInv, [Next]_vars
    PROVE  TypeOK'
<1> USE DEF TypeOK, RelayTypeOK
<1>0. IInv /\ TypeOK
  BY DEF IInv
<1>1. ASSUME NEW c \in Call, Refused(c)
      PROVE  TypeOK'
  BY <1>0, <1>1 DEF Refused, Answered, relayVars
<1>2. ASSUME NEW c \in Call, NEW r \in Request, NEW ctx \in Context,
             r.rid \in RidsOf(c), UNCHANGED relayVars,
             Replay(c, r, ctx) \/ Busy(c, r, ctx) \/ Dispatch(c, r, ctx)
      PROVE  TypeOK'
  <2>1. SlotOf(r) \in Slot /\ GuardOf(r) \in Guard
    BY DEF SlotOf, Slot, GuardOf, Guard, Request
  <2>2. CASE Replay(c, r, ctx)
    <3>1. ledger[SlotOf(r)] \in Row /\ ledger[SlotOf(r)].outcome \in Outcome
      BY <1>0, <2>1, <2>2 DEF Replay, ClaimIsNew, Row
    <3>2. QED
      BY <1>0, <1>2, <2>2, <3>1 DEF Replay, Answered, relayVars
  <2>3. CASE Busy(c, r, ctx)
    <3>1. ledger' \in [Slot -> Row \union {None}]
      BY <1>0, <2>3, ClaimedLedgerRow DEF Busy
    <3>2. QED
      BY <1>0, <1>2, <2>3, <3>1 DEF Busy, Answered, Refusal, relayVars
  <2>4. CASE Dispatch(c, r, ctx)
    <3>1. ledger' \in [Slot -> Row \union {None}]
      BY <1>0, <2>4, ClaimedLedgerRow DEF Dispatch
    <3>2. inFlight' \in [Guard -> Rid \union {None}]
      BY <1>0, <2>1, <2>4 DEF Dispatch, AcquiredGuard, Request
    <3>3. registered[r.connector] \in Session
      BY <1>0, <2>4 DEF Dispatch, Routed, Request
    <3>4. pending' \in [Session -> [Rid -> Call \union {None}]]
      BY <1>0, <2>4, <3>3 DEF Dispatch, Request
    <3>5. QED
      BY <1>0, <1>2, <2>4, <3>1, <3>2, <3>3, <3>4 DEF Dispatch, relayVars
  <2>5. QED
    BY <1>2, <2>2, <2>3, <2>4
<1>3. ASSUME NEW c \in Call, SendReturns(c), UNCHANGED relayVars
      PROVE  TypeOK'
  BY <1>0, <1>3 DEF SendReturns, relayVars
<1>4. ASSUME NEW c \in Call, Settles(c)
      PROVE  TypeOK'
  <2>1. PICK outcome \in Outcome : Settle(c, outcome)
    BY <1>4 DEF Settles
  <2>2. Dispatched(c)
    BY <1>0, <1>4 DEF IInv, CallInv, Settles
  <2>3. /\ req[c] \in Request /\ req[c].rid \in Rid /\ sess[c] \in Session
        /\ GuardOf(req[c]) \in Guard /\ ledger[SlotOf(req[c])] \in Row
    BY <1>0, <2>2, DispatchedCall
  <2>4. ledger' \in [Slot -> Row \union {None}]
    BY <1>0, <2>1, <2>3, CompletedLedgerRow DEF Settle
  <2>5. inFlight' \in [Guard -> Rid \union {None}]
    BY <1>0, <2>1, <2>3 DEF Settle, ReleasedGuard
  <2>6. pending' \in [Session -> [Rid -> Call \union {None}]]
    BY <1>0, <2>1, <2>3 DEF Settle
  <2>7. QED
    BY <1>0, <1>4, <2>1, <2>4, <2>5, <2>6 DEF Settle, Settles, relayVars
<1>5. ASSUME NEW o \in Operator, NEW d \in Connector, NEW id \in Rid,
             CancelRequest(o, d, id), UNCHANGED relayVars
      PROVE  TypeOK'
  BY <1>0, <1>5 DEF CancelRequest, callVars, relayVars
<1>6. ASSUME NEW o \in Operator, CancelResolves(o), UNCHANGED relayVars
      PROVE  TypeOK'
  BY <1>0, <1>6 DEF CancelResolves, callVars, relayVars, Result
<1>7. ASSUME NEW o \in Operator, CancelFails(o), UNCHANGED relayVars
      PROVE  TypeOK'
  BY <1>0, <1>7 DEF CancelFails, callVars, relayVars
<1>8. ASSUME NEW c \in Call, AnswerAccepted(c)
      PROVE  TypeOK'
  BY <1>0, <1>8 DEF AnswerAccepted, callVars, relayVars, Result
<1>9. ASSUME NEW c \in Call, AnswerUnmatched(c)
      PROVE  TypeOK'
  BY <1>0, <1>9 DEF AnswerUnmatched, StartClosing, callVars, Stage
<1>10. ASSUME NEW s \in Session, NEW p \in Peer, Connect(s, p)
       PROVE  TypeOK'
  <2>1. /\ fut' \in [Call -> {"none", "unset", "device_offline"} \union Result]
        /\ pending' \in [Session -> [Rid -> Call \union {None}]]
    <3>1. CASE registered[p.connector] = None
      BY <1>0, <1>10, <3>1 DEF Connect, FailSuperseded
    <3>2. CASE registered[p.connector] # None
      <4>1. registered[p.connector] \in Session
        BY <1>0, <3>2 DEF Peer
      <4>2. FailPending(registered[p.connector])
        BY <1>10, <3>2 DEF Connect, FailSuperseded
      <4>3. QED
        BY <1>0, <4>1, <4>2, FailPendingType
    <3>3. QED
      BY <3>1, <3>2
  <2>2. QED
    BY <1>0, <1>10, <2>1 DEF Connect, Register, callVars, Stage, Peer
<1>11. ASSUME NEW s \in Session, SessionFails(s)
       PROVE  TypeOK'
  BY <1>0, <1>11
     DEF SessionFails, StartClosing, commandVars, callVars, Stage
<1>12. ASSUME NEW s \in Session, EndSession(s)
       PROVE  TypeOK'
  <2>1. /\ fut' \in [Call -> {"none", "unset", "device_offline"} \union Result]
        /\ pending' \in [Session -> [Rid -> Call \union {None}]]
    BY <1>0, <1>12, FailPendingType DEF EndSession, FailRemoved
  <2>2. QED
    BY <1>0, <1>12, <2>1 DEF EndSession, Remove, callVars, Stage
<1>13. CASE Crash
  BY <1>0, <1>13, CommandsAssumption
     DEF Crash, LoseSessions, LoseCommands, Stage
<1>14. CASE UNCHANGED vars
  BY <1>0, <1>14 DEF vars, commandVars, callVars, relayVars
<1>15. QED
  BY <1>1, <1>2, <1>3, <1>4, <1>5, <1>6, <1>7, <1>8, <1>9, <1>10, <1>11,
     <1>12, <1>13, <1>14, StepCases

-----------------------------------------------------------------------------
(***************************************************************************)
(* The registry: only Register, StartClosing, Remove and a crash touch it. *)
(***************************************************************************)
LEMMA RegistryStep ==
    ASSUME IInv, [Next]_vars
    PROVE  RegistryInv'
<1> USE DEF RegistryInv, Live
<1>0. RegistryInv /\ RelayTypeOK
  BY DEF IInv, TypeOK
<1>1. ASSUME UNCHANGED relayVars
      PROVE  RegistryInv'
  BY <1>0, <1>1 DEF relayVars
<1>2. ASSUME NEW s \in Session, StartClosing(s)
      PROVE  RegistryInv'
  BY <1>0, <1>2 DEF StartClosing, Serving, RelayTypeOK
<1>3. ASSUME NEW s \in Session, NEW p \in Peer, Register(s, p)
      PROVE  RegistryInv'
  <2>1. p.connector \in Connector
    BY DEF Peer
  <2>2. \A d \in Connector : registered[d] # s
    BY <1>0, <1>3, NoneAssumption DEF Register
  <2>3. QED
    BY <1>0, <1>3, <2>1, <2>2, NoneAssumption DEF Register, RelayTypeOK
<1>4. ASSUME NEW s \in Session, Remove(s)
      PROVE  RegistryInv'
  BY <1>0, <1>4 DEF Remove, IsRegistered, RelayTypeOK
<1>5. CASE LoseSessions
  BY <1>0, <1>5 DEF LoseSessions, RelayTypeOK
<1>6. ASSUME NEW c \in Call, AnswerUnmatched(c)
      PROVE  sess[c] \in Session /\ StartClosing(sess[c])
  BY <1>6, DispatchedCall DEF IInv, CallInv, AnswerUnmatched
<1>7. QED
  BY <1>1, <1>2, <1>3, <1>4, <1>5, <1>6, StepCases
     DEF vars, Refused, Settles, AnswerAccepted, Connect, SessionFails,
         EndSession, Crash

(***************************************************************************)
(* The life of a call.                                                     *)
(***************************************************************************)
LEMMA CallInvStep ==
    ASSUME IInv, [Next]_vars
    PROVE  CallInv'
<1> USE DEF CallInv, InFlight, Dispatched
<1>0. TypeOK /\ CallInv
  BY DEF IInv
<1>1. ASSUME NEW c \in Call, NEW r, NEW code, Answered(c, r, code)
      PROVE  CallInv'
  BY <1>0, <1>1 DEF Answered, TypeOK
<1>2. ASSUME NEW c \in Call, NEW r \in Request, NEW ctx \in Context,
             r.rid \in RidsOf(c), Dispatch(c, r, ctx)
      PROVE  CallInv'
  <2>1. registered[r.connector] # None
    BY <1>2 DEF Dispatch, Routed
  <2>2. QED
    BY <1>0, <1>2, <2>1 DEF Dispatch, TypeOK
<1>3. ASSUME NEW c \in Call, SendReturns(c)
      PROVE  CallInv'
  BY <1>0, <1>3 DEF SendReturns, TypeOK
<1>4. ASSUME NEW c \in Call, Settles(c)
      PROVE  CallInv'
  BY <1>0, <1>4 DEF Settles, Settle, TypeOK
<1>5. ASSUME UNCHANGED <<pc, req, sess, reply>>, owed' \subseteq owed,
             \A c \in Call : fut'[c] = "unset" => fut[c] = "unset"
      PROVE  CallInv'
  BY <1>0, <1>5
<1>6. ASSUME NEW s \in Session, FailPending(s)
      PROVE  \A c \in Call : fut'[c] = "unset" => fut[c] = "unset"
  BY <1>6 DEF FailPending
<1>7. ASSUME NEW o \in Operator, CancelResolves(o)
      PROVE  CallInv'
  BY <1>0, <1>5, <1>7 DEF CancelResolves, callVars, TypeOK
<1>8. ASSUME NEW c \in Call, AnswerAccepted(c)
      PROVE  CallInv'
  BY <1>0, <1>5, <1>8 DEF AnswerAccepted, callVars, TypeOK
<1>9. ASSUME NEW s \in Session, NEW p \in Peer, Connect(s, p)
      PROVE  CallInv'
  <2>1. registered[p.connector] # None => registered[p.connector] \in Session
    BY <1>0 DEF TypeOK, RelayTypeOK, Peer
  <2>2. QED
    BY <1>5, <1>6, <1>9, <2>1 DEF Connect, FailSuperseded, callVars
<1>10. ASSUME NEW s \in Session, EndSession(s)
       PROVE  CallInv'
  BY <1>5, <1>6, <1>10 DEF EndSession, FailRemoved, callVars
<1>11. CASE Crash
  BY <1>0, <1>11 DEF Crash, LoseCommands, TypeOK
<1>12. ASSUME \/ \E o \in Operator, d \in Connector, id \in Rid :
                    CancelRequest(o, d, id)
              \/ \E o \in Operator : CancelFails(o)
              \/ \E c \in Call : AnswerUnmatched(c)
              \/ \E s \in Session : SessionFails(s)
              \/ UNCHANGED vars
       PROVE  CallInv'
  BY <1>5, <1>12 DEF CancelRequest, CancelFails, AnswerUnmatched,
     SessionFails, vars, commandVars, callVars
<1>13. QED
  BY <1>1, <1>2, <1>3, <1>4, <1>7, <1>8, <1>9, <1>10, <1>11, <1>12, StepCases
     DEF Refused, Replay, Busy

(***************************************************************************)
(* Two dispatched calls under one idempotency key have one request_id, and *)
(* a fresh request_id belongs to one call.                                 *)
(***************************************************************************)
LEMMA SameSlot ==
    ASSUME IInv, NEW c \in Call, NEW d \in Call, Dispatched(c), Dispatched(d),
           SlotOf(req[c]) = SlotOf(req[d])
    PROVE  req[c].rid = req[d].rid /\ (Fresh(c) => c = d)
<1>1. req[c].rid = req[d].rid
  BY DEF IInv, KeyInv
<1>2. ASSUME Fresh(c) PROVE c = d
  BY <1>1, <1>2, DispatchedCall, CommandsAssumption DEF Fresh, RidsOf
<1>3. QED
  BY <1>1, <1>2

(***************************************************************************)
(* The ledger: dispatching writes or finds a row with the call's           *)
(* request_id, completing decides only the caller's own row.               *)
(***************************************************************************)
LEMMA KeyStep ==
    ASSUME IInv, [Next]_vars
    PROVE  KeyInv'
<1> USE DEF KeyInv, Fresh
<1>0. TypeOK /\ CallInv /\ KeyInv /\ UnusedInv
  BY DEF IInv
<1>1. ASSUME UNCHANGED <<req, sess, ledger>>,
             \A c \in Call : InFlight(c)' => InFlight(c)
      PROVE  KeyInv'
  BY <1>0, <1>1 DEF Dispatched
<1>2. ASSUME NEW e \in Call, NEW r, NEW code, Answered(e, r, code),
             \A k \in Slot : ledger[k] # None => ledger'[k] = ledger[k]
      PROVE  KeyInv'
  <2> SUFFICES ASSUME NEW c \in Call, Dispatched(c)'
               PROVE  /\ ledger'[SlotOf(req'[c])] \in Row
                      /\ ledger'[SlotOf(req'[c])].rid = req'[c].rid
                      /\ InFlight(c)' /\ req'[c].rid = c =>
                            ledger'[SlotOf(req'[c])].outcome = "pending"
    OBVIOUS
  <2>1. Dispatched(c) /\ c # e
    BY <1>0, <1>2 DEF Answered, Dispatched, CallInv
  <2>2. req'[c] = req[c] /\ pc'[c] = pc[c]
    BY <1>0, <1>2, <2>1 DEF Answered, TypeOK
  <2>3. ledger'[SlotOf(req[c])] = ledger[SlotOf(req[c])]
    BY <1>0, <1>2, <2>1, DispatchedCall, NoDataAssumption
  <2>4. QED
    BY <1>0, <2>1, <2>2, <2>3 DEF InFlight
<1>3. ASSUME NEW e \in Call, NEW r \in Request, NEW ctx \in Context,
             r.rid \in RidsOf(e), Dispatch(e, r, ctx)
      PROVE  KeyInv'
  <2> SUFFICES ASSUME NEW c \in Call, Dispatched(c)'
               PROVE  /\ ledger'[SlotOf(req'[c])] \in Row
                      /\ ledger'[SlotOf(req'[c])].rid = req'[c].rid
                      /\ InFlight(c)' /\ req'[c].rid = c =>
                            ledger'[SlotOf(req'[c])].outcome = "pending"
    OBVIOUS
  <2>1. /\ ledger'[SlotOf(r)] \in Row
        /\ ledger'[SlotOf(r)].rid = r.rid
        /\ ledger[SlotOf(r)] = None => ledger'[SlotOf(r)].outcome = "pending"
        /\ \A k \in Slot : ledger[k] # None => ledger'[k] = ledger[k]
    BY <1>0, <1>3, ClaimedLedgerRow DEF Dispatch
  <2>2. SlotOf(r) \in Slot
    BY DEF SlotOf, Slot, Request
  <2>3. CASE c = e
    <3>1. req'[c] = r
      BY <1>0, <1>3, <2>3 DEF Dispatch, TypeOK
    <3>2. r.rid = c => ledger[SlotOf(r)] = None
      BY <1>0, <1>3, <2>2, <2>3 DEF Dispatch, ClaimIsNew, UnusedInv
    <3>3. QED
      BY <2>1, <3>1, <3>2
  <2>4. CASE c # e
    <3>1. Dispatched(c) /\ req'[c] = req[c] /\ pc'[c] = pc[c]
      BY <1>0, <1>3, <2>4 DEF Dispatch, Dispatched, TypeOK
    <3>2. ledger'[SlotOf(req[c])] = ledger[SlotOf(req[c])]
      BY <1>0, <2>1, <3>1, DispatchedCall, NoDataAssumption
    <3>3. QED
      BY <1>0, <3>1, <3>2 DEF InFlight
  <2>5. QED
    BY <2>3, <2>4
<1>4. ASSUME NEW e \in Call, Settles(e)
      PROVE  KeyInv'
  <2> SUFFICES ASSUME NEW c \in Call, Dispatched(c)'
               PROVE  /\ ledger'[SlotOf(req'[c])] \in Row
                      /\ ledger'[SlotOf(req'[c])].rid = req'[c].rid
                      /\ InFlight(c)' /\ req'[c].rid = c =>
                            ledger'[SlotOf(req'[c])].outcome = "pending"
    OBVIOUS
  <2>1. PICK outcome \in Outcome : Settle(e, outcome)
    BY <1>4 DEF Settles
  <2>2. Dispatched(c) /\ Dispatched(e) /\ req' = req
    BY <1>0, <1>4, <2>1 DEF Settle, Settles, Dispatched, CallInv
  <2>3. /\ ledger'[SlotOf(req[e])] \in Row
        /\ ledger'[SlotOf(req[e])].rid = ledger[SlotOf(req[e])].rid
        /\ \A k \in Slot : k # SlotOf(req[e]) => ledger'[k] = ledger[k]
    BY <1>0, <2>1, <2>2, DispatchedCall, CompletedLedgerRow DEF Settle
  <2>4. CASE SlotOf(req[c]) = SlotOf(req[e])
    <3>1. req[c].rid = c => ~InFlight(c)'
      BY <1>0, <2>1, <2>2, <2>4, SameSlot DEF Settle, InFlight, TypeOK
    <3>2. QED
      BY <1>0, <2>2, <2>3, <2>4, <3>1
  <2>5. CASE SlotOf(req[c]) # SlotOf(req[e])
    <3>1. InFlight(c)' => InFlight(c)
      BY <1>0, <2>1 DEF Settle, InFlight, TypeOK
    <3>2. ledger'[SlotOf(req[c])] = ledger[SlotOf(req[c])]
      BY <2>2, <2>3, <2>5, DispatchedCall
    <3>3. QED
      BY <1>0, <2>2, <3>1, <3>2
  <2>6. QED
    BY <2>4, <2>5
<1>5. ASSUME NEW c \in Call, SendReturns(c)
      PROVE  KeyInv'
  BY <1>0, <1>1, <1>5 DEF SendReturns, InFlight, TypeOK
<1>6. CASE Crash
  BY <1>0, <1>1, <1>6 DEF Crash, LoseCommands, InFlight
<1>7. ASSUME UNCHANGED <<callVars, ledger>>
      PROVE  KeyInv'
  BY <1>1, <1>7 DEF callVars, InFlight
<1>8. ASSUME NEW c \in Call, NEW r \in Request, NEW ctx \in Context,
             Busy(c, r, ctx)
      PROVE  KeyInv'
  <2>1. \A k \in Slot : ledger[k] # None => ledger'[k] = ledger[k]
    BY <1>0, <1>8, ClaimedLedgerRow DEF Busy
  <2>2. QED
    BY <1>2, <1>8, <2>1 DEF Busy
<1>9. ASSUME NEW c \in Call, NEW r \in Request, NEW ctx \in Context,
             Replay(c, r, ctx)
      PROVE  KeyInv'
  BY <1>2, <1>9 DEF Replay
<1>10. ASSUME NEW c \in Call, Refused(c)
       PROVE  KeyInv'
  BY <1>2, <1>10 DEF Refused
<1>11. QED
  BY <1>3, <1>4, <1>5, <1>6, <1>7, <1>8, <1>9, <1>10, StepCases
     DEF CancelRequest, CancelResolves, CancelFails, AnswerAccepted,
         AnswerUnmatched, Connect, SessionFails, EndSession, vars,
         commandVars, callVars

(***************************************************************************)
(* A call that has not begun has used no request_id, so the one it will    *)
(* draw is in no row of the ledger.                                        *)
(***************************************************************************)
LEMMA UnusedStep ==
    ASSUME IInv, [Next]_vars
    PROVE  UnusedInv'
<1> USE DEF UnusedInv
<1>0. TypeOK /\ CallInv /\ UnusedInv
  BY DEF IInv
<1>1. ASSUME \A c \in Call : pc'[c] = "idle" => pc[c] = "idle",
             \A k \in Slot : ledger'[k] # None =>
                ledger[k] # None /\ ledger'[k].rid = ledger[k].rid
      PROVE  UnusedInv'
  BY <1>0, <1>1
<1>2. ASSUME NEW e \in Call, NEW r \in Request, NEW ctx \in Context,
             r.rid \in RidsOf(e),
             Busy(e, r, ctx) \/ Dispatch(e, r, ctx)
      PROVE  UnusedInv'
  <2>1. ledger' = ClaimedLedger(r, ctx)
    BY <1>2 DEF Busy, Dispatch
  <2>2. \A k \in Slot : ledger[k] # None => ledger'[k] = ledger[k]
    BY <1>0, <2>1, ClaimedLedgerRow
  <2>3. \A k \in Slot : ledger[k] = None /\ ledger'[k] # None =>
           ledger'[k].rid = r.rid
    BY <1>0, <2>1 DEF ClaimedLedger, TypeOK
  <2>4. \A c \in Call : pc'[c] = "idle" => pc[c] = "idle" /\ c # e
    BY <1>0, <1>2 DEF Busy, Dispatch, Answered, TypeOK
  <2>5. \A c \in Call : c # e => r.rid # c
    BY <1>2, CommandsAssumption DEF RidsOf
  <2>6. QED
    BY <1>0, <2>2, <2>3, <2>4, <2>5
<1>3. ASSUME NEW e \in Call, Settles(e)
      PROVE  UnusedInv'
  <2>1. PICK outcome \in Outcome : Settle(e, outcome)
    BY <1>3 DEF Settles
  <2>2. Dispatched(e)
    BY <1>0, <1>3 DEF Settles, CallInv
  <2>3. \A k \in Slot : ledger'[k] # None =>
           ledger[k] # None /\ ledger'[k].rid = ledger[k].rid
    BY <1>0, <2>1, <2>2, DispatchedCall, CompletedLedgerRow, NoDataAssumption
       DEF Settle
  <2>4. \A c \in Call : pc'[c] = "idle" => pc[c] = "idle"
    BY <1>0, <2>1 DEF Settle, TypeOK
  <2>5. QED
    BY <1>1, <2>3, <2>4
<1>4. ASSUME NEW e \in Call, NEW r, NEW code, Answered(e, r, code),
             UNCHANGED ledger
      PROVE  UnusedInv'
  BY <1>0, <1>1, <1>4 DEF Answered, TypeOK
<1>5. ASSUME NEW c \in Call, SendReturns(c)
      PROVE  UnusedInv'
  BY <1>0, <1>1, <1>5 DEF SendReturns, TypeOK
<1>6. CASE Crash
  BY <1>0, <1>1, <1>6 DEF Crash, LoseCommands
<1>7. ASSUME UNCHANGED <<callVars, ledger>>
      PROVE  UnusedInv'
  BY <1>1, <1>7 DEF callVars
<1>8. QED
  BY <1>2, <1>3, <1>4, <1>5, <1>6, <1>7, StepCases
     DEF Refused, Replay, CancelRequest, CancelResolves, CancelFails,
         AnswerAccepted, AnswerUnmatched, Connect, SessionFails, EndSession,
         vars, commandVars, callVars

-----------------------------------------------------------------------------
(***************************************************************************)
(* The collision guard: a slot is taken only when it is free, by a call    *)
(* that goes in flight with the same step, and freed only by its holder.   *)
(***************************************************************************)
GuardInv == GuardExclusive /\ GuardHasHolder /\ HolderInv

(***************************************************************************)
(* Every step keeps the guard exclusive and held by a call in flight.      *)
(***************************************************************************)
LEMMA GuardStep ==
    ASSUME IInv, [Next]_vars
    PROVE  GuardInv'
<1> USE DEF GuardInv, GuardExclusive, GuardHasHolder, HolderInv
<1>0. TypeOK /\ CallInv /\ GuardInv
  BY DEF IInv
<1>1. ASSUME UNCHANGED inFlight,
             \A c \in Call : InFlight(c)' <=> InFlight(c),
             \A c \in Call : InFlight(c) => req'[c] = req[c]
      PROVE  GuardInv'
  BY <1>0, <1>1
<1>2. ASSUME NEW e \in Call, NEW r, NEW code, Answered(e, r, code)
      PROVE  GuardInv'
  BY <1>0, <1>1, <1>2 DEF Answered, InFlight, TypeOK
<1>3. ASSUME NEW e \in Call, NEW r \in Request, NEW ctx \in Context,
             r.rid \in RidsOf(e), Dispatch(e, r, ctx)
      PROVE  GuardInv'
  <2>1. /\ ~InFlight(e) /\ InFlight(e)' /\ req'[e] = r
        /\ \A c \in Call \ {e} : /\ InFlight(c)' <=> InFlight(c)
                                 /\ req'[c] = req[c]
    BY <1>0, <1>3 DEF Dispatch, InFlight, TypeOK
  <2>2. GuardOf(r) \in Guard /\ r.rid # None
    BY <1>3, CommandsAssumption DEF GuardOf, Guard, Request, RidsOf
  <2>3. CASE Guarded(r)
    <3>1. inFlight[GuardOf(r)] = None
      BY <1>3, <2>3 DEF Dispatch, GuardHeld
    <3>2. /\ inFlight'[GuardOf(r)] = r.rid
          /\ \A g \in Guard : g # GuardOf(r) => inFlight'[g] = inFlight[g]
      BY <1>0, <1>3, <2>2, <2>3 DEF Dispatch, AcquiredGuard, TypeOK
    <3>3. \A c \in Call : InFlight(c) /\ Guarded(req[c]) =>
             /\ GuardOf(req[c]) # GuardOf(r)
             /\ GuardOf(req[c]) \in Guard
      BY <1>0, <3>1, DispatchedCall DEF CallInv
    <3>4. \A c \in Call : GuardOf(req[c]) = GuardOf(r) => Guarded(req[c])
      BY <2>3 DEF Guarded, GuardOf
    <3>5. GuardExclusive'
      BY <1>0, <2>1, <3>3, <3>4
    <3>6. GuardHasHolder'
      BY <1>0, <2>1, <2>3, <3>2
    <3>7. HolderInv'
      BY <1>0, <2>1, <3>2, <3>3
    <3>8. QED
      BY <3>5, <3>6, <3>7
  <2>4. CASE ~Guarded(r)
    <3>1. inFlight' = inFlight
      BY <1>3, <2>4 DEF Dispatch, AcquiredGuard
    <3>2. \A c, d \in Call :
             /\ InFlight(c)' /\ InFlight(d)' /\ Guarded(req'[c])
             /\ GuardOf(req'[c]) = GuardOf(req'[d])
             => c # e /\ d # e
      BY <2>1, <2>4 DEF Guarded, GuardOf
    <3>3. GuardExclusive'
      BY <1>0, <2>1, <3>2
    <3>4. GuardHasHolder' /\ HolderInv'
      BY <1>0, <2>1, <2>4, <3>1
    <3>5. QED
      BY <3>3, <3>4
  <2>5. QED
    BY <2>3, <2>4
<1>4. ASSUME NEW e \in Call, Settles(e)
      PROVE  GuardInv'
  <2>1. PICK outcome \in Outcome : Settle(e, outcome)
    BY <1>4 DEF Settles
  <2>2. /\ InFlight(e) /\ ~InFlight(e)' /\ req' = req
        /\ \A c \in Call \ {e} : InFlight(c)' <=> InFlight(c)
    BY <1>0, <1>4, <2>1 DEF Settles, Settle, InFlight, TypeOK
  <2>3. GuardOf(req[e]) \in Guard
    BY <1>0, <2>2, DispatchedCall DEF CallInv
  <2>4. CASE Guarded(req[e])
    <3>1. /\ inFlight'[GuardOf(req[e])] = None
          /\ \A g \in Guard : g # GuardOf(req[e]) =>
                inFlight'[g] = inFlight[g]
      BY <1>0, <2>1, <2>3, <2>4 DEF Settle, ReleasedGuard, TypeOK
    <3>2. \A c \in Call \ {e} : InFlight(c) /\ Guarded(req[c]) =>
             /\ GuardOf(req[c]) # GuardOf(req[e])
             /\ GuardOf(req[c]) \in Guard
      BY <1>0, <2>2, <2>4, DispatchedCall DEF CallInv
    <3>3. GuardExclusive'
      BY <1>0, <2>2
    <3>4. GuardHasHolder'
      BY <1>0, <2>2, <3>1
    <3>5. HolderInv'
      BY <1>0, <2>2, <3>1, <3>2
    <3>6. QED
      BY <3>3, <3>4, <3>5
  <2>5. CASE ~Guarded(req[e])
    BY <1>0, <2>1, <2>2, <2>5 DEF Settle, ReleasedGuard
  <2>6. QED
    BY <2>4, <2>5
<1>5. ASSUME NEW c \in Call, SendReturns(c)
      PROVE  GuardInv'
  BY <1>0, <1>1, <1>5 DEF SendReturns, InFlight, TypeOK
<1>6. CASE Crash
  BY <1>0, <1>6 DEF Crash, LoseCommands, InFlight
<1>7. ASSUME UNCHANGED <<callVars, inFlight>>
      PROVE  GuardInv'
  BY <1>1, <1>7 DEF callVars, InFlight
<1>8. QED
  BY <1>2, <1>3, <1>4, <1>5, <1>6, <1>7, StepCases
     DEF Refused, Replay, Busy, CancelRequest, CancelResolves, CancelFails,
         AnswerAccepted, AnswerUnmatched, Connect, SessionFails, EndSession,
         vars, commandVars, callVars

-----------------------------------------------------------------------------
(***************************************************************************)
(* A future that is not resolved is in the pending table of the session    *)
(* registered for the device.                                              *)
(***************************************************************************)
LEMMA WaiterStep ==
    ASSUME IInv, [Next]_vars
    PROVE  WaiterIsReachable'
<1> USE DEF WaiterIsReachable, Fresh, Live
<1>0. TypeOK /\ CallInv /\ RegistryInv /\ WaiterIsReachable
  BY DEF IInv
<1>1. ASSUME UNCHANGED <<relayVars, pending>>,
             \A c \in Call : fut'[c] = "unset" =>
                fut[c] = "unset" /\ req'[c] = req[c] /\ sess'[c] = sess[c]
      PROVE  WaiterIsReachable'
  BY <1>0, <1>1 DEF relayVars, Live
<1>2. ASSUME NEW e \in Call, NEW r, NEW code, Answered(e, r, code),
             UNCHANGED relayVars
      PROVE  WaiterIsReachable'
  <2>1. fut[e] # "unset"
    BY <1>0, <1>2 DEF Answered, CallInv, InFlight
  <2>2. QED
    BY <1>0, <1>1, <1>2, <2>1 DEF Answered, TypeOK
<1>3. ASSUME NEW e \in Call, NEW r \in Request, NEW ctx \in Context,
             r.rid \in RidsOf(e), Dispatch(e, r, ctx), UNCHANGED relayVars
      PROVE  WaiterIsReachable'
  <2> SUFFICES ASSUME NEW c \in Call, fut'[c] = "unset", req'[c].rid = c
               PROVE  /\ stage'[sess'[c]] \in {"serving", "closing"}
                      /\ registered'[req'[c].connector] = sess'[c]
                      /\ pending'[sess'[c]][c] = c
    OBVIOUS
  <2>1. CASE c = e
    <3>1. /\ req'[c] = r /\ sess'[c] = registered[r.connector]
          /\ r.connector \in Connector /\ r.rid \in Rid
      BY <1>0, <1>3, <2>1 DEF Dispatch, TypeOK, Request
    <3>2. registered[r.connector] \in Session /\ Live(registered[r.connector])
      BY <1>0, <1>3, <3>1
         DEF Dispatch, Routed, RegistryInv, TypeOK, RelayTypeOK
    <3>3. pending'[registered[r.connector]][r.rid] = c
      BY <1>0, <1>3, <2>1, <3>1, <3>2 DEF Dispatch, TypeOK
    <3>4. QED
      BY <1>3, <3>1, <3>2, <3>3 DEF relayVars, Live
  <2>2. CASE c # e
    <3>1. /\ fut[c] = "unset" /\ req'[c] = req[c] /\ sess'[c] = sess[c]
      BY <1>0, <1>3, <2>2 DEF Dispatch, TypeOK
    <3>2. c \in Rid /\ r.rid # c /\ sess[c] \in Session
      BY <1>0, <1>3, <2>2, <3>1, CommandsAssumption, DispatchedCall
         DEF Rid, RidsOf, CallInv
    <3>3. pending'[sess[c]][c] = pending[sess[c]][c]
      BY <1>0, <1>3, <3>2 DEF Dispatch, TypeOK
    <3>4. QED
      BY <1>0, <1>3, <3>1, <3>3 DEF relayVars, Live
  <2>3. QED
    BY <2>1, <2>2
<1>4. ASSUME NEW e \in Call, Settles(e)
      PROVE  WaiterIsReachable'
  <2> SUFFICES ASSUME NEW c \in Call, fut'[c] = "unset", req'[c].rid = c
               PROVE  /\ stage'[sess'[c]] \in {"serving", "closing"}
                      /\ registered'[req'[c].connector] = sess'[c]
                      /\ pending'[sess'[c]][c] = c
    OBVIOUS
  <2>1. PICK outcome \in Outcome : Settle(e, outcome)
    BY <1>4 DEF Settles
  <2>2. c # e /\ fut[c] = "unset" /\ req' = req /\ sess' = sess
    BY <1>0, <2>1 DEF Settle, TypeOK
  <2>3. Dispatched(e) /\ Dispatched(c)
    BY <1>0, <1>4, <2>2 DEF Settles, CallInv
  <2>4. req[e].rid # c /\ sess[c] \in Session /\ sess[e] \in Session
    BY <2>2, <2>3, DispatchedCall, CommandsAssumption DEF RidsOf
  <2>5. c \in Rid /\ req[e].rid \in Rid
    BY <2>3, DispatchedCall DEF Rid
  <2>6. pending'[sess[c]][c] = pending[sess[c]][c]
    BY <1>0, <2>1, <2>4, <2>5 DEF Settle, TypeOK
  <2>7. QED
    BY <1>0, <1>4, <2>2, <2>6 DEF Settles, relayVars, Live
<1>5. ASSUME NEW s \in Session, NEW c \in Call, FailPending(s),
             fut'[c] = "unset"
      PROVE  /\ fut[c] = "unset"
             /\ \A r \in Rid : pending[s][r] # c
             /\ \A t \in Session \ {s} : pending'[t] = pending[t]
  BY <1>0, <1>5 DEF FailPending, AwaitedOn, TypeOK
<1>6. ASSUME NEW s \in Session, NEW p \in Peer, Connect(s, p)
      PROVE  WaiterIsReachable'
  <2> SUFFICES ASSUME NEW c \in Call, fut'[c] = "unset", req'[c].rid = c
               PROVE  /\ stage'[sess'[c]] \in {"serving", "closing"}
                      /\ registered'[req'[c].connector] = sess'[c]
                      /\ pending'[sess'[c]][c] = c
    OBVIOUS
  <2>1. req' = req /\ sess' = sess
    BY <1>6 DEF Connect, callVars
  <2>2. fut[c] = "unset"
    <3>1. registered[p.connector] # None =>
             registered[p.connector] \in Session
      BY <1>0 DEF TypeOK, RelayTypeOK, Peer
    <3>2. QED
      BY <1>5, <1>6, <3>1 DEF Connect, FailSuperseded
  <2>3. Dispatched(c)
    BY <1>0, <2>2 DEF CallInv
  <2>4. /\ sess[c] \in Session /\ c \in Rid
        /\ req[c].connector \in Connector
    BY <2>3, DispatchedCall DEF Rid, Request
  <2>5. /\ Live(sess[c]) /\ registered[req[c].connector] = sess[c]
        /\ pending[sess[c]][c] = c
    BY <1>0, <2>1, <2>2
  <2>6. sess[c] # s
    BY <1>6, <2>5 DEF Connect, Register, Live
  <2>7. req[c].connector # p.connector /\ pending'[sess[c]] = pending[sess[c]]
    <3>1. CASE registered[p.connector] = None
      BY <1>6, <2>4, <2>5, <3>1, NoneAssumption DEF Connect, FailSuperseded
    <3>2. CASE registered[p.connector] # None
      <4>1. registered[p.connector] \in Session /\ p.connector \in Connector
        BY <1>0, <3>2 DEF TypeOK, RelayTypeOK, Peer
      <4>2. FailPending(registered[p.connector])
        BY <1>6, <3>2 DEF Connect, FailSuperseded
      <4>3. sess[c] # registered[p.connector]
        BY <1>5, <2>4, <2>5, <4>1, <4>2
      <4>4. registered[p.connector] # registered[req[c].connector]
        BY <2>5, <4>3
      <4>5. QED
        BY <1>5, <2>4, <4>1, <4>2, <4>3, <4>4
    <3>3. QED
      BY <3>1, <3>2
  <2>8. QED
    BY <1>0, <1>6, <2>1, <2>4, <2>5, <2>6, <2>7
       DEF Connect, Register, Live, TypeOK, RelayTypeOK, Peer
<1>7. ASSUME NEW s \in Session, EndSession(s)
      PROVE  WaiterIsReachable'
  <2> SUFFICES ASSUME NEW c \in Call, fut'[c] = "unset", req'[c].rid = c
               PROVE  /\ stage'[sess'[c]] \in {"serving", "closing"}
                      /\ registered'[req'[c].connector] = sess'[c]
                      /\ pending'[sess'[c]][c] = c
    OBVIOUS
  <2>1. /\ req' = req /\ sess' = sess /\ FailPending(s)
    BY <1>7 DEF EndSession, FailRemoved, callVars
  <2>2. /\ fut[c] = "unset"
        /\ \A r \in Rid : pending[s][r] # c
        /\ \A t \in Session \ {s} : pending'[t] = pending[t]
    BY <1>5, <2>1
  <2>3. Dispatched(c)
    BY <1>0, <2>2 DEF CallInv
  <2>4. /\ sess[c] \in Session /\ c \in Rid
        /\ req[c].connector \in Connector
    BY <2>3, DispatchedCall DEF Rid, Request
  <2>5. /\ Live(sess[c]) /\ registered[req[c].connector] = sess[c]
        /\ pending[sess[c]][c] = c
    BY <1>0, <2>1, <2>2
  <2>6. sess[c] # s
    BY <2>2, <2>4, <2>5
  <2>7. registered'[req[c].connector] = registered[req[c].connector]
    BY <1>0, <1>7, <2>4, <2>5, <2>6
       DEF EndSession, Remove, IsRegistered, TypeOK, RelayTypeOK
  <2>8. QED
    BY <1>0, <1>7, <2>1, <2>2, <2>4, <2>5, <2>6, <2>7
       DEF EndSession, Remove, Live, TypeOK, RelayTypeOK
<1>8. ASSUME NEW s \in Session, StartClosing(s),
             UNCHANGED <<callVars, fut, pending>>
      PROVE  WaiterIsReachable'
  BY <1>0, <1>8 DEF StartClosing, callVars, Live, TypeOK, RelayTypeOK
<1>9. ASSUME NEW c \in Call, AnswerUnmatched(c)
      PROVE  WaiterIsReachable'
  <2>1. sess[c] \in Session
    BY <1>0, <1>9, DispatchedCall DEF AnswerUnmatched, CallInv
  <2>2. QED
    BY <1>8, <1>9, <2>1 DEF AnswerUnmatched
<1>10. ASSUME NEW s \in Session, SessionFails(s)
       PROVE  WaiterIsReachable'
  BY <1>8, <1>10 DEF SessionFails, commandVars
<1>11. ASSUME NEW c \in Call, AnswerAccepted(c)
       PROVE  WaiterIsReachable'
  BY <1>0, <1>1, <1>11 DEF AnswerAccepted, callVars, TypeOK
<1>12. ASSUME NEW o \in Operator, CancelResolves(o), UNCHANGED relayVars
       PROVE  WaiterIsReachable'
  BY <1>0, <1>1, <1>12 DEF CancelResolves, callVars, TypeOK
<1>13. CASE Crash
  BY <1>13 DEF Crash, LoseCommands
<1>14. ASSUME UNCHANGED <<relayVars, req, sess, fut, pending>>
       PROVE  WaiterIsReachable'
  BY <1>1, <1>14
<1>15. QED
  BY <1>2, <1>3, <1>4, <1>6, <1>7, <1>9, <1>10, <1>11, <1>12, <1>13, <1>14,
     StepCases
     DEF Refused, Replay, Busy, SendReturns, CancelRequest, CancelFails,
         vars, commandVars, callVars

-----------------------------------------------------------------------------
(***************************************************************************)
(* What callers are told is in the ledger and stays there.                 *)
(***************************************************************************)
LEMMA DecidedRowStays ==
    ASSUME IInv, [Next]_vars
    PROVE  \A k \in Slot : ledger[k] # None =>
              /\ ledger'[k] # None
              /\ ledger'[k].rid = ledger[k].rid
              /\ ledger'[k].digest = ledger[k].digest
              /\ ledger[k] \in Row /\ ledger[k].outcome # "pending" =>
                    ledger'[k] = ledger[k]
<1>0. TypeOK /\ CallInv
  BY DEF IInv
<1>1. ASSUME NEW e \in Call, NEW r \in Request, NEW ctx \in Context,
             Busy(e, r, ctx) \/ Dispatch(e, r, ctx)
      PROVE  \A k \in Slot : ledger[k] # None => ledger'[k] = ledger[k]
  <2>1. ledger' = ClaimedLedger(r, ctx)
    BY <1>1 DEF Busy, Dispatch
  <2>2. QED
    BY <1>0, <2>1, ClaimedLedgerRow
<1>2. ASSUME NEW e \in Call, Settles(e), NEW k \in Slot, ledger[k] # None
      PROVE  /\ ledger'[k] # None
             /\ ledger'[k].rid = ledger[k].rid
             /\ ledger'[k].digest = ledger[k].digest
             /\ ledger[k].outcome # "pending" => ledger'[k] = ledger[k]
  <2>1. PICK outcome \in Outcome : Settle(e, outcome)
    BY <1>2 DEF Settles
  <2>2. Dispatched(e)
    BY <1>0, <1>2 DEF Settles, CallInv
  <2>3. QED
    BY <1>0, <1>2, <2>1, <2>2, DispatchedCall, CompletedLedgerRow,
       NoDataAssumption
       DEF Settle
<1>3. QED
  BY <1>1, <1>2, StepCases
     DEF Refused, Answered, Replay, SendReturns, CancelRequest,
         CancelResolves, CancelFails, AnswerAccepted, AnswerUnmatched,
         Connect, SessionFails, EndSession, Crash, LoseCommands, vars,
         commandVars

(***************************************************************************)
(* A call that was dispatched keeps its arguments and its session.         *)
(***************************************************************************)
LEMMA SentStays ==
    ASSUME IInv, [Next]_vars, NEW c \in Call, Dispatched(c)
    PROVE  req'[c] = req[c] /\ sess'[c] = sess[c]
<1>1. TypeOK /\ pc[c] # "idle"
  BY DEF IInv, CallInv, Dispatched
<1>2. QED
  BY <1>1, StepCases
     DEF TypeOK, Refused, Answered, Replay, Busy, Dispatch, SendReturns,
         Settles, Settle, CancelRequest, CancelResolves, CancelFails,
         AnswerAccepted, AnswerUnmatched, Connect, SessionFails, EndSession,
         Crash, LoseCommands, vars, commandVars, callVars

(***************************************************************************)
(* A session that authenticated keeps its peer.                            *)
(***************************************************************************)
LEMMA PeerStays ==
    ASSUME IInv, [Next]_vars, NEW s \in Session, stage[s] # "new"
    PROVE  stage'[s] # "new" /\ peer'[s] = peer[s]
<1>1. RelayTypeOK
  BY DEF IInv, TypeOK
<1>2. QED
  BY <1>1, StepCases
     DEF RelayTypeOK, Refused, Answered, Replay, Busy, Dispatch, SendReturns,
         Settles, Settle, CancelRequest, CancelResolves, CancelFails,
         AnswerAccepted, AnswerUnmatched, Connect, Register, SessionFails,
         StartClosing, EndSession, Remove, Crash, LoseSessions, vars,
         relayVars

(***************************************************************************)
(* A caller is told what complete_request has just written, or what it     *)
(* finds written, and later steps leave it there.                          *)
(***************************************************************************)
LEMMA ReplyStep ==
    ASSUME IInv, [Next]_vars
    PROVE  ReplyInv'
<1> USE DEF ReplyInv, Fresh, Dispatched
<1>0. TypeOK /\ CallInv /\ KeyInv /\ ReplyInv
  BY DEF IInv
<1>1. "pending" \notin Outcome
  BY DEF Outcome, Result, Failure
<1>2. ASSUME NEW c \in Call, reply[c] \in Outcome,
             reply'[c] = reply[c], req'[c] = req[c], sess'[c] = sess[c],
             Dispatched(c) => Fresh(c)
      PROVE  /\ req'[c] \in Request
             /\ ledger'[SlotOf(req'[c])] \in Row
             /\ ledger'[SlotOf(req'[c])].outcome = reply'[c]
  <2>1. SlotOf(req[c]) \in Slot
    BY <1>0, <1>2 DEF SlotOf, Slot, Request
  <2>2. ledger'[SlotOf(req[c])] = ledger[SlotOf(req[c])]
    BY <1>0, <1>1, <1>2, <2>1, DecidedRowStays, NoDataAssumption
  <2>3. QED
    BY <1>0, <1>2, <2>2
<1>3. ASSUME UNCHANGED <<req, sess, reply>>
      PROVE  ReplyInv'
  BY <1>2, <1>3
<1>4. ASSUME NEW e \in Call, NEW r, NEW code \in Refusal,
             Answered(e, r, code)
      PROVE  ReplyInv'
  <2>1. code \notin Outcome
    BY DEF Refusal, Outcome, Result, Failure
  <2>2. QED
    BY <1>0, <1>2, <1>4, <2>1 DEF Answered, TypeOK
<1>5. ASSUME NEW e \in Call, NEW r \in Request, NEW ctx \in Context,
             Replay(e, r, ctx)
      PROVE  ReplyInv'
  <2>1. SlotOf(r) \in Slot
    BY DEF SlotOf, Slot, Request
  <2>2. ledger[SlotOf(r)] \in Row /\ ledger' = ledger
    BY <1>0, <1>5, <2>1 DEF Replay, ClaimIsNew, TypeOK
  <2>3. req'[e] = r /\ reply'[e] = ledger[SlotOf(r)].outcome
    BY <1>0, <1>5 DEF Replay, Answered, TypeOK
  <2>4. \A c \in Call \ {e} : /\ reply'[c] = reply[c] /\ req'[c] = req[c]
                              /\ sess'[c] = sess[c]
    BY <1>0, <1>5 DEF Replay, Answered, TypeOK
  <2>5. QED
    BY <1>2, <2>2, <2>3, <2>4
<1>6. ASSUME NEW e \in Call, NEW r \in Request, NEW ctx \in Context,
             Dispatch(e, r, ctx)
      PROVE  ReplyInv'
  <2>1. reply'[e] \notin Outcome
    BY <1>0, <1>6, NoDataAssumption DEF Dispatch, CallInv
  <2>2. QED
    BY <1>0, <1>2, <1>6, <2>1 DEF Dispatch, TypeOK
<1>7. ASSUME NEW e \in Call, Settles(e)
      PROVE  ReplyInv'
  <2>1. PICK outcome \in Outcome : Settle(e, outcome)
    BY <1>7 DEF Settles
  <2>2. req' = req /\ sess' = sess /\ Dispatched(e)
    BY <1>0, <1>7, <2>1 DEF Settles, Settle, CallInv
  <2>3. /\ req[e] \in Request /\ ledger[SlotOf(req[e])] \in Row
    BY <2>2, DispatchedCall
  <2>4. /\ ledger'[SlotOf(req[e])] \in Row
        /\ Fresh(e) => ledger'[SlotOf(req[e])].outcome = outcome
    BY <1>0, <1>7, <2>1, <2>2, <2>3, CompletedLedgerRow
       DEF Settle, Settles, KeyInv
  <2>5. reply'[e] = outcome /\ \A c \in Call \ {e} : reply'[c] = reply[c]
    BY <1>0, <2>1 DEF Settle, TypeOK
  <2>6. QED
    BY <1>2, <2>2, <2>3, <2>4, <2>5
<1>8. ASSUME NEW c \in Call, Refused(c)
      PROVE  ReplyInv'
  BY <1>4, <1>8 DEF Refused
<1>9. ASSUME NEW e \in Call, NEW r \in Request, NEW ctx \in Context,
             Busy(e, r, ctx)
      PROVE  ReplyInv'
  BY <1>4, <1>9 DEF Busy, Refusal
<1>10. QED
  BY <1>3, <1>5, <1>6, <1>7, <1>8, <1>9, StepCases
     DEF SendReturns, CancelRequest, CancelResolves, CancelFails,
         AnswerAccepted, AnswerUnmatched, Connect, SessionFails, EndSession,
         Crash, LoseCommands, vars, commandVars, callVars

-----------------------------------------------------------------------------
(***************************************************************************)
(* The inductive invariant, and what follows from it.                      *)
(***************************************************************************)
LEMMA InvStep == IInv /\ [Next]_vars => IInv'
<1> SUFFICES ASSUME IInv, [Next]_vars PROVE IInv'
  OBVIOUS
<1>1. TypeOK' /\ RegistryInv' /\ CallInv'
  BY TypeStep, RegistryStep, CallInvStep
<1>2. KeyInv' /\ UnusedInv' /\ GuardInv'
  BY KeyStep, UnusedStep, GuardStep
<1>3. WaiterIsReachable' /\ ReplyInv'
  BY WaiterStep, ReplyStep
<1>4. QED
  BY <1>1, <1>2, <1>3 DEF IInv, GuardInv

(***************************************************************************)
(* IInv holds in every state device_command and the relay can reach.       *)
(***************************************************************************)
THEOREM InductiveInvariant == Spec => []IInv
<1>1. QED
  BY InitInv, InvStep, PTL DEF Spec

(***************************************************************************)
(* Every variable keeps its type.                                          *)
(***************************************************************************)
THEOREM TypeCorrect == Spec => []TypeOK
<1>1. IInv => TypeOK
  BY DEF IInv
<1>2. QED
  BY <1>1, InductiveInvariant, PTL

(***************************************************************************)
(* _in_flight lets at most one call of a mutating tool with given          *)
(* arguments be in flight on a device (service.py, _acquire_collision_     *)
(* guard).                                                                 *)
(***************************************************************************)
THEOREM CollisionGuard == Spec => []GuardExclusive
<1>1. IInv => GuardExclusive
  BY DEF IInv
<1>2. QED
  BY <1>1, InductiveInvariant, PTL

(***************************************************************************)
(* No slot of _in_flight is left behind by a call that has ended, or held  *)
(* under the name of another (_release_collision_guard).                   *)
(***************************************************************************)
THEOREM SlotsHeld == Spec => []GuardHasHolder
<1>1. IInv => GuardHasHolder
  BY DEF IInv
<1>2. QED
  BY <1>1, InductiveInvariant, PTL

(***************************************************************************)
(* claim_request: all frames sent under one idempotency key carry one      *)
(* request_id, whatever is retried, refused, lost or restarted.            *)
(***************************************************************************)
THEOREM OneRequestPerKey == Spec => []KeyHasOneRequest
<1>1. IInv => KeyHasOneRequest
  BY SameSlot DEF KeyHasOneRequest
<1>2. QED
  BY <1>1, InductiveInvariant, PTL

(***************************************************************************)
(* A key is dispatched once.                                               *)
(***************************************************************************)
DispatchedOnce ==
    \A c, d \in Call :
       Dispatched(c) /\ Dispatched(d) /\ SlotOf(req[c]) = SlotOf(req[d])
       => c = d

(***************************************************************************)
(* So without signed assertions, whose request_id the caller chooses, at   *)
(* most one call is ever dispatched under an idempotency key.              *)
(***************************************************************************)
THEOREM OnceWithoutAssertions ==
    ASSUME SignedId = {}
    PROVE  Spec => []DispatchedOnce
<1>1. IInv => DispatchedOnce
  <2> SUFFICES ASSUME IInv, NEW c \in Call, NEW d \in Call,
                      Dispatched(c), Dispatched(d),
                      SlotOf(req[c]) = SlotOf(req[d])
               PROVE  c = d
    BY DEF DispatchedOnce
  <2>1. Fresh(c)
    BY DispatchedCall DEF RidsOf, Fresh
  <2>2. QED
    BY <2>1, SameSlot
<1>2. QED
  BY <1>1, InductiveInvariant, PTL

(***************************************************************************)
(* register and remove fail the futures a session leaves behind: whoever   *)
(* waits is in the pending table of the registered session.                *)
(***************************************************************************)
THEOREM WaitersReachable == Spec => []WaiterIsReachable
<1>1. IInv => WaiterIsReachable
  BY DEF IInv
<1>2. QED
  BY <1>1, InductiveInvariant, PTL

(***************************************************************************)
(* complete_request runs before the caller hears the outcome.              *)
(***************************************************************************)
THEOREM RepliesRecorded == Spec => []ReplyIsRecorded
<1>1. IInv => ReplyIsRecorded
  BY DEF IInv, ReplyInv, ReplyIsRecorded
<1>2. QED
  BY <1>1, InductiveInvariant, PTL

(***************************************************************************)
(* A decided row never changes, and no row changes its request_id.         *)
(***************************************************************************)
THEOREM OutcomesFinal == Spec => OutcomeIsFinal
<1>1. IInv /\ [Next]_vars => [OutcomeStays]_vars
  <2> SUFFICES ASSUME IInv, [Next]_vars PROVE OutcomeStays
    OBVIOUS
  <2>1. \A k \in Slot : ledger[k] # None => ledger[k] \in Row
    BY DEF IInv, TypeOK
  <2>2. QED
    BY <2>1, DecidedRowStays DEF OutcomeStays
<1>2. QED
  BY <1>1, InductiveInvariant, PTL DEF Spec, OutcomeIsFinal

-----------------------------------------------------------------------------
(***************************************************************************)
(* session.pending names, under a request_id, a call that was sent on that *)
(* session with that request_id.                                           *)
(***************************************************************************)
EntryInv ==
    \A s \in Session, id \in Rid, d \in Call : pending[s][id] = d =>
       sess[d] = s /\ req[d].rid = id

(***************************************************************************)
(* Entries are made by the dispatch, with the session it found and the     *)
(* request_id it claimed; every other step keeps or drops them.            *)
(***************************************************************************)
LEMMA EntryStep ==
    ASSUME IInv, EntryInv, [Next]_vars
    PROVE  EntryInv'
<1>0. TypeOK /\ CallInv
  BY DEF IInv
<1>1. ASSUME NEW s \in Session, NEW id \in Rid, NEW d \in Call,
             pending'[s][id] = d, pending'[s][id] = pending[s][id]
      PROVE  sess'[d] = s /\ req'[d].rid = id
  <2>1. sess[d] = s /\ req[d].rid = id
    BY <1>1 DEF EntryInv
  <2>2. QED
    BY <2>1, NoneAssumption, SentStays DEF Dispatched
<1>2. ASSUME \A s \in Session, id \in Rid :
                pending'[s][id] \in {None, pending[s][id]}
      PROVE  EntryInv'
  BY <1>1, <1>2, CommandsAssumption DEF EntryInv
<1>3. ASSUME NEW c \in Call, NEW r \in Request, NEW ctx \in Context,
             Dispatch(c, r, ctx)
      PROVE  EntryInv'
  <2>1. registered[r.connector] \in Session /\ r.rid \in Rid
    BY <1>0, <1>3 DEF Dispatch, Routed, Request, TypeOK, RelayTypeOK
  <2>2. sess'[c] = registered[r.connector] /\ req'[c] = r
    BY <1>0, <1>3 DEF Dispatch, TypeOK
  <2>3. /\ pending'[registered[r.connector]][r.rid] = c
        /\ \A s \in Session, id \in Rid :
              ~(s = registered[r.connector] /\ id = r.rid)
                 => pending'[s][id] = pending[s][id]
    BY <1>0, <1>3, <2>1 DEF Dispatch, TypeOK
  <2>4. ASSUME NEW s \in Session, NEW id \in Rid, NEW d \in Call,
               pending'[s][id] = d
        PROVE  sess'[d] = s /\ req'[d].rid = id
    <3>1. CASE s = registered[r.connector] /\ id = r.rid
      BY <2>2, <2>3, <2>4, <3>1
    <3>2. CASE ~(s = registered[r.connector] /\ id = r.rid)
      BY <1>1, <2>3, <2>4, <3>2
    <3>3. QED
      BY <3>1, <3>2
  <2>5. QED
    BY <2>4 DEF EntryInv
<1>4. ASSUME NEW c \in Call, Settles(c)
      PROVE  EntryInv'
  <2>1. sess[c] \in Session /\ req[c].rid \in Rid
    BY <1>0, <1>4, DispatchedCall DEF Settles, CallInv
  <2>2. QED
    BY <1>0, <1>2, <1>4, <2>1 DEF Settles, Settle, TypeOK
<1>5. ASSUME NEW s \in Session, FailPending(s)
      PROVE  EntryInv'
  BY <1>0, <1>2, <1>5 DEF FailPending, TypeOK
<1>6. ASSUME NEW s \in Session, NEW p \in Peer, Connect(s, p)
      PROVE  EntryInv'
  <2>1. registered[p.connector] \in Session \union {None}
    BY <1>0 DEF TypeOK, RelayTypeOK, Peer
  <2>2. QED
    BY <1>2, <1>5, <1>6, <2>1 DEF Connect, FailSuperseded
<1>7. ASSUME NEW s \in Session, SessionFails(s) \/ EndSession(s)
      PROVE  EntryInv'
  BY <1>2, <1>5, <1>7 DEF SessionFails, EndSession, FailRemoved, commandVars
<1>8. CASE Crash
  BY <1>2, <1>8 DEF Crash, LoseCommands
<1>9. ASSUME pending' = pending
      PROVE  EntryInv'
  BY <1>2, <1>9
<1>10. QED
  BY <1>3, <1>4, <1>6, <1>7, <1>8, <1>9, StepCases
     DEF Refused, Answered, Replay, Busy, SendReturns, CancelRequest,
         CancelResolves, CancelFails, AnswerAccepted, AnswerUnmatched, vars,
         commandVars

(***************************************************************************)
(* Only _receive_response gives a future a device's answer, and it finds   *)
(* the future by the request_id of the frame in the table of the session.  *)
(***************************************************************************)
LEMMA AnswerStep ==
    ASSUME IInv, EntryInv, [Next]_vars
    PROVE  AnswerIsItsOwn
<1>0. TypeOK /\ CallInv
  BY DEF IInv
<1>1. SUFFICES ASSUME NEW d \in Call, fut[d] = "unset",
                      fut'[d] \in {"ok", "device_error"}
               PROVE  \E c \in owed \ owed' :
                         /\ sess[c] = sess[d] /\ req[c].rid = req[d].rid
                         /\ Fresh(d) => c = d
  BY DEF AnswerIsItsOwn
<1>2. PICK c \in Call : AnswerAccepted(c)
  <2>1. ASSUME NEW e \in Call, Settles(e)
        PROVE  FALSE
    BY <1>0, <1>1, <2>1 DEF Settles, Settle, TypeOK
  <2>2. ASSUME NEW s \in Session, FailPending(s)
        PROVE  FALSE
    BY <1>1, <2>2 DEF FailPending
  <2>3. ASSUME NEW s \in Session, NEW p \in Peer, Connect(s, p)
        PROVE  FALSE
    <3>1. registered[p.connector] \in Session \union {None}
      BY <1>0 DEF TypeOK, RelayTypeOK, Peer
    <3>2. QED
      BY <1>1, <2>2, <2>3, <3>1 DEF Connect, FailSuperseded
  <2>4. ASSUME NEW s \in Session, SessionFails(s) \/ EndSession(s)
        PROVE  FALSE
    BY <1>1, <2>2, <2>4
       DEF SessionFails, EndSession, FailRemoved, commandVars
  <2>5. ASSUME NEW e \in Call, NEW r \in Request, NEW ctx \in Context,
               Dispatch(e, r, ctx)
        PROVE  FALSE
    BY <1>0, <1>1, <2>5 DEF Dispatch, TypeOK
  <2>6. ASSUME NEW o \in Operator, CancelResolves(o)
        PROVE  FALSE
    BY <1>0, <1>1, <2>6 DEF CancelResolves, TypeOK
  <2>7. CASE Crash
    BY <1>1, <2>7 DEF Crash, LoseCommands
  <2>8. fut' # fut
    BY <1>1
  <2>9. QED
    BY <2>1, <2>3, <2>4, <2>5, <2>6, <2>7, <2>8, StepCases
       DEF Refused, Answered, Replay, Busy, SendReturns, CancelRequest,
           CancelFails, AnswerUnmatched, vars, commandVars
<1>3. c \in owed \ owed' /\ Dispatched(c)
  BY <1>0, <1>2 DEF AnswerAccepted, CallInv
<1>4. req[c].rid \in RidsOf(c) /\ req[c].rid \in Rid /\ sess[c] \in Session
  BY <1>3, DispatchedCall
<1>5. WaiterFor(c) = d
  BY <1>0, <1>1, <1>2 DEF AnswerAccepted, TypeOK
<1>6. sess[d] = sess[c] /\ req[d].rid = req[c].rid
  BY <1>1, <1>4, <1>5, CommandsAssumption DEF EntryInv, WaiterFor
<1>7. Fresh(d) => c = d
  BY <1>1, <1>4, <1>6, CommandsAssumption DEF Fresh, RidsOf
<1>8. QED
  BY <1>3, <1>6, <1>7

(***************************************************************************)
(* No answer is delivered to another caller's future.                      *)
(***************************************************************************)
THEOREM AnswersFindTheirCaller == Spec => AnswersReachTheirCaller
<1>1. Init => EntryInv
  BY CommandsAssumption DEF Init, CommandsInit, EntryInv
<1>2. IInv /\ EntryInv /\ [Next]_vars => EntryInv'
  BY EntryStep
<1>3. IInv /\ EntryInv /\ [Next]_vars => [AnswerIsItsOwn]_vars
  BY AnswerStep
<1>4. QED
  BY <1>1, <1>2, <1>3, InductiveInvariant, PTL
     DEF Spec, AnswersReachTheirCaller

-----------------------------------------------------------------------------
(***************************************************************************)
(* Call c is why the row k is pending, or would be.                        *)
(***************************************************************************)
Explains(c, k) ==
    /\ req[c] \in Request
    /\ SlotOf(req[c]) = k /\ req[c].rid = ledger[k].rid
    /\ InFlight(c) \/ pc[c] = "lost" \/ reply[c] = "command_in_flight"

(***************************************************************************)
(* A call that has begun keeps its arguments.                              *)
(***************************************************************************)
LEMMA ArgumentsStay ==
    ASSUME IInv, [Next]_vars, NEW c \in Call, pc[c] # "idle"
    PROVE  req'[c] = req[c]
<1>1. TypeOK
  BY DEF IInv
<1>2. QED
  BY <1>1, StepCases
     DEF TypeOK, Refused, Answered, Replay, Busy, Dispatch, SendReturns,
         Settles, Settle, CancelRequest, CancelResolves, CancelFails,
         AnswerAccepted, AnswerUnmatched, Connect, SessionFails, EndSession,
         Crash, LoseCommands, vars, commandVars, callVars

(***************************************************************************)
(* It goes on explaining while the row stays pending: a call that returns  *)
(* decides its row, and one that dies with the process is lost.            *)
(***************************************************************************)
LEMMA ExplanationStays ==
    ASSUME IInv, [Next]_vars, NEW c \in Call, NEW k \in Slot, ledger[k] # None,
           Explains(c, k), ledger'[k].outcome = "pending"
    PROVE  Explains(c, k)'
<1>0. TypeOK /\ CallInv
  BY DEF IInv
<1>1. pc[c] # "idle"
  <2>1. None # "command_in_flight"
    BY NoDataAssumption DEF Refusal
  <2>2. QED
    BY <1>0, <2>1 DEF Explains, InFlight, CallInv
<1>2. req'[c] = req[c] /\ ledger'[k].rid = ledger[k].rid
  BY <1>1, ArgumentsStay, DecidedRowStays
<1>3. ASSUME NEW e \in Call, pc[e] = "idle",
             \A d \in Call \ {e} : pc'[d] = pc[d] /\ reply'[d] = reply[d]
      PROVE  Explains(c, k)'
  BY <1>1, <1>2, <1>3 DEF Explains, InFlight
<1>4. ASSUME NEW e \in Call, Settles(e)
      PROVE  Explains(c, k)'
  <2>1. PICK outcome \in Outcome : Settle(e, outcome)
    BY <1>4 DEF Settles
  <2>2. InFlight(e) /\ Dispatched(e)
    BY <1>0, <1>4 DEF Settles, CallInv
  <2>3. CASE e = c
    <3>1. ledger[k] \in Row /\ req[c] \in Request
      BY <1>0, <2>2, <2>3, DispatchedCall DEF Explains
    <3>2. ledger'[k].outcome # "pending"
      BY <1>0, <2>1, <2>3, <3>1, CompletedLedgerRow
         DEF Settle, Explains, Outcome, Result, Failure
    <3>3. QED
      BY <3>2
  <2>4. CASE e # c
    <3>1. pc'[c] = pc[c] /\ reply'[c] = reply[c]
      BY <1>0, <2>1, <2>4 DEF Settle, TypeOK
    <3>2. QED
      BY <1>2, <3>1 DEF Explains, InFlight
  <2>5. QED
    BY <2>3, <2>4
<1>5. CASE Crash
  <2>1. (pc'[c] = "lost" \/ pc'[c] = pc[c]) /\ (InFlight(c) => pc'[c] = "lost")
        /\ reply' = reply
    BY <1>5 DEF Crash, LoseCommands
  <2>2. QED
    BY <1>2, <2>1 DEF Explains, InFlight
<1>6. ASSUME NEW e \in Call, SendReturns(e)
      PROVE  Explains(c, k)'
  <2>1. (InFlight(c) => InFlight(c)') /\ (pc[c] = "lost" => pc'[c] = "lost")
        /\ reply' = reply
    BY <1>0, <1>6 DEF SendReturns, InFlight, TypeOK
  <2>2. QED
    BY <1>2, <2>1 DEF Explains
<1>7. ASSUME UNCHANGED <<pc, reply>>
      PROVE  Explains(c, k)'
  BY <1>2, <1>7 DEF Explains, InFlight
<1>8. ASSUME NEW e \in Call, NEW r, NEW code, Answered(e, r, code)
      PROVE  Explains(c, k)'
  BY <1>0, <1>3, <1>8 DEF Answered, TypeOK
<1>9. ASSUME NEW e \in Call, NEW r \in Request, NEW ctx \in Context,
             Replay(e, r, ctx) \/ Busy(e, r, ctx) \/ Dispatch(e, r, ctx)
      PROVE  Explains(c, k)'
  BY <1>0, <1>3, <1>8, <1>9 DEF Replay, Busy, Dispatch, TypeOK
<1>10. QED
  BY <1>4, <1>5, <1>6, <1>7, <1>8, <1>9, StepCases
     DEF Refused, CancelRequest, CancelResolves, CancelFails, AnswerAccepted,
         AnswerUnmatched, Connect, SessionFails, EndSession, vars,
         commandVars, callVars

(***************************************************************************)
(* A row that was not there is the claim of a call that is dispatched or   *)
(* refused as busy in the same step.                                       *)
(***************************************************************************)
LEMMA NewRowExplained ==
    ASSUME IInv, [Next]_vars, NEW k \in Slot, ledger[k] = None,
           ledger'[k] # None
    PROVE  \E c \in Call : Explains(c, k)'
<1>0. TypeOK /\ CallInv
  BY DEF IInv
<1>1. ASSUME NEW e \in Call, Settles(e)
      PROVE  FALSE
  <2>1. PICK outcome \in Outcome : Settle(e, outcome)
    BY <1>1 DEF Settles
  <2>2. Dispatched(e)
    BY <1>0, <1>1 DEF Settles, CallInv
  <2>3. ledger'[k] = ledger[k]
    BY <1>0, <2>1, <2>2, DispatchedCall, CompletedLedgerRow, NoDataAssumption
       DEF Settle
  <2>4. QED
    BY <2>3
<1>2. PICK e \in Call, r \in Request, ctx \in Context :
         Busy(e, r, ctx) \/ Dispatch(e, r, ctx)
  BY <1>1, StepCases
     DEF Refused, Answered, Replay, SendReturns, CancelRequest,
         CancelResolves, CancelFails, AnswerAccepted, AnswerUnmatched,
         Connect, SessionFails, EndSession, Crash, LoseCommands, vars,
         commandVars
<1>3. ClaimIsNew(r) /\ ledger' = ClaimedLedger(r, ctx)
  BY <1>2 DEF Busy, Dispatch
<1>4. k = SlotOf(r)
  <2>1. SlotOf(r) \in Slot
    BY DEF SlotOf, Slot, Request
  <2>2. QED
    BY <1>0, <1>3, <2>1 DEF ClaimedLedger, TypeOK
<1>5. ledger'[k].rid = r.rid
  BY <1>0, <1>3, <1>4, ClaimedLedgerRow
<1>6. req'[e] = r /\ (pc'[e] = "sending" \/ reply'[e] = "command_in_flight")
  BY <1>0, <1>2 DEF Busy, Dispatch, Answered, TypeOK
<1>7. QED
  BY <1>4, <1>5, <1>6 DEF Explains, InFlight

(***************************************************************************)
(* No key is left undecided but by a call that is in flight, was lost with *)
(* the process, or was refused as busy.                                    *)
(***************************************************************************)
THEOREM PendingKeysExplained == Spec => []PendingKeyHasReason
<1>1. Init => PendingKeyHasReason
  BY DEF Init, CommandsInit, PendingKeyHasReason
<1>2. IInv /\ PendingKeyHasReason /\ [Next]_vars => PendingKeyHasReason'
  <2> SUFFICES ASSUME IInv, PendingKeyHasReason, [Next]_vars,
                      NEW k \in Slot, ledger'[k] # None,
                      ledger'[k].outcome = "pending"
               PROVE  \E c \in Call : Explains(c, k)'
    BY DEF PendingKeyHasReason, Explains
  <2>1. CASE ledger[k] = None
    BY <2>1, NewRowExplained
  <2>2. CASE ledger[k] # None
    <3>1. ledger[k].outcome = "pending"
      BY <2>2, DecidedRowStays DEF IInv, TypeOK
    <3>2. PICK c \in Call : Explains(c, k)
      BY <2>2, <3>1 DEF PendingKeyHasReason, Explains
    <3>3. QED
      BY <2>2, <3>2, ExplanationStays
  <2>3. QED
    BY <2>1, <2>2
<1>3. QED
  BY <1>1, <1>2, InductiveInvariant, PTL DEF Spec

-----------------------------------------------------------------------------
(***************************************************************************)
(* The refinement of Idempotency.  Each action of device_command is first  *)
(* seen through Begun, Running, Owner and Decided.                         *)
(*                                                                         *)
(* A collision slot is held exactly when an equal mutating call is in      *)
(* flight: no slot is left behind, and none is free while its call runs.   *)
(***************************************************************************)
LEMMA GuardIsBusy ==
    ASSUME IInv, NEW r \in Request
    PROVE  GuardHeld(r) <=> Idm!Busy(r)
<1>0. GuardHasHolder /\ HolderInv /\ CallInv
  BY DEF IInv
<1>1. ASSUME GuardHeld(r)
      PROVE  Idm!Busy(r)
  <2>1. GuardOf(r) \in Guard
    BY DEF GuardOf, Guard, Request
  <2>2. PICK c \in Call : InFlight(c) /\ GuardOf(req[c]) = GuardOf(r)
    BY <1>0, <1>1, <2>1 DEF GuardHeld, GuardHasHolder
  <2>3. [call |-> c, of |-> req[c]] \in Running
    BY <2>2 DEF Running
  <2>4. r.intent \in Mutating
    BY <1>1 DEF GuardHeld, Guarded
  <2>5. req[c].connector = r.connector /\ req[c].intent = r.intent
    BY <2>2 DEF GuardOf
  <2>6. QED
    BY <2>3, <2>4, <2>5 DEF Idm!Busy
<1>2. ASSUME Idm!Busy(r)
      PROVE  GuardHeld(r)
  <2>1. PICK c \in Call : /\ InFlight(c)
                          /\ req[c].connector = r.connector
                          /\ req[c].intent = r.intent
    BY <1>2 DEF Idm!Busy, Running
  <2>2. r.intent \in Mutating
    BY <1>2 DEF Idm!Busy
  <2>3. req[c].rid # None
    BY <1>0, <2>1, DispatchedCall DEF CallInv
  <2>4. inFlight[GuardOf(r)] # None
    BY <1>0, <2>1, <2>2, <2>3 DEF HolderInv, Guarded, GuardOf
  <2>5. QED
    BY <2>2, <2>4 DEF GuardHeld, Guarded
<1>3. QED
  BY <1>1, <1>2

(***************************************************************************)
(* claim_request makes an owner of a key that has none, and decides        *)
(* nothing.                                                                *)
(***************************************************************************)
LEMMA ClaimRefines ==
    ASSUME IInv, NEW r \in Request, NEW ctx \in Context, ClaimIsNew(r),
           ledger' = ClaimedLedger(r, ctx)
    PROVE  Idm!Claim(r) /\ Decided' = Decided
<1>0. ledger \in [Slot -> Row \union {None}]
  BY DEF IInv, TypeOK
<1>1. SlotOf(r) \in Slot /\ Idm!SlotOf(r) = SlotOf(r)
  BY DEF SlotOf, Slot, Request, Idm!SlotOf
<1>2. Owner[SlotOf(r)] \in {None, r.rid}
  BY <1>1 DEF Owner, ClaimIsNew
<1>3. CASE ledger[SlotOf(r)] = None
  <2>1. ledger' = [ledger EXCEPT ![SlotOf(r)] =
                      [rid |-> r.rid, digest |-> <<r.intent, ctx>>,
                       outcome |-> "pending"]]
    BY <1>3 DEF ClaimedLedger
  <2>2. ledger'[SlotOf(r)] # None /\ ledger'[SlotOf(r)].rid = r.rid
        /\ ledger'[SlotOf(r)].outcome = "pending"
        /\ \A k \in Slot \ {SlotOf(r)} : ledger'[k] = ledger[k]
    <3>1. [rid |-> r.rid, digest |-> <<r.intent, ctx>>, outcome |-> "pending"]
            \in Row
      BY DEF Row, Request
    <3>2. QED
      BY <1>0, <1>1, <2>1, <3>1, NoDataAssumption
  <2>3. Owner' = [Owner EXCEPT ![SlotOf(r)] = r.rid]
    BY <1>1, <2>2 DEF Owner
  <2>4. Decided' = Decided
    BY <1>1, <1>3, <2>2 DEF Decided
  <2>5. QED
    BY <1>1, <1>2, <2>3, <2>4 DEF Idm!Claim
<1>4. CASE ledger[SlotOf(r)] # None
  <2>1. ledger' = ledger
    BY <1>4 DEF ClaimedLedger
  <2>2. Owner' = Owner /\ Decided' = Decided
    BY <2>1 DEF Owner, Decided
  <2>3. Owner[SlotOf(r)] = r.rid
    BY <1>1, <1>4 DEF Owner, ClaimIsNew
  <2>4. Owner' = [Owner EXCEPT ![SlotOf(r)] = r.rid]
    BY <1>1, <2>2, <2>3 DEF Owner
  <2>5. QED
    BY <1>1, <1>2, <2>2, <2>4 DEF Idm!Claim
<1>5. QED
  BY <1>3, <1>4

(***************************************************************************)
(* A call that is answered without being dispatched never runs.            *)
(***************************************************************************)
LEMMA AnswerRefines ==
    ASSUME IInv, NEW c \in Call, NEW r, NEW code, Answered(c, r, code),
           Decided' = Decided
    PROVE  Idm!Answer(c, code)
<1>0. pc \in [Call -> {"idle", "sending", "waiting", "done", "lost"}]
      /\ req \in [Call -> Request \union {None}]
  BY DEF IInv, TypeOK
<1>1. pc[c] = "idle" /\ pc' = [pc EXCEPT ![c] = "done"]
      /\ req' = [req EXCEPT ![c] = r]
  BY DEF Answered
<1>2. c \notin Begun /\ Begun' = Begun \union {c}
  BY <1>0, <1>1 DEF Begun
<1>3. Running' = Running
  <2>1. \A d \in Call : InFlight(d)' <=> InFlight(d)
    BY <1>0, <1>1 DEF InFlight
  <2>2. \A d \in Call : InFlight(d) => req'[d] = req[d]
    BY <1>0, <1>1 DEF InFlight
  <2>3. QED
    BY <2>1, <2>2 DEF Running
<1>4. QED
  BY <1>2, <1>3 DEF Idm!Answer, Answered

(***************************************************************************)
(* The steps that change neither a call's place, nor its arguments, nor    *)
(* the ledger, nor a reply are invisible.                                  *)
(***************************************************************************)
LEMMA StutterRefines ==
    ASSUME UNCHANGED <<pc, req, reply, ledger>>
    PROVE  UNCHANGED Idm!vars
BY DEF Idm!vars, Begun, Running, Owner, Decided, InFlight

(***************************************************************************)
(* A dispatched call begins to run.                                        *)
(***************************************************************************)
LEMMA DispatchRefines ==
    ASSUME IInv, NEW c \in Call, NEW r \in Request, NEW ctx \in Context,
           Dispatch(c, r, ctx)
    PROVE  Idm!Start(c, r)
<1>0. pc \in [Call -> {"idle", "sending", "waiting", "done", "lost"}]
      /\ req \in [Call -> Request \union {None}]
  BY DEF IInv, TypeOK
<1>1. pc[c] = "idle" /\ pc' = [pc EXCEPT ![c] = "sending"]
      /\ req' = [req EXCEPT ![c] = r] /\ reply' = reply
  BY DEF Dispatch
<1>2. Idm!Claim(r) /\ Decided' = Decided
  BY ClaimRefines DEF Dispatch
<1>3. ~Idm!Busy(r)
  BY GuardIsBusy DEF Dispatch
<1>4. c \notin Begun /\ Begun' = Begun \union {c}
  BY <1>0, <1>1 DEF Begun
<1>5. Running' = Running \union {[call |-> c, of |-> r]}
  <2>1. \A d \in Call : InFlight(d)' <=> InFlight(d) \/ d = c
    BY <1>0, <1>1 DEF InFlight
  <2>2. \A d \in Call : InFlight(d) => req'[d] = req[d]
    BY <1>0, <1>1 DEF InFlight
  <2>3. req'[c] = r
    BY <1>0, <1>1
  <2>4. QED
    BY <2>1, <2>2, <2>3 DEF Running
<1>6. QED
  BY <1>1, <1>2, <1>3, <1>4, <1>5 DEF Idm!Start

(***************************************************************************)
(* A call that ends decides its key if nothing did before, and a call      *)
(* under a fresh uuid is the one that decides it.                          *)
(***************************************************************************)
LEMMA SettleRefines ==
    ASSUME IInv, NEW c \in Call, InFlight(c), NEW result \in Outcome,
           Settle(c, result)
    PROVE  Idm!Finish([call |-> c, of |-> req[c]], result)
<1> DEFINE j == [call |-> c, of |-> req[c]]
           k == SlotOf(req[c])
<1>0. TypeOK /\ KeyInv /\ Dispatched(c)
  BY DEF IInv, CallInv
<1>1. req[c] \in Request /\ k \in Slot /\ ledger[k] \in Row
  BY <1>0, DispatchedCall
<1>2. Idm!SlotOf(j.of) = k
  BY DEF Idm!SlotOf, SlotOf
<1>3. ledger[k] # None /\ Decided[k] = ledger[k].outcome
  BY <1>1, NoDataAssumption DEF Decided
<1>4. j.of.rid = j.call => Decided[k] = "pending"
  BY <1>0, <1>3 DEF KeyInv, Fresh
<1>5. j \in Running
  BY DEF Running
<1>6. Running' = Running \ {j}
  <2>1. \A d \in Call : InFlight(d)' <=> InFlight(d) /\ d # c
    BY <1>0 DEF Settle, TypeOK, InFlight
  <2>2. req' = req
    BY DEF Settle
  <2>3. QED
    BY <2>1, <2>2 DEF Running
<1>7. Begun' = Begun
  BY <1>0 DEF Settle, TypeOK, Begun, InFlight
<1>8. /\ ledger'[k] \in Row /\ ledger'[k].rid = ledger[k].rid
      /\ ledger[k].outcome = "pending" => ledger'[k].outcome = result
      /\ ledger[k].outcome # "pending" => ledger' = ledger
      /\ \A x \in Slot : x # k => ledger'[x] = ledger[x]
  BY <1>0, <1>1, CompletedLedgerRow DEF Settle
<1>9. Owner' = Owner
  BY <1>1, <1>3, <1>8, NoDataAssumption DEF Owner
<1>10. Decided' = IF Decided[k] = "pending"
                    THEN [Decided EXCEPT ![k] = result] ELSE Decided
  BY <1>1, <1>3, <1>8, NoDataAssumption DEF Decided
<1>11. reply' = [reply EXCEPT ![j.call] = result]
  BY DEF Settle
<1>12. QED
  BY <1>2, <1>4, <1>5, <1>6, <1>7, <1>9, <1>10, <1>11 DEF Idm!Finish

(***************************************************************************)
(* Whoever calls under a key that another request_id owns is told what     *)
(* the ledger holds.                                                       *)
(***************************************************************************)
LEMMA OwnedRefines ==
    ASSUME IInv, NEW c \in Call, NEW r \in Request, NEW ctx \in Context,
           Conflict(c, r, ctx) \/ StillPending(c, r, ctx) \/ Replay(c, r, ctx)
    PROVE  Idm!RefuseOwned(c, r)
<1>1. SlotOf(r) \in Slot /\ Idm!SlotOf(r) = SlotOf(r)
  BY DEF SlotOf, Slot, Request, Idm!SlotOf
<1>2. ledger[SlotOf(r)] # None /\ ledger[SlotOf(r)].rid # r.rid
  BY DEF Conflict, StillPending, Replay, ClaimIsNew
<1>3. ledger[SlotOf(r)] \in Row /\ None \notin Rid
  BY <1>1, <1>2, CommandsAssumption DEF IInv, TypeOK, Rid
<1>4. Owner[SlotOf(r)] \notin {None, r.rid}
  BY <1>1, <1>2, <1>3 DEF Owner, Row
<1>5. Decided[SlotOf(r)] = ledger[SlotOf(r)].outcome
  BY <1>1, <1>2 DEF Decided
<1>6. Owner' = Owner /\ Decided' = Decided
  BY DEF Conflict, StillPending, Replay, Owner, Decided
<1>7. \E code \in {"idempotency_conflict",
                   IF Decided[SlotOf(r)] = "pending"
                     THEN "request_pending" ELSE Decided[SlotOf(r)]} :
         Answered(c, r, code)
  BY <1>5 DEF Conflict, StillPending, Replay
<1>8. QED
  BY <1>1, <1>4, <1>6, <1>7, AnswerRefines DEF Idm!RefuseOwned

(***************************************************************************)
(* The death of the process ends what runs and decides nothing.            *)
(***************************************************************************)
LEMMA CrashRefines ==
    ASSUME IInv, Crash
    PROVE  Idm!Lose
<1>0. pc \in [Call -> {"idle", "sending", "waiting", "done", "lost"}]
  BY DEF IInv, TypeOK
<1>1. pc' = [c \in Call |-> IF InFlight(c) THEN "lost" ELSE pc[c]]
      /\ UNCHANGED <<req, reply, ledger>>
  BY DEF Crash, LoseCommands
<1>2. Running' = {} /\ Begun' = Begun
  BY <1>0, <1>1 DEF Running, Begun, InFlight
<1>3. Owner' = Owner /\ Decided' = Decided
  BY <1>1 DEF Owner, Decided
<1>4. QED
  BY <1>1, <1>2, <1>3 DEF Idm!Lose

(***************************************************************************)
(* Every step of the command path is a step of Idempotency or none.        *)
(***************************************************************************)
LEMMA IdempotencyStep ==
    ASSUME IInv, [Next]_vars
    PROVE  [Idm!Next]_(Idm!vars)
<1>0. Idm!Request = Request
  BY DEF Idm!Request, Request, Rid
<1>1. CASE CallStep
  <2>1. PICK c \in Call :
          \/ NotDispatched(c)
          \/ \E r \in Request, ctx \in Context :
                r.rid \in RidsOf(c) /\ Begin(c, r, ctx)
          \/ SendReturns(c)
          \/ SendFails(c) \/ Resume(c) \/ TimeOut(c)
    BY <1>1 DEF CallStep
  <2>2. CASE NotDispatched(c)
    <3>1. Owner' = Owner /\ Decided' = Decided
      BY <2>2 DEF NotDispatched, Owner, Decided
    <3>2. Idm!NotDispatched(c)
      BY <2>2, <3>1, AnswerRefines DEF NotDispatched, Idm!NotDispatched
    <3>3. QED
      BY <3>2 DEF Idm!Next
  <2>3. ASSUME NEW r \in Request, NEW ctx \in Context, r.rid \in RidsOf(c),
               Begin(c, r, ctx)
        PROVE  Idm!Next
    <3>1. CASE Busy(c, r, ctx)
      <4>1. Idm!Claim(r) /\ Decided' = Decided
        BY <3>1, ClaimRefines DEF Busy
      <4>2. Idm!RefuseBusy(c, r)
        BY <3>1, <4>1, GuardIsBusy, AnswerRefines
           DEF Busy, Idm!RefuseBusy
      <4>3. QED
        BY <1>0, <2>3, <4>2 DEF Idm!Next, RidsOf
    <3>2. CASE Dispatch(c, r, ctx)
      BY <1>0, <2>3, <3>2, DispatchRefines DEF Idm!Next, RidsOf
    <3>3. CASE Conflict(c, r, ctx) \/ StillPending(c, r, ctx)
               \/ Replay(c, r, ctx)
      BY <1>0, <2>3, <3>3, OwnedRefines DEF Idm!Next, RidsOf
    <3>4. QED
      BY <2>3, <3>1, <3>2, <3>3 DEF Begin
  <2>4. CASE SendReturns(c)
    <3>1. pc[c] = "sending" /\ pc' = [pc EXCEPT ![c] = "waiting"]
          /\ pc \in [Call -> {"idle", "sending", "waiting", "done", "lost"}]
      BY <2>4 DEF SendReturns, IInv, TypeOK
    <3>2. \A d \in Call : (InFlight(d)' <=> InFlight(d))
                          /\ (pc'[d] = "idle" <=> pc[d] = "idle")
      BY <3>1 DEF InFlight
    <3>3. UNCHANGED <<req, reply, ledger>>
      BY <2>4 DEF SendReturns
    <3>4. QED
      BY <3>2, <3>3 DEF Idm!vars, Begun, Running, Owner, Decided
  <2>5. CASE SendFails(c) \/ Resume(c) \/ TimeOut(c)
    <3>1. InFlight(c)
      BY <2>5 DEF SendFails, Resume, TimeOut, TimerFires, InFlight
    <3>2. OutcomesOf(c) \subseteq Outcome
      BY DEF OutcomesOf, Outcome, Result, Failure
    <3>3. PICK result \in Outcome : Settle(c, result)
      BY <2>5, <3>2
         DEF SendFails, Resume, TimeOut, Outcome, Result, Failure
    <3>4. Idm!Finish([call |-> c, of |-> req[c]], result)
      BY <3>1, <3>3, SettleRefines
    <3>5. [call |-> c, of |-> req[c]] \in Running
      BY <3>1 DEF Running
    <3>6. QED
      BY <3>4, <3>5 DEF Idm!Next
  <2>6. QED
    BY <2>1, <2>2, <2>3, <2>4, <2>5
<1>2. CASE CancelStep \/ DeviceStep \/ SessionStep \/ UNCHANGED vars
  <2>1. UNCHANGED <<pc, req, reply, ledger>>
    BY <1>2
       DEF CancelStep, CancelRequest, CancelResolves, CancelFails, DeviceStep,
           AnswerAccepted, AnswerUnmatched, SessionStep, Connect,
           SessionFails, EndSession, vars, commandVars, callVars
  <2>2. QED
    BY <2>1, StutterRefines
<1>3. CASE Crash
  BY <1>3, CrashRefines DEF Idm!Next
<1>4. QED
  BY <1>1, <1>2, <1>3 DEF Next

(***************************************************************************)
(* Before the first call no key has an owner.                              *)
(***************************************************************************)
LEMMA IdempotencyInit == Init => Idm!Init
BY DEF Init, CommandsInit, Idm!Init, Idm!Slot, Slot, Begun, Running, Owner,
       Decided, InFlight

(***************************************************************************)
(* device_command implements Idempotency: a key has one owner and one      *)
(* outcome, equal mutating commands do not overlap, and who calls under    *)
(* another's key is told what the ledger holds, whatever sessions, frames, *)
(* futures, timers and cancels do.                                         *)
(***************************************************************************)
THEOREM IdempotencyImplemented == Spec => ImplementsIdempotency
<1>1. IInv /\ [Next]_vars => [Idm!Next]_(Idm!vars)
  BY IdempotencyStep
<1>2. QED
  BY <1>1, IdempotencyInit, InductiveInvariant, PTL
     DEF Spec, ImplementsIdempotency, Idm!Spec
=============================================================================
