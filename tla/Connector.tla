----------------------------- MODULE Connector -----------------------------
(***************************************************************************)
(* The connector process: the command path (Commands) and the presence     *)
(* path (Presence) over the one registry and the one database they share.  *)
(*                                                                         *)
(* A step of a relay session is the conjunction of what it does to both.   *)
(* A command is routed by live_instances first and by the registry second, *)
(* and the instance_id and context_epoch it was routed by enter the digest *)
(* its idempotency key is claimed with.                                    *)
(***************************************************************************)
EXTENDS Naturals

CONSTANTS Session, Connector, Instance, None,
          Call, Key, Intent, Mutating, SignedId, Operator, MaxCrashes,
          StaleWindow, MaxTime, MaxEpoch

VARIABLES stage, peer, registered,
          pc, req, sess, fut, reply, pending, inFlight, ledger, owed,
          cancelling, crashes,
          now, device, row

Prs == INSTANCE Presence

Context == Instance \X Prs!Epoch

Cmd == INSTANCE Commands

(***************************************************************************)
(* What Relay, Commands and Presence assume of their constants.            *)
(***************************************************************************)
ASSUME ConnectorAssumption ==
    /\ Mutating \subseteq Intent
    /\ Call \intersect SignedId = {}
    /\ StaleWindow \in Nat \ {0}
    /\ {MaxCrashes, MaxTime, MaxEpoch} \subseteq Nat

ASSUME ConnectorNoneAssumption ==
    /\ None \notin Session \union Call \union SignedId
    /\ None \notin Cmd!Peer
    /\ None \notin Cmd!Row
    /\ None \notin Cmd!Outcome \union Cmd!Refusal
    /\ None \notin Prs!LiveRow

commandVars == <<pc, req, sess, reply, fut, pending, inFlight, ledger, owed,
                 cancelling, crashes>>
presenceVars == <<now, device, row>>
connectorVars == <<stage, peer, registered, commandVars, presenceVars>>

ConnectorInit == Cmd!Init /\ Prs!PresenceInit

-----------------------------------------------------------------------------
(***************************************************************************)
(* _relay_session and get_exact: the row a command for d is routed by.     *)
(* The caller may pin one process.  The sweep that comes first closes only *)
(* rows that are not fresh.                                                *)
(***************************************************************************)
MutantTrustStateColumn(d, pinned) ==
    {i \in Instance : /\ Prs!Online(i)
                      /\ row[i].connector = d
                      /\ Prs!Reaches(d, i)}

MutantIgnoreProcess(d, pinned) ==
    {i \in Prs!LatestOf(d) : registered[d] # None}

RoutesOf(d, pinned) ==
    {i \in IF pinned = None THEN Prs!LatestOf(d)
                            ELSE Prs!FreshOf(d) \intersect {pinned} :
        Prs!Reaches(d, i)}

(***************************************************************************)
(* device_command, up to its first suspension.  An assertion for another   *)
(* connector is refused before the sweep; a command without a route, or    *)
(* one its route does not admit, after it.                                 *)
(***************************************************************************)
RefuseCommand(c) ==
    /\ Cmd!NotDispatched(c)
    /\ row' \in {row, Prs!Swept}
    /\ UNCHANGED <<stage, peer, registered, now, device>>

RouteCommand(c, r, pinned) ==
    /\ \E i \in RoutesOf(r.connector, pinned) :
          Cmd!Begin(c, r, <<i, row[i].epoch>>)
    /\ row' = Prs!Swept
    /\ UNCHANGED <<stage, peer, registered, now, device>>

(***************************************************************************)
(* cancel_request routes anew, by the latest row.  Where it finds nothing  *)
(* to cancel it has swept, as every Read does.                             *)
(***************************************************************************)
CancelCommand(o, d, id) ==
    /\ RoutesOf(d, None) # {}
    /\ Cmd!CancelRequest(o, d, id)
    /\ row' = Prs!Swept
    /\ UNCHANGED <<stage, peer, registered, now, device>>

CommandStep ==
    \/ \E c \in Call :
          \/ RefuseCommand(c)
          \/ \E r \in Cmd!Request, pinned \in Instance \union {None} :
                r.rid \in Cmd!RidsOf(c) /\ RouteCommand(c, r, pinned)
          \/ /\ \/ Cmd!SendReturns(c)
                \/ Cmd!SendFails(c)
                \/ Cmd!Resume(c)
                \/ Cmd!TimeOut(c)
             /\ UNCHANGED <<stage, peer, registered, presenceVars>>
          \/ /\ Cmd!AnswerAccepted(c) \/ Cmd!AnswerUnmatched(c)
             /\ UNCHANGED presenceVars
    \/ \E o \in Operator :
          \/ \E d \in Connector, id \in Cmd!Rid : CancelCommand(o, d, id)
          \/ /\ Cmd!CancelResolves(o) \/ Cmd!CancelFails(o)
             /\ UNCHANGED <<stage, peer, registered, presenceVars>>

-----------------------------------------------------------------------------
(***************************************************************************)
(* Steps of handle(), with their effect on presence and on the calls that  *)
(* wait for the session.                                                   *)
(***************************************************************************)
MutantTakeOver(s, p, epoch) ==
    /\ Prs!Authenticate(s, p, epoch)
    /\ UNCHANGED commandVars

OpenSession(s, p, epoch) ==
    /\ Prs!Authenticate(s, p, epoch)
    /\ Cmd!Connect(s, p)

BreakSession(s) ==
    /\ \/ \E epoch \in Prs!Epoch : Prs!RejectHeartbeat(s, epoch)
       \/ Prs!FailSession(s)
    /\ Cmd!SessionFails(s)

MutantAlwaysDisconnect(s) ==
    /\ Cmd!EndSession(s)
    /\ row' = Prs!Disconnected(s)
    /\ UNCHANGED <<now, device>>

CloseSession(s) ==
    /\ Prs!DropSession(s)
    /\ Cmd!EndSession(s)

SessionStep ==
    \E s \in Session :
       \/ \E p \in Cmd!Peer, epoch \in Prs!Epoch : OpenSession(s, p, epoch)
       \/ \E epoch \in Prs!Epoch :
             Prs!Heartbeat(s, epoch) /\ UNCHANGED commandVars
       \/ BreakSession(s)
       \/ CloseSession(s)

OtherStep ==
    /\ \/ \E d \in Connector :
             Prs!Enroll(d) \/ Prs!Revoke(d) \/ Prs!DeleteRevoked(d)
       \/ Prs!Read
       \/ Prs!Tick
    /\ UNCHANGED commandVars

CrashConnector == Cmd!Crash /\ Prs!Restart

ConnectorNext == CommandStep \/ SessionStep \/ OtherStep \/ CrashConnector

ConnectorSpec == ConnectorInit /\ [][ConnectorNext]_connectorVars

-----------------------------------------------------------------------------
(***************************************************************************)
(* The process does what Commands and Presence promise, each of its own    *)
(* state: a step that both take part in (a reconnect, the end of a         *)
(* session, a crash) leaves neither behind.                                *)
(***************************************************************************)
ImplementsCommands == Cmd!Spec

ImplementsPresence == Prs!PresenceSpec

(***************************************************************************)
(* README, Device liveness: a row left behind by a crash or a dropped      *)
(* relay is never routed to.  A frame is written only to a WebSocket that  *)
(* authenticated as the routed process of that device, while the device    *)
(* is enrolled and the row of that very connection is fresh.               *)
(***************************************************************************)
DispatchIsLive ==
    \A c \in Call : sess[c] = None /\ sess'[c] # None =>
       LET d == req'[c].connector
           i == peer[sess'[c]].instance
       IN  /\ device[d] = "enrolled"
           /\ Prs!Fresh(i)
           /\ row[i].connector = d
           /\ row[i].generation = sess'[c]

DispatchedToLiveDevice == [][DispatchIsLive]_connectorVars

(***************************************************************************)
(* What the ledger says of a dispatched call is what was sent: its key's   *)
(* digest holds its intent and the process whose WebSocket the frame went  *)
(* to, though the row is read before and the session looked up after.      *)
(***************************************************************************)
LedgerNamesProcess ==
    \A c \in Call : sess[c] # None /\ req[c].rid = c =>
       LET digest == ledger[Cmd!SlotOf(req[c])].digest
       IN  /\ digest[1] = req[c].intent
           /\ digest[2][1] = peer[sess[c]].instance

(***************************************************************************)
(* README, In-flight collision guard: "A same-key retry with the same      *)
(* intent replays the first result, while the same key with a different    *)
(* intent is refused as `idempotency_conflict`".                           *)
(***************************************************************************)
ConflictMeansOtherIntent ==
    [][\A c \in Call :
          reply[c] = None /\ reply'[c] = "idempotency_conflict" =>
             ledger[Cmd!SlotOf(req'[c])].digest[1] # req'[c].intent
      ]_connectorVars
=============================================================================
