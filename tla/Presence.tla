------------------------------ MODULE Presence ------------------------------
(***************************************************************************)
(* Which device process is online: the tables remote_agent_devices and     *)
(* live_instances of store.py, the relay sessions that write them          *)
(* (authenticate_relay, heartbeat, disconnect_relay), the operator's       *)
(* revoke and delete, and the reads, each of which first sweeps the rows   *)
(* whose heartbeat is too old.                                             *)
(*                                                                         *)
(* Timestamps have a resolution of one second; so has now.                 *)
(***************************************************************************)
EXTENDS Relay, Naturals

CONSTANTS
    StaleWindow,    \* instance_stale_seconds
    MaxTime,        \* bound: the last second
    MaxEpoch        \* bound: the largest context_epoch a device sends

ASSUME PresenceAssumption ==
    /\ StaleWindow \in Nat \ {0}
    /\ MaxTime \in Nat
    /\ MaxEpoch \in Nat

VARIABLES
    now,            \* the clock
    device,         \* [Connector -> enrollment state]
    row             \* live_instances: [Instance -> LiveRow or None]

presenceVars == <<now, device, row>>
allVars == <<relayVars, presenceVars>>

Time == 0..MaxTime
Epoch == 0..MaxEpoch

(***************************************************************************)
(* disconnected_at is NULL exactly in a row that is online: the sweep's    *)
(* COALESCE relies on it.                                                  *)
(***************************************************************************)
OnlineRow == [connector : Connector, generation : Session, epoch : Epoch,
              state : {"online"}, heartbeat : Time, disconnected : {None}]
OfflineRow == [connector : Connector, generation : Session, epoch : Epoch,
               state : {"offline"}, heartbeat : Time, disconnected : Time]
LiveRow == OnlineRow \union OfflineRow

ASSUME NoLiveRowAssumption == None \notin LiveRow

(***************************************************************************)
(* Every variable has its type, and a row of live_instances has a          *)
(* disconnected_at just when it is offline, whichever of upsert_presence,  *)
(* mark_stale_instances, disconnect_instance and revoke_device wrote it.   *)
(***************************************************************************)
PresenceTypeOK ==
    /\ RelayTypeOK
    /\ now \in Time
    /\ device \in [Connector -> {"absent", "enrolled", "revoked"}]
    /\ row \in [Instance -> LiveRow \union {None}]

PresenceInit ==
    /\ RelayInit
    /\ now = 0
    /\ device = [d \in Connector |-> "absent"]
    /\ row = [i \in Instance |-> None]

-----------------------------------------------------------------------------
(***************************************************************************)
(* The statements of store.py on live_instances.                           *)
(***************************************************************************)
Online(i) == row[i] # None /\ row[i].state = "online"

IsStale(i) == row[i].heartbeat + StaleWindow <= now

Fresh(i) == Online(i) /\ ~IsStale(i)

Closed(r, time) == [r EXCEPT !.state = "offline", !.disconnected = time]

(***************************************************************************)
(* mark_stale_instances, over the rows of all devices: the row is closed   *)
(* at its last heartbeat.                                                  *)
(***************************************************************************)
MutantSweepAtNow ==
    [i \in Instance |->
       IF Online(i) /\ IsStale(i) THEN Closed(row[i], now) ELSE row[i]]

Swept ==
    [i \in Instance |->
       IF Online(i) /\ IsStale(i)
         THEN Closed(row[i], IF row[i].disconnected = None
                               THEN row[i].heartbeat
                               ELSE row[i].disconnected)
         ELSE row[i]]

(***************************************************************************)
(* upsert_presence: instance_id is the key, so a row of any connector or   *)
(* generation gives way.                                                   *)
(***************************************************************************)
MutantKeepGeneration(s, p, epoch) ==
    [row EXCEPT ![p.instance] =
       [connector |-> p.connector,
        generation |-> IF @ = None THEN s ELSE @.generation,
        epoch |-> epoch, state |-> "online", heartbeat |-> now,
        disconnected |-> None]]

MutantKeepDisconnected(s, p, epoch) ==
    [row EXCEPT ![p.instance] =
       [connector |-> p.connector, generation |-> s, epoch |-> epoch,
        state |-> "online", heartbeat |-> now,
        disconnected |-> IF @ = None THEN None ELSE @.disconnected]]

Upserted(s, p, epoch) ==
    [row EXCEPT ![p.instance] =
       [connector |-> p.connector, generation |-> s, epoch |-> epoch,
        state |-> "online", heartbeat |-> now, disconnected |-> None]]

MutantTrustsAnyDevice(d) == device[d] # "absent"

MayAuthenticate(d) == device[d] = "enrolled"

(***************************************************************************)
(* The condition of store.heartbeat: the row is online, belongs to this    *)
(* connection, and the epoch does not go back.                             *)
(***************************************************************************)
MutantClosedRowBeats(s, epoch) ==
    LET i == peer[s].instance IN
    /\ row[i] # None
    /\ row[i].generation = s
    /\ epoch >= row[i].epoch

HeartbeatAccepted(s, epoch) ==
    LET i == peer[s].instance IN
    /\ Online(i)
    /\ row[i].generation = s
    /\ epoch >= row[i].epoch

Beaten(s, epoch) ==
    [row EXCEPT ![peer[s].instance].epoch = epoch,
                ![peer[s].instance].heartbeat = now]

(***************************************************************************)
(* disconnect_instance: only the generation is compared, so a row that a   *)
(* sweep or a revocation has closed gets a new disconnected_at.            *)
(***************************************************************************)
MutantDisconnectAny(s) ==
    LET i == peer[s].instance IN
    IF row[i] # None
      THEN [row EXCEPT ![i] = Closed(@, now)]
      ELSE row

Disconnected(s) ==
    LET i == peer[s].instance IN
    IF row[i] # None /\ row[i].generation = s
      THEN [row EXCEPT ![i] = Closed(@, now)]
      ELSE row

(***************************************************************************)
(* The row statement of revoke_device.                                     *)
(***************************************************************************)
MutantRevokeLeavesRows(d) == row

ClosedOf(d) ==
    [i \in Instance |->
       IF Online(i) /\ row[i].connector = d
         THEN Closed(row[i], now)
         ELSE row[i]]

-----------------------------------------------------------------------------
(***************************************************************************)
(* Steps of a relay session.                                               *)
(*                                                                         *)
(* authenticate_relay upserts the row and register replaces the session    *)
(* of the connector in one step.  A failed authentication changes neither. *)
(***************************************************************************)
Authenticate(s, p, epoch) ==
    /\ MayAuthenticate(p.connector)
    /\ Register(s, p)
    /\ row' = Upserted(s, p, epoch)
    /\ UNCHANGED <<now, device>>

Heartbeat(s, epoch) ==
    /\ Serving(s)
    /\ HeartbeatAccepted(s, epoch)
    /\ row' = Beaten(s, epoch)
    /\ UNCHANGED <<relayVars, now, device>>

(***************************************************************************)
(* stale_connection, or any other error of the session.                    *)
(***************************************************************************)
RejectHeartbeat(s, epoch) ==
    /\ StartClosing(s)
    /\ ~HeartbeatAccepted(s, epoch)
    /\ UNCHANGED presenceVars

FailSession(s) ==
    /\ StartClosing(s)
    /\ UNCHANGED presenceVars

(***************************************************************************)
(* The finally block of handle(): disconnect_relay follows only if remove  *)
(* unregistered the session, so one that was superseded leaves its row.    *)
(***************************************************************************)
DropSession(s) ==
    /\ Remove(s)
    /\ row' = IF IsRegistered(s) THEN Disconnected(s) ELSE row
    /\ UNCHANGED <<now, device>>

(***************************************************************************)
(* Steps of the operator.  Neither revoke_device nor delete_revoked_device *)
(* touches the registry or the WebSocket.                                  *)
(***************************************************************************)
Enroll(d) ==
    /\ device[d] = "absent"
    /\ device' = [device EXCEPT ![d] = "enrolled"]
    /\ UNCHANGED <<relayVars, now, row>>

Revoke(d) ==
    /\ device[d] # "absent"
    /\ device' = [device EXCEPT ![d] = "revoked"]
    /\ row' = ClosedOf(d)
    /\ UNCHANGED <<relayVars, now>>

DeleteRevoked(d) ==
    /\ device[d] = "revoked"
    /\ device' = [device EXCEPT ![d] = "absent"]
    /\ row' = [i \in Instance |->
                 IF row[i] # None /\ row[i].connector = d THEN None
                                                          ELSE row[i]]
    /\ UNCHANGED <<relayVars, now>>

(***************************************************************************)
(* online_agents, device_status and the routing of a command sweep first.  *)
(***************************************************************************)
Read ==
    /\ row' = Swept
    /\ UNCHANGED <<relayVars, now, device>>

Tick ==
    /\ now < MaxTime
    /\ now' = now + 1
    /\ UNCHANGED <<relayVars, device, row>>

Restart ==
    /\ LoseSessions
    /\ UNCHANGED presenceVars

PresenceNext ==
    \/ \E s \in Session, p \in Peer, e \in Epoch : Authenticate(s, p, e)
    \/ \E s \in Session, e \in Epoch : Heartbeat(s, e) \/ RejectHeartbeat(s, e)
    \/ \E s \in Session : FailSession(s) \/ DropSession(s)
    \/ \E d \in Connector : Enroll(d) \/ Revoke(d) \/ DeleteRevoked(d)
    \/ Read
    \/ Tick
    \/ Restart

PresenceSpec == PresenceInit /\ [][PresenceNext]_allVars

-----------------------------------------------------------------------------
(***************************************************************************)
(* The rows latest_online_instance may return for d (ORDER BY ... LIMIT 1  *)
(* does not break a tie), and what exact_online_instance returns when the  *)
(* caller pins one process.  Both read what their own sweep left.          *)
(***************************************************************************)
FreshOf(d) == {i \in Instance : Fresh(i) /\ row[i].connector = d}

LatestOf(d) ==
    {i \in FreshOf(d) :
       \A j \in FreshOf(d) : row[j].heartbeat <= row[i].heartbeat}

(***************************************************************************)
(* get_exact: the registered session, if it is that of the routed process. *)
(***************************************************************************)
Reaches(d, i) ==
    registered[d] # None /\ peer[registered[d]].instance = i

-----------------------------------------------------------------------------
(***************************************************************************)
(* A revoked or deleted device is not routed to: none of its rows is       *)
(* online, though its WebSocket stays open, goes on beating and may close  *)
(* at any time, and though it may be enrolled again.                       *)
(***************************************************************************)
RevokedIsOffline ==
    \A d \in Connector, i \in Instance :
       device[d] # "enrolled" /\ Online(i) => row[i].connector # d

(***************************************************************************)
(* The row a command is routed by was written by the WebSocket the command *)
(* is sent on: registry and table agree on the generation, however the     *)
(* connections of one device or of several interleave.                     *)
(***************************************************************************)
RoutedByOwnRow ==
    \A d \in Connector : \A i \in FreshOf(d) :
       Reaches(d, i) => row[i].generation = registered[d]

(***************************************************************************)
(* A row that is online goes offline for a cause of its own: its           *)
(* connection ended, the window passed, or the device was revoked.  The    *)
(* close of an older connection of the same process does not retire the    *)
(* newer one.                                                              *)
(***************************************************************************)
CloseHasCause ==
    \A i \in Instance :
       Online(i) /\ row'[i] # None /\ row'[i].state = "offline" =>
          \/ stage'[row[i].generation] = "gone"
          \/ IsStale(i)
          \/ device'[row[i].connector] = "revoked"

ClosedForCause == [][CloseHasCause]_allVars

(***************************************************************************)
(* A row that is closed stays as it is, last heartbeat and epoch included, *)
(* until a process authenticates anew; and within one connection neither   *)
(* its heartbeat nor its epoch goes back.                                  *)
(***************************************************************************)
ConnectionMovesOn ==
    \A i \in Instance :
       /\ row[i] # None /\ row'[i] # None
       /\ row'[i].generation = row[i].generation
       => /\ row'[i].epoch >= row[i].epoch
          /\ row'[i].heartbeat >= row[i].heartbeat
          /\ row[i].state = "offline" =>
                /\ row'[i].state = "offline"
                /\ row'[i].heartbeat = row[i].heartbeat
                /\ row'[i].epoch = row[i].epoch

NoLifeAfterClose == [][ConnectionMovesOn]_allVars

(***************************************************************************)
(* A row that a sweep closed while its WebSocket was still open "never     *)
(* claims a device outlived its silence" (README, Device liveness): its    *)
(* disconnected_at is its last heartbeat, whatever heartbeats, reconnects  *)
(* and reads surround the sweep.  (Only revoke_device closes a row of an   *)
(* open connection otherwise, and a device enrolled again has no rows.)    *)
(***************************************************************************)
ReapedAtHeartbeat ==
    \A i \in Instance :
       /\ row[i] # None
       /\ row[i].state = "offline"
       /\ Live(row[i].generation)
       /\ device[row[i].connector] = "enrolled"
       => row[i].disconnected = row[i].heartbeat
=============================================================================
