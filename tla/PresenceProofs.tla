--------------------------- MODULE PresenceProofs ---------------------------
(***************************************************************************)
(* Proofs about Presence, for any sets of connections, devices and         *)
(* processes, any stale window and any bounds.                             *)
(***************************************************************************)
EXTENDS Presence, TLAPS

(***************************************************************************)
(* A registered session is live and authenticated as its device.           *)
(***************************************************************************)
SessionInv ==
    /\ \A s \in Session : Live(s) => peer[s] \in Peer
    /\ \A d \in Connector : registered[d] # None =>
          Live(registered[d]) /\ peer[registered[d]].connector = d

(***************************************************************************)
(* A row was written by a connection that did authenticate, for a device   *)
(* that is not deleted, and not in the future.                             *)
(***************************************************************************)
RowInv ==
    \A i \in Instance : row[i] # None =>
       /\ stage[row[i].generation] # "new"
       /\ device[row[i].connector] # "absent"
       /\ row[i].heartbeat <= now

(***************************************************************************)
(* RoutedByOwnRow, also of rows that are not fresh.                        *)
(***************************************************************************)
OwnRowInv ==
    \A d \in Connector, i \in Instance :
       /\ row[i] # None
       /\ row[i].connector = d
       /\ Reaches(d, i)
       => row[i].generation = registered[d]

PInv ==
    /\ PresenceTypeOK
    /\ SessionInv
    /\ RowInv
    /\ OwnRowInv
    /\ RevokedIsOffline
    /\ ReapedAtHeartbeat

-----------------------------------------------------------------------------
(***************************************************************************)
(* A row is online with no disconnected_at, or offline with one.           *)
(***************************************************************************)
LEMMA RowFields ==
    ASSUME NEW r \in LiveRow
    PROVE  /\ r # None
           /\ r.connector \in Connector /\ r.generation \in Session
           /\ r.epoch \in Epoch /\ r.heartbeat \in Time
           /\ \/ r.state = "online" /\ r.disconnected = None
              \/ r.state = "offline" /\ r.disconnected \in Time
BY NoLiveRowAssumption DEF LiveRow, OnlineRow, OfflineRow

(***************************************************************************)
(* Sorting the steps of PresenceNext.                                      *)
(***************************************************************************)
LEMMA PresenceCases ==
    ASSUME PresenceNext
    PROVE
    \/ \E s \in Session, p \in Peer, e \in Epoch : Authenticate(s, p, e)
    \/ \E s \in Session, e \in Epoch : Heartbeat(s, e)
    \/ \E s \in Session : StartClosing(s) /\ UNCHANGED presenceVars
    \/ \E s \in Session : DropSession(s)
    \/ \E d \in Connector : Enroll(d) \/ Revoke(d) \/ DeleteRevoked(d)
    \/ Read \/ Tick \/ Restart
BY DEF PresenceNext, RejectHeartbeat, FailSession

(***************************************************************************)
(* What the statements of store.py write: the row of a process that        *)
(* authenticated, one that was beaten, and one that was closed.            *)
(***************************************************************************)
Opened(r, s, p, epoch) ==
    /\ r \in OnlineRow
    /\ r.connector = p.connector /\ r.generation = s
    /\ r.epoch = epoch /\ r.heartbeat = now

Advanced(r, q, epoch) ==
    /\ r \in OnlineRow
    /\ r.connector = q.connector /\ r.generation = q.generation
    /\ r.epoch = epoch /\ r.heartbeat = now

ClosedAt(r, q, t) ==
    /\ r \in OfflineRow
    /\ r.connector = q.connector /\ r.generation = q.generation
    /\ r.epoch = q.epoch /\ r.heartbeat = q.heartbeat
    /\ r.disconnected = t

(***************************************************************************)
(* upsert_presence replaces the row of the process and no other.           *)
(***************************************************************************)
LEMMA UpsertedRow ==
    ASSUME PresenceTypeOK, NEW s \in Session, NEW p \in Peer,
           NEW e \in Epoch, row' = Upserted(s, p, e)
    PROVE  /\ row' \in [Instance -> LiveRow \union {None}]
           /\ Opened(row'[p.instance], s, p, e)
           /\ \A i \in Instance \ {p.instance} : row'[i] = row[i]
<1> DEFINE r == [connector |-> p.connector, generation |-> s, epoch |-> e,
                 state |-> "online", heartbeat |-> now, disconnected |-> None]
<1>1. r \in OnlineRow /\ Opened(r, s, p, e)
  BY DEF PresenceTypeOK, OnlineRow, Opened, Peer
<1>2. p.instance \in Instance
  BY DEF Peer
<1>3. row' = [row EXCEPT ![p.instance] = r]
  BY DEF Upserted
<1>4. QED
  BY <1>1, <1>2, <1>3 DEF PresenceTypeOK, LiveRow

(***************************************************************************)
(* A heartbeat that is accepted advances the online row of its connection. *)
(***************************************************************************)
LEMMA BeatenRow ==
    ASSUME PresenceTypeOK, SessionInv, NEW s \in Session, NEW e \in Epoch,
           Serving(s), HeartbeatAccepted(s, e), row' = Beaten(s, e)
    PROVE  /\ row' \in [Instance -> LiveRow \union {None}]
           /\ peer[s].instance \in Instance
           /\ Online(peer[s].instance)
           /\ row[peer[s].instance].generation = s
           /\ row[peer[s].instance].epoch <= e
           /\ Advanced(row'[peer[s].instance], row[peer[s].instance], e)
           /\ \A i \in Instance \ {peer[s].instance} : row'[i] = row[i]
<1> DEFINE i == peer[s].instance
<1>1. i \in Instance
  BY DEF SessionInv, Serving, Live, Peer
<1>2. row[i] \in OnlineRow /\ Online(i) /\ row[i].generation = s
      /\ row[i].epoch <= e
  BY <1>1 DEF HeartbeatAccepted, Online, PresenceTypeOK, LiveRow, OfflineRow,
              OnlineRow, Epoch
<1>3. row' = [row EXCEPT ![i] = [row[i] EXCEPT !.epoch = e, !.heartbeat = now]]
  BY <1>1 DEF Beaten, PresenceTypeOK
<1>4. Advanced([row[i] EXCEPT !.epoch = e, !.heartbeat = now], row[i], e)
  BY <1>2 DEF Advanced, OnlineRow, PresenceTypeOK
<1>5. QED
  BY <1>1, <1>2, <1>3, <1>4 DEF PresenceTypeOK, LiveRow, Advanced

(***************************************************************************)
(* Closing a row keeps all but its state and disconnected_at.              *)
(***************************************************************************)
LEMMA ClosedRow ==
    ASSUME NEW r \in LiveRow, NEW t \in Time
    PROVE  ClosedAt(Closed(r, t), r, t)
BY DEF Closed, ClosedAt, LiveRow, OnlineRow, OfflineRow

(***************************************************************************)
(* mark_stale_instances closes the stale online rows at their heartbeat.   *)
(***************************************************************************)
LEMMA SweptRow ==
    ASSUME PresenceTypeOK, row' = Swept
    PROVE  /\ row' \in [Instance -> LiveRow \union {None}]
           /\ \A i \in Instance :
                 \/ row'[i] = row[i]
                 \/ /\ Online(i) /\ IsStale(i)
                    /\ ClosedAt(row'[i], row[i], row[i].heartbeat)
<1>1. ASSUME NEW i \in Instance, Online(i), IsStale(i)
      PROVE  ClosedAt(row'[i], row[i], row[i].heartbeat)
  <2>1. row[i] \in LiveRow /\ row[i].heartbeat \in Time
        /\ row[i].disconnected = None
    BY <1>1, RowFields DEF PresenceTypeOK, Online
  <2>2. row'[i] = Closed(row[i], row[i].heartbeat)
    BY <1>1, <2>1 DEF Swept
  <2>3. QED
    BY <2>1, <2>2, ClosedRow
<1>2. ASSUME NEW i \in Instance, ~(Online(i) /\ IsStale(i))
      PROVE  row'[i] = row[i]
  BY <1>2 DEF Swept
<1>3. QED
  <2>1. \A i \in Instance : row'[i] \in LiveRow \union {None}
    BY <1>1, <1>2 DEF ClosedAt, LiveRow, PresenceTypeOK
  <2>2. row' = [i \in Instance |-> row'[i]]
    BY DEF Swept
  <2>3. row' \in [Instance -> LiveRow \union {None}]
    BY <2>1, <2>2
  <2>4. QED
    BY <1>1, <1>2, <2>3

(***************************************************************************)
(* The end of a session closes at most the row of that session.            *)
(***************************************************************************)
LEMMA DroppedRow ==
    ASSUME PresenceTypeOK, SessionInv, NEW s \in Session, DropSession(s)
    PROVE  /\ row' \in [Instance -> LiveRow \union {None}]
           /\ \A i \in Instance :
                 \/ row'[i] = row[i]
                 \/ /\ row[i] \in LiveRow /\ row[i].generation = s
                    /\ ClosedAt(row'[i], row[i], now)
<1> DEFINE i == peer[s].instance
<1>1. i \in Instance
  BY DEF SessionInv, DropSession, Remove, Peer
<1>2. CASE row' = row
  BY <1>2 DEF PresenceTypeOK
<1>3. CASE row' # row
  <2>1. /\ row[i] \in LiveRow /\ row[i].generation = s
        /\ row' = [row EXCEPT ![i] = Closed(row[i], now)]
    BY <1>1, <1>3 DEF DropSession, Disconnected, PresenceTypeOK
  <2>2. ClosedAt(row'[i], row[i], now)
    BY <1>1, <2>1, ClosedRow DEF PresenceTypeOK
  <2>3. \A j \in Instance \ {i} : row'[j] = row[j]
    BY <2>1 DEF PresenceTypeOK
  <2>4. row' \in [Instance -> LiveRow \union {None}]
    BY <1>1, <2>1, <2>2 DEF ClosedAt, LiveRow, PresenceTypeOK
  <2>5. QED
    BY <2>1, <2>2, <2>3, <2>4
<1>4. QED
  BY <1>2, <1>3

(***************************************************************************)
(* revoke_device closes the online rows of the device and no others.       *)
(***************************************************************************)
LEMMA RevokedRow ==
    ASSUME PresenceTypeOK, NEW d \in Connector, row' = ClosedOf(d)
    PROVE  /\ row' \in [Instance -> LiveRow \union {None}]
           /\ \A i \in Instance :
                 \/ /\ row'[i] = row[i]
                    /\ Online(i) => row[i].connector # d
                 \/ /\ Online(i) /\ row[i].connector = d
                    /\ ClosedAt(row'[i], row[i], now)
<1>1. ASSUME NEW i \in Instance, Online(i), row[i].connector = d
      PROVE  ClosedAt(row'[i], row[i], now)
  <2>1. row[i] \in LiveRow
    BY <1>1 DEF PresenceTypeOK, Online
  <2>2. row'[i] = Closed(row[i], now)
    BY <1>1 DEF ClosedOf
  <2>3. QED
    BY <2>1, <2>2, ClosedRow DEF PresenceTypeOK
<1>2. ASSUME NEW i \in Instance, ~(Online(i) /\ row[i].connector = d)
      PROVE  row'[i] = row[i]
  BY <1>2 DEF ClosedOf
<1>3. QED
  <2>1. \A i \in Instance : row'[i] \in LiveRow \union {None}
    BY <1>1, <1>2 DEF ClosedAt, LiveRow, PresenceTypeOK
  <2>2. row' = [i \in Instance |-> row'[i]]
    BY DEF ClosedOf
  <2>3. row' \in [Instance -> LiveRow \union {None}]
    BY <2>1, <2>2
  <2>4. QED
    BY <1>1, <1>2, <2>3
-----------------------------------------------------------------------------
(***************************************************************************)
(* Nothing is registered and no row exists at first.                       *)
(***************************************************************************)
LEMMA PresenceInitInv == PresenceInit => PInv
BY PresenceAssumption
   DEF PresenceInit, RelayInit, PInv, PresenceTypeOK, RelayTypeOK, Stage, Time,
       SessionInv, Live, RowInv, OwnRowInv, RevokedIsOffline, Online,
       ReapedAtHeartbeat

(***************************************************************************)
(* Every step keeps every variable's type.                                 *)
(***************************************************************************)
LEMMA PresenceTypeStep ==
    ASSUME PInv, [PresenceNext]_allVars
    PROVE  PresenceTypeOK'
<1>0. PresenceTypeOK /\ SessionInv
  BY DEF PInv
<1>1. ASSUME NEW s \in Session, NEW p \in Peer, NEW e \in Epoch,
             Authenticate(s, p, e)
      PROVE  PresenceTypeOK'
  <2>1. row' \in [Instance -> LiveRow \union {None}]
    BY <1>0, <1>1, UpsertedRow DEF Authenticate
  <2>2. RelayTypeOK'
    BY <1>0, <1>1
       DEF PresenceTypeOK, RelayTypeOK, Authenticate, Register, Stage, Peer
  <2>3. QED
    BY <1>0, <1>1, <2>1, <2>2 DEF PresenceTypeOK, Authenticate
<1>2. ASSUME NEW s \in Session, NEW e \in Epoch, Heartbeat(s, e)
      PROVE  PresenceTypeOK'
  <2>1. row' \in [Instance -> LiveRow \union {None}]
    BY <1>0, <1>2, BeatenRow DEF Heartbeat
  <2>2. QED
    BY <1>0, <1>2, <2>1
       DEF PresenceTypeOK, RelayTypeOK, Heartbeat, relayVars
<1>3. ASSUME NEW s \in Session, StartClosing(s), UNCHANGED presenceVars
      PROVE  PresenceTypeOK'
  BY <1>0, <1>3
     DEF PresenceTypeOK, RelayTypeOK, StartClosing, Stage, presenceVars
<1>4. ASSUME NEW s \in Session, DropSession(s)
      PROVE  PresenceTypeOK'
  <2>1. row' \in [Instance -> LiveRow \union {None}]
    BY <1>0, <1>4, DroppedRow
  <2>2. peer[s].connector \in Connector
    BY <1>0, <1>4 DEF SessionInv, DropSession, Remove, Peer
  <2>3. RelayTypeOK'
    BY <1>0, <1>4, <2>2
       DEF PresenceTypeOK, RelayTypeOK, DropSession, Remove, Stage
  <2>4. QED
    BY <1>0, <1>4, <2>1, <2>3 DEF PresenceTypeOK, DropSession
<1>5. ASSUME NEW d \in Connector, Enroll(d) \/ DeleteRevoked(d)
      PROVE  PresenceTypeOK'
  BY <1>0, <1>5
     DEF PresenceTypeOK, RelayTypeOK, Enroll, DeleteRevoked, relayVars
<1>6. ASSUME NEW d \in Connector, Revoke(d)
      PROVE  PresenceTypeOK'
  <2>1. row' \in [Instance -> LiveRow \union {None}]
    BY <1>0, <1>6, RevokedRow DEF Revoke
  <2>2. QED
    BY <1>0, <1>6, <2>1 DEF PresenceTypeOK, RelayTypeOK, Revoke, relayVars
<1>7. CASE Read
  <2>1. row' \in [Instance -> LiveRow \union {None}]
    BY <1>0, <1>7, SweptRow DEF Read
  <2>2. QED
    BY <1>0, <1>7, <2>1 DEF PresenceTypeOK, RelayTypeOK, Read, relayVars
<1>8. CASE Tick
  BY <1>0, <1>8, PresenceAssumption
     DEF PresenceTypeOK, RelayTypeOK, Tick, relayVars, Time
<1>9. CASE Restart
  BY <1>0, <1>9
     DEF PresenceTypeOK, RelayTypeOK, Restart, LoseSessions, Stage,
         presenceVars
<1>10. CASE UNCHANGED allVars
  BY <1>0, <1>10
     DEF PresenceTypeOK, RelayTypeOK, allVars, relayVars, presenceVars
<1>11. QED
  BY <1>1, <1>2, <1>3, <1>4, <1>5, <1>6, <1>7, <1>8, <1>9, <1>10,
     PresenceCases

(***************************************************************************)
(* Only the registered session of a device unregisters it, and a new one   *)
(* takes its place.                                                        *)
(***************************************************************************)
LEMMA SessionInvStep ==
    ASSUME PInv, [PresenceNext]_allVars
    PROVE  SessionInv'
<1> USE DEF SessionInv, Live
<1>0. RelayTypeOK /\ SessionInv
  BY DEF PInv, PresenceTypeOK
<1>1. ASSUME NEW s \in Session, NEW p \in Peer, NEW e \in Epoch,
             Authenticate(s, p, e)
      PROVE  SessionInv'
  <2>1. p.connector \in Connector
    BY DEF Peer
  <2>2. /\ stage' = [stage EXCEPT ![s] = "serving"]
        /\ peer' = [peer EXCEPT ![s] = p]
        /\ registered' = [registered EXCEPT ![p.connector] = s]
        /\ stage[s] = "new"
    BY <1>1 DEF Authenticate, Register
  <2>3. QED
    BY <1>0, <2>1, <2>2 DEF RelayTypeOK
<1>2. ASSUME NEW s \in Session, StartClosing(s)
      PROVE  SessionInv'
  BY <1>0, <1>2 DEF RelayTypeOK, StartClosing, Serving
<1>3. ASSUME NEW s \in Session, DropSession(s)
      PROVE  SessionInv'
  <2>1. peer[s].connector \in Connector
    BY <1>0, <1>3 DEF DropSession, Remove, Peer
  <2>2. QED
    BY <1>0, <1>3, <2>1 DEF RelayTypeOK, DropSession, Remove, IsRegistered
<1>4. CASE Restart
  BY <1>0, <1>4 DEF RelayTypeOK, Restart, LoseSessions
<1>5. CASE UNCHANGED relayVars
  BY <1>0, <1>5 DEF relayVars
<1>6. QED
  BY <1>1, <1>2, <1>3, <1>4, <1>5, PresenceCases
     DEF Heartbeat, Enroll, Revoke, DeleteRevoked, Read, Tick, allVars

(***************************************************************************)
(* A connection writes rows of its own only, after it authenticated, for   *)
(* an enrolled device; delete_revoked_device leaves no row behind.         *)
(***************************************************************************)
LEMMA RowInvStep ==
    ASSUME PInv, [PresenceNext]_allVars
    PROVE  RowInv'
<1> USE DEF RowInv
<1>0. PresenceTypeOK /\ SessionInv /\ RowInv
  BY DEF PInv
<1>a. /\ now \in Nat
      /\ \A i \in Instance : row[i] # None =>
            /\ row[i] \in LiveRow
            /\ row[i].generation \in Session
            /\ row[i].connector \in Connector
            /\ row[i].heartbeat \in Nat
  BY <1>0, RowFields DEF PresenceTypeOK, Time
<1>1. ASSUME NEW s \in Session, NEW p \in Peer, NEW e \in Epoch,
             Authenticate(s, p, e)
      PROVE  RowInv'
  <2>1. /\ Opened(row'[p.instance], s, p, e)
        /\ \A i \in Instance \ {p.instance} : row'[i] = row[i]
    BY <1>0, <1>1, UpsertedRow DEF Authenticate
  <2>2. /\ stage' = [stage EXCEPT ![s] = "serving"]
        /\ now' = now /\ device' = device
        /\ device[p.connector] = "enrolled"
    BY <1>1 DEF Authenticate, Register, MayAuthenticate
  <2>3. QED
    BY <1>0, <1>a, <2>1, <2>2 DEF Opened, PresenceTypeOK, RelayTypeOK
<1>2. ASSUME NEW s \in Session, NEW e \in Epoch, Heartbeat(s, e)
      PROVE  RowInv'
  <2>1. /\ Online(peer[s].instance)
        /\ peer[s].instance \in Instance
        /\ Advanced(row'[peer[s].instance], row[peer[s].instance], e)
        /\ \A i \in Instance \ {peer[s].instance} : row'[i] = row[i]
    BY <1>0, <1>2, BeatenRow DEF Heartbeat
  <2>2. stage' = stage /\ now' = now /\ device' = device
    BY <1>2 DEF Heartbeat, relayVars
  <2>3. QED
    BY <1>0, <1>a, <2>1, <2>2 DEF Advanced, Online
<1>3. ASSUME NEW s \in Session, StartClosing(s), UNCHANGED presenceVars
      PROVE  RowInv'
  BY <1>0, <1>a, <1>3
     DEF StartClosing, presenceVars, PresenceTypeOK, RelayTypeOK
<1>4. ASSUME NEW s \in Session, DropSession(s)
      PROVE  RowInv'
  <2>1. \A i \in Instance :
           \/ row'[i] = row[i]
           \/ row[i] \in LiveRow /\ ClosedAt(row'[i], row[i], now)
    BY <1>0, <1>4, DroppedRow
  <2>2. /\ stage' = [stage EXCEPT ![s] = "gone"]
        /\ now' = now /\ device' = device
    BY <1>4 DEF DropSession, Remove
  <2>3. QED
    BY <1>0, <1>a, <2>1, <2>2, RowFields
       DEF ClosedAt, PresenceTypeOK, RelayTypeOK
<1>5. ASSUME NEW d \in Connector, Enroll(d)
      PROVE  RowInv'
  BY <1>0, <1>a, <1>5 DEF Enroll, relayVars, PresenceTypeOK
<1>6. ASSUME NEW d \in Connector, Revoke(d)
      PROVE  RowInv'
  <2>1. \A i \in Instance :
           \/ row'[i] = row[i]
           \/ Online(i) /\ ClosedAt(row'[i], row[i], now)
    BY <1>0, <1>6, RevokedRow DEF Revoke
  <2>2. /\ stage' = stage /\ now' = now
        /\ device' = [device EXCEPT ![d] = "revoked"]
    BY <1>6 DEF Revoke, relayVars
  <2>3. QED
    BY <1>0, <1>a, <2>1, <2>2 DEF ClosedAt, Online, PresenceTypeOK
<1>7. ASSUME NEW d \in Connector, DeleteRevoked(d)
      PROVE  RowInv'
  <2>1. \A i \in Instance : row'[i] # None =>
           row'[i] = row[i] /\ row[i].connector # d
    BY <1>7 DEF DeleteRevoked
  <2>2. /\ stage' = stage /\ now' = now
        /\ device' = [device EXCEPT ![d] = "absent"]
    BY <1>7 DEF DeleteRevoked, relayVars
  <2>3. QED
    BY <1>0, <1>a, <2>1, <2>2 DEF PresenceTypeOK
<1>8. CASE Read
  <2>1. \A i \in Instance :
           \/ row'[i] = row[i]
           \/ Online(i) /\ ClosedAt(row'[i], row[i], row[i].heartbeat)
    BY <1>0, <1>8, SweptRow DEF Read
  <2>2. stage' = stage /\ now' = now /\ device' = device
    BY <1>8 DEF Read, relayVars
  <2>3. QED
    BY <1>0, <1>a, <2>1, <2>2 DEF ClosedAt, Online
<1>9. CASE Tick
  BY <1>0, <1>a, <1>9 DEF Tick, relayVars
<1>10. CASE Restart
  BY <1>0, <1>a, <1>10
     DEF Restart, LoseSessions, presenceVars, PresenceTypeOK, RelayTypeOK
<1>11. CASE UNCHANGED allVars
  BY <1>0, <1>11 DEF allVars, relayVars, presenceVars
<1>12. QED
  BY <1>1, <1>2, <1>3, <1>4, <1>5, <1>6, <1>7, <1>8, <1>9, <1>10, <1>11,
     PresenceCases

(***************************************************************************)
(* The row a device is routed by keeps the generation of the registered    *)
(* session: who supersedes also upserts, and a row taken over by another   *)
(* device is no longer a row of this one.                                  *)
(***************************************************************************)
LEMMA OwnRowStep ==
    ASSUME PInv, [PresenceNext]_allVars
    PROVE  OwnRowInv'
<1> USE DEF OwnRowInv, Reaches
<1>0. PresenceTypeOK /\ SessionInv /\ OwnRowInv
  BY DEF PInv
<1>a. \A i \in Instance : row[i] # None =>
         row[i] \in LiveRow /\ row[i].connector \in Connector
  BY <1>0, RowFields DEF PresenceTypeOK
<1>1. ASSUME NEW s \in Session, NEW p \in Peer, NEW e \in Epoch,
             Authenticate(s, p, e)
      PROVE  OwnRowInv'
  <2>1. /\ Opened(row'[p.instance], s, p, e)
        /\ \A i \in Instance \ {p.instance} : row'[i] = row[i]
    BY <1>0, <1>1, UpsertedRow DEF Authenticate
  <2>2. /\ stage[s] = "new"
        /\ peer' = [peer EXCEPT ![s] = p]
        /\ registered' = [registered EXCEPT ![p.connector] = s]
    BY <1>1 DEF Authenticate, Register
  <2>3. p.connector \in Connector
    BY DEF Peer
  <2>4. \A d \in Connector : registered[d] # s
    BY <1>0, <2>2, NoneAssumption DEF SessionInv, Live
  <2>5. peer'[s] = p /\ registered'[p.connector] = s
    BY <1>0, <2>2, <2>3 DEF PresenceTypeOK, RelayTypeOK
  <2>6. \A d \in Connector \ {p.connector} :
           /\ registered'[d] = registered[d]
           /\ registered[d] # None => peer'[registered[d]] = peer[registered[d]]
    BY <1>0, <2>2, <2>4 DEF PresenceTypeOK, RelayTypeOK
  <2>7. SUFFICES ASSUME NEW d \in Connector, NEW i \in Instance,
                        row'[i] # None, row'[i].connector = d,
                        registered'[d] # None,
                        peer'[registered'[d]].instance = i
                 PROVE  row'[i].generation = registered'[d]
    OBVIOUS
  <2>8. CASE i = p.instance
    BY <2>1, <2>5, <2>7, <2>8 DEF Opened
  <2>9. CASE i # p.instance
    <3>1. d # p.connector
      BY <2>5, <2>7, <2>9
    <3>2. QED
      BY <1>0, <2>1, <2>6, <2>7, <2>9, <3>1
  <2>10. QED
    BY <2>8, <2>9
<1>2. ASSUME NEW s \in Session, NEW e \in Epoch, Heartbeat(s, e)
      PROVE  OwnRowInv'
  <2>1. /\ Online(peer[s].instance)
        /\ peer[s].instance \in Instance
        /\ Advanced(row'[peer[s].instance], row[peer[s].instance], e)
        /\ \A i \in Instance \ {peer[s].instance} : row'[i] = row[i]
    BY <1>0, <1>2, BeatenRow DEF Heartbeat
  <2>2. peer' = peer /\ registered' = registered
    BY <1>2 DEF Heartbeat, relayVars
  <2>3. QED
    BY <1>0, <2>1, <2>2 DEF Advanced, Online
<1>3. ASSUME NEW s \in Session, StartClosing(s), UNCHANGED presenceVars
      PROVE  OwnRowInv'
  BY <1>0, <1>3 DEF StartClosing, presenceVars
<1>4. ASSUME NEW s \in Session, DropSession(s)
      PROVE  OwnRowInv'
  <2>1. \A i \in Instance :
           \/ row'[i] = row[i]
           \/ row[i] \in LiveRow /\ ClosedAt(row'[i], row[i], now)
    BY <1>0, <1>4, DroppedRow
  <2>2. /\ peer' = peer
        /\ \A d \in Connector : registered'[d] \in {registered[d], None}
    BY <1>0, <1>4 DEF DropSession, Remove, PresenceTypeOK, RelayTypeOK
  <2>3. QED
    BY <1>0, <2>1, <2>2, RowFields DEF ClosedAt
<1>5. ASSUME NEW d \in Connector, Enroll(d)
      PROVE  OwnRowInv'
  BY <1>0, <1>5 DEF Enroll, relayVars
<1>6. ASSUME NEW d \in Connector, Revoke(d)
      PROVE  OwnRowInv'
  <2>1. \A i \in Instance :
           \/ row'[i] = row[i]
           \/ Online(i) /\ ClosedAt(row'[i], row[i], now)
    BY <1>0, <1>6, RevokedRow DEF Revoke
  <2>2. peer' = peer /\ registered' = registered
    BY <1>6 DEF Revoke, relayVars
  <2>3. QED
    BY <1>0, <2>1, <2>2 DEF ClosedAt, Online
<1>7. ASSUME NEW d \in Connector, DeleteRevoked(d)
      PROVE  OwnRowInv'
  <2>1. \A i \in Instance : row'[i] # None => row'[i] = row[i]
    BY <1>7 DEF DeleteRevoked
  <2>2. peer' = peer /\ registered' = registered
    BY <1>7 DEF DeleteRevoked, relayVars
  <2>3. QED
    BY <1>0, <2>1, <2>2
<1>8. CASE Read
  <2>1. \A i \in Instance :
           \/ row'[i] = row[i]
           \/ Online(i) /\ ClosedAt(row'[i], row[i], row[i].heartbeat)
    BY <1>0, <1>8, SweptRow DEF Read
  <2>2. peer' = peer /\ registered' = registered
    BY <1>8 DEF Read, relayVars
  <2>3. QED
    BY <1>0, <2>1, <2>2 DEF ClosedAt, Online
<1>9. CASE Restart
  BY <1>9 DEF Restart, LoseSessions
<1>10. CASE UNCHANGED <<peer, registered, row>>
  BY <1>0, <1>10
<1>11. QED
  BY <1>1, <1>2, <1>3, <1>4, <1>5, <1>6, <1>7, <1>8, <1>9, <1>10,
     PresenceCases
     DEF Tick, allVars, relayVars, presenceVars

(***************************************************************************)
(* No step leaves an online row to a device that is not enrolled.          *)
(***************************************************************************)
LEMMA RevokedStep ==
    ASSUME PInv, [PresenceNext]_allVars
    PROVE  RevokedIsOffline'
<1> USE DEF RevokedIsOffline, Online
<1>0. PresenceTypeOK /\ SessionInv /\ RevokedIsOffline
  BY DEF PInv
<1>a. \A i \in Instance : row[i] # None =>
         row[i] \in LiveRow /\ row[i].connector \in Connector
  BY <1>0, RowFields DEF PresenceTypeOK
<1>1. ASSUME NEW s \in Session, NEW p \in Peer, NEW e \in Epoch,
             Authenticate(s, p, e)
      PROVE  RevokedIsOffline'
  <2>1. /\ Opened(row'[p.instance], s, p, e)
        /\ \A i \in Instance \ {p.instance} : row'[i] = row[i]
    BY <1>0, <1>1, UpsertedRow DEF Authenticate
  <2>2. device' = device /\ device[p.connector] = "enrolled"
    BY <1>1 DEF Authenticate, MayAuthenticate
  <2>3. QED
    BY <1>0, <2>1, <2>2 DEF Opened
<1>2. ASSUME NEW s \in Session, NEW e \in Epoch, Heartbeat(s, e)
      PROVE  RevokedIsOffline'
  <2>1. /\ Online(peer[s].instance)
        /\ peer[s].instance \in Instance
        /\ Advanced(row'[peer[s].instance], row[peer[s].instance], e)
        /\ \A i \in Instance \ {peer[s].instance} : row'[i] = row[i]
    BY <1>0, <1>2, BeatenRow DEF Heartbeat
  <2>2. device' = device
    BY <1>2 DEF Heartbeat
  <2>3. QED
    BY <1>0, <2>1, <2>2 DEF Advanced
<1>3. ASSUME NEW s \in Session, DropSession(s)
      PROVE  RevokedIsOffline'
  <2>1. \A i \in Instance :
           row'[i] = row[i] \/ ClosedAt(row'[i], row[i], now)
    BY <1>0, <1>3, DroppedRow
  <2>2. device' = device
    BY <1>3 DEF DropSession
  <2>3. QED
    BY <1>0, <2>1, <2>2 DEF ClosedAt, OfflineRow
<1>4. ASSUME NEW d \in Connector, Enroll(d)
      PROVE  RevokedIsOffline'
  BY <1>0, <1>4 DEF Enroll, PresenceTypeOK
<1>5. ASSUME NEW d \in Connector, Revoke(d)
      PROVE  RevokedIsOffline'
  <2>1. \A i \in Instance :
           \/ row'[i] = row[i] /\ (Online(i) => row[i].connector # d)
           \/ ClosedAt(row'[i], row[i], now)
    BY <1>0, <1>5, RevokedRow DEF Revoke
  <2>2. device' = [device EXCEPT ![d] = "revoked"]
    BY <1>5 DEF Revoke
  <2>3. QED
    BY <1>0, <2>1, <2>2 DEF ClosedAt, OfflineRow, PresenceTypeOK
<1>6. ASSUME NEW d \in Connector, DeleteRevoked(d)
      PROVE  RevokedIsOffline'
  <2>1. \A i \in Instance : row'[i] # None =>
           row'[i] = row[i] /\ row[i].connector # d
    BY <1>6 DEF DeleteRevoked
  <2>2. device' = [device EXCEPT ![d] = "absent"]
    BY <1>6 DEF DeleteRevoked
  <2>3. QED
    BY <1>0, <2>1, <2>2 DEF PresenceTypeOK
<1>7. CASE Read
  <2>1. \A i \in Instance :
           row'[i] = row[i] \/ ClosedAt(row'[i], row[i], row[i].heartbeat)
    BY <1>0, <1>7, SweptRow DEF Read
  <2>2. device' = device
    BY <1>7 DEF Read
  <2>3. QED
    BY <1>0, <2>1, <2>2 DEF ClosedAt, OfflineRow
<1>8. CASE UNCHANGED <<device, row>>
  BY <1>0, <1>8
<1>9. QED
  BY <1>1, <1>2, <1>3, <1>4, <1>5, <1>6, <1>7, <1>8, PresenceCases
     DEF Tick, Restart, allVars, presenceVars

(***************************************************************************)
(* A row of an open connection of an enrolled device is closed by sweeps   *)
(* only: a close ends its connection, a revocation its enrollment, and a   *)
(* device that is enrolled had no rows before.                             *)
(***************************************************************************)
LEMMA ReapedStep ==
    ASSUME PInv, [PresenceNext]_allVars
    PROVE  ReapedAtHeartbeat'
<1> USE DEF ReapedAtHeartbeat, Live
<1>0. PresenceTypeOK /\ SessionInv /\ RowInv /\ ReapedAtHeartbeat
  BY DEF PInv
<1>a. \A i \in Instance : row[i] # None =>
         /\ row[i] \in LiveRow
         /\ row[i].connector \in Connector /\ row[i].generation \in Session
  BY <1>0, RowFields DEF PresenceTypeOK
<1>1. ASSUME NEW s \in Session, NEW p \in Peer, NEW e \in Epoch,
             Authenticate(s, p, e)
      PROVE  ReapedAtHeartbeat'
  <2>1. /\ Opened(row'[p.instance], s, p, e)
        /\ \A i \in Instance \ {p.instance} : row'[i] = row[i]
    BY <1>0, <1>1, UpsertedRow DEF Authenticate
  <2>2. /\ stage[s] = "new" /\ stage' = [stage EXCEPT ![s] = "serving"]
        /\ device' = device
    BY <1>1 DEF Authenticate, Register
  <2>3. \A i \in Instance \ {p.instance} : row[i] # None =>
           stage'[row[i].generation] = stage[row[i].generation]
    BY <1>0, <1>a, <2>2 DEF RowInv, PresenceTypeOK, RelayTypeOK
  <2>4. row'[p.instance].state = "online"
    BY <2>1 DEF Opened, OnlineRow
  <2>5. QED
    BY <1>0, <2>1, <2>2, <2>3, <2>4
<1>2. ASSUME NEW s \in Session, NEW e \in Epoch, Heartbeat(s, e)
      PROVE  ReapedAtHeartbeat'
  <2>1. /\ peer[s].instance \in Instance
        /\ Advanced(row'[peer[s].instance], row[peer[s].instance], e)
        /\ \A i \in Instance \ {peer[s].instance} : row'[i] = row[i]
    BY <1>0, <1>2, BeatenRow DEF Heartbeat
  <2>2. stage' = stage /\ device' = device
    BY <1>2 DEF Heartbeat, relayVars
  <2>3. QED
    BY <1>0, <2>1, <2>2 DEF Advanced, OnlineRow
<1>3. ASSUME NEW s \in Session, StartClosing(s), UNCHANGED presenceVars
      PROVE  ReapedAtHeartbeat'
  BY <1>0, <1>a, <1>3
     DEF StartClosing, Serving, presenceVars, PresenceTypeOK, RelayTypeOK
<1>4. ASSUME NEW s \in Session, DropSession(s)
      PROVE  ReapedAtHeartbeat'
  <2>1. \A i \in Instance :
           \/ row'[i] = row[i]
           \/ /\ row[i] \in LiveRow /\ row[i].generation = s
              /\ ClosedAt(row'[i], row[i], now)
    BY <1>0, <1>4, DroppedRow
  <2>2. stage' = [stage EXCEPT ![s] = "gone"] /\ device' = device
    BY <1>4 DEF DropSession, Remove
  <2>3. QED
    BY <1>0, <1>a, <2>1, <2>2 DEF ClosedAt, PresenceTypeOK, RelayTypeOK
<1>5. ASSUME NEW d \in Connector, Enroll(d)
      PROVE  ReapedAtHeartbeat'
  <2>1. \A i \in Instance : row[i] # None => row[i].connector # d
    BY <1>0, <1>5 DEF Enroll, RowInv
  <2>2. QED
    BY <1>0, <1>a, <1>5, <2>1 DEF Enroll, relayVars, PresenceTypeOK
<1>6. ASSUME NEW d \in Connector, Revoke(d)
      PROVE  ReapedAtHeartbeat'
  <2>1. \A i \in Instance :
           \/ row'[i] = row[i]
           \/ row[i].connector = d /\ ClosedAt(row'[i], row[i], now)
    BY <1>0, <1>6, RevokedRow DEF Revoke
  <2>2. stage' = stage /\ device' = [device EXCEPT ![d] = "revoked"]
    BY <1>6 DEF Revoke, relayVars
  <2>3. QED
    BY <1>0, <1>a, <2>1, <2>2 DEF ClosedAt, PresenceTypeOK
<1>7. ASSUME NEW d \in Connector, DeleteRevoked(d)
      PROVE  ReapedAtHeartbeat'
  <2>1. \A i \in Instance : row'[i] # None =>
           row'[i] = row[i] /\ row[i].connector # d
    BY <1>7 DEF DeleteRevoked
  <2>2. stage' = stage /\ device' = [device EXCEPT ![d] = "absent"]
    BY <1>7 DEF DeleteRevoked, relayVars
  <2>3. QED
    BY <1>0, <1>a, <2>1, <2>2 DEF PresenceTypeOK
<1>8. CASE Read
  <2>1. \A i \in Instance :
           row'[i] = row[i] \/ ClosedAt(row'[i], row[i], row[i].heartbeat)
    BY <1>0, <1>8, SweptRow DEF Read
  <2>2. stage' = stage /\ device' = device
    BY <1>8 DEF Read, relayVars
  <2>3. QED
    BY <1>0, <2>1, <2>2 DEF ClosedAt
<1>9. CASE Restart
  BY <1>0, <1>a, <1>9
     DEF Restart, LoseSessions, presenceVars, PresenceTypeOK, RelayTypeOK
<1>10. CASE UNCHANGED <<stage, device, row>>
  BY <1>0, <1>10
<1>11. QED
  BY <1>1, <1>2, <1>3, <1>4, <1>5, <1>6, <1>7, <1>8, <1>9, <1>10,
     PresenceCases
     DEF Tick, allVars, relayVars, presenceVars

(***************************************************************************)
(* Every step keeps every part of the invariant.                           *)
(***************************************************************************)
LEMMA PInvStep == PInv /\ [PresenceNext]_allVars => PInv'
<1> SUFFICES ASSUME PInv, [PresenceNext]_allVars PROVE PInv'
  OBVIOUS
<1>1. PresenceTypeOK' /\ SessionInv' /\ RowInv'
  BY PresenceTypeStep, SessionInvStep, RowInvStep
<1>2. OwnRowInv' /\ RevokedIsOffline' /\ ReapedAtHeartbeat'
  BY OwnRowStep, RevokedStep, ReapedStep
<1>3. QED
  BY <1>1, <1>2 DEF PInv

(***************************************************************************)
(* The invariant holds of every behaviour.                                 *)
(***************************************************************************)
THEOREM PresenceInductive == PresenceSpec => []PInv
<1>1. QED
  BY PresenceInitInv, PInvStep, PTL DEF PresenceSpec

(***************************************************************************)
(* The tables and the registry keep their types, and disconnected_at is    *)
(* set in just the rows that are offline.                                  *)
(***************************************************************************)
THEOREM PresenceTypeCorrect == PresenceSpec => []PresenceTypeOK
<1>1. PInv => PresenceTypeOK
  BY DEF PInv
<1>2. QED
  BY <1>1, PresenceInductive, PTL

(***************************************************************************)
(* A device that is revoked or deleted has no online row.                  *)
(***************************************************************************)
THEOREM RevokedDeviceOffline == PresenceSpec => []RevokedIsOffline
<1>1. PInv => RevokedIsOffline
  BY DEF PInv
<1>2. QED
  BY <1>1, PresenceInductive, PTL

(***************************************************************************)
(* A command is sent on the connection that wrote the row it is routed by. *)
(***************************************************************************)
THEOREM RoutingAgrees == PresenceSpec => []RoutedByOwnRow
<1>1. PInv => RoutedByOwnRow
  BY DEF PInv, OwnRowInv, RoutedByOwnRow, FreshOf, Fresh, Online
<1>2. QED
  BY <1>1, PresenceInductive, PTL

(***************************************************************************)
(* A row that a sweep closed under an open WebSocket ends at its last      *)
(* heartbeat.                                                              *)
(***************************************************************************)
THEOREM ReapedNotOutliving == PresenceSpec => []ReapedAtHeartbeat
<1>1. PInv => ReapedAtHeartbeat
  BY DEF PInv
<1>2. QED
  BY <1>1, PresenceInductive, PTL

-----------------------------------------------------------------------------
(***************************************************************************)
(* What a step may do to a row that is online before it and offline after. *)
(***************************************************************************)
LEMMA CloseStep ==
    ASSUME PInv, [PresenceNext]_allVars
    PROVE  CloseHasCause
<1> USE DEF CloseHasCause, Online
<1>0. PresenceTypeOK /\ SessionInv
  BY DEF PInv
<1>a. \A i \in Instance : row[i] # None =>
         row[i].connector \in Connector /\ row[i].generation \in Session
  BY <1>0, RowFields DEF PresenceTypeOK
<1>1. ASSUME NEW s \in Session, NEW p \in Peer, NEW e \in Epoch,
             Authenticate(s, p, e)
      PROVE  CloseHasCause
  <2>1. /\ Opened(row'[p.instance], s, p, e)
        /\ \A i \in Instance \ {p.instance} : row'[i] = row[i]
    BY <1>0, <1>1, UpsertedRow DEF Authenticate
  <2>2. QED
    BY <2>1 DEF Opened, OnlineRow
<1>2. ASSUME NEW s \in Session, NEW e \in Epoch, Heartbeat(s, e)
      PROVE  CloseHasCause
  <2>1. /\ Advanced(row'[peer[s].instance], row[peer[s].instance], e)
        /\ \A i \in Instance \ {peer[s].instance} : row'[i] = row[i]
    BY <1>0, <1>2, BeatenRow DEF Heartbeat
  <2>2. QED
    BY <2>1 DEF Advanced, OnlineRow
<1>3. ASSUME NEW s \in Session, DropSession(s)
      PROVE  CloseHasCause
  <2>1. \A i \in Instance : row'[i] = row[i] \/ row[i].generation = s
    BY <1>0, <1>3, DroppedRow
  <2>2. stage' = [stage EXCEPT ![s] = "gone"]
    BY <1>3 DEF DropSession, Remove
  <2>3. QED
    BY <1>0, <2>1, <2>2 DEF PresenceTypeOK, RelayTypeOK
<1>4. ASSUME NEW d \in Connector, Revoke(d)
      PROVE  CloseHasCause
  <2>1. \A i \in Instance : row'[i] = row[i] \/ row[i].connector = d
    BY <1>0, <1>4, RevokedRow DEF Revoke
  <2>2. device' = [device EXCEPT ![d] = "revoked"]
    BY <1>4 DEF Revoke
  <2>3. QED
    BY <1>0, <2>1, <2>2 DEF PresenceTypeOK
<1>5. ASSUME NEW d \in Connector, DeleteRevoked(d)
      PROVE  CloseHasCause
  BY <1>5 DEF DeleteRevoked
<1>6. CASE Read
  BY <1>0, <1>6, SweptRow DEF Read
<1>7. CASE UNCHANGED row
  BY <1>7
<1>8. QED
  BY <1>1, <1>2, <1>3, <1>4, <1>5, <1>6, <1>7, PresenceCases
     DEF Enroll, Tick, Restart, allVars, presenceVars

(***************************************************************************)
(* Only a connection that is new takes over a row, and only a heartbeat    *)
(* that finds it online advances it.                                       *)
(***************************************************************************)
LEMMA ConnectionStep ==
    ASSUME PInv, [PresenceNext]_allVars
    PROVE  ConnectionMovesOn
<1> USE DEF ConnectionMovesOn
<1>0. PresenceTypeOK /\ SessionInv /\ RowInv
  BY DEF PInv
<1>a. \A i \in Instance : row[i] # None =>
         /\ row[i] \in LiveRow
         /\ row[i].heartbeat \in Nat /\ row[i].epoch \in Nat
         /\ row[i].state = "online" \/ row[i].state = "offline"
  BY <1>0, RowFields DEF PresenceTypeOK, Time, Epoch
<1>b. \A i \in Instance : row'[i] = row[i] =>
         (row[i] # None => /\ row'[i].heartbeat >= row[i].heartbeat
                           /\ row'[i].epoch >= row[i].epoch)
  BY <1>a
<1>1. ASSUME NEW s \in Session, NEW p \in Peer, NEW e \in Epoch,
             Authenticate(s, p, e)
      PROVE  ConnectionMovesOn
  <2>1. /\ row'[p.instance].generation = s
        /\ \A i \in Instance \ {p.instance} : row'[i] = row[i]
    BY <1>0, <1>1, UpsertedRow DEF Authenticate, Opened
  <2>2. stage[s] = "new"
    BY <1>1 DEF Authenticate, Register
  <2>3. row[p.instance] # None => row[p.instance].generation # s
    BY <1>0, <2>2 DEF RowInv, Peer
  <2>4. QED
    BY <1>a, <1>b, <2>1, <2>3
<1>2. ASSUME NEW s \in Session, NEW e \in Epoch, Heartbeat(s, e)
      PROVE  ConnectionMovesOn
  <2>1. /\ peer[s].instance \in Instance
        /\ Online(peer[s].instance)
        /\ row[peer[s].instance].epoch <= e
        /\ Advanced(row'[peer[s].instance], row[peer[s].instance], e)
        /\ \A i \in Instance \ {peer[s].instance} : row'[i] = row[i]
    BY <1>0, <1>2, BeatenRow DEF Heartbeat
  <2>2. row[peer[s].instance].heartbeat <= now
    BY <1>0, <2>1 DEF RowInv, Online
  <2>3. QED
    BY <1>0, <1>a, <1>b, <2>1, <2>2
       DEF Advanced, Online, PresenceTypeOK, Time, Epoch
<1>3. ASSUME \A i \in Instance :
                \/ row'[i] = row[i]
                \/ row'[i] = None
                \/ \E t \in Time :
                      row[i] \in LiveRow /\ ClosedAt(row'[i], row[i], t)
      PROVE  ConnectionMovesOn
  BY <1>a, <1>b, <1>3, RowFields DEF ClosedAt, OfflineRow
<1>4. ASSUME NEW s \in Session, DropSession(s)
      PROVE  ConnectionMovesOn
  BY <1>0, <1>3, <1>4, DroppedRow DEF PresenceTypeOK
<1>5. ASSUME NEW d \in Connector, Revoke(d)
      PROVE  ConnectionMovesOn
  BY <1>0, <1>a, <1>3, <1>5, RevokedRow DEF Revoke, Online, PresenceTypeOK
<1>6. ASSUME NEW d \in Connector, DeleteRevoked(d)
      PROVE  ConnectionMovesOn
  BY <1>3, <1>6 DEF DeleteRevoked
<1>7. CASE Read
  BY <1>0, <1>a, <1>3, <1>7, SweptRow, RowFields DEF Read, Online
<1>8. CASE UNCHANGED row
  BY <1>3, <1>8
<1>9. QED
  BY <1>1, <1>2, <1>4, <1>5, <1>6, <1>7, <1>8, PresenceCases
     DEF Enroll, Tick, Restart, allVars, presenceVars

(***************************************************************************)
(* A row goes offline because its connection ended, it fell silent or its  *)
(* device was revoked.                                                     *)
(***************************************************************************)
THEOREM ClosedOnlyForCause == PresenceSpec => ClosedForCause
<1>1. PInv /\ [PresenceNext]_allVars => [CloseHasCause]_allVars
  BY CloseStep
<1>2. QED
  BY <1>1, PresenceInductive, PTL DEF PresenceSpec, ClosedForCause

(***************************************************************************)
(* A closed row is revived by a new authentication only.                   *)
(***************************************************************************)
THEOREM ClosedStaysClosed == PresenceSpec => NoLifeAfterClose
<1>1. PInv /\ [PresenceNext]_allVars => [ConnectionMovesOn]_allVars
  BY ConnectionStep
<1>2. QED
  BY <1>1, PresenceInductive, PTL DEF PresenceSpec, NoLifeAfterClose
=============================================================================
