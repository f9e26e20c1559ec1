------------------------------- MODULE Relay -------------------------------
(***************************************************************************)
(* The relay endpoint of relay.py: one AgentRelaySession per WebSocket and *)
(* the AgentRelayRegistry, which maps a connector_id to the one session    *)
(* its commands are sent on.                                               *)
(*                                                                         *)
(* This module holds the state both the command path and the presence      *)
(* path touch, and one fragment per step of AgentRelayEndpoint.handle.     *)
(* Commands, Presence and Connector conjoin the fragments with what the    *)
(* same step does to their own state.                                      *)
(*                                                                         *)
(* The event loop switches tasks only at an await that suspends.  The      *)
(* registry's asyncio.Lock never does (nothing awaits while holding it),   *)
(* and between the arrival of the authentication frame and the end of      *)
(* register() there is no other await, so a session authenticates and      *)
(* registers in one step.  The awaits that remain are the writes of an     *)
(* error frame and of the close frame before the finally block runs: that  *)
(* is stage "closing", in which the session is still registered.           *)
(***************************************************************************)
CONSTANTS
    Session,        \* connection generations, one per accepted WebSocket
    Connector,      \* connector_ids of enrolled devices
    Instance,       \* instance_ids of device processes
    None            \* Python's None

ASSUME NoneAssumption ==
    /\ None \notin Session
    /\ None \notin [connector : Connector, instance : Instance]

VARIABLES
    stage,          \* [Session -> Stage], progress of handle()
    peer,           \* [Session -> Peer or None], who authenticated on it
    registered      \* registry._sessions: [Connector -> Session or None]

relayVars == <<stage, peer, registered>>

Stage == {"new", "serving", "closing", "gone"}
Peer == [connector : Connector, instance : Instance]

RelayTypeOK ==
    /\ stage \in [Session -> Stage]
    /\ peer \in [Session -> Peer \union {None}]
    /\ registered \in [Connector -> Session \union {None}]

RelayInit ==
    /\ stage = [s \in Session |-> "new"]
    /\ peer = [s \in Session |-> None]
    /\ registered = [d \in Connector |-> None]

(***************************************************************************)
(* The connection holds an authenticated session and its WebSocket is      *)
(* not known to be broken; messages of the device are read.                *)
(***************************************************************************)
Serving(s) == stage[s] = "serving"

(***************************************************************************)
(* Has handle() an authenticated session whose finally block is to come?   *)
(***************************************************************************)
Live(s) == stage[s] \in {"serving", "closing"}

(***************************************************************************)
(* register: the newest session of a connector replaces the one before,    *)
(* whose WebSocket is left open.                                           *)
(***************************************************************************)
Register(s, p) ==
    /\ stage[s] = "new"
    /\ stage' = [stage EXCEPT ![s] = "serving"]
    /\ peer' = [peer EXCEPT ![s] = p]
    /\ registered' = [registered EXCEPT ![p.connector] = s]

(***************************************************************************)
(* An AgentError, ProtocolError or ValueError leaves the read loop (or the *)
(* "ready" frame could not be written): handle() awaits the error frame    *)
(* and the close frame.                                                    *)
(***************************************************************************)
StartClosing(s) ==
    /\ Serving(s)
    /\ stage' = [stage EXCEPT ![s] = "closing"]
    /\ UNCHANGED <<peer, registered>>

(***************************************************************************)
(* remove: only the registered session unregisters its connector.          *)
(***************************************************************************)
IsRegistered(s) == Live(s) /\ registered[peer[s].connector] = s

(***************************************************************************)
(* The finally block of handle(), after the frames of StartClosing or, on  *)
(* WebSocketDisconnect, straight from the read loop.                       *)
(***************************************************************************)
Remove(s) ==
    /\ Live(s)
    /\ stage' = [stage EXCEPT ![s] = "gone"]
    /\ registered' = IF IsRegistered(s)
                       THEN [registered EXCEPT ![peer[s].connector] = None]
                       ELSE registered
    /\ UNCHANGED peer

(***************************************************************************)
(* The process dies: every WebSocket and the registry are lost.            *)
(***************************************************************************)
LoseSessions ==
    /\ stage' = [s \in Session |-> IF Live(s) THEN "gone" ELSE stage[s]]
    /\ registered' = [d \in Connector |-> None]
    /\ UNCHANGED peer
=============================================================================
