------------------------------ MODULE Pairing ------------------------------
(***************************************************************************)
(* What enrollment promises the operator, without challenges, clocks,      *)
(* transactions or restarts: a token is good for one attempt.  In one      *)
(* step it either pairs the connector it was issued for with a key, if     *)
(* that connector is free, or becomes void; and it never comes back, not   *)
(* even when the device is deleted later.                                  *)
(***************************************************************************)
CONSTANTS Token, Connector, PublicKey, None

VARIABLES
    status,         \* [Token -> {"unissued", "open", "paired", "void"}]
    issuedFor,      \* [Token -> Connector or None]
    device          \* [Connector -> Device or None]

vars == <<status, issuedFor, device>>

Init ==
    /\ status = [t \in Token |-> "unissued"]
    /\ issuedFor = [t \in Token |-> None]
    /\ device = [c \in Connector |-> None]

Issue(t, c) ==
    /\ status[t] = "unissued"
    /\ status' = [status EXCEPT ![t] = "open"]
    /\ issuedFor' = [issuedFor EXCEPT ![t] = c]
    /\ UNCHANGED device

Pair(t, k) ==
    /\ status[t] = "open"
    /\ device[issuedFor[t]] = None
    /\ status' = [status EXCEPT ![t] = "paired"]
    /\ device' = [device EXCEPT ![issuedFor[t]] =
                      [key |-> k, grant |-> t, revoked |-> FALSE]]
    /\ UNCHANGED issuedFor

Void(t) ==
    /\ status[t] = "open"
    /\ status' = [status EXCEPT ![t] = "void"]
    /\ UNCHANGED <<issuedFor, device>>

Revoked(row) == [row EXCEPT !.revoked = TRUE]

Revoke(c) ==
    /\ device[c] # None
    /\ device' = [device EXCEPT ![c] = Revoked(@)]
    /\ UNCHANGED <<status, issuedFor>>

Delete(c) ==
    /\ device[c] # None
    /\ device[c].revoked
    /\ device' = [device EXCEPT ![c] = None]
    /\ UNCHANGED <<status, issuedFor>>

Next ==
    \/ \E t \in Token, c \in Connector : Issue(t, c)
    \/ \E t \in Token, k \in PublicKey : Pair(t, k)
    \/ \E t \in Token : Void(t)
    \/ \E c \in Connector : Revoke(c) \/ Delete(c)

Spec == Init /\ [][Next]_vars
=============================================================================
