---------------------------- MODULE Idempotency ----------------------------
(***************************************************************************)
(* What a caller of device_command is promised, without sessions, frames,  *)
(* futures, timers, cancels or routing:                                    *)
(*                                                                         *)
(*   - an idempotency key has one owner, the request_id that claimed it,   *)
(*     and one outcome, which is decided once;                             *)
(*   - no two equal mutating commands run at the same time;                *)
(*   - whoever calls under a key that has another owner is told what was   *)
(*     decided, or that it is not decided yet, or that the intent differs; *)
(*   - a call under a request_id of its own decides its key.               *)
(*                                                                         *)
(* It is no more than that: a call that was refused as busy owns its key   *)
(* all the same, a call lost with the process leaves its key undecided,    *)
(* and two calls that present one signed request_id may both run, one      *)
(* after the other, and be told different outcomes.                        *)
(***************************************************************************)
CONSTANTS Call, Connector, Key, Intent, Mutating, SignedId, Outcome, None

VARIABLES
    begun,          \* the calls that were made
    running,        \* set of [call, of], the commands under way
    owner,          \* [Slot -> request_id or None]
    outcome,        \* [Slot -> Outcome or "pending"]
    told            \* [Call -> what the caller got, or None]

vars == <<begun, running, owner, outcome, told>>

Request == [connector : Connector, key : Key, intent : Intent,
            rid : Call \union SignedId]
Slot == Connector \X Key

SlotOf(r) == <<r.connector, r.key>>

Init ==
    /\ begun = {}
    /\ running = {}
    /\ owner = [k \in Slot |-> None]
    /\ outcome = [k \in Slot |-> "pending"]
    /\ told = [c \in Call |-> None]

(***************************************************************************)
(* A key that nobody owns is claimed; its owner may claim it again.        *)
(***************************************************************************)
Claim(r) ==
    /\ owner[SlotOf(r)] \in {None, r.rid}
    /\ owner' = [owner EXCEPT ![SlotOf(r)] = r.rid]

Busy(r) ==
    /\ r.intent \in Mutating
    /\ \E j \in running : /\ j.of.connector = r.connector
                          /\ j.of.intent = r.intent

Start(c, r) ==
    /\ c \notin begun
    /\ Claim(r)
    /\ ~Busy(r)
    /\ begun' = begun \union {c}
    /\ running' = running \union {[call |-> c, of |-> r]}
    /\ UNCHANGED <<outcome, told>>

Answer(c, code) ==
    /\ c \notin begun
    /\ begun' = begun \union {c}
    /\ told' = [told EXCEPT ![c] = code]
    /\ UNCHANGED <<running, outcome>>

NotDispatched(c) ==
    /\ Answer(c, "not_dispatched")
    /\ UNCHANGED owner

RefuseBusy(c, r) ==
    /\ Claim(r)
    /\ Busy(r)
    /\ Answer(c, "command_in_flight")

RefuseOwned(c, r) ==
    /\ owner[SlotOf(r)] \notin {None, r.rid}
    /\ \E code \in {"idempotency_conflict",
                    IF outcome[SlotOf(r)] = "pending"
                      THEN "request_pending" ELSE outcome[SlotOf(r)]} :
          Answer(c, code)
    /\ UNCHANGED owner

Finish(j, result) ==
    LET k == SlotOf(j.of) IN
    /\ j \in running
    /\ j.of.rid = j.call => outcome[k] = "pending"
    /\ running' = running \ {j}
    /\ outcome' = IF outcome[k] = "pending"
                    THEN [outcome EXCEPT ![k] = result] ELSE outcome
    /\ told' = [told EXCEPT ![j.call] = result]
    /\ UNCHANGED <<begun, owner>>

(***************************************************************************)
(* The process dies: nobody is told, and what was decided stands.          *)
(***************************************************************************)
Lose ==
    /\ running' = {}
    /\ UNCHANGED <<begun, owner, outcome, told>>

Next ==
    \/ \E c \in Call :
          \/ NotDispatched(c)
          \/ \E r \in Request :
                /\ r.rid \in {c} \union SignedId
                /\ Start(c, r) \/ RefuseBusy(c, r) \/ RefuseOwned(c, r)
    \/ \E j \in running, result \in Outcome : Finish(j, result)
    \/ Lose

Spec == Init /\ [][Next]_vars
=============================================================================
