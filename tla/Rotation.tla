------------------------------ MODULE Rotation ------------------------------
(***************************************************************************)
(* What the renewal of the relay's certificate promises, without backups,  *)
(* staging files, signals, days or the order in which files are replaced:  *)
(*                                                                         *)
(*   - a leaf that was never there before is tried, and then either kept   *)
(*     ("renewed") or given up ("failed");                                 *)
(*   - a run that gives it up leaves every file there was before;          *)
(*   - nginx loads the pair that is kept or the one that is tried, never   *)
(*     the files of both, and goes down only if it is restarted over files *)
(*     that are being exchanged or do not belong together.                 *)
(*                                                                         *)
(* A run that dies may leave a file of each, or a torn one.                *)
(***************************************************************************)
CONSTANTS Gen, Torn, None

VARIABLES
    kept,           \* the pair of files there is to fall back on
    trial,          \* the generation that is tried, or None
    used,           \* the generations there have been
    served,         \* the generation nginx has loaded, None if it is down
    exit            \* how the last run ended

vars == <<kept, trial, used, served, exit>>

Whole(g) == [crt |-> g, key |-> g]

Init ==
    /\ used \subseteq Gen
    /\ kept \in {Whole(g) : g \in used \union {None}}
    /\ trial = None
    /\ served = kept.crt
    /\ exit = "none"

Try(g) ==
    /\ trial = None
    /\ g \notin used
    /\ trial' = g
    /\ used' = used \union {g}
    /\ UNCHANGED <<kept, served, exit>>

(***************************************************************************)
(* A run that tries nothing changes nothing.                               *)
(***************************************************************************)
TryNothing ==
    /\ trial = None
    /\ exit' \in {"skipped", "failed", "died"}
    /\ UNCHANGED <<kept, trial, used, served>>

Ends(how, pair) ==
    /\ trial # None
    /\ trial' = None
    /\ kept' = pair
    /\ exit' = how
    /\ UNCHANGED <<used, served>>

(***************************************************************************)
(* Success is reported only while nginx serves something.                  *)
(***************************************************************************)
Keep ==
    /\ served # None
    /\ Ends("renewed", Whole(trial))

(***************************************************************************)
(* A file that was not there before is not taken away.                     *)
(***************************************************************************)
OrTried(file) == IF file = None THEN trial ELSE file

GiveUp ==
    Ends("failed", [crt |-> OrTried(kept.crt), key |-> OrTried(kept.key)])

Die == \E crt \in {kept.crt, trial, Torn}, key \in {kept.key, trial, Torn} :
          Ends("died", [crt |-> crt, key |-> key])

Loads(g) ==
    /\ g # None
    /\ g = trial \/ kept = Whole(g)
    /\ served' = g
    /\ UNCHANGED <<kept, trial, used, exit>>

GoesDown ==
    /\ trial # None \/ kept \notin {Whole(g) : g \in Gen}
    /\ served' = None
    /\ UNCHANGED <<kept, trial, used, exit>>

Next ==
    \/ \E g \in Gen : Try(g) \/ Loads(g)
    \/ TryNothing \/ Keep \/ GiveUp \/ Die
    \/ GoesDown

Spec == Init /\ [][Next]_vars
=============================================================================
