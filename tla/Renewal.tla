------------------------------ MODULE Renewal ------------------------------
(***************************************************************************)
(* scripts/renew_relay_certificate.py: a scheduled run renews the leaf of  *)
(* the relay's nginx when it is close to its expiry.  A run replaces two   *)
(* files one after the other and only then learns whether nginx takes      *)
(* them.                                                                   *)
(*                                                                         *)
(* pc is the next thing main() does to the host.  Before "install" a run   *)
(* works in a temporary directory, and inside install the backup and the   *)
(* staging files touch nothing that is served, so a failure there is the   *)
(* same as one before.  Three things can go wrong at a step: a command     *)
(* fails (RenewalError, which main() answers), or the run dies, killed or  *)
(* by an exception that is no RenewalError (a full disk, a docker that is  *)
(* not there), which it does not answer.                                   *)
(*                                                                         *)
(* Generation g is the g-th leaf the Hub issued, with its key; 0 is the    *)
(* pair put there by hand.  Time is in days: left[g] is what remains of a  *)
(* leaf's validity.  The schedule is one run a day, to its end, and none   *)
(* overlaps another; --force is a run at any other time.  nginx acts upon  *)
(* a signal before the next run gets to its files.                         *)
(***************************************************************************)
EXTENDS Integers, FiniteSets

CONSTANTS
    MaxRuns,        \* bound: leaves the Hub issues
    Validity,       \* days a new leaf is valid
    RenewBefore,    \* --renew-before-days
    Torn,           \* what a file holds while it is being copied
    None

ASSUME RenewalAssumption ==
    /\ MaxRuns \in Nat
    /\ RenewBefore \in Nat \ {0}
    /\ Validity \in Nat
    /\ Validity > RenewBefore

Gen == 0..MaxRuns

VARIABLES
    disk,           \* relay.crt and relay.key in the TLS directory
    backup,         \* the backup directory of this run, or None
    pc,             \* where the run stands
    exit,           \* how the last run ended
    before,         \* history: disk when the run began
    deaths,         \* history: where runs died
    failures,       \* history: runs that failed since one succeeded
    issued,         \* leaves issued so far; the last is this run's
    left,           \* [Gen -> days left]
    ranToday,       \* has today's scheduled run begun?
    served,         \* the generation nginx has loaded, None if it is down
    hup             \* a reload signal nginx has yet to act upon

script == <<disk, backup, pc, exit, before, deaths, failures, issued,
            ranToday>>
nginx == <<served, hup>>
vars == <<script, left, nginx>>

File == Gen \union {None, Torn}

Pair == [crt : File, key : File]

ASSUME NoGeneration ==
    /\ None \notin Gen \union Pair \union {Torn}
    /\ Torn \notin Gen

NoPair == [crt |-> None, key |-> None]

Pc == {"idle", "issue", "install", "swap_key", "reload", "handshake",
       "restore_crt", "copy_crt", "restore_key", "copy_key",
       "restore_reload"}

RenewalTypeOK ==
    /\ disk \in Pair
    /\ backup \in (Pair \ {NoPair}) \union {None}
    /\ pc \in Pc
    /\ exit \in {"none", "skipped", "renewed", "failed", "died"}
    /\ before \in Pair
    /\ deaths \subseteq Pc \ {"idle"}
    /\ failures \in 0..RenewBefore
    /\ issued \in Gen
    /\ left \in [Gen -> 0..Validity]
    /\ ranToday \in BOOLEAN
    /\ served \in Gen \union {None}
    /\ hup \in BOOLEAN

(***************************************************************************)
(* A relay with a matching pair of either age, or a host with none.        *)
(***************************************************************************)
Init ==
    /\ disk \in {[crt |-> 0, key |-> 0], NoPair}
    /\ backup = None
    /\ pc = "idle"
    /\ exit = "none"
    /\ before = disk
    /\ deaths = {}
    /\ failures = 0
    /\ issued = 0
    /\ \E days \in {RenewBefore, Validity} :
           left = [g \in Gen |-> IF g = 0 THEN days ELSE 0]
    /\ ranToday = FALSE
    /\ served = disk.crt
    /\ hup = FALSE

Matches(pair) == pair.crt \in Gen /\ pair.crt = pair.key

Ends(how) ==
    /\ pc' = "idle"
    /\ exit' = how

MoreFailures == IF failures = RenewBefore THEN failures ELSE failures + 1

-----------------------------------------------------------------------------
(***************************************************************************)
(* main, up to the temporary directory: the leaf on disk decides whether   *)
(* there is anything to do, not the one nginx serves.                      *)
(***************************************************************************)
MutantFreshEnough == disk.crt \in Gen /\ left[disk.crt] >= RenewBefore

FreshEnough == disk.crt \in Gen /\ left[disk.crt] > RenewBefore

Skip ==
    /\ pc = "idle"
    /\ ~ranToday
    /\ FreshEnough
    /\ ranToday' = TRUE
    /\ exit' = "skipped"
    /\ UNCHANGED <<disk, backup, pc, before, deaths, failures, issued, left,
                   nginx>>

(***************************************************************************)
(* leaf_not_after reads the certificate before --force is looked at, and   *)
(* raises RenewalError if openssl cannot parse it: no run gets any further *)
(* until somebody repairs the file.                                        *)
(***************************************************************************)
Unreadable(force) ==
    /\ pc = "idle"
    /\ disk.crt = Torn
    /\ force \/ ~ranToday
    /\ ranToday' = (ranToday \/ ~force)
    /\ exit' = "failed"
    /\ failures' = MoreFailures
    /\ before' = disk
    /\ UNCHANGED <<disk, backup, pc, deaths, issued, left, nginx>>

Start(force) ==
    /\ pc = "idle"
    /\ disk.crt # Torn
    /\ ~hup
    /\ issued < MaxRuns
    /\ \/ force
       \/ ~ranToday /\ ~FreshEnough
    /\ pc' = "issue"
    /\ backup' = None
    /\ before' = disk
    /\ ranToday' = (ranToday \/ ~force)
    /\ UNCHANGED <<disk, exit, deaths, failures, issued, left, nginx>>

(***************************************************************************)
(* make_csr, request_certificate and verify_pair.                          *)
(***************************************************************************)
Issue ==
    /\ pc = "issue"
    /\ issued' = issued + 1
    /\ left' = [left EXCEPT ![issued + 1] = Validity]
    /\ pc' = "install"
    /\ UNCHANGED <<disk, backup, exit, before, deaths, failures, ranToday,
                   nginx>>

IssueFails ==
    /\ pc = "issue"
    /\ Ends("failed")
    /\ failures' = MoreFailures
    /\ UNCHANGED <<disk, backup, before, deaths, issued, ranToday, left, nginx>>

(***************************************************************************)
(* install: the backup, then relay.crt, then relay.key.                    *)
(***************************************************************************)
MutantEmptyBackUp == disk

MutantBackUp == [disk EXCEPT !.crt = issued]

BackUp == IF disk = NoPair THEN None ELSE disk

InstallCrt ==
    /\ pc = "install"
    /\ backup' = BackUp
    /\ disk' = [disk EXCEPT !.crt = issued]
    /\ pc' = "swap_key"
    /\ UNCHANGED <<exit, before, deaths, failures, issued, ranToday, left,
                   nginx>>

InstallKey ==
    /\ pc = "swap_key"
    /\ disk' = [disk EXCEPT !.key = issued]
    /\ pc' = "reload"
    /\ UNCHANGED <<backup, exit, before, deaths, failures, issued, ranToday,
                   left, nginx>>

(***************************************************************************)
(* reload_relay: nginx -t, then a signal that nginx acts upon later.  Both *)
(* run inside the container.                                               *)
(***************************************************************************)
ReloadTaken == served # None /\ Matches(disk)

MutantSignalled == hup

Signalled == TRUE

Reload ==
    /\ pc = "reload"
    /\ ReloadTaken
    /\ hup' = Signalled
    /\ pc' = "handshake"
    /\ UNCHANGED <<disk, backup, exit, before, deaths, failures, issued,
                   ranToday, left, served>>

ReloadFails ==
    /\ pc = "reload"
    /\ pc' = "restore_crt"
    /\ failures' = MoreFailures
    /\ UNCHANGED <<disk, backup, exit, before, deaths, issued, ranToday, left,
                   nginx>>

(***************************************************************************)
(* live_handshake verifies whatever leaf is served, be it the old one.     *)
(***************************************************************************)
Handshake ==
    /\ pc = "handshake"
    /\ served # None
    /\ left[served] > 0
    /\ Ends("renewed")
    /\ failures' = 0
    /\ UNCHANGED <<disk, backup, before, deaths, issued, ranToday, left, nginx>>

HandshakeFails ==
    /\ pc = "handshake"
    /\ pc' = "restore_crt"
    /\ failures' = MoreFailures
    /\ UNCHANGED <<disk, backup, exit, before, deaths, issued, ranToday, left,
                   nginx>>

(***************************************************************************)
(* restore: nothing without a backup, and a file that was not there before *)
(* stays.  shutil.copy2 writes into the live file: from the moment it is   *)
(* opened to the end of the copy the file is torn, and stays so if the run *)
(* dies there.  A reload that fails is reported only.                      *)
(***************************************************************************)
Opened(file, copy) == IF copy = None THEN file ELSE Torn

MutantRestored(file, copy) == copy

Restored(file, copy) == IF copy = None THEN file ELSE copy

NothingToRestore ==
    /\ pc = "restore_crt"
    /\ backup = None
    /\ Ends("failed")
    /\ UNCHANGED <<disk, backup, before, deaths, failures, issued, ranToday,
                   left, nginx>>

RestoreCrt ==
    /\ pc = "restore_crt"
    /\ backup # None
    /\ disk' = [disk EXCEPT !.crt = Opened(@, backup.crt)]
    /\ pc' = "copy_crt"
    /\ UNCHANGED <<backup, exit, before, deaths, failures, issued, ranToday,
                   left, nginx>>

CopyCrt ==
    /\ pc = "copy_crt"
    /\ disk' = [disk EXCEPT !.crt = Restored(@, backup.crt)]
    /\ pc' = "restore_key"
    /\ UNCHANGED <<backup, exit, before, deaths, failures, issued, ranToday,
                   left, nginx>>

RestoreKey ==
    /\ pc = "restore_key"
    /\ disk' = [disk EXCEPT !.key = Opened(@, backup.key)]
    /\ pc' = "copy_key"
    /\ UNCHANGED <<backup, exit, before, deaths, failures, issued, ranToday,
                   left, nginx>>

MutantRestoredKey == disk.key

RestoredKey == Restored(disk.key, backup.key)

CopyKey ==
    /\ pc = "copy_key"
    /\ disk' = [disk EXCEPT !.key = RestoredKey]
    /\ pc' = "restore_reload"
    /\ UNCHANGED <<backup, exit, before, deaths, failures, issued, ranToday,
                   left, nginx>>

RestoreReload ==
    /\ pc = "restore_reload"
    /\ \/ /\ ReloadTaken
          /\ hup' = TRUE
       \/ UNCHANGED hup
    /\ Ends("failed")
    /\ UNCHANGED <<disk, backup, before, deaths, failures, issued, ranToday,
                   left, served>>

Die ==
    /\ pc # "idle"
    /\ Ends("died")
    /\ deaths' = deaths \union {pc}
    /\ failures' = MoreFailures
    /\ UNCHANGED <<disk, backup, before, issued, ranToday, left, nginx>>

-----------------------------------------------------------------------------
(***************************************************************************)
(* nginx and the calendar.                                                 *)
(***************************************************************************)
Load ==
    /\ hup
    /\ hup' = FALSE
    /\ served' = IF Matches(disk) THEN disk.crt ELSE served
    /\ UNCHANGED <<script, left>>

ContainerRestart ==
    /\ served' = IF Matches(disk) THEN disk.crt ELSE None
    /\ hup' = FALSE
    /\ UNCHANGED <<script, left>>

NextDay ==
    /\ pc = "idle"
    /\ ranToday
    /\ ~hup
    /\ ranToday' = FALSE
    /\ left' = [g \in Gen |-> IF left[g] = 0 THEN 0 ELSE left[g] - 1]
    /\ UNCHANGED <<disk, backup, pc, exit, before, deaths, failures, issued,
                   nginx>>

Run ==
    \/ Skip
    \/ \E force \in BOOLEAN : Start(force) \/ Unreadable(force)
    \/ Issue \/ IssueFails
    \/ InstallCrt \/ InstallKey
    \/ Reload \/ ReloadFails
    \/ Handshake \/ HandshakeFails
    \/ NothingToRestore
    \/ RestoreCrt \/ CopyCrt \/ RestoreKey \/ CopyKey \/ RestoreReload
    \/ Die

Next == Run \/ Load \/ ContainerRestart \/ NextDay

(***************************************************************************)
(* nginx acts upon a signal it was sent.                                   *)
(***************************************************************************)
Spec == Init /\ [][Next]_vars /\ WF_vars(Load)

-----------------------------------------------------------------------------
(***************************************************************************)
(* No failing command of any step leaves certificate and key of different  *)
(* generations, nor a torn file: only a run that dies between its two      *)
(* replacements, or while it copies the old pair back, does.               *)
(***************************************************************************)
Exchange == {"swap_key", "copy_crt", "restore_key", "copy_key"}

PairOnDisk ==
    \/ disk.crt = disk.key /\ disk.crt # Torn
    \/ pc \in Exchange
    \/ deaths \intersect Exchange # {}

(***************************************************************************)
(* "Any failure after the swap restores the previous pair": a run that     *)
(* ends with a RenewalError leaves the files it found, if it found any.    *)
(***************************************************************************)
FailureRestores ==
    pc = "idle" /\ exit = "failed" /\ before.crt # None /\ before.key # None
        => disk = before

(***************************************************************************)
(* The point of --renew-before-days: with fewer failed runs in a row than  *)
(* that, the relay never serves an expired leaf.  It is the place of a     *)
(* death that matters: after the files changed and before nginx was told,  *)
(* the later runs see a fresh leaf and skip.                               *)
(***************************************************************************)
DiedUnloaded ==
    deaths \intersect {"swap_key", "reload", "restore_crt", "copy_crt",
                       "restore_key", "copy_key", "restore_reload"} # {}

ServedLeafIsValid ==
    served # None /\ failures < RenewBefore /\ ~DiedUnloaded
        => left[served] > 0

(***************************************************************************)
(* The script seen as Rotation: what there was when the run began, and the *)
(* leaf it has been issued.                                                *)
(***************************************************************************)
Kept == IF pc = "idle" THEN disk ELSE before

Trial == IF pc \in {"idle", "issue"} THEN None ELSE issued

Rot == INSTANCE Rotation WITH
    kept <- Kept, trial <- Trial, used <- 0..issued

(***************************************************************************)
(* A run that fails anywhere exchanges the pair as a whole or not at all,  *)
(* and nginx never loads a mixture or a torn file, not even of a run that  *)
(* died: install, restore and the order they replace the files in do what  *)
(* Rotation promises.                                                      *)
(***************************************************************************)
ImplementsRotation == Rot!Spec

(***************************************************************************)
(* The handshake may have met the old leaf.  A run that reports "renewed"  *)
(* is nevertheless followed by nginx serving what is on disk.              *)
(***************************************************************************)
RenewedIsServed ==
    (pc = "idle" /\ exit = "renewed") ~> (pc # "idle" \/ served = disk.crt)
=============================================================================
