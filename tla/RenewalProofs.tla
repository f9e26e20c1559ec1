--------------------------- MODULE RenewalProofs ---------------------------
(***************************************************************************)
(* Theorems about Renewal, for any number of renewals, any validity and    *)
(* any window shorter than it.                                             *)
(***************************************************************************)
EXTENDS Renewal, TLAPS

(***************************************************************************)
(* Where the run stands says what is on disk.  before holds the pair the   *)
(* run found, whole or not at all, unless a run has died over its files.   *)
(***************************************************************************)
DiedOver == deaths \intersect Exchange # {}

Swapping == pc \in {"swap_key", "reload", "handshake", "restore_crt",
                    "copy_crt", "restore_key", "copy_key", "restore_reload"}

DiskInv ==
    /\ disk.crt \in Gen => disk.crt <= issued
    /\ before.crt \in Gen => before.crt <= issued
    /\ DiedOver \/ (before.crt = before.key /\ before.crt # Torn)
    /\ pc # "idle" => before.crt # Torn
    /\ pc = "issue" => issued < MaxRuns
    /\ pc \in {"issue", "install"} => disk = before
    /\ pc = "install" => issued \in Gen
    /\ pc = "swap_key" => disk = [crt |-> issued, key |-> before.key]
    /\ pc \in {"reload", "handshake", "restore_crt"} =>
           disk = [crt |-> issued, key |-> issued]
    /\ Swapping => backup = IF before = NoPair THEN None ELSE before
    /\ pc \in {"copy_crt", "restore_key", "copy_key", "restore_reload"} =>
           backup # None
    /\ pc = "copy_crt" =>
           disk = [crt |-> Opened(issued, before.crt), key |-> issued]
    /\ pc = "restore_key" =>
           disk = [crt |-> Restored(issued, before.crt), key |-> issued]
    /\ pc = "copy_key" =>
           disk = [crt |-> Restored(issued, before.crt),
                   key |-> Opened(issued, before.key)]
    /\ pc = "restore_reload" =>
           disk = [crt |-> Restored(issued, before.crt),
                   key |-> Restored(issued, before.key)]

FilesInv == RenewalTypeOK /\ PairOnDisk /\ FailureRestores /\ DiskInv

(***************************************************************************)
(* A host with its hand-made pair, or with none, satisfies the invariant.  *)
(***************************************************************************)
LEMMA FilesInit == Init => FilesInv
<1> SUFFICES ASSUME Init
             PROVE  FilesInv
  OBVIOUS
<1> USE RenewalAssumption, NoGeneration
<1>1. PICK days \in {RenewBefore, Validity} :
          left = [g \in Gen |-> IF g = 0 THEN days ELSE 0]
  BY DEF Init
<1>2. left \in [Gen -> 0..Validity]
  <2>1. days \in 0..Validity /\ 0 \in 0..Validity
    OBVIOUS
  <2>2. \A g \in Gen : (IF g = 0 THEN days ELSE 0) \in 0..Validity
    BY <2>1
  <2>3. QED
    BY <1>1, <2>2
<1>3. RenewalTypeOK
  <2>1. disk \in Pair /\ served \in Gen \union {None}
    BY DEF Init, Pair, File, NoPair, Gen
  <2>2. ranToday \in BOOLEAN /\ hup \in BOOLEAN
    BY DEF Init
  <2>3. QED
    BY <1>2, <2>1, <2>2 DEF Init, RenewalTypeOK, Pc, Gen
<1>4. PairOnDisk /\ FailureRestores /\ DiskInv
  BY DEF Init, PairOnDisk, FailureRestores, DiskInv, DiedOver, Swapping, Pair,
         File, Gen, NoPair
<1>5. QED
  BY <1>3, <1>4 DEF FilesInv

(***************************************************************************)
(* Every step of a run, of nginx and of the calendar preserves it.         *)
(***************************************************************************)
LEMMA FilesStep == FilesInv /\ [Next]_vars => FilesInv'
<1> SUFFICES ASSUME FilesInv, [Next]_vars
             PROVE  FilesInv'
  OBVIOUS
<1> USE RenewalAssumption, NoGeneration
    DEF FilesInv, RenewalTypeOK, PairOnDisk, FailureRestores, DiskInv, DiedOver,
        Swapping, Pair, File, NoPair, Pc, Gen, Exchange, Ends, MoreFailures,
        Opened, Restored, nginx, script
<1>1. CASE Skip
  BY <1>1 DEF Skip
<1>2. ASSUME NEW force \in BOOLEAN, Start(force)
      PROVE  FilesInv'
  BY <1>2 DEF Start
<1>2a. ASSUME NEW force \in BOOLEAN, Unreadable(force)
       PROVE  FilesInv'
  <2>1. ranToday' \in BOOLEAN
    BY <1>2a DEF Unreadable
  <2>2. DiedOver
    BY <1>2a DEF Unreadable
  <2>3. RenewalTypeOK'
    BY <1>2a, <2>1 DEF Unreadable
  <2>4. PairOnDisk'
    BY <1>2a, <2>2 DEF Unreadable
  <2>5. FailureRestores'
    BY <1>2a DEF Unreadable
  <2>6. DiskInv'
    BY <1>2a, <2>2 DEF Unreadable
  <2>7. QED
    BY <2>3, <2>4, <2>5, <2>6
<1>3. CASE Issue
  <2>1. left' \in [Gen -> 0..Validity]
    BY <1>3 DEF Issue
  <2>2. issued' \in Gen
    BY <1>3 DEF Issue
  <2>3. QED
    BY <1>3, <2>1, <2>2 DEF Issue
<1>4. CASE IssueFails
  BY <1>4 DEF IssueFails
<1>5. CASE InstallCrt
  BY <1>5 DEF InstallCrt, BackUp
<1>6. CASE InstallKey
  BY <1>6 DEF InstallKey
<1>7. CASE Reload
  BY <1>7 DEF Reload, Signalled
<1>8. CASE ReloadFails
  BY <1>8 DEF ReloadFails
<1>9. CASE Handshake
  BY <1>9 DEF Handshake
<1>10. CASE HandshakeFails
  BY <1>10 DEF HandshakeFails
<1>11. CASE NothingToRestore
  BY <1>11 DEF NothingToRestore
<1>12. CASE RestoreCrt
  BY <1>12 DEF RestoreCrt
<1>12a. CASE CopyCrt
  BY <1>12a DEF CopyCrt
<1>13. CASE RestoreKey
  <2>1. disk.crt \in File /\ backup = before /\ backup.key = before.key
    BY <1>13 DEF RestoreKey
  <2>2. disk' = [crt |-> Restored(issued, before.crt),
                 key |-> Opened(issued, before.key)]
    BY <1>13, <2>1 DEF RestoreKey
  <2>3. RenewalTypeOK'
    BY <1>13, <2>1, <2>2 DEF RestoreKey
  <2>4. PairOnDisk' /\ FailureRestores'
    BY <1>13 DEF RestoreKey
  <2>5. DiskInv'
    BY <1>13, <2>1, <2>2 DEF RestoreKey
  <2>6. QED
    BY <2>3, <2>4, <2>5
<1>13a. CASE CopyKey
  BY <1>13a DEF CopyKey, RestoredKey
<1>14. CASE RestoreReload
  <2>1. hup' \in BOOLEAN
    BY <1>14 DEF RestoreReload
  <2>2. RenewalTypeOK'
    BY <1>14, <2>1 DEF RestoreReload
  <2>3. PairOnDisk'
    BY <1>14 DEF RestoreReload
  <2>4. FailureRestores'
    BY <1>14 DEF RestoreReload
  <2>5. DiskInv'
    BY <1>14 DEF RestoreReload
  <2>6. QED
    BY <2>2, <2>3, <2>4, <2>5
<1>15. CASE Die
  <2>1. deaths' \subseteq Pc \ {"idle"}
    BY <1>15 DEF Die
  <2>2. DiedOver => DiedOver'
    BY <1>15 DEF Die
  <2>3. pc \in Exchange => DiedOver'
    BY <1>15 DEF Die
  <2>4. RenewalTypeOK'
    BY <1>15, <2>1, <2>2, <2>3 DEF Die
  <2>5. PairOnDisk'
    BY <1>15, <2>1, <2>2, <2>3 DEF Die
  <2>6. FailureRestores'
    BY <1>15 DEF Die
  <2>7. DiskInv'
    BY <1>15, <2>1, <2>2, <2>3 DEF Die
  <2>8. QED
    BY <2>4, <2>5, <2>6, <2>7
<1>16. CASE Load
  <2>1. served' \in Gen \union {None}
    BY <1>16 DEF Load, Matches
  <2>2. RenewalTypeOK'
    <3>1. hup' \in BOOLEAN
      BY <1>16 DEF Load
    <3>2. UNCHANGED <<script, left>>
      BY <1>16 DEF Load
    <3>3. QED
      BY <2>1, <3>1, <3>2
  <2>3. PairOnDisk'
    BY <1>16, <2>1 DEF Load
  <2>4. FailureRestores'
    BY <1>16 DEF Load
  <2>5. DiskInv'
    BY <1>16, <2>1 DEF Load
  <2>6. QED
    BY <2>2, <2>3, <2>4, <2>5
<1>17. CASE ContainerRestart
  <2>1. served' \in Gen \union {None}
    BY <1>17 DEF ContainerRestart, Matches
  <2>2. RenewalTypeOK'
    <3>1. hup' \in BOOLEAN
      BY <1>17 DEF ContainerRestart
    <3>2. UNCHANGED <<script, left>>
      BY <1>17 DEF ContainerRestart
    <3>3. QED
      BY <2>1, <3>1, <3>2
  <2>3. PairOnDisk'
    BY <1>17, <2>1 DEF ContainerRestart
  <2>4. FailureRestores'
    BY <1>17 DEF ContainerRestart
  <2>5. DiskInv'
    BY <1>17, <2>1 DEF ContainerRestart
  <2>6. QED
    BY <2>2, <2>3, <2>4, <2>5
<1>18. CASE NextDay
  <2>1. \A g \in Gen : (IF left[g] = 0 THEN 0 ELSE left[g] - 1) \in 0..Validity
    OBVIOUS
  <2>2. left' \in [Gen -> 0..Validity]
    BY <1>18, <2>1 DEF NextDay
  <2>3. RenewalTypeOK'
    <3>1. ranToday' \in BOOLEAN
      BY <1>18 DEF NextDay
    <3>2. UNCHANGED <<disk, backup, pc, exit, before, deaths, failures, issued,
                      served, hup>>
      BY <1>18 DEF NextDay
    <3>3. QED
      BY <2>2, <3>1, <3>2
  <2>4. PairOnDisk'
    BY <1>18, <2>2 DEF NextDay
  <2>5. FailureRestores'
    BY <1>18 DEF NextDay
  <2>6. DiskInv'
    BY <1>18, <2>2 DEF NextDay
  <2>7. QED
    BY <2>3, <2>4, <2>5, <2>6
<1>19. CASE UNCHANGED vars
  BY <1>19 DEF vars, Restored
<1>20. QED
  BY <1>1, <1>2, <1>2a, <1>3, <1>4, <1>5, <1>6, <1>7, <1>8, <1>9, <1>10, <1>11,
     <1>12, <1>12a, <1>13, <1>13a, <1>14, <1>15, <1>16, <1>17, <1>18, <1>19 DEF Next, Run

(***************************************************************************)
(* The invariant of the files holds in every reachable state.              *)
(***************************************************************************)
LEMMA FilesInvariant == Spec => []FilesInv
<1>1. QED
  BY FilesInit, FilesStep, PTL DEF Spec

(***************************************************************************)
(* Type correctness of a host under renewal.                               *)
(***************************************************************************)
THEOREM RenewalTypeCorrect == Spec => []RenewalTypeOK
<1>1. FilesInv => RenewalTypeOK
  BY DEF FilesInv
<1>2. QED
  BY <1>1, FilesInvariant, PTL

(***************************************************************************)
(* Certificate and key belong together and are whole, outside the exchange *)
(* of the files and its undoing, unless a run died within one of the two.  *)
(***************************************************************************)
THEOREM PairsMatch == Spec => []PairOnDisk
<1>1. FilesInv => PairOnDisk
  BY DEF FilesInv
<1>2. QED
  BY <1>1, FilesInvariant, PTL

(***************************************************************************)
(* A run that reports a failure leaves the pair it found.                  *)
(***************************************************************************)
THEOREM FailuresRestore == Spec => []FailureRestores
<1>1. FilesInv => FailureRestores
  BY DEF FilesInv
<1>2. QED
  BY <1>1, FilesInvariant, PTL

-----------------------------------------------------------------------------
(***************************************************************************)
(* The refinement of Rotation.  While a leaf is tried, what is on disk     *)
(* when nginx looks at it is of one generation only if that is the one     *)
(* tried or the whole pair there is to fall back on: the states between    *)
(* two replacements never match.                                           *)
(***************************************************************************)
LEMMA LoadedIsWhole ==
    ASSUME FilesInv, Matches(disk)
    PROVE  /\ disk.crt \in Gen /\ disk.crt # None
           /\ disk.crt = Trial \/ Kept = Rot!Whole(disk.crt)
<1> USE NoGeneration DEF FilesInv, RenewalTypeOK, Pair, File, Matches
<1>1. disk.crt \in Gen /\ disk.crt # None /\ disk.key = disk.crt
      /\ before = [crt |-> before.crt, key |-> before.key]
      /\ disk = [crt |-> disk.crt, key |-> disk.key]
  OBVIOUS
<1>2. CASE pc \in {"idle", "issue", "install"}
  <2>1. Kept = disk
    BY <1>2 DEF Kept, DiskInv
  <2>2. QED
    BY <1>1, <2>1 DEF Rot!Whole
<1>3. CASE pc \in {"swap_key", "reload", "handshake", "restore_crt"}
  BY <1>1, <1>3 DEF Trial, DiskInv
<1>4. CASE pc \in {"copy_crt", "restore_key", "copy_key", "restore_reload"}
  <2>1. Trial = issued /\ Kept = before
    BY <1>4 DEF Trial, Kept
  <2>2. disk.crt = issued \/ disk = before
    BY <1>1, <1>4 DEF DiskInv, Opened, Restored
  <2>3. QED
    BY <1>1, <2>1, <2>2 DEF Rot!Whole
<1>5. QED
  BY <1>2, <1>3, <1>4 DEF Pc

(***************************************************************************)
(* Every file is the one that was there before, or the one that is tried,  *)
(* or torn.                                                                *)
(***************************************************************************)
LEMMA EachFileOfOne ==
    ASSUME FilesInv, pc \notin {"idle", "issue"}
    PROVE  /\ disk = [crt |-> disk.crt, key |-> disk.key]
           /\ disk.crt \in {Kept.crt, Trial, Torn}
           /\ disk.key \in {Kept.key, Trial, Torn}
           /\ Trial = issued /\ Trial # None
<1> USE NoGeneration DEF FilesInv, RenewalTypeOK, Pair, File
<1>1. Trial = issued /\ Kept = before /\ Trial # None
  BY DEF Trial, Kept
<1>2. disk.crt \in {before.crt, issued, Torn}
      /\ disk.key \in {before.key, issued, Torn}
  BY DEF DiskInv, Opened, Restored, Pc
<1>3. QED
  BY <1>1, <1>2

(***************************************************************************)
(* A step of a run, of nginx or of the calendar is a step of Rotation or   *)
(* none: the run tries its leaf when the Hub has issued it, and the swap,  *)
(* the signals and the restore are not visible.                            *)
(***************************************************************************)
LEMMA RotationStep ==
    ASSUME FilesInv, [Next]_vars
    PROVE  [Rot!Next]_(Rot!vars)
<1> USE RenewalAssumption, NoGeneration
<1>0. RenewalTypeOK /\ DiskInv
  BY DEF FilesInv
<1>1. ASSUME UNCHANGED <<Kept, Trial, issued, served, exit>>
      PROVE  UNCHANGED Rot!vars
  BY <1>1 DEF Rot!vars
<1>2. CASE Skip \/ IssueFails \/ \E force \in BOOLEAN : Unreadable(force)
  <2>1. Trial = None /\ Trial' = None
    BY <1>2 DEF Skip, IssueFails, Unreadable, Ends, Trial
  <2>2. Kept' = Kept
    BY <1>0, <1>2 DEF Skip, IssueFails, Unreadable, Ends, Kept, DiskInv
  <2>3. exit' \in {"skipped", "failed"} /\ issued' = issued /\ served' = served
    BY <1>2 DEF Skip, IssueFails, Unreadable, Ends, nginx
  <2>4. Rot!TryNothing
    BY <2>1, <2>2, <2>3 DEF Rot!TryNothing
  <2>5. QED
    BY <2>4 DEF Rot!Next
<1>3. ASSUME NEW force \in BOOLEAN, Start(force)
      PROVE  UNCHANGED Rot!vars
  BY <1>1, <1>3 DEF Start, Kept, Trial, nginx
<1>4. CASE Issue
  <2>1. issued' = issued + 1 /\ issued + 1 \in Gen /\ issued \in Nat
    BY <1>0, <1>4 DEF Issue, DiskInv, RenewalTypeOK, Gen
  <2>2. issued + 1 \notin 0..issued
        /\ 0..(issued + 1) = (0..issued) \union {issued + 1}
    BY <2>1
  <2>3. Trial = None /\ Trial' = issued + 1 /\ Kept' = Kept
    BY <1>4 DEF Issue, Trial, Kept
  <2>4. served' = served /\ exit' = exit
    BY <1>4 DEF Issue, nginx
  <2>5. Rot!Try(issued + 1)
    BY <2>1, <2>2, <2>3, <2>4 DEF Rot!Try
  <2>6. QED
    BY <2>1, <2>5 DEF Rot!Next
<1>5. CASE InstallCrt \/ InstallKey \/ Reload \/ ReloadFails
           \/ HandshakeFails
           \/ RestoreCrt \/ CopyCrt \/ RestoreKey \/ CopyKey
  <2>1. /\ pc \notin {"idle", "issue"} /\ pc' \notin {"idle", "issue"}
        /\ UNCHANGED <<before, issued, served, exit>>
    BY <1>5
       DEF InstallCrt, InstallKey, Reload, ReloadFails, HandshakeFails,
           RestoreCrt, CopyCrt, RestoreKey, CopyKey, nginx
  <2>2. QED
    BY <1>1, <2>1 DEF Kept, Trial
<1>6. CASE Handshake
  <2>1. Trial = issued /\ Trial # None /\ Trial' = None /\ served # None
    BY <1>0, <1>6 DEF Handshake, Ends, Trial, RenewalTypeOK
  <2>2. Kept' = [crt |-> issued, key |-> issued]
    BY <1>0, <1>6 DEF Handshake, Ends, Kept, DiskInv
  <2>3. exit' = "renewed" /\ issued' = issued /\ served' = served
    BY <1>6 DEF Handshake, Ends, nginx
  <2>4. Rot!Keep
    BY <2>1, <2>2, <2>3 DEF Rot!Keep, Rot!Ends, Rot!Whole
  <2>5. QED
    BY <2>4 DEF Rot!Next
<1>7. CASE NothingToRestore \/ RestoreReload
  <2>1. Trial = issued /\ Trial # None /\ Trial' = None /\ Kept = before
    BY <1>0, <1>7
       DEF NothingToRestore, RestoreReload, Ends, Trial, Kept, RenewalTypeOK
  <2>2. Kept' = [crt |-> Restored(issued, before.crt),
                 key |-> Restored(issued, before.key)]
    <3>1. CASE NothingToRestore
      <4>1. before = NoPair
        BY <1>0, <3>1 DEF NothingToRestore, DiskInv, Swapping, RenewalTypeOK
      <4>2. disk = [crt |-> issued, key |-> issued]
        BY <1>0, <3>1 DEF NothingToRestore, DiskInv
      <4>3. QED
        BY <3>1, <4>1, <4>2
           DEF NothingToRestore, Ends, Kept, NoPair, Restored
    <3>2. CASE RestoreReload
      BY <1>0, <3>2 DEF RestoreReload, Ends, Kept, DiskInv
    <3>3. QED
      BY <1>7, <3>1, <3>2
  <2>3. exit' = "failed" /\ issued' = issued /\ served' = served
    BY <1>7 DEF NothingToRestore, RestoreReload, Ends, nginx
  <2>4. Rot!GiveUp
    BY <2>1, <2>2, <2>3 DEF Rot!GiveUp, Rot!Ends, Rot!OrTried, Restored
  <2>5. QED
    BY <2>4 DEF Rot!Next
<1>8. CASE Die
  <2>1. Kept' = disk /\ Trial' = None /\ exit' = "died"
        /\ issued' = issued /\ served' = served
    BY <1>8 DEF Die, Ends, Kept, Trial, nginx
  <2>2. CASE pc = "issue"
    <3>1. Trial = None /\ Kept' = Kept
      BY <1>0, <2>1, <2>2 DEF Trial, Kept, DiskInv
    <3>2. Rot!TryNothing
      BY <2>1, <3>1 DEF Rot!TryNothing
    <3>3. QED
      BY <3>2 DEF Rot!Next
  <2>3. CASE pc # "issue"
    <3>1. pc \notin {"idle", "issue"}
      BY <1>8, <2>3 DEF Die
    <3>2. Rot!Die
      BY <2>1, <3>1, EachFileOfOne DEF Rot!Die, Rot!Ends
    <3>3. QED
      BY <3>2 DEF Rot!Next
  <2>4. QED
    BY <2>2, <2>3
<1>9. CASE Load \/ ContainerRestart
  <2>1. UNCHANGED <<Kept, Trial, issued, exit>>
    BY <1>9 DEF Load, ContainerRestart, script, Kept, Trial
  <2>2. CASE Matches(disk)
    <3>1. served' = disk.crt
      BY <1>9, <2>2 DEF Load, ContainerRestart
    <3>2. Rot!Loads(disk.crt)
      BY <2>1, <2>2, <3>1, LoadedIsWhole DEF Rot!Loads
    <3>3. QED
      BY <2>2, <3>2, LoadedIsWhole DEF Rot!Next
  <2>3. CASE ~Matches(disk)
    <3>1. CASE served' = served
      BY <1>1, <2>1, <3>1
    <3>2. CASE served' # served
      <4>1. served' = None
        BY <1>9, <2>3, <3>2 DEF Load, ContainerRestart
      <4>2. Trial # None \/ Kept \notin {Rot!Whole(g) : g \in Gen}
        <5>1. CASE pc \in {"idle", "issue"}
          BY <1>0, <2>3, <5>1
             DEF Kept, DiskInv, Matches, Rot!Whole
        <5>2. CASE pc \notin {"idle", "issue"}
          BY <5>2, EachFileOfOne
        <5>3. QED
          BY <5>1, <5>2
      <4>3. Rot!GoesDown
        BY <2>1, <4>1, <4>2 DEF Rot!GoesDown
      <4>4. QED
        BY <4>3 DEF Rot!Next
    <3>3. QED
      BY <3>1, <3>2
  <2>4. QED
    BY <2>2, <2>3
<1>10. CASE NextDay \/ UNCHANGED vars
  <2>1. UNCHANGED <<disk, pc, before, issued, served, exit>>
    BY <1>10 DEF NextDay, vars, script, nginx
  <2>2. QED
    BY <1>1, <2>1 DEF Kept, Trial
<1>11. QED
  BY <1>2, <1>3, <1>4, <1>5, <1>6, <1>7, <1>8, <1>9, <1>10 DEF Next, Run

(***************************************************************************)
(* The renewal implements Rotation: install and restore exchange two files *)
(* one after the other, and the host sees one exchange or none.            *)
(***************************************************************************)
THEOREM RotationImplemented == Spec => ImplementsRotation
<1>1. Init => Rot!Init
  <2> SUFFICES ASSUME Init PROVE Rot!Init
    OBVIOUS
  <2>1. Kept = disk /\ Trial = None /\ issued = 0 /\ exit = "none"
        /\ served = disk.crt
    BY DEF Init, Kept, Trial
  <2>2. disk \in {Rot!Whole(g) : g \in {0, None}}
    BY DEF Init, NoPair, Rot!Whole
  <2>3. 0..issued = {0} /\ {0} \subseteq Gen
    BY <2>1, RenewalAssumption DEF Gen
  <2>4. QED
    BY <2>1, <2>2, <2>3 DEF Rot!Init
<1>2. FilesInv /\ [Next]_vars => [Rot!Next]_(Rot!vars)
  BY RotationStep
<1>3. QED
  BY <1>1, <1>2, FilesInvariant, PTL DEF Spec, ImplementsRotation, Rot!Spec

(***************************************************************************)
(* What keeps an expired leaf from being served while fewer runs in a row  *)
(* failed than the window has days: each day takes one of the days left    *)
(* and either a run succeeds or one more has failed; and the leaf nginx    *)
(* serves is never older than the one on disk, unless it has been told.    *)
(***************************************************************************)
Lasts(g, days) == left[g] + failures >= RenewBefore + days

NewLeafInv ==
    /\ Swapping \/ pc = "install" => left[issued] = Validity
    /\ pc = "handshake" => hup \/ served = issued

DiskLeafInv ==
    /\ pc = "idle" /\ disk.crt \in Gen =>
           Lasts(disk.crt, IF ranToday THEN 1 ELSE 0)
    /\ pc \in {"issue", "install", "swap_key", "reload", "handshake"}
       /\ before.crt \in Gen => Lasts(before.crt, 0)
    /\ pc \in {"restore_crt", "copy_crt", "restore_key", "copy_key",
               "restore_reload"}
       /\ before.crt \in Gen => Lasts(before.crt, 1)

Working == pc \in {"issue", "install"}

ServedLeafInv ==
    /\ pc = "idle" \/ Working => disk.crt # None \/ served = None
    /\ pc = "idle" /\ served # None =>
           \/ left[served] >= left[disk.crt]
           \/ hup /\ left[served] > 0
    /\ Working /\ served # None => left[served] >= left[disk.crt]
    /\ Swapping /\ served # None =>
           \/ left[served] = Validity
           \/ before.crt \in Gen /\ left[served] >= left[before.crt]

Held == failures < RenewBefore /\ ~DiedUnloaded

LeafInv == NewLeafInv /\ (Held => DiskLeafInv /\ ServedLeafInv)

(***************************************************************************)
(* Fewer failures than days never came of a step but a success.            *)
(***************************************************************************)
LEMMA HeldBefore ==
    ASSUME FilesInv, [Next]_vars, Held'
    PROVE  Held \/ Handshake
<1> USE RenewalAssumption DEF Held, MoreFailures, Ends, script, nginx
<1> failures \in 0..RenewBefore
  BY DEF FilesInv, RenewalTypeOK
<1>1. deaths \subseteq deaths' \/ Handshake
  BY DEF Next, Run, vars, Skip, Start, Issue, IssueFails, InstallCrt,
         InstallKey, Reload, ReloadFails, HandshakeFails, NothingToRestore,
         RestoreCrt, CopyCrt, RestoreKey, CopyKey, RestoreReload, Unreadable,
         Die, Load, ContainerRestart, NextDay
<1>2. failures' \in {failures, MoreFailures} \/ Handshake
  BY DEF Next, Run, vars, Skip, Start, Issue, IssueFails, InstallCrt,
         InstallKey, Reload, ReloadFails, HandshakeFails, NothingToRestore,
         RestoreCrt, CopyCrt, RestoreKey, CopyKey, RestoreReload, Unreadable,
         Die, Load, ContainerRestart, NextDay
<1>3. failures' < RenewBefore => failures < RenewBefore \/ Handshake
  BY <1>2
<1>4. ~DiedUnloaded' => ~DiedUnloaded \/ Handshake
  BY <1>1 DEF DiedUnloaded
<1>5. QED
  BY <1>3, <1>4

(***************************************************************************)
(* A hand-made leaf has the days of the window left.                       *)
(***************************************************************************)
LEMMA LeafInit == Init => LeafInv
<1> SUFFICES ASSUME Init
             PROVE  LeafInv
  OBVIOUS
<1> USE RenewalAssumption, NoGeneration
<1>1. PICK days \in {RenewBefore, Validity} :
          left = [g \in Gen |-> IF g = 0 THEN days ELSE 0]
  BY DEF Init
<1>2. left[0] = days /\ days >= RenewBefore
  BY <1>1 DEF Gen
<1>3. pc = "idle" /\ failures = 0 /\ ~ranToday /\ served = disk.crt
      /\ disk.crt \in {0, None}
  BY DEF Init, NoPair
<1>4. NewLeafInv
  BY <1>3 DEF NewLeafInv, Swapping
<1>5. DiskLeafInv
  BY <1>2, <1>3 DEF DiskLeafInv, Lasts
<1>6. ServedLeafInv
  BY <1>2, <1>3 DEF ServedLeafInv, Working, Swapping
<1>7. QED
  BY <1>4, <1>5, <1>6 DEF LeafInv

(***************************************************************************)
(* Every step preserves the invariant of the leaves.                       *)
(***************************************************************************)
LEMMA LeafStep ==
    ASSUME FilesInv, FilesInv', LeafInv, [Next]_vars
    PROVE  LeafInv'
<1> USE RenewalAssumption, NoGeneration DEF Gen, File
<1>1. disk \in Pair /\ before \in Pair /\ failures \in 0..RenewBefore
      /\ issued \in Gen /\ left \in [Gen -> 0..Validity]
      /\ served \in Gen \union {None} /\ pc \in Pc
  BY DEF FilesInv, RenewalTypeOK
<1>2. disk.crt \in File /\ before.crt \in File
  BY <1>1 DEF Pair
<1>3. DiskInv /\ PairOnDisk /\ NewLeafInv
  BY DEF FilesInv, LeafInv
<1>4. Held => DiskLeafInv /\ ServedLeafInv
  BY DEF LeafInv
<1>5. Held' => \/ Held
               \/ pc = "handshake" /\ pc' = "idle" /\ exit' = "renewed"
  BY HeldBefore DEF Handshake, Ends
<1>6. Held => /\ failures < RenewBefore
               /\ \/ disk.crt = disk.key /\ disk.crt # Torn
                  \/ pc \in Exchange
  BY <1>3 DEF Held, DiedUnloaded, PairOnDisk, Exchange
<1> USE <1>1, <1>2
    DEF Swapping, Working, Exchange, Lasts, Ends, MoreFailures, Opened,
        Restored, script, nginx
<1>7. CASE Skip
  <2>1. NewLeafInv'
    BY <1>7, <1>3 DEF NewLeafInv, DiskInv, Skip, FreshEnough
  <2>2. Held' => DiskLeafInv'
    BY <1>7, <1>3, <1>4, <1>5, <1>6
    DEF DiskLeafInv, NewLeafInv, DiskInv, NoPair, Skip, FreshEnough
  <2>3. Held' => ServedLeafInv'
    BY <1>7, <1>3, <1>4, <1>5, <1>6
    DEF ServedLeafInv, DiskLeafInv, NewLeafInv, DiskInv, NoPair, Skip,
        FreshEnough
  <2>4. QED
    BY <2>1, <2>2, <2>3 DEF LeafInv
<1>8. ASSUME NEW force \in BOOLEAN, Start(force)
      PROVE  LeafInv'
  <2>1. NewLeafInv'
    BY <1>8, <1>3 DEF NewLeafInv, DiskInv, Start
  <2>2. Held' => DiskLeafInv'
    BY <1>8, <1>3, <1>4, <1>5, <1>6
    DEF DiskLeafInv, NewLeafInv, DiskInv, NoPair, Start
  <2>3. Held' => ServedLeafInv'
    BY <1>8, <1>3, <1>4, <1>5, <1>6
    DEF ServedLeafInv, DiskLeafInv, NewLeafInv, DiskInv, NoPair, Start
  <2>4. QED
    BY <2>1, <2>2, <2>3 DEF LeafInv
<1>8a. ASSUME NEW force \in BOOLEAN, Unreadable(force)
       PROVE  LeafInv'
  <2>1. NewLeafInv'
    BY <1>8a, <1>3 DEF NewLeafInv, DiskInv, Unreadable
  <2>2. Held' => DiskLeafInv'
    BY <1>8a, <1>3, <1>4, <1>5, <1>6
    DEF DiskLeafInv, NewLeafInv, DiskInv, NoPair, Unreadable
  <2>3. Held' => ServedLeafInv'
    BY <1>8a, <1>3, <1>4, <1>5, <1>6
    DEF ServedLeafInv, DiskLeafInv, NewLeafInv, DiskInv, NoPair, Unreadable
  <2>4. QED
    BY <2>1, <2>2, <2>3 DEF LeafInv
<1>9. CASE Issue
  <2>1. NewLeafInv'
    BY <1>9, <1>3 DEF NewLeafInv, DiskInv, Issue
  <2>2. Held' => DiskLeafInv'
    BY <1>9, <1>3, <1>4, <1>5, <1>6
    DEF DiskLeafInv, NewLeafInv, DiskInv, NoPair, Issue
  <2>3. Held' => ServedLeafInv'
    BY <1>9, <1>3, <1>4, <1>5, <1>6
    DEF ServedLeafInv, DiskLeafInv, NewLeafInv, DiskInv, NoPair, Issue
  <2>4. QED
    BY <2>1, <2>2, <2>3 DEF LeafInv
<1>10. CASE IssueFails
  <2>1. NewLeafInv'
    BY <1>10, <1>3 DEF NewLeafInv, DiskInv, IssueFails
  <2>2. Held' => DiskLeafInv'
    BY <1>10, <1>3, <1>4, <1>5, <1>6
    DEF DiskLeafInv, NewLeafInv, DiskInv, NoPair, IssueFails
  <2>3. Held' => ServedLeafInv'
    BY <1>10, <1>3, <1>4, <1>5, <1>6
    DEF ServedLeafInv, DiskLeafInv, NewLeafInv, DiskInv, NoPair, IssueFails
  <2>4. QED
    BY <2>1, <2>2, <2>3 DEF LeafInv
<1>11. CASE InstallCrt
  <2>1. NewLeafInv'
    BY <1>11, <1>3 DEF NewLeafInv, DiskInv, InstallCrt, BackUp
  <2>2. Held' => DiskLeafInv'
    BY <1>11, <1>3, <1>4, <1>5, <1>6
    DEF DiskLeafInv, NewLeafInv, DiskInv, NoPair, InstallCrt, BackUp
  <2>3. Held' => ServedLeafInv'
    BY <1>11, <1>3, <1>4, <1>5, <1>6
    DEF ServedLeafInv, DiskLeafInv, NewLeafInv, DiskInv, NoPair, InstallCrt,
        BackUp
  <2>4. QED
    BY <2>1, <2>2, <2>3 DEF LeafInv
<1>12. CASE InstallKey
  <2>1. NewLeafInv'
    BY <1>12, <1>3 DEF NewLeafInv, DiskInv, InstallKey
  <2>2. Held' => DiskLeafInv'
    BY <1>12, <1>3, <1>4, <1>5, <1>6
    DEF DiskLeafInv, NewLeafInv, DiskInv, NoPair, InstallKey
  <2>3. Held' => ServedLeafInv'
    BY <1>12, <1>3, <1>4, <1>5, <1>6
    DEF ServedLeafInv, DiskLeafInv, NewLeafInv, DiskInv, NoPair, InstallKey
  <2>4. QED
    BY <2>1, <2>2, <2>3 DEF LeafInv
<1>13. CASE Reload
  <2>1. NewLeafInv'
    BY <1>13, <1>3
    DEF NewLeafInv, DiskInv, Reload, Signalled, ReloadTaken, Matches
  <2>2. Held' => DiskLeafInv'
    BY <1>13, <1>3, <1>4, <1>5, <1>6
    DEF DiskLeafInv, NewLeafInv, DiskInv, NoPair, Reload, Signalled,
        ReloadTaken, Matches
  <2>3. Held' => ServedLeafInv'
    BY <1>13, <1>3, <1>4, <1>5, <1>6
    DEF ServedLeafInv, DiskLeafInv, NewLeafInv, DiskInv, NoPair, Reload,
        Signalled, ReloadTaken, Matches
  <2>4. QED
    BY <2>1, <2>2, <2>3 DEF LeafInv
<1>14. CASE ReloadFails
  <2>1. NewLeafInv'
    BY <1>14, <1>3 DEF NewLeafInv, DiskInv, ReloadFails
  <2>2. Held' => DiskLeafInv'
    BY <1>14, <1>3, <1>4, <1>5, <1>6
    DEF DiskLeafInv, NewLeafInv, DiskInv, NoPair, ReloadFails
  <2>3. Held' => ServedLeafInv'
    BY <1>14, <1>3, <1>4, <1>5, <1>6
    DEF ServedLeafInv, DiskLeafInv, NewLeafInv, DiskInv, NoPair, ReloadFails
  <2>4. QED
    BY <2>1, <2>2, <2>3 DEF LeafInv
<1>15. CASE Handshake
  <2>1. NewLeafInv'
    BY <1>15, <1>3 DEF NewLeafInv, DiskInv, Handshake
  <2>2. Held' => DiskLeafInv'
    BY <1>15, <1>3, <1>4, <1>5, <1>6
    DEF DiskLeafInv, NewLeafInv, DiskInv, NoPair, Handshake
  <2>3. Held' => ServedLeafInv'
    BY <1>15, <1>3, <1>4, <1>5, <1>6
    DEF ServedLeafInv, DiskLeafInv, NewLeafInv, DiskInv, NoPair, Handshake
  <2>4. QED
    BY <2>1, <2>2, <2>3 DEF LeafInv
<1>16. CASE HandshakeFails
  <2>1. NewLeafInv'
    BY <1>16, <1>3 DEF NewLeafInv, DiskInv, HandshakeFails
  <2>2. Held' => DiskLeafInv'
    BY <1>16, <1>3, <1>4, <1>5, <1>6
    DEF DiskLeafInv, NewLeafInv, DiskInv, NoPair, HandshakeFails
  <2>3. Held' => ServedLeafInv'
    BY <1>16, <1>3, <1>4, <1>5, <1>6
    DEF ServedLeafInv, DiskLeafInv, NewLeafInv, DiskInv, NoPair, HandshakeFails
  <2>4. QED
    BY <2>1, <2>2, <2>3 DEF LeafInv
<1>17. CASE NothingToRestore
  <2>1. NewLeafInv'
    BY <1>17, <1>3 DEF NewLeafInv, DiskInv, NothingToRestore
  <2>2. Held' => DiskLeafInv'
    BY <1>17, <1>3, <1>4, <1>5, <1>6
    DEF DiskLeafInv, NewLeafInv, DiskInv, NoPair, NothingToRestore
  <2>3. Held' => ServedLeafInv'
    BY <1>17, <1>3, <1>4, <1>5, <1>6
    DEF ServedLeafInv, DiskLeafInv, NewLeafInv, DiskInv, NoPair,
        NothingToRestore
  <2>4. QED
    BY <2>1, <2>2, <2>3 DEF LeafInv
<1>18. CASE RestoreCrt
  <2>1. NewLeafInv'
    BY <1>18, <1>3 DEF NewLeafInv, DiskInv, RestoreCrt
  <2>2. Held' => DiskLeafInv'
    BY <1>18, <1>3, <1>4, <1>5, <1>6
    DEF DiskLeafInv, NewLeafInv, DiskInv, NoPair, RestoreCrt
  <2>3. Held' => ServedLeafInv'
    BY <1>18, <1>3, <1>4, <1>5, <1>6
    DEF ServedLeafInv, DiskLeafInv, NewLeafInv, DiskInv, NoPair, RestoreCrt
  <2>4. QED
    BY <2>1, <2>2, <2>3 DEF LeafInv
<1>18a. CASE CopyCrt
  <2>1. NewLeafInv'
    BY <1>18a, <1>3 DEF NewLeafInv, DiskInv, CopyCrt
  <2>2. Held' => DiskLeafInv'
    BY <1>18a, <1>3, <1>4, <1>5, <1>6
    DEF DiskLeafInv, NewLeafInv, DiskInv, NoPair, CopyCrt
  <2>3. Held' => ServedLeafInv'
    BY <1>18a, <1>3, <1>4, <1>5, <1>6
    DEF ServedLeafInv, DiskLeafInv, NewLeafInv, DiskInv, NoPair, CopyCrt
  <2>4. QED
    BY <2>1, <2>2, <2>3 DEF LeafInv
<1>19. CASE RestoreKey
  <2>1. NewLeafInv'
    BY <1>19, <1>3 DEF NewLeafInv, DiskInv, RestoreKey
  <2>2. Held' => DiskLeafInv'
    BY <1>19, <1>3, <1>4, <1>5, <1>6
    DEF DiskLeafInv, NewLeafInv, DiskInv, NoPair, RestoreKey
  <2>3. Held' => ServedLeafInv'
    BY <1>19, <1>3, <1>4, <1>5, <1>6
    DEF ServedLeafInv, DiskLeafInv, NewLeafInv, DiskInv, NoPair, RestoreKey
  <2>4. QED
    BY <2>1, <2>2, <2>3 DEF LeafInv
<1>19a. CASE CopyKey
  <2>1. NewLeafInv'
    BY <1>19a, <1>3 DEF NewLeafInv, DiskInv, CopyKey, RestoredKey
  <2>2. Held' => DiskLeafInv'
    BY <1>19a, <1>3, <1>4, <1>5, <1>6
    DEF DiskLeafInv, NewLeafInv, DiskInv, NoPair, CopyKey, RestoredKey
  <2>3. Held' => ServedLeafInv'
    BY <1>19a, <1>3, <1>4, <1>5, <1>6
    DEF ServedLeafInv, DiskLeafInv, NewLeafInv, DiskInv, NoPair, CopyKey,
        RestoredKey
  <2>4. QED
    BY <2>1, <2>2, <2>3 DEF LeafInv
<1>20. CASE RestoreReload
  <2>1. NewLeafInv'
    BY <1>20, <1>3 DEF NewLeafInv, DiskInv, RestoreReload, ReloadTaken, Matches
  <2>2. Held' => DiskLeafInv'
    BY <1>20, <1>3, <1>4, <1>5, <1>6
    DEF DiskLeafInv, NewLeafInv, DiskInv, NoPair, RestoreReload, ReloadTaken,
        Matches
  <2>3. Held' => ServedLeafInv'
    BY <1>20, <1>3, <1>4, <1>5, <1>6
    DEF ServedLeafInv, DiskLeafInv, NewLeafInv, DiskInv, NoPair,
        RestoreReload, ReloadTaken, Matches
  <2>4. QED
    BY <2>1, <2>2, <2>3 DEF LeafInv
<1>21. CASE Die
  <2> Held' => pc \in {"issue", "install", "handshake"}
    BY <1>21 DEF Die, Held, DiedUnloaded, Pc
  <2>1. NewLeafInv'
    BY <1>21, <1>3 DEF NewLeafInv, DiskInv, Die
  <2>2. Held' => DiskLeafInv'
    BY <1>21, <1>3, <1>4, <1>5, <1>6
    DEF DiskLeafInv, NewLeafInv, DiskInv, NoPair, Die
  <2>3. Held' => ServedLeafInv'
    BY <1>21, <1>3, <1>4, <1>5, <1>6
    DEF ServedLeafInv, DiskLeafInv, NewLeafInv, DiskInv, NoPair, Die
  <2>4. QED
    BY <2>1, <2>2, <2>3 DEF LeafInv
<1>22. CASE Load
  <2>1. NewLeafInv'
    BY <1>22, <1>3 DEF NewLeafInv, DiskInv, Load, Matches
  <2>2. Held' => DiskLeafInv'
    BY <1>22, <1>3, <1>4, <1>5, <1>6
    DEF DiskLeafInv, NewLeafInv, DiskInv, NoPair, Load, Matches
  <2>3. Held' => ServedLeafInv'
    BY <1>22, <1>3, <1>4, <1>5, <1>6
    DEF ServedLeafInv, DiskLeafInv, NewLeafInv, DiskInv, NoPair, Load, Matches
  <2>4. QED
    BY <2>1, <2>2, <2>3 DEF LeafInv
<1>23. CASE ContainerRestart
  <2>1. NewLeafInv'
    BY <1>23, <1>3 DEF NewLeafInv, DiskInv, ContainerRestart, Matches
  <2>2. Held' => DiskLeafInv'
    BY <1>23, <1>3, <1>4, <1>5, <1>6
    DEF DiskLeafInv, NewLeafInv, DiskInv, NoPair, ContainerRestart, Matches
  <2>3. Held' => ServedLeafInv'
    BY <1>23, <1>3, <1>4, <1>5, <1>6
    DEF ServedLeafInv, DiskLeafInv, NewLeafInv, DiskInv, NoPair,
        ContainerRestart, Matches
  <2>4. QED
    BY <2>1, <2>2, <2>3 DEF LeafInv
<1>24. CASE NextDay
  <2>1. NewLeafInv'
    BY <1>24, <1>3 DEF NewLeafInv, DiskInv, NextDay
  <2>2. Held' => DiskLeafInv'
    BY <1>24, <1>3, <1>4, <1>5, <1>6
    DEF DiskLeafInv, NewLeafInv, DiskInv, NoPair, NextDay
  <2>3. Held' => ServedLeafInv'
    BY <1>24, <1>3, <1>4, <1>5, <1>6
    DEF ServedLeafInv, DiskLeafInv, NewLeafInv, DiskInv, NoPair, NextDay
  <2>4. QED
    BY <2>1, <2>2, <2>3 DEF LeafInv
<1>25. CASE UNCHANGED vars
  BY <1>25 DEF vars, LeafInv, NewLeafInv, Held, DiskLeafInv, ServedLeafInv,
     DiedUnloaded
<1>26. QED
  BY <1>7, <1>8, <1>8a, <1>9, <1>10, <1>11, <1>12, <1>13, <1>14, <1>15, <1>16,
     <1>17, <1>18, <1>18a, <1>19, <1>19a, <1>20, <1>21, <1>22, <1>23, <1>24, <1>25
  DEF Next, Run

(***************************************************************************)
(* The relay never serves an expired leaf while fewer runs in a row have   *)
(* failed than --renew-before-days, wherever they failed, provided none    *)
(* died between the change of its files and the signal.                    *)
(***************************************************************************)
THEOREM LeafStaysValid == Spec => []ServedLeafIsValid
<1>1. FilesInv /\ LeafInv => ServedLeafIsValid
  <2> SUFFICES ASSUME FilesInv, LeafInv, Held, served # None
               PROVE  left[served] > 0
    BY DEF ServedLeafIsValid, Held
  <2> USE RenewalAssumption, NoGeneration DEF Gen
  <2>1. disk \in Pair /\ before \in Pair /\ failures \in 0..RenewBefore
        /\ failures < RenewBefore /\ left \in [Gen -> 0..Validity]
        /\ served \in Gen /\ pc \in Pc
    BY DEF FilesInv, RenewalTypeOK, Held
  <2>2. disk.crt \in File /\ before.crt \in File
    BY <2>1 DEF Pair
  <2>3. DiskInv /\ DiskLeafInv /\ ServedLeafInv
    BY DEF FilesInv, LeafInv
  <2>4. CASE pc = "idle"
    <3>1. disk.crt # Torn
      BY <2>4 DEF FilesInv, PairOnDisk, Held, DiedUnloaded, Exchange
    <3>2. disk.crt \in Gen
      BY <2>2, <2>3, <2>4, <3>1 DEF ServedLeafInv, File
    <3>3. QED
      BY <2>1, <2>3, <2>4, <3>2 DEF DiskLeafInv, ServedLeafInv, Lasts
  <2>5. CASE Working
    <3>1. disk = before /\ disk.crt # Torn
      BY <2>3, <2>5 DEF DiskInv, Working
    <3>2. disk.crt \in Gen
      BY <2>2, <2>3, <2>5, <3>1 DEF ServedLeafInv, File
    <3>3. QED
      BY <2>1, <2>3, <2>5, <3>1, <3>2
      DEF DiskLeafInv, ServedLeafInv, Working, Lasts
  <2>6. CASE Swapping
    BY <2>1, <2>2, <2>3, <2>6 DEF DiskLeafInv, ServedLeafInv, Swapping, Lasts
  <2>7. QED
    BY <2>1, <2>4, <2>5, <2>6 DEF Pc, Working, Swapping
<1>2. FilesInv /\ FilesInv' /\ LeafInv /\ [Next]_vars => LeafInv'
  BY LeafStep
<1>3. QED
  BY <1>1, <1>2, LeafInit, FilesInvariant, PTL DEF Spec
=============================================================================
