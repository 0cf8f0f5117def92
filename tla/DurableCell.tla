------------------------------ MODULE DurableCell ------------------------------
(***************************************************************************)
(* What createPersistentOfflineSubmissionQueue promises its callers: a     *)
(* value in memory that is written to disk behind their backs, and a wait  *)
(* (whenPersisted) that ends only when what they changed would survive a   *)
(* crash.  A value is its version number; a later version contains the     *)
(* changes of the earlier ones of the same process.                        *)
(***************************************************************************)
EXTENDS Naturals

VARIABLES
    memory,    \* the version the program sees
    disk,      \* the version a restart would read
    promised   \* the latest version some caller was told is saved

cell == <<memory, disk, promised>>

CellInit == memory = 0 /\ disk = 0 /\ promised = 0

CellChange == memory' > memory /\ memory' \in Nat /\ UNCHANGED <<disk, promised>>

CellSave == disk' > disk /\ disk' <= memory /\ disk' \in Nat /\ UNCHANGED <<memory, promised>>

CellPromise ==
    promised' > promised /\ promised' <= disk /\ promised' \in Nat /\ UNCHANGED <<memory, disk>>

(* The write that was under way when the process died may have been made.     *)
CellCrash ==
    /\ disk' >= disk /\ disk' <= memory /\ disk' \in Nat
    /\ memory' = disk'
    /\ UNCHANGED promised

CellNext == CellChange \/ CellSave \/ CellPromise \/ CellCrash

CellSpec == CellInit /\ [][CellNext]_cell

(* What was promised survives every crash.                                    *)
PromisesAreKept == promised <= disk
================================================================================
