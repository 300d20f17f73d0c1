------------------------------ MODULE MCBackups ------------------------------
(***************************************************************************)
(* Instances of BackupManager.                                             *)
(***************************************************************************)
EXTENDS BackupManager, TLC

CONSTANTS b1, b2, x1, f1, f2, t1, t2, w1, r1, r2, a1, a2

AllOthers == Backups \cup Restores \cup Freezes \cup ThawCalls \cup Thaws

Symmetry == Permutations(Freezes) \cup Permutations(Thaws)

=============================================================================
