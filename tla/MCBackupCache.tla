---------------------------- MODULE MCBackupCache ----------------------------
(***************************************************************************)
(* Instances of BackupCache.                                               *)
(***************************************************************************)
EXTENDS BackupCache

\* At the start there is no file, or one at each location, all of one name.
FewFiles == {{}, Locations \X {CHOOSE n \in Names : TRUE}}

\* Any files.
AnyFiles == SUBSET Files

=============================================================================
