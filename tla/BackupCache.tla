----------------------------- MODULE BackupCache -----------------------------
(***************************************************************************)
(* What the backup manager knows of the files of a backup                  *)
(* (backups/manager.py): the files in its cache against the disk.  The     *)
(* cache notes one file for each location; there may be more, as an import *)
(* chooses the name of its file.                                           *)
(* Backups do not touch each other there, so one of them is followed.      *)
(* Creating, importing and removing it, and reloads, take no common lock   *)
(* and each keeps a reference to the Backup object it began with.          *)
(***************************************************************************)
EXTENDS Naturals, FiniteSets

CONSTANTS
  Locations,  \* backup locations
  Names,      \* names of files
  Calls,      \* calls of the manager that may be under way at once
  Reloads,    \* reloads that may be under way at once
  Objects,    \* Backup objects that may exist at once
  None,       \* no object, no location
  Starts,     \* sets of files there may be at the start
  MaxOps,     \* bound of calls, lost files and unreadable locations
  MaxFaults   \* bound of failing calls

ASSUME CacheAssumption ==
  /\ None \notin Objects \cup Locations
  /\ {MaxOps, MaxFaults} \subseteq Nat
  /\ IsFiniteSet(Calls) /\ IsFiniteSet(Objects)
  /\ Cardinality(Objects) > Cardinality(Calls) + 1

VARIABLES
  disk,      \* the files of the backup: none, part (incomplete) or tar
  known,     \* all_locations of each Backup object: the files it notes
  cached,    \* the object in _backups
  call,
  reload,
  ops,
  faults,
  apart      \* locations where cache and disk may be apart: see CacheFollowsDisk

files == <<disk, known, cached>>
vars == <<files, call, reload, ops, faults, apart>>

NoCall == [op |-> "none", pc |-> "none", object |-> None, todo |-> {}, done |-> {},
           alone |-> TRUE]
NoReload == [pc |-> "none", of |-> {}, listed |-> {}, loaded |-> {}, alone |-> TRUE]

Files == Locations \X Names
Where(f) == f[1]
Name(f) == f[2]
Places(some) == {Where(f) : f \in some}

Cached == IF cached = None THEN {} ELSE known[cached]
OnDisk == {f \in Files : disk[f] = "tar"}

\* One file for each location that has any.
OneEach(some) ==
  {fs \in SUBSET some : /\ Places(fs) = Places(some)
                        /\ \A f, g \in fs : Where(f) = Where(g) => f = g}

\* dict.update: what was noted for these locations is replaced.
Noting(noted, new) == {f \in noted : Where(f) \notin Places(new)} \cup new

Init ==
  /\ disk \in [Files -> {"none", "tar"}] /\ OnDisk \in Starts
  /\ LET o == CHOOSE o \in Objects : TRUE IN
       /\ \E fs \in OneEach(OnDisk) : known = [x \in Objects |-> IF x = o THEN fs ELSE {}]
       /\ cached = IF OnDisk = {} THEN None ELSE o
  /\ call = [c \in Calls |-> NoCall]
  /\ reload = [r \in Reloads |-> NoReload]
  /\ ops = 0 /\ faults = 0
  /\ apart = {}

Fault == faults < MaxFaults /\ faults' = faults + 1
NoFault == UNCHANGED faults

\* Something happens outside of the Supervisor.
Trouble == ops < MaxOps /\ ops' = ops + 1
At(c, op, pc) == call[c].op = op /\ call[c].pc = pc
Goto(c, pc) == call' = [call EXCEPT ![c].pc = pc]

\* An object nobody refers to any more.
Fresh == CHOOSE o \in Objects : o # cached /\ \A c \in Calls : call[c].object # o

\* An object instead of the one in the cache; which one matters only to calls.
Renewed ==
  IF cached # None /\ \A c \in Calls : call[c].object # cached THEN cached ELSE Fresh

\* What the objects know from now on; those that nobody refers to are gone.
Know(k) ==
  known' = [o \in Objects |->
    IF o = cached' \/ \E c \in Calls : call'[c].object = o THEN k[o] ELSE {}]

-----------------------------------------------------------------------------
(* Which calls disturb each other: all but two reloads do, and two removes  *)

Disturbed(op, c) ==
  call[c].op # "none" /\ (op # "remove" \/ call[c].op # "remove")

Begin(c, op, rest) ==
  /\ call[c] = NoCall
  /\ c = CHOOSE d \in Calls : call[d] = NoCall
  /\ ops < MaxOps
  /\ ops' = ops + 1
  /\ LET others == {d \in Calls : Disturbed(op, d)}
         busy == {r \in Reloads : reload[r] # NoReload}
     IN /\ call' = [d \in Calls |->
              CASE d = c -> [rest EXCEPT !.op = op, !.alone = (others \cup busy = {})]
                [] d \in others -> [call[d] EXCEPT !.alone = FALSE]
                [] OTHER -> call[d]]
        /\ reload' = [r \in Reloads |->
              IF r \in busy THEN [reload[r] EXCEPT !.alone = FALSE] ELSE reload[r]]

End(c) ==
  /\ call' = [call EXCEPT ![c] = NoCall]
  /\ apart' = IF call[c].alone THEN apart ELSE Locations

\* A reload is a task of its own, for all locations or for one.
BeginReload(of) ==
  /\ \E r \in Reloads : reload[r] = NoReload
  /\ LET r == CHOOSE r \in Reloads : reload[r] = NoReload IN
       reload' = [reload EXCEPT ![r] = [NoReload EXCEPT !.pc = "list", !.of = of,
                    !.alone = \A c \in Calls : call[c] = NoCall]]

-----------------------------------------------------------------------------
(* _do_backup and _copy_to_additional_locations                            *)

\* The new file is written in place.  (A backup made after another one is gone
\* for good has its identity here; in the code it has another slug.)
Create(c) ==
  \E f \in Files, more \in SUBSET Locations :
    /\ OnDisk = {} /\ cached = None /\ disk[f] = "none" /\ Where(f) \notin more
    /\ \A d \in Calls : call[d] = NoCall
    /\ \A x \in Reloads : reload[x].listed \cup reload[x].loaded = {}
    /\ Begin(c, "create", [NoCall EXCEPT !.pc = "write", !.todo = more, !.done = {f}])
    /\ disk' = [disk EXCEPT ![f] = "part"]
    /\ UNCHANGED <<known, cached, faults, apart>>

\* The file is complete; if it cannot be made it is removed again.
Write(c) ==
  /\ At(c, "create", "write")
  /\ \E f \in call[c].done :
       \/ /\ disk' = [disk EXCEPT ![f] = "tar"]
          /\ Goto(c, "enter") /\ NoFault /\ UNCHANGED apart
       \/ /\ disk' = [disk EXCEPT ![f] = "none"]
          /\ End(c) /\ Fault
  /\ UNCHANGED <<known, cached, reload, ops>>

\* Into the cache.
Enter(c) ==
  /\ At(c, "create", "enter")
  /\ cached' = Fresh
  /\ call' = [call EXCEPT ![c].pc = "copy", ![c].object = Fresh, ![c].done = {}]
  /\ Know([known EXCEPT ![Fresh] = call[c].done])
  /\ UNCHANGED <<disk, reload, ops, faults, apart>>

\* A copy has the name of the file it is made from, one that the object notes.
Copied(c, l, from) ==
  /\ from \in known[call[c].object]
  /\ call' = [call EXCEPT ![c].todo = @ \ {l}, ![c].done = @ \cup {<<l, Name(from)>>}]

\* Mutant of Copy: a location is noted whether the copy worked or not.
CopyOrNot(c) ==
  /\ call[c].pc = "copy"
  /\ \E l \in call[c].todo, from \in known[call[c].object] :
       /\ Copied(c, l, from)
       /\ \/ disk' = [disk EXCEPT ![<<l, Name(from)>>] = disk[from]] /\ NoFault
          \/ UNCHANGED disk /\ Fault
  /\ UNCHANGED <<known, cached, reload, ops, apart>>

\* One location after the other.  A copy that fails may leave part of a file; of a
\* file that is gone, or onto itself, there is none, and without one to be copied
\* the call ends (IndexError).
Copy(c) ==
  /\ call[c].pc = "copy"
  /\ \E l \in call[c].todo :
       \/ \E from \in known[call[c].object] :
            LET to == <<l, Name(from)>> IN
              \/ /\ disk[from] # "none" /\ to # from
                 /\ disk' = [disk EXCEPT ![to] = disk[from]]
                 /\ Copied(c, l, from)
                 /\ NoFault /\ UNCHANGED apart
              \/ /\ to # from
                 /\ \E left \in {disk[to], "part"} : disk' = [disk EXCEPT ![to] = left]
                 /\ call' = [call EXCEPT ![c].todo = @ \ {l}]
                 /\ apart' = IF disk[to] = "tar" THEN apart \cup {l} ELSE apart
                 /\ Fault
              \/ /\ disk[from] = "none" \/ to = from
                 /\ call' = [call EXCEPT ![c].todo = @ \ {l}]
                 /\ NoFault /\ UNCHANGED <<disk, apart>>
       \/ /\ known[call[c].object] = {}
          /\ End(c)
          /\ NoFault /\ UNCHANGED disk
  /\ UNCHANGED <<cached, reload, ops>>
  /\ Know(known)

\* What was copied goes to the object the call holds, in the cache or not: one that
\* was already known learns nothing of the copies of an import.
CopyEnds(c) ==
  /\ call[c].pc = "copy" /\ call[c].todo = {}
  /\ call' = [call EXCEPT ![c] = NoCall]
  /\ apart' = CASE ~call[c].alone                             -> Locations
                [] call[c].alone /\ call[c].object = cached -> apart
                [] OTHER -> apart \cup (Places(call[c].done) \ Places(Cached))
  /\ UNCHANGED <<disk, cached, reload, ops, faults>>
  /\ Know([known EXCEPT ![call[c].object] = Noting(@, call[c].done)])

-----------------------------------------------------------------------------
(* import_backup                                                           *)

Import(c) ==
  \E f \in Files, more \in SUBSET Locations :
    /\ Where(f) \notin more
    /\ Begin(c, "import", [NoCall EXCEPT !.pc = "rename", !.todo = more, !.done = {f}])
    /\ UNCHANGED <<files, faults, apart>>

\* The uploaded file moves to its location, over a file of that name, beside others.
Rename(c) ==
  /\ At(c, "import", "rename")
  /\ \/ /\ disk' = [f \in Files |-> IF f \in call[c].done THEN "tar" ELSE disk[f]]
        /\ Goto(c, "load") /\ NoFault /\ UNCHANGED apart
     \/ End(c) /\ Fault /\ UNCHANGED disk
  /\ UNCHANGED <<known, cached, reload, ops>>

\* A known backup gains the file, for another one noted there; a new one enters the
\* cache.
Register(c) ==
  /\ At(c, "import", "load")
  /\ call[c].done \subseteq OnDisk
  /\ cached' = IF cached # None /\ known[cached] # call[c].done THEN cached ELSE Fresh
  /\ call' = [call EXCEPT ![c].pc = "copy", ![c].object = Fresh, ![c].done = {}]
  /\ Know([o \in Objects |-> CASE o = Fresh  -> call[c].done
                               [] o = cached -> Noting(known[o], call[c].done)
                               [] OTHER      -> known[o]])
  /\ UNCHANGED <<disk, reload, ops, faults, apart>>

\* It cannot be loaded from there: the file is removed, whatever it replaced.
Discard(c) ==
  /\ At(c, "import", "load")
  /\ IF call[c].done \subseteq OnDisk THEN Fault ELSE NoFault
  /\ disk' = [f \in Files |-> IF f \in call[c].done THEN "none" ELSE disk[f]]
  /\ call' = [call EXCEPT ![c] = NoCall]
  /\ apart' = IF call[c].alone
                THEN apart \cup Places(call[c].done \cap Cached) ELSE Locations
  /\ UNCHANGED <<known, cached, reload, ops>>

-----------------------------------------------------------------------------
(* remove                                                                  *)

Remove(c) ==
  \E targets \in (SUBSET Places(Cached)) \ {{}} :
    /\ Begin(c, "remove", [NoCall EXCEPT !.pc = "unlink", !.object = cached,
                            !.todo = targets])
    /\ UNCHANGED <<files, faults, apart>>

\* FileNotFoundError: a task reloads the location.
MissingFile(c, f) == disk[f] = "none" /\ End(c) /\ BeginReload({Where(f)})

\* The file noted for a location goes; another one there stays, soon unlisted.
RemoveFile(c, f) ==
  /\ disk[f] # "none"
  /\ disk' = [disk EXCEPT ![f] = "none"]
  /\ call' = [call EXCEPT ![c].pc = "forget", ![c].done = {f}]
  /\ apart' = IF Where(f) \in Places(OnDisk \ {f}) THEN apart \cup {Where(f)} ELSE apart
  /\ UNCHANGED reload

\* One location after the other; another remove may have forgotten it (KeyError).
Unlink(c) ==
  /\ At(c, "remove", "unlink")
  /\ \E l \in call[c].todo :
       LET noted == {f \in known[call[c].object] : Where(f) = l} IN
         \/ \E f \in noted : RemoveFile(c, f) /\ NoFault
         \/ \E f \in noted : MissingFile(c, f) /\ NoFault /\ UNCHANGED disk
         \/ /\ IF noted = {} THEN NoFault ELSE Fault
            /\ End(c)
            /\ UNCHANGED <<disk, reload>>
  /\ UNCHANGED <<cached, ops>>
  /\ Know(known)

\* A backup that is nowhere leaves the cache, whichever object is there.
Forget(c) ==
  /\ At(c, "remove", "forget")
  /\ LET gone == Places(call[c].done)
         left == {f \in known[call[c].object] : Where(f) \notin gone}
         todo == call[c].todo \ gone
     IN /\ IF todo # {}
             THEN /\ call' = [call EXCEPT ![c].pc = "unlink", ![c].todo = todo,
                                          ![c].done = {}]
                  /\ UNCHANGED <<cached, apart>>
             ELSE /\ cached' = IF left = {} THEN None ELSE cached
                  /\ End(c)
        /\ Know([known EXCEPT ![call[c].object] = left])
  /\ UNCHANGED <<disk, reload, ops, faults>>

-----------------------------------------------------------------------------
(* reload: all locations are listed, then every file is opened             *)

\* Mutant of ReloadAll: only if a file is missing.
ReloadAllIfMissing ==
  /\ \E f \in Cached : disk[f] = "none"
  /\ BeginReload(Locations)
  /\ UNCHANGED <<files, call, ops, faults, apart>>

\* The scheduler, the API and changes of mounts ask for it.
ReloadAll == BeginReload(Locations) /\ UNCHANGED <<files, call, ops, faults, apart>>

\* A download or a restore found that a file is missing.
ReloadMissing ==
  /\ \E f \in Cached : disk[f] = "none" /\ BeginReload({Where(f)})
  /\ UNCHANGED <<files, call, ops, faults, apart>>

\* The locations are listed side by side; one that cannot be read has no files.
List(r) ==
  /\ reload[r].pc = "list"
  /\ \E lost \in SUBSET reload[r].of :
       /\ IF lost = {} THEN UNCHANGED ops ELSE Trouble
       /\ reload' = [reload EXCEPT ![r].pc = "load",
                          ![r].listed = {f \in (reload[r].of \ lost) \X Names :
                                          disk[f] # "none"},
                          ![r].alone = @ /\ lost = {}]
  /\ UNCHANGED <<files, call, faults, apart>>

\* So are the files opened; incomplete and vanished ones are ignored.
Load(r) ==
  /\ reload[r].pc = "load"
  /\ reload' = [reload EXCEPT ![r].pc = "loaded", ![r].listed = {},
                             ![r].loaded = reload[r].listed \cap OnDisk]
  /\ UNCHANGED <<files, call, ops, faults, apart>>

Reloaded(r) ==
  /\ reload[r].pc = "loaded"
  /\ reload' = [reload EXCEPT ![r] = NoReload]

\* A full reload makes a new cache; calls under way keep their old object.  Of several
\* files at one location the last that was opened is noted.
Replace(r) ==
  /\ Reloaded(r)
  /\ reload[r].of = Locations
  /\ cached' = IF reload[r].loaded = {} THEN None ELSE Renewed
  /\ apart' = IF reload[r].alone THEN {} ELSE Locations
  /\ UNCHANGED <<disk, call, ops, faults>>
  /\ \E fs \in OneEach(reload[r].loaded) : Know([known EXCEPT ![Renewed] = fs])

\* One of a location only changes a backup that the cache has.
Merge(r) ==
  /\ Reloaded(r)
  /\ reload[r].of # Locations
  /\ \E fs \in OneEach(reload[r].loaded) :
       LET left == {f \in Cached : Where(f) \notin reload[r].of} \cup fs IN
         /\ cached' = IF cached = None \/ left = {} THEN None ELSE cached
         /\ UNCHANGED call
         /\ Know([o \in Objects |-> IF o = cached /\ left # {} THEN left ELSE known[o]])
  /\ apart' = CASE ~reload[r].alone                  -> Locations
                [] reload[r].alone /\ cached = None -> apart
                [] OTHER                            -> apart \ reload[r].of
  /\ UNCHANGED <<disk, ops, faults>>

-----------------------------------------------------------------------------
(* Others                                                                  *)

\* A file is lost outside of the Supervisor.
Vanish ==
  /\ Trouble
  /\ \E f \in OnDisk :
       /\ disk' = [disk EXCEPT ![f] = "none"]
       /\ apart' = apart \cup {Where(f)}
  /\ call' = [c \in Calls |->
       IF call[c] = NoCall THEN NoCall ELSE [call[c] EXCEPT !.alone = FALSE]]
  /\ reload' = [r \in Reloads |->
       IF reload[r] = NoReload THEN NoReload ELSE [reload[r] EXCEPT !.alone = FALSE]]
  /\ UNCHANGED <<known, cached, faults>>

\* Another backup is to be made under the file name of this one:
\* BackupFileExistError, and _do_backup removes "its" file.
Another(c) ==
  /\ \E f \in OnDisk : Begin(c, "another", [NoCall EXCEPT !.pc = "exists", !.done = {f}])
  /\ UNCHANGED <<files, faults, apart>>

AnotherFails(c) ==
  /\ At(c, "another", "exists")
  /\ disk' = [f \in Files |-> IF f \in call[c].done THEN "none" ELSE disk[f]]
  /\ call' = [call EXCEPT ![c] = NoCall]
  /\ apart' = Locations
  /\ UNCHANGED <<known, cached, reload, ops, faults>>

CallStep(c) ==
  \/ Write(c) \/ Enter(c) \/ Copy(c) \/ CopyEnds(c)
  \/ Rename(c) \/ Register(c) \/ Discard(c)
  \/ Unlink(c) \/ Forget(c)
  \/ AnotherFails(c)

ReloadStep(r) == List(r) \/ Load(r) \/ Replace(r) \/ Merge(r)

Next ==
  \/ \E c \in Calls : Create(c) \/ Import(c) \/ Remove(c) \/ Another(c) \/ CallStep(c)
  \/ \E r \in Reloads : ReloadStep(r)
  \/ ReloadAll \/ ReloadMissing
  \/ Vanish

Spec == Init /\ [][Next]_vars

\* Calls under way go on, one or the other, and so do reloads; their steps change
\* call and reload.
LiveSpec ==
  /\ Spec
  /\ WF_call(\E c \in Calls : CallStep(c))
  /\ WF_reload(\E r \in Reloads : ReloadStep(r))
  /\ WF_reload(ReloadAll)

-----------------------------------------------------------------------------
(* Properties                                                              *)

Idle == (\A c \in Calls : call[c] = NoCall) /\ \A r \in Reloads : reload[r] = NoReload

(* With nothing under way the cache notes complete files only, and has a   *)
(* location exactly if one is there.  Whatever failed; but not (apart)     *)
(*  - where a second file was at the location that remove took the noted   *)
(*    one from, as after an import under another name: it stays, unlisted; *)
(*  - where an import of a known backup made copies: those stay unlisted;  *)
(*  - where a copy or an import failed over a complete file, or a file was *)
(*    lost or deleted as that of another backup;                           *)
(*  - if calls and reloads disturbed each other (all but removes do).      *)
(* All of that lasts until the next reload: CacheHeals.                    *)
CacheFollowsDisk ==
  Idle => /\ \A f \in Cached : Where(f) \notin apart => f \in OnDisk
          /\ Places(OnDisk) \subseteq Places(Cached) \cup apart

(* However creating, importing, removing and reloading overlapped, and     *)
(* whatever they left behind, once they are over the reload that the       *)
(* scheduler repeats brings the cache in line with the disk for good.      *)
CacheHeals == <>[](Cached \in OneEach(OnDisk))

(* "If the backup failed, the backup file is being deleted": a new backup  *)
(* that fails deletes its own file and no complete backup.                 *)
FailureDeletesOwnFile ==
  [][\A c \in Calls : call[c].op = "another" /\ call'[c] = NoCall => OnDisk \subseteq OnDisk']_vars

=============================================================================
