-------------------------- MODULE BackupCacheProofs --------------------------
(***************************************************************************)
(* Proofs about BackupCache: with nothing under way the cache notes what   *)
(* is on disk, for any number of locations, files, calls and reloads.      *)
(***************************************************************************)
EXTENDS BackupCache, Functions, FiniteSetTheorems, TLAPS

-----------------------------------------------------------------------------
(* The inductive invariant                                                 *)

CallType ==
  [op : {"none", "create", "import", "remove", "another"},
   pc : {"none", "write", "enter", "copy", "rename", "load", "unlink", "forget", "exists"},
   object : Objects \cup {None}, todo : SUBSET Locations, done : SUBSET Files,
   alone : BOOLEAN]

ReloadType ==
  [pc : {"none", "list", "load", "loaded"}, of : SUBSET Locations,
   listed : SUBSET Files, loaded : SUBSET Files, alone : BOOLEAN]

Types ==
  /\ disk \in [Files -> {"none", "part", "tar"}]
  /\ known \in [Objects -> SUBSET Files]
  /\ cached \in Objects \cup {None}
  /\ call \in [Calls -> CallType]
  /\ reload \in [Reloads -> ReloadType]
  /\ apart \subseteq Locations

\* A call is at a place of its operation and has the object that goes with it;
\* a new backup, or an uploaded one, is one file.
InRole(k) ==
  /\ k.op = "none" => k = NoCall
  /\ k.op = "create" => k.pc \in {"write", "enter", "copy"}
  /\ k.op = "import" => k.pc \in {"rename", "load", "copy"}
  /\ k.op = "remove" => k.pc \in {"unlink", "forget"} /\ k.object # None
  /\ k.op = "another" => k.pc = "exists"
  /\ k.pc \in {"write", "enter", "rename", "load"} => \E f \in Files : k.done = {f}
  /\ k.pc = "copy" => k.object # None

Roles == \A c \in Calls : InRole(call[c])

\* An undisturbed reload has seen the disk as it is; no call is under way.
SeesDisk(x) ==
  /\ x.pc = "none" => x = NoReload
  /\ x # NoReload /\ x.alone =>
       /\ \A c \in Calls : call[c] = NoCall
       /\ x.pc = "load" => x.listed = {f \in Files : Where(f) \in x.of /\ disk[f] # "none"}
       /\ x.pc = "loaded" => x.loaded = {f \in OnDisk : Where(f) \in x.of}

Reading == \A r \in Reloads : SeesDisk(reload[r])

\* Only removes go on side by side undisturbed.
Together ==
  \A c, d \in Calls :
    /\ c # d /\ call[c].alone /\ call[d].alone
    /\ call[c].op # "none" /\ call[d].op # "none"
    => call[c].op = "remove" /\ call[d].op = "remove"

Base == Types /\ Roles /\ Reading /\ Together

\* All that is under way is undisturbed.
Quiet == (\A c \in Calls : call[c].alone) /\ \A r \in Reloads : reload[r].alone

\* A location that the cache is about to forget: its file is gone.
Leaving(l) ==
  \E c \in Calls : call[c].pc = "forget" /\ l \in Places(call[c].done)

\* The files a call has made that the cache is about to learn of.
Brought(k) == IF k.pc \in {"enter", "load", "copy"} THEN k.done ELSE {}

\* What the cache would note if all that is leaving and coming were over.
Noted ==
  {f \in Files : \/ f \in Cached /\ ~Leaving(Where(f))
                 \/ \E c \in Calls : f \in Brought(call[c])}

\* It is complete, and no location that has a complete file is left out.
Agreed ==
  /\ \A f \in Noted : Where(f) \notin apart => f \in OnDisk
  /\ \A f \in OnDisk : Where(f) \notin apart => \E g \in Noted : Where(g) = Where(f)

\* A call holds the object of the cache, or there is nothing to be forgotten; what a
\* copy is made of is there; where an import may still be discarded, the cache notes
\* what else is there.
Holding(k) ==
  /\ k.pc \in {"write", "enter"} => cached = None
  /\ k.pc = "enter" => k.done \subseteq OnDisk
  /\ k.pc = "load" =>
       \A f \in OnDisk \ k.done : Where(f) \notin apart => \E g \in Cached : Where(g) = Where(f)
  /\ k.pc = "copy" => \E f \in OnDisk : known[k.object] = {f}
  /\ k.op = "remove" =>
       \/ k.object = cached
       \/ cached = None /\ known[k.object] = {}

Settled == Agreed /\ \A c \in Calls : Holding(call[c])

Settling == Quiet => apart = Locations \/ Settled

IInv == Base /\ Settling

-----------------------------------------------------------------------------
(* Lemmas about the operators                                              *)

LEMMA FilesAndPlaces ==
  /\ \A f \in Files : Where(f) \in Locations /\ Name(f) \in Names
  /\ \A l \in Locations, n \in Names : <<l, n>> \in Files /\ Where(<<l, n>>) = l
  /\ \A of \in SUBSET Locations : of \X Names = {f \in Files : Where(f) \in of}
<1>1. \A f \in Files : Where(f) \in Locations /\ Name(f) \in Names
  BY DEF Files, Where, Name
<1>2. \A l \in Locations, n \in Names : <<l, n>> \in Files /\ Where(<<l, n>>) = l
  BY DEF Files, Where
<1>3. ASSUME NEW of \in SUBSET Locations
      PROVE  of \X Names = {f \in Files : Where(f) \in of}
  <2>1. \A f \in of \X Names : f \in Files /\ Where(f) \in of
    BY DEF Files, Where
  <2>2. \A f \in Files : Where(f) \in of => f \in of \X Names
    BY DEF Files, Where
  <2> QED BY <2>1, <2>2
<1> QED BY <1>1, <1>2, <1>3

LEMMA CachedFiles ==
  ASSUME Types
  PROVE  Cached \subseteq Files /\ OnDisk \subseteq Files /\ Noted \subseteq Files
BY DEF Types, Cached, OnDisk, Noted

\* There is always an object that nobody refers to: one per call and one in the
\* cache are fewer than there are.
LEMMA FreshIsFree ==
  ASSUME Types
  PROVE  /\ Fresh \in Objects
         /\ Fresh # cached
         /\ \A c \in Calls : call[c].object # Fresh
<1> DEFINE Held == {call[c].object : c \in Calls}
           hold == [c \in Calls |-> call[c].object]
<1>1. hold \in Surjection(Calls, Held)
  BY DEF Surjection
<1>2. IsFiniteSet(Held) /\ Cardinality(Held) <= Cardinality(Calls)
  <2> HIDE DEF Held, hold
  <2> QED BY <1>1, FS_Surjection, CacheAssumption DEF CacheAssumption
<1>3. /\ IsFiniteSet(Held \cup {cached})
      /\ Cardinality(Held \cup {cached}) <= Cardinality(Held) + 1
  <2> HIDE DEF Held
  <2>1. Cardinality(Held) \in Nat
    BY <1>2, FS_CardinalityType
  <2> QED BY <1>2, <2>1, FS_AddElement
<1>4. ~(Objects \subseteq Held \cup {cached})
  <2> HIDE DEF Held
  <2>1. SUFFICES ASSUME Objects \subseteq Held \cup {cached} PROVE FALSE
    OBVIOUS
  <2>2. Cardinality(Objects) <= Cardinality(Held \cup {cached})
    BY <1>3, <2>1, FS_Subset
  <2>3. /\ Cardinality(Objects) \in Nat /\ Cardinality(Calls) \in Nat
        /\ Cardinality(Held) \in Nat /\ Cardinality(Held \cup {cached}) \in Nat
    BY <1>2, <1>3, FS_CardinalityType, CacheAssumption DEF CacheAssumption
  <2>4. Cardinality(Objects) > Cardinality(Calls) + 1
    BY CacheAssumption DEF CacheAssumption
  <2> QED BY <1>2, <1>3, <2>2, <2>3, <2>4
<1>5. \E o \in Objects : o # cached /\ \A c \in Calls : call[c].object # o
  BY <1>4
<1> QED BY <1>5, Zenon DEF Fresh

\* What Know leaves: only the object in the cache and those that calls hold
\* know anything.
LEMMA Knowing ==
  ASSUME NEW k \in [Objects -> SUBSET Files], Know(k)
  PROVE  /\ known' \in [Objects -> SUBSET Files]
         /\ \A o \in Objects : known'[o] = k[o] \/ known'[o] = {}
         /\ cached' \in Objects => known'[cached'] = k[cached']
         /\ \A c \in Calls : call'[c].object \in Objects =>
              known'[call'[c].object] = k[call'[c].object]
BY DEF Know

\* Which reload begins.
LEMMA Begun ==
  ASSUME NEW of, BeginReload(of)
  PROVE  \E r \in Reloads :
           /\ reload[r] = NoReload
           /\ reload' = [reload EXCEPT ![r] = [NoReload EXCEPT !.pc = "list", !.of = of,
                           !.alone = \A c \in Calls : call[c] = NoCall]]
<1> DEFINE r == CHOOSE r \in Reloads : reload[r] = NoReload
<1>1. r \in Reloads /\ reload[r] = NoReload
  BY Zenon DEF BeginReload
<1>2. reload' = [reload EXCEPT ![r] = [NoReload EXCEPT !.pc = "list", !.of = of,
                   !.alone = \A c \in Calls : call[c] = NoCall]]
  BY DEF BeginReload
<1> HIDE DEF r
<1> QED BY <1>1, <1>2

\* A call that is neither over nor a remove goes on alone.
LEMMA OnlyCall ==
  ASSUME Base, Quiet, NEW c \in Calls, call[c].op \notin {"none", "remove"},
         NEW d \in Calls, d # c
  PROVE  call[d] = NoCall
BY DEF Base, Together, Roles, InRole, Quiet

\* A step of call c alone keeps the calls apart, and it is quiet afterwards only if
\* it was before or if c was disturbed and is over.
LEMMA CallMoves ==
  ASSUME Base, NEW c \in Calls, call[c].op # "none",
         call' \in [Calls -> CallType], UNCHANGED reload,
         \A d \in Calls \ {c} : call'[d] = call[d],
         \/ call'[c] = NoCall
         \/ (call'[c].op = call[c].op /\ call'[c].alone = call[c].alone),
         InRole(call'[c])
  PROVE  /\ Roles' /\ Reading' /\ Together'
         /\ Quiet' => Quiet \/ (~call[c].alone /\ call'[c] = NoCall)
<1>1. Roles'
  BY DEF Base, Roles
<1>2. Reading'
  <2>1. \A r \in Reloads : reload[r] # NoReload => ~reload[r].alone
    BY DEF Base, Reading, SeesDisk, NoCall
  <2> QED BY <2>1 DEF Base, Reading, SeesDisk
<1>3. Together'
  BY DEF Base, Together, NoCall
<1>4. Quiet' => Quiet \/ (~call[c].alone /\ call'[c] = NoCall)
  <2>1. SUFFICES ASSUME Quiet', call[c].alone \/ call'[c] # NoCall PROVE Quiet
    OBVIOUS
  <2>2. \A d \in Calls \ {c} : call[d].alone
    BY <2>1 DEF Quiet
  <2>3. call[c].alone
    BY <2>1 DEF Quiet
  <2>4. \A r \in Reloads : reload[r].alone
    BY <2>1 DEF Quiet
  <2> QED BY <2>2, <2>3, <2>4 DEF Quiet
<1> QED BY <1>1, <1>2, <1>3, <1>4

\* What is left to show of a call's step: types, its role, and the agreement of
\* cache and disk if the call was alone.
LEMMA CallKeeps ==
  ASSUME IInv, NEW c \in Calls, call[c].op # "none",
         Types', UNCHANGED reload,
         \A d \in Calls \ {c} : call'[d] = call[d],
         \/ call'[c] = NoCall
         \/ (call'[c].op = call[c].op /\ call'[c].alone = call[c].alone),
         InRole(call'[c]),
         apart \subseteq apart',
         call'[c] = NoCall /\ ~call[c].alone => apart' = Locations,
         Quiet /\ Settled => apart' = Locations \/ Settled'
  PROVE  IInv'
<1>1. Roles' /\ Reading' /\ Together'
      /\ (Quiet' => Quiet \/ (~call[c].alone /\ call'[c] = NoCall))
  BY CallMoves DEF IInv, Types
<1>2. apart' \subseteq Locations
  BY DEF Types
<1>3. Quiet' => apart' = Locations \/ Settled'
  <2>1. CASE Quiet
    BY <2>1, <1>2 DEF IInv, Settling
  <2>2. CASE ~call[c].alone /\ call'[c] = NoCall
    BY <2>2
  <2> QED BY <1>1, <2>1, <2>2
<1> QED BY <1>1, <1>3 DEF IInv, Base, Settling

\* Undisturbed, a call that is no remove is the only one: what is coming is what
\* it has done, and nothing is leaving.
LEMMA OnlyComing ==
  ASSUME Base, Quiet, NEW c \in Calls, call[c].op \notin {"none", "remove"}
  PROVE  Noted = Cached \cup Brought(call[c])
<1>1. \A d \in Calls \ {c} : call[d] = NoCall
  BY OnlyCall
<1>2. call[c].pc # "forget" /\ call[c].done \subseteq Files
  BY DEF Base, Roles, InRole, Types, CallType
<1>3. \A d \in Calls \ {c} : call[d].pc = "none"
  BY <1>1 DEF NoCall
<1>4. \A l : ~Leaving(l)
  BY <1>2, <1>3 DEF Leaving
<1>5. \A d \in Calls \ {c} : Brought(call[d]) = {}
  BY <1>3 DEF Brought
<1>6. Brought(call[c]) \subseteq Files /\ Cached \subseteq Files
  BY <1>2, CachedFiles DEF Brought, Base
<1> QED BY <1>4, <1>5, <1>6 DEF Noted

\* The same after a step of that call.
LEMMA OnlyComingNext ==
  ASSUME NEW c \in Calls, \A d \in Calls \ {c} : call'[d] = NoCall,
         call'[c].pc # "forget", Types'
  PROVE  /\ Noted' = Cached' \cup Brought(call'[c])
         /\ Holding(call[c])' => \A d \in Calls : Holding(call[d])'
<1>1. \A d \in Calls \ {c} : call'[d].pc = "none" /\ call'[d].op = "none"
  BY DEF NoCall
<1>2. \A l : ~Leaving(l)'
  BY <1>1 DEF Leaving
<1>3. \A d \in Calls \ {c} : Brought(call'[d]) = {}
  BY <1>1 DEF Brought
<1>4. Brought(call'[c]) \subseteq Files /\ Cached' \subseteq Files
  BY DEF Brought, Types, CallType, Cached
<1>5. Noted' = Cached' \cup Brought(call'[c])
  BY <1>2, <1>3, <1>4 DEF Noted
<1>6. Holding(call[c])' => \A d \in Calls : Holding(call[d])'
  BY <1>1 DEF Holding
<1> QED BY <1>5, <1>6

\* Without calls under way it is the cache.
LEMMA NothingComing ==
  ASSUME Types, \A c \in Calls : call[c] = NoCall
  PROVE  Noted = Cached /\ \A c \in Calls : Holding(call[c])
<1>1. \A c \in Calls : call[c].pc = "none" /\ call[c].op = "none"
  BY DEF NoCall
<1>2. \A l : ~Leaving(l)
  BY <1>1 DEF Leaving
<1>3. \A c \in Calls : Brought(call[c]) = {}
  BY <1>1 DEF Brought
<1>4. Noted = Cached
  BY <1>2, <1>3, CachedFiles DEF Noted
<1> QED BY <1>1, <1>4 DEF Holding

LEMMA NothingComingNext ==
  ASSUME Types', \A c \in Calls : call'[c] = NoCall
  PROVE  Noted' = Cached' /\ \A c \in Calls : Holding(call[c])'
<1>1. \A c \in Calls : call'[c].pc = "none" /\ call'[c].op = "none"
  BY DEF NoCall
<1>2. \A l : ~Leaving(l)'
  BY <1>1 DEF Leaving
<1>3. \A c \in Calls : Brought(call'[c]) = {}
  BY <1>1 DEF Brought
<1>4. Cached' \subseteq Files
  BY DEF Types, Cached
<1>5. Noted' = Cached'
  BY <1>2, <1>3, <1>4 DEF Noted
<1> QED BY <1>1, <1>5 DEF Holding

-----------------------------------------------------------------------------
(* Creating                                                                *)

LEMMA WriteStep ==
  ASSUME IInv, NEW c \in Calls, Write(c)
  PROVE  IInv'
<1>1. /\ call[c].op = "create" /\ call[c].pc = "write" /\ call[c] \in CallType
      /\ \E f \in Files : call[c].done = {f}
  BY DEF Write, At, IInv, Base, Types, Roles, InRole
<1>2. PICK f \in Files :
        /\ call[c].done = {f}
        /\ \/ /\ disk' = [disk EXCEPT ![f] = "tar"]
              /\ Goto(c, "enter") /\ NoFault /\ UNCHANGED apart
           \/ /\ disk' = [disk EXCEPT ![f] = "none"]
              /\ End(c) /\ Fault
  BY <1>1 DEF Write
<1>3. UNCHANGED <<known, cached, reload>>
  BY DEF Write
<1>4. ASSUME Quiet, Settled
      PROVE  /\ cached = None /\ cached' = None
             /\ \A g \in OnDisk : Where(g) \in apart
  <2>1. cached = None
    BY <1>1, <1>4 DEF Settled, Holding
  <2>2. Noted = {}
    BY <1>1, <1>4, <2>1, OnlyComing DEF IInv, Brought, Cached
  <2> QED BY <1>3, <1>4, <2>1, <2>2 DEF Settled, Agreed
<1>5. CASE disk' = [disk EXCEPT ![f] = "tar"] /\ Goto(c, "enter") /\ UNCHANGED apart
  <2>1. /\ \A d \in Calls \ {c} : call'[d] = call[d]
        /\ call'[c] = [call[c] EXCEPT !.pc = "enter"]
    BY <1>5 DEF Goto, IInv, Base, Types
  <2>2. Types'
    BY <1>1, <1>3, <1>5 DEF Goto, IInv, Base, Types, CallType
  <2>3. /\ call'[c].op = "create" /\ call'[c].pc = "enter" /\ call'[c].done = {f}
        /\ call'[c].op = call[c].op /\ call'[c].alone = call[c].alone /\ call'[c] # NoCall
    BY <1>1, <1>2, <2>1 DEF CallType, NoCall
  <2>4. InRole(call'[c])
    BY <2>3 DEF InRole
  <2>5. ASSUME Quiet, Settled PROVE Settled'
    <3>1. \A d \in Calls \ {c} : call'[d] = NoCall
      BY <1>1, <2>1, <2>5, OnlyCall DEF IInv
    <3>2. cached' = None /\ \A g \in OnDisk : Where(g) \in apart
      BY <1>4, <2>5
    <3>3. OnDisk' = OnDisk \cup {f}
      BY <1>5 DEF OnDisk, IInv, Base, Types
    <3>4. Noted' = {f}
      BY <2>2, <2>3, <3>1, <3>2, OnlyComingNext DEF Brought, Cached
    <3>5. Agreed'
      BY <1>5, <3>2, <3>3, <3>4 DEF Agreed
    <3>6. Holding(call[c])'
      BY <2>3, <3>2, <3>3 DEF Holding
    <3> QED BY <2>2, <2>3, <3>1, <3>5, <3>6, OnlyComingNext DEF Settled
  <2> QED BY <1>1, <1>3, <1>5, <2>1, <2>2, <2>3, <2>4, <2>5, CallKeeps
<1>6. CASE disk' = [disk EXCEPT ![f] = "none"] /\ End(c)
  <2>1. /\ \A d \in Calls \ {c} : call'[d] = call[d]
        /\ call'[c] = NoCall
        /\ apart' = IF call[c].alone THEN apart ELSE Locations
    BY <1>6 DEF End, IInv, Base, Types
  <2>2. Types'
    BY <1>3, <1>6 DEF End, IInv, Base, Types, CallType, NoCall
  <2>3. InRole(call'[c])
    BY <2>1 DEF InRole, NoCall
  <2>4. ASSUME Quiet, Settled PROVE Settled'
    <3>1. \A d \in Calls : call'[d] = NoCall
      BY <1>1, <2>1, <2>4, OnlyCall DEF IInv
    <3>2. cached' = None /\ apart' = apart /\ \A g \in OnDisk : Where(g) \in apart
      BY <1>4, <2>1, <2>4 DEF Quiet
    <3>3. OnDisk' \subseteq OnDisk
      BY <1>6 DEF OnDisk, IInv, Base, Types
    <3>4. Noted' = {} /\ \A d \in Calls : Holding(call[d])'
      BY <2>2, <3>1, <3>2, NothingComingNext DEF Cached
    <3> QED BY <3>2, <3>3, <3>4 DEF Settled, Agreed
  <2>5. apart \subseteq apart'
    BY <2>1 DEF IInv, Base, Types
  <2> QED BY <1>1, <1>3, <2>1, <2>2, <2>3, <2>4, <2>5, CallKeeps
<1> QED BY <1>2, <1>5, <1>6

LEMMA EnterStep ==
  ASSUME IInv, NEW c \in Calls, Enter(c)
  PROVE  IInv'
<1>1. /\ call[c].op = "create" /\ call[c].pc = "enter" /\ call[c] \in CallType
  BY DEF Enter, At, IInv, Base, Types
<1>2. /\ cached' = Fresh /\ UNCHANGED <<disk, reload, apart>>
      /\ \A d \in Calls \ {c} : call'[d] = call[d]
      /\ call'[c] = [call[c] EXCEPT !.pc = "copy", !.object = Fresh, !.done = {}]
  BY DEF Enter, IInv, Base, Types
<1>3. Fresh \in Objects /\ Fresh # None
  BY FreshIsFree, CacheAssumption DEF IInv, Base, CacheAssumption
<1>4. /\ known' \in [Objects -> SUBSET Files]
      /\ known'[Fresh] = call[c].done
  <2>1. [known EXCEPT ![Fresh] = call[c].done] \in [Objects -> SUBSET Files]
    BY <1>1, <1>3 DEF IInv, Base, Types, CallType
  <2>2. Know([known EXCEPT ![Fresh] = call[c].done])
    BY DEF Enter
  <2>3. [known EXCEPT ![Fresh] = call[c].done][Fresh] = call[c].done
    BY <1>3 DEF IInv, Base, Types
  <2> HIDE DEF Fresh
  <2> QED BY <1>2, <1>3, <2>1, <2>2, <2>3, Knowing
<1>5. Types'
  <2>1. call' \in [Calls -> CallType]
    BY <1>1, <1>3 DEF Enter, IInv, Base, Types, CallType
  <2> QED BY <1>2, <1>3, <1>4, <2>1 DEF IInv, Base, Types
<1>6. /\ call'[c].pc = "copy" /\ call'[c].done = {} /\ call'[c].op = "create"
      /\ call'[c].object = Fresh /\ call'[c].op = call[c].op /\ call'[c] # NoCall
  <2>1. /\ call'[c].pc = "copy" /\ call'[c].done = {} /\ call'[c].op = "create"
        /\ call'[c].object = Fresh
    BY <1>1, <1>2, Zenon DEF CallType
  <2> QED BY <1>1, <2>1 DEF NoCall
<1>7. call'[c].alone = call[c].alone
  BY <1>1, <1>2, Zenon DEF CallType
<1>8. InRole(call'[c])
  BY <1>3, <1>6 DEF InRole
<1>9. ASSUME Quiet, Settled PROVE Settled'
  <2>1. \A d \in Calls \ {c} : call'[d] = NoCall
    BY <1>1, <1>2, <1>9, OnlyCall DEF IInv
  <2>2. cached = None /\ call[c].done \subseteq OnDisk
    BY <1>1, <1>9 DEF Settled, Holding
  <2>3. Noted = call[c].done
    BY <1>1, <1>9, <2>2, OnlyComing DEF IInv, Brought, Cached
  <2>4. Noted' = call[c].done
    <3>1. Cached' = call[c].done
      BY <1>2, <1>3, <1>4 DEF Cached
    <3>2. Brought(call'[c]) = {}
      BY <1>6 DEF Brought
    <3> QED BY <1>5, <1>6, <2>1, <3>1, <3>2, OnlyComingNext
  <2>5. OnDisk' = OnDisk
    BY <1>2 DEF OnDisk
  <2>6. Holding(call[c])'
    <3>1. PICK f \in Files : call[c].done = {f}
      BY <1>1 DEF IInv, Base, Roles, InRole
    <3>2. known'[call'[c].object] = {f} /\ f \in OnDisk'
      BY <1>4, <1>6, <2>2, <2>5, <3>1
    <3> QED BY <1>6, <3>2 DEF Holding
  <2>7. Agreed'
    BY <1>2, <1>9, <2>3, <2>4, <2>5 DEF Settled, Agreed
  <2> QED BY <1>5, <1>6, <2>1, <2>6, <2>7, OnlyComingNext DEF Settled
<1> QED BY <1>1, <1>2, <1>5, <1>6, <1>7, <1>8, <1>9, CallKeeps

\* A copy that goes on, for one location less: what it may have made is noted by it.
LEMMA CopyGoesOn ==
  ASSUME IInv, NEW c \in Calls, call[c].pc = "copy",
         call[c].op \in {"create", "import"}, Types',
         \A d \in Calls \ {c} : call'[d] = call[d],
         call'[c].op = call[c].op, call'[c].alone = call[c].alone,
         call'[c].pc = "copy", call'[c].object = call[c].object,
         known'[call[c].object] = known[call[c].object], Cached' = Cached,
         UNCHANGED reload, apart \subseteq apart',
         (\E g \in OnDisk : known[call[c].object] = {g}) =>
           /\ OnDisk \subseteq OnDisk'
              \/ \E f \in OnDisk : /\ OnDisk' = OnDisk \ {f}
                                   /\ Where(f) \in apart' /\ known[call[c].object] # {f}
           /\ call[c].done \subseteq call'[c].done
           /\ OnDisk' \ OnDisk \subseteq call'[c].done
           /\ call'[c].done \subseteq call[c].done \cup OnDisk'
  PROVE  IInv'
<1> DEFINE o == call[c].object
<1>1. InRole(call'[c])
  BY DEF IInv, Base, Roles, InRole
<1>2. call'[c] # NoCall
  BY DEF NoCall
<1>3. ASSUME Quiet, Settled PROVE Settled'
  <2>1. \A d \in Calls \ {c} : call'[d] = NoCall
    BY <1>3, OnlyCall DEF IInv
  <2>2. PICK g \in OnDisk : known[o] = {g}
    BY <1>3 DEF Settled, Holding
  <2>3. /\ OnDisk \subseteq OnDisk'
           \/ \E f \in OnDisk : /\ OnDisk' = OnDisk \ {f}
                                /\ Where(f) \in apart' /\ known[o] # {f}
        /\ call[c].done \subseteq call'[c].done
        /\ OnDisk' \ OnDisk \subseteq call'[c].done
        /\ call'[c].done \subseteq call[c].done \cup OnDisk'
    BY <2>2
  <2>4. Noted = Cached \cup call[c].done
    BY <1>3, OnlyComing DEF IInv, Brought
  <2>5. Noted' = Cached \cup call'[c].done
    BY <2>1, OnlyComingNext DEF Brought
  <2>6. \A f \in Noted' : Where(f) \notin apart' => f \in OnDisk'
    BY <1>3, <2>3, <2>4, <2>5 DEF Settled, Agreed
  <2>7. \A f \in OnDisk' : Where(f) \notin apart' => \E h \in Noted' : Where(h) = Where(f)
    BY <1>3, <2>3, <2>4, <2>5 DEF Settled, Agreed
  <2>8. g \in OnDisk'
    BY <2>2, <2>3
  <2>9. Holding(call[c])'
    BY <2>2, <2>8 DEF Holding
  <2> QED BY <2>1, <2>6, <2>7, <2>9, OnlyComingNext DEF Settled, Agreed
<1> QED BY <1>1, <1>2, <1>3, CallKeeps

LEMMA CopyStep ==
  ASSUME IInv, NEW c \in Calls, Copy(c)
  PROVE  IInv'
<1> DEFINE o == call[c].object
<1>1. /\ call[c].pc = "copy" /\ call[c] \in CallType /\ o \in Objects
      /\ call[c].op \in {"create", "import"} /\ UNCHANGED <<cached, reload>>
  BY DEF Copy, IInv, Base, Types, CallType, Roles, InRole, NoCall
<1>2. PICK l \in call[c].todo :
        \/ \E from \in known[o] :
             LET to == <<l, Name(from)>> IN
               \/ /\ disk[from] # "none" /\ to # from
                  /\ disk' = [disk EXCEPT ![to] = disk[from]]
                  /\ call' = [call EXCEPT ![c].todo = @ \ {l}, ![c].done = @ \cup {to}]
                  /\ UNCHANGED apart
               \/ /\ to # from
                  /\ \E left \in {disk[to], "part"} : disk' = [disk EXCEPT ![to] = left]
                  /\ call' = [call EXCEPT ![c].todo = @ \ {l}]
                  /\ apart' = IF disk[to] = "tar" THEN apart \cup {l} ELSE apart
               \/ /\ call' = [call EXCEPT ![c].todo = @ \ {l}]
                  /\ UNCHANGED <<disk, apart>>
        \/ /\ known[o] = {}
           /\ End(c) /\ UNCHANGED disk
  BY Zenon DEF Copy, Copied
<1>3. l \in Locations
  BY <1>1 DEF CallType
<1>4. /\ known' \in [Objects -> SUBSET Files]
      /\ Cached' = Cached
      /\ call'[c].object = o => known'[o] = known[o]
  BY <1>1, Knowing DEF Copy, Cached, IInv, Base, Types
<1>5. ASSUME NEW from \in known[o], NEW to, to = <<l, Name(from)>>,
             disk[from] # "none", to # from,
             disk' = [disk EXCEPT ![to] = disk[from]],
             call' = [call EXCEPT ![c].todo = @ \ {l}, ![c].done = @ \cup {to}],
             UNCHANGED apart
      PROVE  IInv'
  <2>1. from \in Files /\ to \in Files
    BY <1>1, <1>3, <1>5, FilesAndPlaces DEF IInv, Base, Types
  <2>2. /\ \A d \in Calls \ {c} : call'[d] = call[d]
        /\ call'[c].op = call[c].op /\ call'[c].alone = call[c].alone
        /\ call'[c].pc = "copy" /\ call'[c].object = o
        /\ call'[c].done = call[c].done \cup {to}
        /\ call' \in [Calls -> CallType]
    BY <1>1, <1>3, <1>5, <2>1 DEF IInv, Base, Types, CallType
  <2>3. disk' \in [Files -> {"none", "part", "tar"}]
    BY <1>5, <2>1 DEF IInv, Base, Types
  <2>4. Types'
    BY <1>1, <1>4, <1>5, <2>2, <2>3 DEF IInv, Base, Types
  <2>5. ASSUME NEW g \in OnDisk, known[o] = {g} PROVE OnDisk' = OnDisk \cup {to}
    <3>1. disk[from] = "tar"
      BY <1>5, <2>5 DEF OnDisk
    <3> QED BY <1>5, <2>1, <3>1 DEF OnDisk, IInv, Base, Types
  <2> QED BY <1>1, <1>4, <1>5, <2>2, <2>4, <2>5, CopyGoesOn
<1>6. ASSUME NEW from \in known[o], NEW to, to = <<l, Name(from)>>, to # from,
             \E left \in {disk[to], "part"} : disk' = [disk EXCEPT ![to] = left],
             call' = [call EXCEPT ![c].todo = @ \ {l}],
             apart' = IF disk[to] = "tar" THEN apart \cup {l} ELSE apart
      PROVE  IInv'
  <2>1. from \in Files /\ to \in Files /\ Where(to) = l
    BY <1>1, <1>3, <1>6, FilesAndPlaces DEF IInv, Base, Types
  <2>2. /\ \A d \in Calls \ {c} : call'[d] = call[d]
        /\ call'[c].op = call[c].op /\ call'[c].alone = call[c].alone
        /\ call'[c].pc = "copy" /\ call'[c].object = o
        /\ call'[c].done = call[c].done
        /\ call' \in [Calls -> CallType]
    BY <1>1, <1>3, <1>6 DEF IInv, Base, Types, CallType
  <2>3. disk' \in [Files -> {"none", "part", "tar"}]
    BY <1>6, <2>1 DEF IInv, Base, Types
  <2>4. apart \subseteq apart' /\ apart' \subseteq Locations
    BY <1>3, <1>6 DEF IInv, Base, Types
  <2>5. Types'
    BY <1>1, <1>4, <2>2, <2>3, <2>4 DEF IInv, Base, Types
  <2>6. \/ OnDisk' = OnDisk
        \/ to \in OnDisk /\ OnDisk' = OnDisk \ {to} /\ l \in apart'
    BY <1>6, <2>1 DEF OnDisk, IInv, Base, Types
  <2>7. known[o] # {to}
    BY <1>6
  <2> QED BY <1>1, <1>4, <2>1, <2>2, <2>4, <2>5, <2>6, <2>7, CopyGoesOn
<1>7. CASE call' = [call EXCEPT ![c].todo = @ \ {l}] /\ UNCHANGED <<disk, apart>>
  <2>1. /\ \A d \in Calls \ {c} : call'[d] = call[d]
        /\ call'[c].op = call[c].op /\ call'[c].alone = call[c].alone
        /\ call'[c].pc = "copy" /\ call'[c].object = o
        /\ call'[c].done = call[c].done
        /\ call' \in [Calls -> CallType]
    BY <1>1, <1>3, <1>7 DEF IInv, Base, Types, CallType
  <2>2. Types'
    BY <1>1, <1>4, <1>7, <2>1 DEF IInv, Base, Types
  <2>3. OnDisk' = OnDisk
    BY <1>7 DEF OnDisk
  <2> QED BY <1>1, <1>4, <1>7, <2>1, <2>2, <2>3, CopyGoesOn
<1>8. CASE known[o] = {} /\ End(c) /\ UNCHANGED disk
  <2>1. /\ \A d \in Calls \ {c} : call'[d] = call[d]
        /\ call'[c] = NoCall
        /\ call' \in [Calls -> CallType]
        /\ apart' = IF call[c].alone THEN apart ELSE Locations
    BY <1>8 DEF End, IInv, Base, Types, CallType, NoCall
  <2>2. Types' /\ apart \subseteq apart'
    BY <1>1, <1>4, <1>8, <2>1 DEF IInv, Base, Types
  <2>3. InRole(call'[c])
    BY <2>1 DEF InRole, NoCall
  <2>4. ~(Quiet /\ Settled)
    BY <1>1, <1>8 DEF Settled, Holding
  <2> QED BY <1>1, <2>1, <2>2, <2>3, <2>4, CallKeeps
<1> QED BY <1>2, <1>5, <1>6, <1>7, <1>8

LEMMA CopyEndsStep ==
  ASSUME IInv, NEW c \in Calls, CopyEnds(c)
  PROVE  IInv'
<1> DEFINE o == call[c].object
           done == call[c].done
<1>1. /\ call[c].pc = "copy" /\ call[c] \in CallType /\ o \in Objects
      /\ call[c].op \in {"create", "import"} /\ done \subseteq Files
  BY DEF CopyEnds, IInv, Base, Types, CallType, Roles, InRole, NoCall
<1>2. /\ \A d \in Calls \ {c} : call'[d] = call[d]
      /\ call'[c] = NoCall
      /\ UNCHANGED <<disk, cached, reload>>
  BY DEF CopyEnds, IInv, Base, Types
<1>3. /\ ~call[c].alone => apart' = Locations
      /\ call[c].alone /\ o = cached => apart' = apart
      /\ call[c].alone /\ o # cached => apart' = apart \cup (Places(done) \ Places(Cached))
  <2> DEFINE lone == call[c].alone
             same == o = cached
             stray == apart \cup (Places(done) \ Places(Cached))
  <2>1. apart' = CASE ~lone         -> Locations
                   [] lone /\ same  -> apart
                   [] OTHER         -> stray
    BY DEF CopyEnds
  <2>2. lone \in BOOLEAN /\ same \in BOOLEAN
    BY <1>1 DEF CallType
  <2> HIDE DEF lone, same, stray
  <2>3. /\ ~lone => apart' = Locations
        /\ lone /\ same => apart' = apart
        /\ lone /\ ~same => apart' = stray
    BY <2>1, <2>2
  <2> QED BY <2>3 DEF lone, same, stray
<1>4. /\ known' \in [Objects -> SUBSET Files]
      /\ cached \in Objects => known'[cached] =
           IF o = cached THEN Noting(known[cached], done) ELSE known[cached]
  <2> DEFINE k == [known EXCEPT ![o] = Noting(@, done)]
  <2>1. Noting(known[o], done) \subseteq Files
    BY <1>1 DEF Noting, IInv, Base, Types
  <2>2. k \in [Objects -> SUBSET Files]
    BY <1>1, <2>1 DEF IInv, Base, Types
  <2>3. Know(k)
    BY DEF CopyEnds
  <2>4. cached \in Objects => k[cached] =
           IF o = cached THEN Noting(known[cached], done) ELSE known[cached]
    BY <1>1 DEF IInv, Base, Types
  <2> HIDE DEF k, o, done
  <2> QED BY <1>2, <2>2, <2>3, <2>4, Knowing
<1>5. Types' /\ apart \subseteq apart'
  <2>1. call' \in [Calls -> CallType]
    BY DEF CopyEnds, IInv, Base, Types, CallType, NoCall
  <2>2. call[c].alone \in BOOLEAN
    BY <1>1 DEF CallType
  <2>3. Places(done) \subseteq Locations
    BY <1>1, FilesAndPlaces DEF Places
  <2>4. apart' \subseteq Locations /\ apart \subseteq apart'
    BY <1>3, <2>2, <2>3 DEF IInv, Base, Types
  <2> QED BY <1>2, <1>4, <2>1, <2>4 DEF IInv, Base, Types
<1>6. InRole(call'[c])
  BY <1>2 DEF InRole, NoCall
<1>7. ASSUME Quiet, Settled PROVE Settled'
  <2>1. \A d \in Calls : call'[d] = NoCall
    BY <1>1, <1>2, <1>7, OnlyCall DEF IInv
  <2>2. Noted = Cached \cup done
    BY <1>1, <1>7, OnlyComing DEF IInv, Brought
  <2>3. Noted' = Cached' /\ \A d \in Calls : Holding(call[d])'
    BY <1>5, <2>1, NothingComingNext
  <2>4. OnDisk' = OnDisk
    BY <1>2 DEF OnDisk
  <2>5. call[c].alone
    BY <1>7 DEF Quiet
  <2>6. /\ Cached' \subseteq Cached \cup done
        /\ \A g \in Cached \cup done : Where(g) \notin apart' =>
             \E h \in Cached' : Where(h) = Where(g)
    <3>1. CASE o = cached
      <4>1. Cached' = {f \in Cached : Where(f) \notin Places(done)} \cup done
        BY <1>1, <1>2, <1>4, <3>1, CacheAssumption DEF Cached, Noting, CacheAssumption
      <4> QED BY <4>1 DEF Places
    <3>2. CASE o # cached
      <4>1. Cached' = Cached
        BY <1>2, <1>4, <3>2 DEF Cached, IInv, Base, Types
      <4> QED BY <1>3, <2>5, <3>2, <4>1 DEF Places
    <3> QED BY <3>1, <3>2
  <2>7. Agreed'
    BY <1>5, <1>7, <2>2, <2>3, <2>4, <2>6 DEF Settled, Agreed
  <2> QED BY <2>3, <2>7 DEF Settled
<1> QED BY <1>1, <1>2, <1>3, <1>5, <1>6, <1>7, CallKeeps

-----------------------------------------------------------------------------
(* Importing                                                               *)

LEMMA RenameStep ==
  ASSUME IInv, NEW c \in Calls, Rename(c)
  PROVE  IInv'
<1>1. /\ call[c].op = "import" /\ call[c].pc = "rename" /\ call[c] \in CallType
      /\ UNCHANGED <<known, cached, reload>>
      /\ \E f \in Files : call[c].done = {f}
  BY DEF Rename, At, IInv, Base, Types, Roles, InRole
<1>2. Cached' = Cached
  BY <1>1 DEF Cached
<1>3. ASSUME Quiet, Settled PROVE Noted = Cached
  BY <1>1, <1>3, OnlyComing DEF IInv, Brought
<1>4. CASE /\ disk' = [f \in Files |-> IF f \in call[c].done THEN "tar" ELSE disk[f]]
           /\ Goto(c, "load") /\ UNCHANGED apart
  <2>1. /\ \A d \in Calls \ {c} : call'[d] = call[d]
        /\ call'[c] = [call[c] EXCEPT !.pc = "load"]
    BY <1>4 DEF Goto, IInv, Base, Types
  <2>2. Types'
    BY <1>1, <1>4 DEF Goto, IInv, Base, Types, CallType
  <2>3. /\ call'[c].op = "import" /\ call'[c].pc = "load" /\ call'[c].done = call[c].done
        /\ call'[c].op = call[c].op /\ call'[c].alone = call[c].alone /\ call'[c] # NoCall
    BY <1>1, <2>1 DEF CallType, NoCall
  <2>4. InRole(call'[c])
    BY <1>1, <2>3 DEF InRole
  <2>5. ASSUME Quiet, Settled PROVE Settled'
    <3>1. \A d \in Calls \ {c} : call'[d] = NoCall
      BY <1>1, <2>1, <2>5, OnlyCall DEF IInv
    <3>2. Noted = Cached /\ Noted' = Cached \cup call[c].done
      BY <1>2, <1>3, <2>2, <2>3, <2>5, <3>1, OnlyComingNext DEF Brought
    <3>3. OnDisk' = OnDisk \cup call[c].done
      BY <1>1, <1>4 DEF OnDisk
    <3>4. Agreed'
      BY <1>4, <2>5, <3>2, <3>3 DEF Settled, Agreed
    <3>5. Holding(call[c])'
      BY <1>2, <1>4, <2>3, <2>5, <3>2, <3>3 DEF Settled, Agreed, Holding
    <3> QED BY <2>2, <2>3, <3>1, <3>4, <3>5, OnlyComingNext DEF Settled
  <2> QED BY <1>1, <1>4, <2>1, <2>2, <2>3, <2>4, <2>5, CallKeeps
<1>5. CASE End(c) /\ UNCHANGED disk
  <2>1. /\ \A d \in Calls \ {c} : call'[d] = call[d]
        /\ call'[c] = NoCall
        /\ apart' = IF call[c].alone THEN apart ELSE Locations
    BY <1>5 DEF End, IInv, Base, Types
  <2>2. Types'
    BY <1>1, <1>5 DEF End, IInv, Base, Types, CallType, NoCall
  <2>3. InRole(call'[c])
    BY <2>1 DEF InRole, NoCall
  <2>4. ASSUME Quiet, Settled PROVE Settled'
    <3>1. \A d \in Calls : call'[d] = NoCall
      BY <1>1, <2>1, <2>4, OnlyCall DEF IInv
    <3>2. Noted' = Noted /\ \A d \in Calls : Holding(call[d])'
      BY <1>2, <1>3, <2>2, <2>4, <3>1, NothingComingNext
    <3>3. OnDisk' = OnDisk /\ apart' = apart
      BY <1>5, <2>1, <2>4 DEF OnDisk, Quiet
    <3> QED BY <2>4, <3>2, <3>3 DEF Settled, Agreed
  <2>5. apart \subseteq apart'
    BY <2>1 DEF IInv, Base, Types
  <2> QED BY <1>1, <2>1, <2>2, <2>3, <2>4, <2>5, CallKeeps
<1> QED BY <1>4, <1>5 DEF Rename

LEMMA RegisterStep ==
  ASSUME IInv, NEW c \in Calls, Register(c)
  PROVE  IInv'
<1> DEFINE done == call[c].done
<1>1. /\ call[c].op = "import" /\ call[c].pc = "load" /\ call[c] \in CallType
      /\ done \subseteq OnDisk /\ done \subseteq Files
  BY DEF Register, At, IInv, Base, Types, CallType
<1>2. /\ UNCHANGED <<disk, reload, apart>>
      /\ \A d \in Calls \ {c} : call'[d] = call[d]
      /\ call'[c] = [call[c] EXCEPT !.pc = "copy", !.object = Fresh, !.done = {}]
  BY DEF Register, IInv, Base, Types
<1>3. Fresh \in Objects /\ Fresh # None /\ Fresh # cached
  BY FreshIsFree, CacheAssumption DEF IInv, Base, CacheAssumption
<1>4. \/ cached' = cached /\ cached # None
      \/ cached' = Fresh /\ (cached = None \/ known[cached] = done)
  BY DEF Register
<1>5. /\ call'[c].pc = "copy" /\ call'[c].done = {} /\ call'[c].op = "import"
      /\ call'[c].object = Fresh /\ call'[c].op = call[c].op /\ call'[c] # NoCall
  <2>1. /\ call'[c].pc = "copy" /\ call'[c].done = {} /\ call'[c].op = "import"
        /\ call'[c].object = Fresh
    BY <1>1, <1>2, Zenon DEF CallType
  <2> QED BY <1>1, <2>1 DEF NoCall
<1>6. call'[c].alone = call[c].alone
  BY <1>1, <1>2, Zenon DEF CallType
<1>7. /\ known' \in [Objects -> SUBSET Files]
      /\ cached' = cached /\ cached # None => known'[cached'] = Noting(known[cached], done)
      /\ cached' = Fresh => known'[cached'] = done
      /\ known'[Fresh] = done
  <2> DEFINE k == [o \in Objects |-> CASE o = Fresh  -> done
                                       [] o = cached -> Noting(known[o], done)
                                       [] OTHER      -> known[o]]
  <2>1. Know(k)
    BY DEF Register
  <2>2. \A o \in Objects : (CASE o = Fresh  -> done
                              [] o = cached -> Noting(known[o], done)
                              [] OTHER      -> known[o]) =
          IF o = Fresh THEN done
          ELSE IF o = cached THEN Noting(known[o], done) ELSE known[o]
    <3> HIDE DEF Fresh, done
    <3> QED BY <1>3
  <2>3. \A o \in Objects : k[o] =
          IF o = Fresh THEN done
          ELSE IF o = cached THEN Noting(known[o], done) ELSE known[o]
    BY <2>2
  <2>4. k \in [Objects -> SUBSET Files]
    <3>1. \A o \in Objects : Noting(known[o], done) \subseteq Files
      BY <1>1 DEF Noting, IInv, Base, Types
    <3>2. \A o \in Objects : k[o] \in SUBSET Files
      <4> HIDE DEF k, Fresh, done
      <4> QED BY <1>1, <2>3, <3>1 DEF IInv, Base, Types
    <3> QED BY <3>2
  <2> HIDE DEF k, Fresh, done
  <2>5. cached # None => cached \in Objects
    BY DEF IInv, Base, Types
  <2>6. /\ known' \in [Objects -> SUBSET Files]
        /\ cached' \in Objects => known'[cached'] = k[cached']
        /\ known'[Fresh] = k[Fresh]
    BY <1>3, <1>5, <2>1, <2>4, Knowing
  <2> QED BY <1>3, <2>3, <2>5, <2>6
<1>8. Types'
  <2>1. call' \in [Calls -> CallType]
    BY <1>1, <1>3 DEF Register, IInv, Base, Types, CallType
  <2>2. cached' \in Objects \cup {None}
    BY <1>3, <1>4 DEF IInv, Base, Types
  <2> QED BY <1>2, <1>7, <2>1, <2>2 DEF IInv, Base, Types
<1>9. InRole(call'[c])
  BY <1>3, <1>5 DEF InRole
<1>10. ASSUME Quiet, Settled PROVE Settled'
  <2>1. \A d \in Calls \ {c} : call'[d] = NoCall
    BY <1>1, <1>2, <1>10, OnlyCall DEF IInv
  <2>2. Noted = Cached \cup done
    BY <1>1, <1>10, OnlyComing DEF IInv, Brought
  <2>3. Cached' = {f \in Cached : Where(f) \notin Places(done)} \cup done
    <3>1. CASE cached' = cached /\ cached # None
      BY <1>7, <3>1 DEF Cached, Noting
    <3>2. CASE cached' = Fresh /\ (cached = None \/ known[cached] = done)
      <4>1. Cached' = done
        <5> HIDE DEF Fresh, done
        <5> QED BY <1>3, <1>7, <3>2 DEF Cached
      <4>2. Cached \subseteq done
        BY <3>2 DEF Cached
      <4> QED BY <4>1, <4>2 DEF Places
    <3> QED BY <1>4, <3>1, <3>2
  <2>4. Noted' = Cached'
    <3>1. Brought(call'[c]) = {}
      BY <1>5 DEF Brought
    <3> QED BY <1>5, <1>8, <2>1, <3>1, OnlyComingNext
  <2>5. OnDisk' = OnDisk
    BY <1>2 DEF OnDisk
  <2>6. Holding(call[c])'
    <3>1. PICK f \in Files : done = {f}
      BY <1>1 DEF IInv, Base, Roles, InRole
    <3>2. known'[call'[c].object] = {f} /\ f \in OnDisk'
      BY <1>1, <1>5, <1>7, <2>5, <3>1
    <3> QED BY <1>5, <3>2 DEF Holding
  <2>7. /\ Noted' \subseteq Noted
        /\ \A g \in Noted : \E h \in Noted' : Where(h) = Where(g)
    BY <2>2, <2>3, <2>4 DEF Places
  <2>8. Agreed'
    BY <1>2, <1>10, <2>5, <2>7 DEF Settled, Agreed
  <2> QED BY <1>5, <1>8, <2>1, <2>6, <2>8, OnlyComingNext DEF Settled
<1> QED BY <1>1, <1>2, <1>5, <1>6, <1>8, <1>9, <1>10, CallKeeps

LEMMA DiscardStep ==
  ASSUME IInv, NEW c \in Calls, Discard(c)
  PROVE  IInv'
<1> DEFINE done == call[c].done
<1>1. /\ call[c].op = "import" /\ call[c].pc = "load" /\ call[c] \in CallType
      /\ UNCHANGED <<known, cached, reload>> /\ done \subseteq Files
  BY DEF Discard, At, IInv, Base, Types, CallType
<1>2. /\ \A d \in Calls \ {c} : call'[d] = call[d]
      /\ call'[c] = NoCall
      /\ call' \in [Calls -> CallType]
      /\ disk' = [f \in Files |-> IF f \in done THEN "none" ELSE disk[f]]
      /\ apart' = IF call[c].alone THEN apart \cup Places(done \cap Cached) ELSE Locations
  BY DEF Discard, IInv, Base, Types, CallType, NoCall
<1>3. Places(done \cap Cached) \subseteq Locations
  BY <1>1, FilesAndPlaces DEF Places
<1>4. Types' /\ apart \subseteq apart'
  BY <1>1, <1>2, <1>3 DEF IInv, Base, Types
<1>5. InRole(call'[c])
  BY <1>2 DEF InRole, NoCall
<1>6. ASSUME Quiet, Settled PROVE Settled'
  <2>1. \A d \in Calls : call'[d] = NoCall
    BY <1>1, <1>2, <1>6, OnlyCall DEF IInv
  <2>2. Noted = Cached \cup done
    BY <1>1, <1>6, OnlyComing DEF IInv, Brought
  <2>3. OnDisk' = OnDisk \ done
    BY <1>2 DEF OnDisk
  <2>4. Noted' = Cached /\ \A d \in Calls : Holding(call[d])'
    BY <1>1, <1>4, <2>1, NothingComingNext DEF Cached
  <2>5. apart' = apart \cup Places(done \cap Cached)
    BY <1>2, <1>6 DEF Quiet
  <2>6. \A f \in OnDisk \ done : Where(f) \notin apart => \E g \in Cached : Where(g) = Where(f)
    BY <1>1, <1>6 DEF Settled, Holding
  <2>7. Agreed'
    BY <1>6, <2>2, <2>3, <2>4, <2>5, <2>6 DEF Settled, Agreed, Places
  <2> QED BY <2>4, <2>7 DEF Settled
<1> QED BY <1>1, <1>2, <1>4, <1>5, <1>6, CallKeeps

-----------------------------------------------------------------------------
(* Removing                                                                *)

\* An undisturbed remove has only removes beside it.
LEMMA OnlyRemoves ==
  ASSUME Base, Quiet, NEW c \in Calls, call[c].op = "remove"
  PROVE  \A d \in Calls : call[d].pc \in {"none", "unlink", "forget"}
<1>1. \A d \in Calls : call[d].op \in {"none", "remove"}
  BY DEF Base, Together, Quiet
<1> QED BY <1>1 DEF Base, Roles, InRole, NoCall

\* What other removes hold, they still hold if the cache keeps its object or has
\* none that knows anything.
LEMMA OthersHold ==
  ASSUME Types, Roles, NEW c \in Calls, call' \in [Calls -> CallType],
         \A d \in Calls \ {c} : call'[d] = call[d],
         \A d \in Calls \ {c} : call[d].pc \in {"none", "unlink", "forget"},
         \A d \in Calls : Holding(call[d]),
         \A o \in Objects : known'[o] \subseteq known[o],
         \/ cached' = cached
         \/ cached' = None /\ (cached \in Objects => known'[cached] = {})
  PROVE  \A d \in Calls \ {c} : Holding(call[d])'
<1>1. SUFFICES ASSUME NEW d \in Calls \ {c} PROVE Holding(call[d])'
  OBVIOUS
<1>2. call'[d] = call[d] /\ call[d].pc \in {"none", "unlink", "forget"} /\ Holding(call[d])
  OBVIOUS
<1>3. call[d].op = "remove" => call[d].object \in Objects
  BY DEF Types, CallType, Roles, InRole
<1>4. call[d].op = "remove" =>
        call[d].object = cached' \/ (cached' = None /\ known'[call[d].object] = {})
  BY <1>2, <1>3 DEF Holding
<1> QED BY <1>2, <1>4 DEF Holding

\* Among removes nothing is coming: what is noted is what is not leaving.
LEMMA OnlyLeaving ==
  ASSUME Types, \A d \in Calls : call[d].pc \in {"none", "unlink", "forget"}
  PROVE  Noted = {f \in Cached : ~Leaving(Where(f))}
<1>1. \A d \in Calls : Brought(call[d]) = {}
  BY DEF Brought
<1> QED BY <1>1, CachedFiles DEF Noted

LEMMA OnlyLeavingNext ==
  ASSUME Types', \A d \in Calls : call'[d].pc \in {"none", "unlink", "forget"}
  PROVE  Noted' = {f \in Cached' : ~Leaving(Where(f))'}
<1>1. \A d \in Calls : Brought(call'[d]) = {}
  BY DEF Brought
<1>2. Cached' \subseteq Files
  BY DEF Types, Cached
<1> QED BY <1>1, <1>2 DEF Noted

LEMMA UnlinkStep ==
  ASSUME IInv, NEW c \in Calls, Unlink(c)
  PROVE  IInv'
<1> DEFINE o == call[c].object
<1>1. /\ call[c].op = "remove" /\ call[c].pc = "unlink" /\ call[c] \in CallType
      /\ o \in Objects /\ UNCHANGED cached
  BY DEF Unlink, At, IInv, Base, Types, CallType, Roles, InRole
<1>2. \/ \E f \in known[o] : RemoveFile(c, f)
      \/ \E f \in known[o] : MissingFile(c, f) /\ UNCHANGED disk
      \/ End(c) /\ UNCHANGED <<disk, reload>>
  BY DEF Unlink
<1>3. /\ known' \in [Objects -> SUBSET Files]
      /\ \A x \in Objects : known'[x] \subseteq known[x]
      /\ cached \in Objects => known'[cached] = known[cached]
  <2>1. Know(known)
    BY DEF Unlink
  <2> QED BY <1>1, <2>1, Knowing DEF IInv, Base, Types
<1>4. Cached' = Cached
  BY <1>1, <1>3 DEF Cached, IInv, Base, Types
<1>5. ASSUME Quiet
      PROVE  /\ \A d \in Calls : call[d].pc \in {"none", "unlink", "forget"}
             /\ Noted = {f \in Cached : ~Leaving(Where(f))}
  BY <1>1, <1>5, OnlyRemoves, OnlyLeaving DEF IInv, Base
<1>6. ASSUME NEW f \in known[o], RemoveFile(c, f) PROVE IInv'
  <2>1. f \in Files /\ Where(f) \in Locations
    BY <1>1, FilesAndPlaces DEF IInv, Base, Types
  <2>2. /\ \A d \in Calls \ {c} : call'[d] = call[d]
        /\ call' \in [Calls -> CallType]
        /\ call'[c].op = "remove" /\ call'[c].pc = "forget" /\ call'[c].done = {f}
        /\ call'[c].object = o /\ call'[c].alone = call[c].alone
    BY <1>1, <1>6, <2>1 DEF RemoveFile, IInv, Base, Types, CallType
  <2>3. /\ UNCHANGED reload
        /\ apart' = IF Where(f) \in Places(OnDisk \ {f}) THEN apart \cup {Where(f)} ELSE apart
    BY <1>6 DEF RemoveFile
  <2>4. disk' \in [Files -> {"none", "part", "tar"}] /\ OnDisk' = OnDisk \ {f}
    BY <1>6, <2>1 DEF RemoveFile, OnDisk, IInv, Base, Types
  <2>5. Types' /\ apart \subseteq apart'
    BY <1>1, <1>3, <2>1, <2>2, <2>3, <2>4 DEF IInv, Base, Types
  <2>6. InRole(call'[c])
    BY <1>1, <2>2, CacheAssumption DEF InRole, CacheAssumption
  <2>7. ASSUME Quiet, Settled PROVE Settled'
    <3>1. o = cached
      BY <1>1, <2>7 DEF Settled, Holding
    <3>2. \A d \in Calls : call'[d].pc \in {"none", "unlink", "forget"}
      BY <1>5, <2>2, <2>7
    <3>3. \A l : Leaving(l)' <=> Leaving(l) \/ l = Where(f)
      BY <1>1, <2>2 DEF Leaving, Places
    <3>4. Noted' = {g \in Noted : Where(g) # Where(f)}
      BY <1>4, <1>5, <2>5, <2>7, <3>2, <3>3, OnlyLeavingNext
    <3>5. \A g \in OnDisk' : Where(g) \notin apart' => Where(g) # Where(f)
      BY <2>3, <2>4 DEF Places
    <3>6. Agreed'
      BY <2>4, <2>5, <2>7, <3>4, <3>5 DEF Settled, Agreed
    <3>7. \A d \in Calls \ {c} : Holding(call[d])'
      BY <1>1, <1>3, <1>5, <2>2, <2>7, OthersHold DEF Settled, IInv, Base
    <3>8. Holding(call[c])'
      BY <1>1, <2>2, <3>1 DEF Holding
    <3> QED BY <3>6, <3>7, <3>8 DEF Settled
  <2>8. call'[c] # NoCall
    BY <2>2 DEF NoCall
  <2> QED BY <1>1, <2>2, <2>3, <2>5, <2>6, <2>7, <2>8, CallKeeps
<1>7. CASE End(c) /\ UNCHANGED <<disk, reload>>
  <2>1. /\ \A d \in Calls \ {c} : call'[d] = call[d]
        /\ call'[c] = NoCall
        /\ call' \in [Calls -> CallType]
        /\ apart' = IF call[c].alone THEN apart ELSE Locations
    BY <1>7 DEF End, IInv, Base, Types, CallType, NoCall
  <2>2. Types' /\ apart \subseteq apart'
    BY <1>1, <1>3, <1>7, <2>1 DEF IInv, Base, Types
  <2>3. InRole(call'[c])
    BY <2>1 DEF InRole, NoCall
  <2>4. ASSUME Quiet, Settled PROVE Settled'
    <3>1. call'[c].pc = "none" /\ call'[c].op = "none"
      BY <2>1 DEF NoCall
    <3>2. \A d \in Calls : call'[d].pc \in {"none", "unlink", "forget"}
      BY <1>5, <2>1, <2>4, <3>1
    <3>3. \A l : Leaving(l)' <=> Leaving(l)
      BY <1>1, <2>1, <3>1 DEF Leaving
    <3>4. Noted' = Noted
      BY <1>4, <1>5, <2>2, <2>4, <3>2, <3>3, OnlyLeavingNext
    <3>5. OnDisk' = OnDisk /\ apart' = apart
      BY <1>7, <2>1, <2>4 DEF OnDisk, Quiet
    <3>6. Agreed'
      BY <2>4, <3>4, <3>5 DEF Settled, Agreed
    <3>7. \A d \in Calls \ {c} : Holding(call[d])'
      BY <1>1, <1>3, <1>5, <2>1, <2>4, OthersHold DEF Settled, IInv, Base
    <3>8. Holding(call[c])'
      BY <3>1 DEF Holding
    <3> QED BY <3>6, <3>7, <3>8 DEF Settled
  <2> QED BY <1>1, <1>7, <2>1, <2>2, <2>3, <2>4, CallKeeps
<1>8. ASSUME NEW f \in known[o], MissingFile(c, f), UNCHANGED disk PROVE IInv'
  <2>1. /\ \A d \in Calls \ {c} : call'[d] = call[d]
        /\ call'[c] = NoCall
        /\ call' \in [Calls -> CallType]
        /\ apart' = IF call[c].alone THEN apart ELSE Locations
    BY <1>8 DEF MissingFile, End, IInv, Base, Types, CallType, NoCall
  <2>2. Where(f) \in Locations
    BY <1>1, FilesAndPlaces DEF IInv, Base, Types
  <2>3. PICK r \in Reloads :
          /\ reload[r] = NoReload
          /\ reload' = [reload EXCEPT ![r] = [NoReload EXCEPT !.pc = "list",
                          !.of = {Where(f)}, !.alone = \A d \in Calls : call[d] = NoCall]]
    BY <1>8, Begun DEF MissingFile
  <2>4. ~(\A d \in Calls : call[d] = NoCall)
    BY <1>1 DEF NoCall
  <2>5. /\ \A x \in Reloads \ {r} : reload'[x] = reload[x]
        /\ reload'[r] \in ReloadType
        /\ reload'[r].pc = "list" /\ reload'[r].alone = FALSE
    BY <2>2, <2>3, <2>4 DEF IInv, Base, Types, ReloadType, NoReload
  <2>6. reload' \in [Reloads -> ReloadType]
    BY <2>3, <2>5 DEF IInv, Base, Types
  <2>7. Types'
    BY <1>1, <1>3, <1>8, <2>1, <2>6 DEF IInv, Base, Types
  <2>8. Roles'
    BY <2>1 DEF IInv, Base, Roles, InRole, NoCall
  <2>9. Reading'
    <3>1. \A x \in Reloads : reload[x] # NoReload => ~reload[x].alone
      BY <2>4 DEF IInv, Base, Reading, SeesDisk
    <3>2. \A x \in Reloads \ {r} : SeesDisk(reload[x])'
      BY <2>5, <3>1 DEF IInv, Base, Reading, SeesDisk
    <3>3. SeesDisk(reload[r])'
      BY <2>5 DEF SeesDisk
    <3> QED BY <3>2, <3>3 DEF Reading
  <2>10. Together'
    BY <2>1 DEF IInv, Base, Together, NoCall
  <2>11. ~Quiet'
    BY <2>3, <2>5 DEF Quiet
  <2> QED BY <2>7, <2>8, <2>9, <2>10, <2>11 DEF IInv, Base, Settling
<1> QED BY <1>2, <1>6, <1>7, <1>8

LEMMA ForgetStep ==
  ASSUME IInv, NEW c \in Calls, Forget(c)
  PROVE  IInv'
<1> DEFINE o == call[c].object
           gone == Places(call[c].done)
           left == {f \in known[o] : Where(f) \notin gone}
           todo == call[c].todo \ gone
<1>1. /\ call[c].op = "remove" /\ call[c].pc = "forget" /\ call[c] \in CallType
      /\ o \in Objects /\ o # None /\ UNCHANGED <<disk, reload>>
      /\ known[o] \subseteq Files /\ call[c].todo \subseteq Locations
  BY CacheAssumption
     DEF CacheAssumption, Forget, At, IInv, Base, Types, CallType, Roles, InRole
<1>2. \/ /\ call' = [call EXCEPT ![c].pc = "unlink", ![c].todo = todo, ![c].done = {}]
         /\ UNCHANGED <<cached, apart>>
      \/ /\ cached' = IF left = {} THEN None ELSE cached
         /\ End(c)
  BY DEF Forget
<1>3. /\ known' \in [Objects -> SUBSET Files]
      /\ \A x \in Objects : known'[x] = {} \/ known'[x] = IF x = o THEN left ELSE known[x]
      /\ cached' \in Objects => known'[cached'] = IF cached' = o THEN left ELSE known[cached']
  <2> DEFINE k == [known EXCEPT ![o] = left]
  <2>1. Know(k)
    BY DEF Forget
  <2>2. k \in [Objects -> SUBSET Files]
    BY <1>1 DEF IInv, Base, Types
  <2>3. \A x \in Objects : k[x] = IF x = o THEN left ELSE known[x]
    BY DEF IInv, Base, Types
  <2> HIDE DEF k, left, o
  <2> QED BY <2>1, <2>2, <2>3, Knowing
<1>4. \A x \in Objects : known'[x] \subseteq known[x]
  BY <1>3
<1>5. ASSUME Quiet
      PROVE  /\ \A d \in Calls : call[d].pc \in {"none", "unlink", "forget"}
             /\ Noted = {f \in Cached : ~Leaving(Where(f))}
  BY <1>1, <1>5, OnlyRemoves, OnlyLeaving DEF IInv, Base
<1>6. CASE /\ call' = [call EXCEPT ![c].pc = "unlink", ![c].todo = todo, ![c].done = {}]
           /\ UNCHANGED <<cached, apart>>
  <2>1. /\ \A d \in Calls \ {c} : call'[d] = call[d]
        /\ call' \in [Calls -> CallType]
        /\ call'[c].op = "remove" /\ call'[c].pc = "unlink" /\ call'[c].done = {}
        /\ call'[c].object = o /\ call'[c].alone = call[c].alone
    BY <1>1, <1>6 DEF IInv, Base, Types, CallType
  <2>2. Types'
    BY <1>1, <1>3, <1>6, <2>1 DEF IInv, Base, Types
  <2>3. InRole(call'[c])
    BY <1>1, <2>1 DEF InRole
  <2>4. ASSUME Quiet, Settled PROVE Settled'
    <3>1. o = cached \/ (cached = None /\ known[o] = {})
      BY <1>1, <2>4 DEF Settled, Holding
    <3>2. \A d \in Calls : call'[d].pc \in {"none", "unlink", "forget"}
      BY <1>5, <2>1, <2>4
    <3>3. \A l : Leaving(l) <=> Leaving(l)' \/ l \in gone
      BY <1>1, <2>1 DEF Leaving
    <3>4. Cached' = {f \in Cached : Where(f) \notin gone}
      <4> HIDE DEF gone
      <4> QED BY <1>1, <1>3, <1>6, <3>1 DEF Cached
    <3>5. Noted' = Noted
      <4> HIDE DEF gone
      <4> QED BY <1>5, <2>2, <2>4, <3>2, <3>3, <3>4, OnlyLeavingNext
    <3>6. OnDisk' = OnDisk
      BY <1>1 DEF OnDisk
    <3>7. Agreed'
      BY <1>6, <2>4, <3>5, <3>6 DEF Settled, Agreed
    <3>8. \A d \in Calls \ {c} : Holding(call[d])'
      BY <1>1, <1>4, <1>5, <1>6, <2>1, <2>4, OthersHold DEF Settled, IInv, Base
    <3>9. Holding(call[c])'
      BY <1>1, <1>4, <1>6, <2>1, <3>1 DEF Holding
    <3> QED BY <3>7, <3>8, <3>9 DEF Settled
  <2>5. call'[c] # NoCall
    BY <2>1 DEF NoCall
  <2> QED BY <1>1, <1>6, <2>1, <2>2, <2>3, <2>4, <2>5, CallKeeps
<1>7. CASE cached' = (IF left = {} THEN None ELSE cached) /\ End(c)
  <2>1. /\ \A d \in Calls \ {c} : call'[d] = call[d]
        /\ call'[c] = NoCall
        /\ call' \in [Calls -> CallType]
        /\ apart' = IF call[c].alone THEN apart ELSE Locations
    BY <1>7 DEF End, IInv, Base, Types, CallType, NoCall
  <2>2. Types' /\ apart \subseteq apart'
    BY <1>1, <1>3, <1>7, <2>1 DEF IInv, Base, Types
  <2>3. InRole(call'[c])
    BY <2>1 DEF InRole, NoCall
  <2>4. ASSUME Quiet, Settled PROVE Settled'
    <3>1. o = cached \/ (cached = None /\ known[o] = {})
      BY <1>1, <2>4 DEF Settled, Holding
    <3>2. call'[c].pc = "none" /\ call'[c].op = "none"
      BY <2>1 DEF NoCall
    <3>3. \A d \in Calls : call'[d].pc \in {"none", "unlink", "forget"}
      BY <1>5, <2>1, <2>4, <3>2
    <3>4. \A l : Leaving(l) <=> Leaving(l)' \/ l \in gone
      BY <1>1, <2>1, <3>2 DEF Leaving
    <3>5. Cached' = {f \in Cached : Where(f) \notin gone}
      <4> HIDE DEF gone
      <4> QED BY <1>1, <1>3, <1>7, <3>1 DEF Cached
    <3>6. Noted' = Noted
      <4> HIDE DEF gone
      <4> QED BY <1>5, <2>2, <2>4, <3>3, <3>4, <3>5, OnlyLeavingNext
    <3>7. OnDisk' = OnDisk /\ apart' = apart
      BY <1>1, <2>1, <2>4 DEF OnDisk, Quiet
    <3>8. Agreed'
      BY <2>4, <3>6, <3>7 DEF Settled, Agreed
    <3>9. cached' = cached \/ (cached' = None /\ (cached \in Objects => known'[cached] = {}))
      BY <1>1, <1>3, <1>7, <3>1, CacheAssumption DEF CacheAssumption
    <3>10. \A d \in Calls \ {c} : Holding(call[d])'
      BY <1>1, <1>4, <1>5, <2>1, <2>4, <3>9, OthersHold DEF Settled, IInv, Base
    <3>11. Holding(call[c])'
      BY <3>2 DEF Holding
    <3> QED BY <3>8, <3>10, <3>11 DEF Settled
  <2> QED BY <1>1, <2>1, <2>2, <2>3, <2>4, CallKeeps
<1> QED BY <1>2, <1>6, <1>7

\* The backup whose file name was taken.
LEMMA AnotherFailsStep ==
  ASSUME IInv, NEW c \in Calls, AnotherFails(c)
  PROVE  IInv'
<1>1. /\ call[c].op = "another" /\ UNCHANGED <<known, cached, reload>>
      /\ \A d \in Calls \ {c} : call'[d] = call[d]
      /\ call'[c] = NoCall
      /\ call' \in [Calls -> CallType]
      /\ disk' = [f \in Files |-> IF f \in call[c].done THEN "none" ELSE disk[f]]
      /\ apart' = Locations
  BY DEF AnotherFails, At, IInv, Base, Types, CallType, NoCall
<1>2. Types' /\ apart \subseteq apart'
  BY <1>1 DEF IInv, Base, Types
<1>3. InRole(call'[c])
  BY <1>1 DEF InRole, NoCall
<1> QED BY <1>1, <1>2, <1>3, CallKeeps

-----------------------------------------------------------------------------
(* Calls that begin                                                        *)

\* The fields of a call that begins, and who is disturbed by it.
LEMMA Beginning ==
  ASSUME IInv, NEW c \in Calls, NEW op \in {"create", "import", "remove", "another"},
         NEW rest \in CallType, Begin(c, op, rest)
  PROVE  /\ call[c] = NoCall
         /\ \E b \in BOOLEAN : call'[c] = [rest EXCEPT !.op = op, !.alone = b]
         /\ call' \in [Calls -> CallType] /\ reload' \in [Reloads -> ReloadType]
         /\ \A d \in Calls \ {c} :
              \/ call'[d] = call[d] /\ ~Disturbed(op, d)
              \/ call'[d] = [call[d] EXCEPT !.alone = FALSE] /\ Disturbed(op, d)
         /\ \A r \in Reloads :
              \/ reload[r] = NoReload /\ reload'[r] = NoReload
              \/ reload[r] # NoReload /\ reload'[r] = [reload[r] EXCEPT !.alone = FALSE]
         /\ call'[c].alone =>
              /\ \A d \in Calls : ~Disturbed(op, d)
              /\ \A r \in Reloads : reload[r] = NoReload
<1> DEFINE others == {d \in Calls : Disturbed(op, d)}
           busy == {r \in Reloads : reload[r] # NoReload}
           lone == others \cup busy = {}
<1>1. /\ call[c] = NoCall
      /\ call' = [d \in Calls |->
           CASE d = c -> [rest EXCEPT !.op = op, !.alone = lone]
             [] d \in others -> [call[d] EXCEPT !.alone = FALSE]
             [] OTHER -> call[d]]
      /\ reload' = [r \in Reloads |->
           IF r \in busy THEN [reload[r] EXCEPT !.alone = FALSE] ELSE reload[r]]
  BY Zenon DEF Begin
<1>2. c \notin others
  <2>1. call[c] = NoCall
    BY Zenon DEF Begin
  <2>2. NoCall.op = "none"
    BY DEF NoCall
  <2> QED BY <2>1, <2>2 DEF Disturbed
<1>3. lone \in BOOLEAN
  OBVIOUS
<1>4. call'[c] = [rest EXCEPT !.op = op, !.alone = lone]
  <2> HIDE DEF others, lone
  <2> QED BY <1>1, <1>2
<1>5. \A d \in Calls \ {c} :
        call'[d] = IF d \in others THEN [call[d] EXCEPT !.alone = FALSE] ELSE call[d]
  <2> HIDE DEF others, lone
  <2> QED BY <1>1
<1>6. \A r \in Reloads :
        reload'[r] = IF r \in busy THEN [reload[r] EXCEPT !.alone = FALSE] ELSE reload[r]
  <2> HIDE DEF busy
  <2> QED BY <1>1
<1>7. call' \in [Calls -> CallType]
  <2>1. \A d \in Calls : call'[d] \in CallType
    <3>1. call'[c] \in CallType
      <4> HIDE DEF lone
      <4> QED BY <1>3, <1>4 DEF CallType
    <3>2. \A d \in Calls \ {c} : call'[d] \in CallType
      <4>1. TAKE d \in Calls \ {c}
      <4>2. call[d] \in CallType
        BY DEF IInv, Base, Types
      <4>3. [call[d] EXCEPT !.alone = FALSE] \in CallType
        BY <4>2 DEF CallType
      <4> HIDE DEF others
      <4> QED BY <1>5, <4>2, <4>3
    <3> QED BY <3>1, <3>2
  <2>2. call' = [d \in Calls |-> call'[d]]
    <3> HIDE DEF others, lone
    <3> QED BY <1>1
  <2> QED BY <2>1, <2>2
<1>8. reload' \in [Reloads -> ReloadType]
  <2>1. \A r \in Reloads : reload'[r] \in ReloadType
    <3>1. TAKE r \in Reloads
    <3>2. reload[r] \in ReloadType
      BY DEF IInv, Base, Types
    <3>3. [reload[r] EXCEPT !.alone = FALSE] \in ReloadType
      BY <3>2 DEF ReloadType
    <3> HIDE DEF busy
    <3> QED BY <1>6, <3>2, <3>3
  <2>2. reload' = [r \in Reloads |-> reload'[r]]
    BY <1>1
  <2> QED BY <2>1, <2>2
<1>9. call'[c].alone = lone
  <2> HIDE DEF lone
  <2> QED BY <1>3, <1>4 DEF CallType
<1>10. \A r \in Reloads :
         \/ reload[r] = NoReload /\ reload'[r] = NoReload
         \/ reload[r] # NoReload /\ reload'[r] = [reload[r] EXCEPT !.alone = FALSE]
  BY <1>6
<1>11. \A d \in Calls \ {c} :
         \/ call'[d] = call[d] /\ ~Disturbed(op, d)
         \/ call'[d] = [call[d] EXCEPT !.alone = FALSE] /\ Disturbed(op, d)
  BY <1>5
<1>12. lone => /\ \A d \in Calls : ~Disturbed(op, d)
               /\ \A r \in Reloads : reload[r] = NoReload
  OBVIOUS
<1> HIDE DEF lone
<1> QED BY <1>1, <1>3, <1>4, <1>7, <1>8, <1>9, <1>10, <1>11, <1>12

LEMMA BeginStep ==
  ASSUME IInv, NEW c \in Calls, NEW op \in {"create", "import", "remove", "another"},
         NEW rest \in CallType, Begin(c, op, rest),
         rest.pc \in {"write", "rename", "unlink", "exists"},
         \A b \in BOOLEAN : InRole([rest EXCEPT !.op = op, !.alone = b]),
         rest.pc = "write" => cached = None,
         op = "remove" => rest.object = cached,
         disk' \in [Files -> {"none", "part", "tar"}], OnDisk' = OnDisk,
         UNCHANGED <<known, cached, apart>>
  PROVE  IInv'
<1>1. /\ call[c] = NoCall
      /\ \E b \in BOOLEAN : call'[c] = [rest EXCEPT !.op = op, !.alone = b]
      /\ call' \in [Calls -> CallType] /\ reload' \in [Reloads -> ReloadType]
      /\ \A d \in Calls \ {c} :
           \/ call'[d] = call[d] /\ ~Disturbed(op, d)
           \/ call'[d] = [call[d] EXCEPT !.alone = FALSE] /\ Disturbed(op, d)
      /\ \A r \in Reloads :
           \/ reload[r] = NoReload /\ reload'[r] = NoReload
           \/ reload[r] # NoReload /\ reload'[r] = [reload[r] EXCEPT !.alone = FALSE]
      /\ call'[c].alone =>
           /\ \A d \in Calls : ~Disturbed(op, d)
           /\ \A r \in Reloads : reload[r] = NoReload
  BY Beginning
<1>2. /\ call'[c].op = op /\ call'[c].pc = rest.pc
      /\ call'[c].object = rest.object
  BY <1>1 DEF CallType
<1>3. \A d \in Calls \ {c} :
        /\ call'[d].op = call[d].op /\ call'[d].pc = call[d].pc
        /\ call'[d].object = call[d].object /\ call'[d].done = call[d].done
        /\ call'[d].alone => call[d].alone /\ call'[d] = call[d]
        /\ InRole(call[d]) => InRole(call'[d])
  <2>1. TAKE d \in Calls \ {c}
  <2>2. call[d] \in CallType
    BY DEF IInv, Base, Types
  <2>3. CASE call'[d] = call[d]
    <3>1. call'[d].alone => call[d].alone
      BY <2>3
    <3> QED BY <2>3, <3>1
  <2>4. CASE call'[d] = [call[d] EXCEPT !.alone = FALSE] /\ Disturbed(op, d)
    <3>1. /\ call'[d].op = call[d].op /\ call'[d].pc = call[d].pc
          /\ call'[d].object = call[d].object /\ call'[d].done = call[d].done
      BY <2>2, <2>4 DEF CallType
    <3>2. ~call'[d].alone
      BY <2>2, <2>4 DEF CallType
    <3>3. call[d].op # "none"
      BY <2>4 DEF Disturbed
    <3>4. InRole(call[d]) => InRole(call'[d])
      BY <3>1, <3>3 DEF InRole
    <3> QED BY <3>1, <3>2, <3>4
  <2> QED BY <1>1, <2>3, <2>4
<1>4. Types'
  BY <1>1 DEF IInv, Base, Types
<1>5. Roles'
  <2>1. PICK b \in BOOLEAN : call'[c] = [rest EXCEPT !.op = op, !.alone = b]
    BY <1>1
  <2>2. InRole([rest EXCEPT !.op = op, !.alone = b])
    OBVIOUS
  <2>3. InRole(call'[c])
    BY <2>1, <2>2, Zenon
  <2> QED BY <1>3, <2>3 DEF IInv, Base, Roles
<1>6. Reading'
  <2>1. SUFFICES ASSUME NEW r \in Reloads PROVE SeesDisk(reload[r])'
    BY DEF Reading
  <2>2. CASE reload'[r] = NoReload
    BY <2>2 DEF SeesDisk
  <2>3. CASE reload[r] # NoReload /\ reload'[r] = [reload[r] EXCEPT !.alone = FALSE]
    <3>1. reload[r].pc # "none" /\ reload[r] \in ReloadType
      BY <2>3 DEF IInv, Base, Types, Reading, SeesDisk
    <3>2. reload'[r].pc # "none" /\ reload'[r].alone = FALSE
      BY <2>3, <3>1 DEF ReloadType
    <3> QED BY <3>2 DEF SeesDisk
  <2> QED BY <1>1, <2>2, <2>3
<1>7. Together'
  <2>1. ASSUME NEW d \in Calls \ {c}, call'[c].alone, call'[d].op # "none"
        PROVE  call'[c].op = "remove" /\ call'[d].op = "remove"
    BY <1>1, <1>2, <1>3, <2>1 DEF Disturbed
  <2>2. ASSUME NEW d \in Calls \ {c}, NEW e \in Calls \ {c}, d # e,
               call'[d].alone, call'[e].alone, call'[d].op # "none", call'[e].op # "none"
        PROVE  call'[d].op = "remove" /\ call'[e].op = "remove"
    BY <1>3, <2>2 DEF IInv, Base, Together
  <2>3. SUFFICES ASSUME NEW d \in Calls, NEW e \in Calls, d # e,
                        call'[d].alone, call'[e].alone,
                        call'[d].op # "none", call'[e].op # "none"
                 PROVE  call'[d].op = "remove" /\ call'[e].op = "remove"
    BY Zenon DEF Together
  <2>4. CASE d = c
    BY <2>1, <2>3, <2>4
  <2>5. CASE e = c
    BY <2>1, <2>3, <2>5
  <2>6. CASE d # c /\ e # c
    BY <2>2, <2>3, <2>6
  <2> QED BY <2>4, <2>5, <2>6
<1>8. ASSUME Quiet' PROVE Quiet
  <2>1. \A d \in Calls \ {c} : call[d].alone
    BY <1>3, <1>8 DEF Quiet
  <2>2. call[c].alone
    <3>1. call[c] = NoCall
      BY <1>1
    <3>2. NoCall.alone
      BY DEF NoCall
    <3> QED BY <3>1, <3>2
  <2>3. \A r \in Reloads : reload[r] = NoReload
    BY <1>1, <1>8 DEF Quiet
  <2>4. \A r \in Reloads : reload[r].alone
    <3>1. NoReload.alone
      BY DEF NoReload
    <3> QED BY <2>3, <3>1
  <2> QED BY <2>1, <2>2, <2>4 DEF Quiet
<1>9. Cached' = Cached /\ Noted' = Noted
  <2>1. call[c] = NoCall
    BY <1>1
  <2>2. NoCall.pc = "none"
    BY DEF NoCall
  <2>3. \A l : Leaving(l)' <=> Leaving(l)
    BY <1>2, <1>3, <2>1, <2>2 DEF Leaving
  <2>4. \A d \in Calls : Brought(call'[d]) = Brought(call[d])
    BY <1>2, <1>3, <2>1, <2>2 DEF Brought
  <2>5. Cached' = Cached
    BY DEF Cached
  <2> QED BY <2>3, <2>4, <2>5 DEF Noted
<1>10. ASSUME Settled PROVE Settled'
  <2>1. Agreed'
    BY <1>9, <1>10 DEF Settled, Agreed
  <2>2. ASSUME NEW d \in Calls \ {c} PROVE Holding(call[d])'
    <3>1. /\ call'[d].op = call[d].op /\ call'[d].pc = call[d].pc
          /\ call'[d].object = call[d].object /\ call'[d].done = call[d].done
      BY <1>3
    <3>2. Holding(call[d])
      BY <1>10 DEF Settled
    <3> QED BY <1>9, <3>1, <3>2 DEF Holding
  <2>3. Holding(call[c])'
    BY <1>2 DEF Holding
  <2> QED BY <2>1, <2>2, <2>3 DEF Settled
<1> QED BY <1>4, <1>5, <1>6, <1>7, <1>8, <1>10 DEF IInv, Base, Settling

LEMMA CreateStep ==
  ASSUME IInv, NEW c \in Calls, Create(c)
  PROVE  IInv'
<1>1. PICK f \in Files, more \in SUBSET Locations :
        /\ OnDisk = {} /\ cached = None /\ disk[f] = "none"
        /\ Begin(c, "create", [NoCall EXCEPT !.pc = "write", !.todo = more, !.done = {f}])
        /\ disk' = [disk EXCEPT ![f] = "part"]
        /\ UNCHANGED <<known, cached, apart>>
  BY DEF Create
<1> DEFINE rest == [NoCall EXCEPT !.pc = "write", !.todo = more, !.done = {f}]
<1>2. rest \in CallType /\ rest.pc = "write" /\ rest.done = {f}
  BY DEF CallType, NoCall
<1>3. \A b \in BOOLEAN : InRole([rest EXCEPT !.op = "create", !.alone = b])
  BY DEF InRole, NoCall
<1>4. disk' \in [Files -> {"none", "part", "tar"}]
  BY <1>1 DEF IInv, Base, Types
<1>5. OnDisk' = OnDisk
  BY <1>1 DEF OnDisk, IInv, Base, Types
<1> HIDE DEF rest
<1>6. Begin(c, "create", rest)
  BY <1>1 DEF rest
<1> QED BY <1>1, <1>2, <1>3, <1>4, <1>5, <1>6, BeginStep

LEMMA ImportStep ==
  ASSUME IInv, NEW c \in Calls, Import(c)
  PROVE  IInv'
<1>1. PICK f \in Files, more \in SUBSET Locations :
        /\ Begin(c, "import", [NoCall EXCEPT !.pc = "rename", !.todo = more, !.done = {f}])
        /\ UNCHANGED <<files, apart>>
  BY DEF Import
<1> DEFINE rest == [NoCall EXCEPT !.pc = "rename", !.todo = more, !.done = {f}]
<1>2. rest \in CallType /\ rest.pc = "rename" /\ rest.done = {f}
  BY DEF CallType, NoCall
<1>3. \A b \in BOOLEAN : InRole([rest EXCEPT !.op = "import", !.alone = b])
  BY DEF InRole, NoCall
<1> HIDE DEF rest
<1>4. Begin(c, "import", rest)
  BY <1>1 DEF rest
<1>5. OnDisk' = OnDisk /\ disk' \in [Files -> {"none", "part", "tar"}]
      /\ UNCHANGED <<known, cached, apart>>
  BY <1>1 DEF files, OnDisk, IInv, Base, Types
<1> QED BY <1>2, <1>3, <1>4, <1>5, BeginStep

LEMMA RemoveStep ==
  ASSUME IInv, NEW c \in Calls, Remove(c)
  PROVE  IInv'
<1>1. PICK targets \in (SUBSET Places(Cached)) \ {{}} :
        /\ Begin(c, "remove", [NoCall EXCEPT !.pc = "unlink", !.object = cached,
                                !.todo = targets])
        /\ UNCHANGED <<files, apart>>
  BY DEF Remove
<1> DEFINE rest == [NoCall EXCEPT !.pc = "unlink", !.object = cached, !.todo = targets]
<1>2. cached # None /\ cached \in Objects /\ targets \subseteq Locations
  <2>1. targets # {} /\ targets \subseteq Places(Cached)
    OBVIOUS
  <2>2. Cached # {}
    BY <2>1 DEF Places
  <2>3. cached # None
    BY <2>2 DEF Cached
  <2>4. cached \in Objects
    BY <2>3 DEF IInv, Base, Types
  <2>5. Places(Cached) \subseteq Locations
    BY CachedFiles, FilesAndPlaces DEF Places, IInv, Base
  <2> QED BY <2>1, <2>3, <2>4, <2>5
<1>3. rest \in CallType /\ rest.pc = "unlink" /\ rest.object = cached
  BY <1>2 DEF CallType, NoCall
<1>4. \A b \in BOOLEAN : InRole([rest EXCEPT !.op = "remove", !.alone = b])
  BY <1>2 DEF InRole, NoCall
<1> HIDE DEF rest
<1>5. Begin(c, "remove", rest)
  BY <1>1 DEF rest
<1>6. OnDisk' = OnDisk /\ disk' \in [Files -> {"none", "part", "tar"}]
      /\ UNCHANGED <<known, cached, apart>>
  BY <1>1 DEF files, OnDisk, IInv, Base, Types
<1> QED BY <1>3, <1>4, <1>5, <1>6, BeginStep

LEMMA AnotherStep ==
  ASSUME IInv, NEW c \in Calls, Another(c)
  PROVE  IInv'
<1>1. PICK f \in OnDisk :
        Begin(c, "another", [NoCall EXCEPT !.pc = "exists", !.done = {f}])
  BY DEF Another
<1> DEFINE rest == [NoCall EXCEPT !.pc = "exists", !.done = {f}]
<1>2. rest \in CallType /\ rest.pc = "exists"
  BY DEF CallType, NoCall, OnDisk
<1>3. \A b \in BOOLEAN : InRole([rest EXCEPT !.op = "another", !.alone = b])
  BY DEF InRole, NoCall
<1> HIDE DEF rest
<1>4. Begin(c, "another", rest)
  BY <1>1 DEF rest
<1>5. OnDisk' = OnDisk /\ disk' \in [Files -> {"none", "part", "tar"}]
      /\ UNCHANGED <<known, cached, apart>>
  BY DEF Another, files, OnDisk, IInv, Base, Types
<1> QED BY <1>2, <1>3, <1>4, <1>5, BeginStep

-----------------------------------------------------------------------------
(* Reloads                                                                 *)

\* A reload begins and leaves all else alone.
LEMMA ReloadBegins ==
  ASSUME IInv, NEW of \in SUBSET Locations, BeginReload(of),
         UNCHANGED <<files, call, apart>>
  PROVE  IInv'
<1>1. PICK r \in Reloads :
        /\ reload[r] = NoReload
        /\ reload' = [reload EXCEPT ![r] = [NoReload EXCEPT !.pc = "list", !.of = of,
                        !.alone = \A c \in Calls : call[c] = NoCall]]
  BY Begun
<1> DEFINE lone == \A c \in Calls : call[c] = NoCall
<1>2. /\ \A x \in Reloads \ {r} : reload'[x] = reload[x]
      /\ reload'[r] = [NoReload EXCEPT !.pc = "list", !.of = of, !.alone = lone]
  BY <1>1 DEF IInv, Base, Types
<1>3. lone \in BOOLEAN
  OBVIOUS
<1>4. /\ reload'[r] \in ReloadType /\ reload'[r].pc = "list"
      /\ reload'[r].alone => lone
  <2> HIDE DEF lone
  <2> QED BY <1>2, <1>3 DEF ReloadType, NoReload
<1>5. reload' \in [Reloads -> ReloadType]
  BY <1>1, <1>2, <1>4 DEF IInv, Base, Types
<1>6. /\ OnDisk' = OnDisk /\ Cached' = Cached /\ Noted' = Noted
      /\ UNCHANGED <<disk, known, cached, call, apart>>
  BY DEF files, OnDisk, Cached, Noted, Leaving
<1>7. Types' /\ Roles' /\ Together'
  BY <1>5, <1>6 DEF IInv, Base, Types, Roles, Together
<1>8. Reading'
  <2>1. \A x \in Reloads \ {r} : SeesDisk(reload[x])'
    BY <1>2, <1>6 DEF IInv, Base, Reading, SeesDisk
  <2>2. SeesDisk(reload[r])'
    BY <1>4, <1>6 DEF SeesDisk
  <2> QED BY <2>1, <2>2 DEF Reading
<1>9. Quiet' => Quiet
  <2>1. NoReload.alone
    BY DEF NoReload
  <2> QED BY <1>1, <1>2, <1>6, <2>1 DEF Quiet
<1>10. Settled => Settled'
  BY <1>6 DEF Settled, Agreed, Holding
<1> QED BY <1>6, <1>7, <1>8, <1>9, <1>10 DEF IInv, Base, Settling

\* A reload that goes on reading leaves all else alone.
LEMMA ReloadReads ==
  ASSUME IInv, NEW r \in Reloads, UNCHANGED <<files, call, apart>>,
         reload' \in [Reloads -> ReloadType],
         \A x \in Reloads \ {r} : reload'[x] = reload[x],
         reload'[r].alone => reload[r].alone,
         SeesDisk(reload[r])'
  PROVE  IInv'
<1>1. /\ OnDisk' = OnDisk /\ Cached' = Cached /\ Noted' = Noted
      /\ UNCHANGED <<disk, known, cached, call, apart>>
  BY DEF files, OnDisk, Cached, Noted, Leaving
<1>2. Types' /\ Roles' /\ Together'
  BY <1>1 DEF IInv, Base, Types, Roles, Together
<1>3. Reading'
  <2>1. \A x \in Reloads \ {r} : SeesDisk(reload[x])'
    BY <1>1 DEF IInv, Base, Reading, SeesDisk
  <2> QED BY <2>1 DEF Reading
<1>4. Quiet' => Quiet
  BY <1>1 DEF Quiet
<1>5. Settled => Settled'
  BY <1>1 DEF Settled, Agreed, Holding
<1> QED BY <1>1, <1>2, <1>3, <1>4, <1>5 DEF IInv, Base, Settling

LEMMA ListStep ==
  ASSUME IInv, NEW r \in Reloads, List(r)
  PROVE  IInv'
<1>1. PICK lost \in SUBSET reload[r].of :
        reload' = [reload EXCEPT ![r].pc = "load",
                      ![r].listed = {f \in (reload[r].of \ lost) \X Names : disk[f] # "none"},
                      ![r].alone = @ /\ lost = {}]
  BY DEF List
<1> DEFINE lone == reload[r].alone /\ lost = {}
           seen == {f \in (reload[r].of \ lost) \X Names : disk[f] # "none"}
<1>2. reload[r] \in ReloadType /\ reload[r].pc = "list"
  BY DEF List, IInv, Base, Types
<1>3. /\ lone \in BOOLEAN /\ seen \subseteq Files
      /\ lost = {} => seen = {f \in Files : Where(f) \in reload[r].of /\ disk[f] # "none"}
  <2>1. reload[r].of \ lost \in SUBSET Locations
    BY <1>2 DEF ReloadType
  <2>2. (reload[r].of \ lost) \X Names = {f \in Files : Where(f) \in reload[r].of \ lost}
    BY <2>1, FilesAndPlaces
  <2> QED BY <2>2
<1>4. /\ \A x \in Reloads \ {r} : reload'[x] = reload[x]
      /\ reload'[r] = [reload[r] EXCEPT !.pc = "load", !.listed = seen, !.alone = lone]
  BY <1>1 DEF IInv, Base, Types
<1>5. /\ reload'[r] \in ReloadType /\ reload'[r].pc = "load" /\ reload'[r].of = reload[r].of
      /\ reload'[r].listed = seen /\ reload'[r].alone = lone
  <2> HIDE DEF lone, seen
  <2> QED BY <1>2, <1>3, <1>4 DEF ReloadType
<1>6. reload' \in [Reloads -> ReloadType]
  BY <1>1, <1>4, <1>5 DEF IInv, Base, Types
<1>7. reload'[r].alone => reload[r].alone /\ lost = {}
  BY <1>5
<1>8. SeesDisk(reload[r])'
  <2>1. UNCHANGED <<disk, call>>
    BY DEF List, files
  <2>2. reload[r] # NoReload
    BY <1>2 DEF NoReload
  <2>3. ASSUME reload'[r].alone
        PROVE  /\ \A c \in Calls : call[c] = NoCall
               /\ reload'[r].listed =
                    {f \in Files : Where(f) \in reload'[r].of /\ disk[f] # "none"}
    <3>1. \A c \in Calls : call[c] = NoCall
      BY <1>7, <2>2, <2>3 DEF IInv, Base, Reading, SeesDisk
    <3> HIDE DEF seen, lone
    <3> QED BY <1>3, <1>5, <1>7, <2>3, <3>1
  <2> QED BY <1>5, <2>1, <2>3 DEF SeesDisk
<1>9. UNCHANGED <<files, call, apart>>
  BY DEF List
<1> QED BY <1>4, <1>6, <1>7, <1>8, <1>9, ReloadReads

LEMMA LoadStep ==
  ASSUME IInv, NEW r \in Reloads, Load(r)
  PROVE  IInv'
<1> DEFINE seen == reload[r].listed \cap OnDisk
<1>1. reload[r] \in ReloadType /\ reload[r].pc = "load"
      /\ reload' = [reload EXCEPT ![r].pc = "loaded", ![r].listed = {}, ![r].loaded = seen]
      /\ UNCHANGED <<files, call, apart>>
  BY DEF Load, IInv, Base, Types
<1>2. seen \subseteq Files
  BY DEF OnDisk
<1>3. /\ \A x \in Reloads \ {r} : reload'[x] = reload[x]
      /\ reload'[r] = [reload[r] EXCEPT !.pc = "loaded", !.listed = {}, !.loaded = seen]
  BY <1>1 DEF IInv, Base, Types
<1>4. /\ reload'[r] \in ReloadType /\ reload'[r].pc = "loaded" /\ reload'[r].of = reload[r].of
      /\ reload'[r].loaded = seen /\ reload'[r].alone = reload[r].alone
  <2>1. reload[r] \in ReloadType
    BY <1>1
  <2>2. reload'[r] = [reload[r] EXCEPT !.pc = "loaded", !.listed = {}, !.loaded = seen]
    BY <1>3
  <2> HIDE DEF seen
  <2>3. reload'[r].pc = "loaded" /\ reload'[r].of = reload[r].of /\ reload'[r].loaded = seen
    BY <2>1, <2>2 DEF ReloadType
  <2>4. reload'[r].alone = reload[r].alone
    BY <2>1, <2>2 DEF ReloadType
  <2>5. reload'[r] \in ReloadType
    BY <1>2, <2>1, <2>2 DEF ReloadType
  <2> QED BY <2>3, <2>4, <2>5
<1>5. reload' \in [Reloads -> ReloadType]
  BY <1>1, <1>3, <1>4 DEF IInv, Base, Types
<1>6. SeesDisk(reload[r])'
  <2>1. UNCHANGED <<disk, call>> /\ OnDisk' = OnDisk
    BY <1>1 DEF files, OnDisk
  <2>2. reload[r] # NoReload
    BY <1>1 DEF NoReload
  <2>3. ASSUME reload[r].alone
        PROVE  /\ \A c \in Calls : call[c] = NoCall
               /\ seen = {f \in OnDisk : Where(f) \in reload[r].of}
    <3>1. /\ \A c \in Calls : call[c] = NoCall
          /\ reload[r].listed = {f \in Files : Where(f) \in reload[r].of /\ disk[f] # "none"}
      BY <1>1, <2>2, <2>3 DEF IInv, Base, Reading, SeesDisk
    <3> QED BY <3>1 DEF OnDisk
  <2> HIDE DEF seen
  <2> QED BY <1>4, <2>1, <2>3 DEF SeesDisk
<1> QED BY <1>1, <1>3, <1>4, <1>5, <1>6, ReloadReads

\* What one file for each location means.
LEMMA Each ==
  ASSUME NEW some, NEW fs \in OneEach(some)
  PROVE  fs \subseteq some /\ \A g \in some : \E f \in fs : Where(f) = Where(g)
BY DEF OneEach, Places

\* A reload is over: what is left to show.
LEMMA ReloadEnds ==
  ASSUME IInv, NEW r \in Reloads, Reloaded(r), UNCHANGED <<disk, call>>,
         known' \in [Objects -> SUBSET Files], cached' \in Objects \cup {None},
         apart' \subseteq Locations,
         ~reload[r].alone => apart' = Locations,
         (\A c \in Calls : call[c] = NoCall) /\ reload[r].alone
           /\ reload[r].loaded = {f \in OnDisk : Where(f) \in reload[r].of}
           /\ (apart = Locations \/ Settled)
         => /\ \A f \in Cached' : Where(f) \notin apart' => f \in OnDisk
            /\ \A f \in OnDisk : Where(f) \notin apart' => \E g \in Cached' : Where(g) = Where(f)
  PROVE  IInv'
<1>1. /\ \A x \in Reloads \ {r} : reload'[x] = reload[x]
      /\ reload'[r] = NoReload
      /\ reload' \in [Reloads -> ReloadType]
      /\ reload[r].pc = "loaded"
  BY DEF Reloaded, IInv, Base, Types, NoReload, ReloadType
<1>2. OnDisk' = OnDisk
  BY DEF OnDisk
<1>3. Types' /\ Roles' /\ Together'
  BY <1>1 DEF IInv, Base, Types, Roles, Together
<1>4. Reading'
  <2>1. \A x \in Reloads \ {r} : SeesDisk(reload[x])'
    BY <1>1, <1>2 DEF IInv, Base, Reading, SeesDisk
  <2>2. SeesDisk(reload[r])'
    BY <1>1 DEF SeesDisk
  <2> QED BY <2>1, <2>2 DEF Reading
<1>5. ASSUME Quiet', reload[r].alone PROVE Settled'
  <2>1. Quiet
    BY <1>1, <1>5 DEF Quiet
  <2>2. reload[r] # NoReload
    BY <1>1 DEF NoReload
  <2>3. /\ \A c \in Calls : call[c] = NoCall
        /\ reload[r].loaded = {f \in OnDisk : Where(f) \in reload[r].of}
    BY <1>1, <1>5, <2>2 DEF IInv, Base, Reading, SeesDisk
  <2>4. /\ \A f \in Cached' : Where(f) \notin apart' => f \in OnDisk
        /\ \A f \in OnDisk : Where(f) \notin apart' => \E g \in Cached' : Where(g) = Where(f)
    BY <1>5, <2>1, <2>3 DEF IInv, Settling
  <2>5. Noted' = Cached' /\ \A c \in Calls : Holding(call[c])'
    BY <1>3, <2>3, NothingComingNext
  <2> QED BY <1>2, <2>4, <2>5 DEF Settled, Agreed
<1> QED BY <1>3, <1>4, <1>5 DEF IInv, Base, Settling

LEMMA ReplaceStep ==
  ASSUME IInv, NEW r \in Reloads, Replace(r)
  PROVE  IInv'
<1> DEFINE seen == reload[r].loaded
<1>1. PICK fs \in OneEach(seen) : Know([known EXCEPT ![Renewed] = fs])
  BY DEF Replace
<1> DEFINE k == [known EXCEPT ![Renewed] = fs]
<1>2. /\ Reloaded(r) /\ reload[r].of = Locations
      /\ cached' = IF seen = {} THEN None ELSE Renewed
      /\ apart' = IF reload[r].alone THEN {} ELSE Locations
      /\ UNCHANGED <<disk, call>>
  BY DEF Replace
<1>3. Renewed \in Objects /\ Renewed # None
  BY FreshIsFree, CacheAssumption DEF Renewed, IInv, Base, Types, CacheAssumption
<1>4. seen \subseteq Files /\ fs \subseteq seen
      /\ \A g \in seen : \E f \in fs : Where(f) = Where(g)
  BY Each DEF IInv, Base, Types, ReloadType
<1>5. k \in [Objects -> SUBSET Files] /\ k[Renewed] = fs
  BY <1>3, <1>4 DEF IInv, Base, Types
<1>6. known' \in [Objects -> SUBSET Files] /\ Cached' = fs
  <2> HIDE DEF k, seen
  <2> QED BY <1>1, <1>2, <1>3, <1>4, <1>5, Knowing DEF Cached, k
<1>7. cached' \in Objects \cup {None} /\ apart' \subseteq Locations
  BY <1>2, <1>3
<1>8. seen = {f \in OnDisk : Where(f) \in reload[r].of} => seen = OnDisk
  BY <1>2, CachedFiles, FilesAndPlaces DEF IInv, Base
<1> QED BY <1>2, <1>4, <1>6, <1>7, <1>8, ReloadEnds

LEMMA MergeStep ==
  ASSUME IInv, NEW r \in Reloads, Merge(r)
  PROVE  IInv'
<1> DEFINE of == reload[r].of
<1>1. PICK fs \in OneEach(reload[r].loaded) :
        LET left == {f \in Cached : Where(f) \notin of} \cup fs IN
          /\ cached' = IF cached = None \/ left = {} THEN None ELSE cached
          /\ UNCHANGED call
          /\ Know([o \in Objects |-> IF o = cached /\ left # {} THEN left ELSE known[o]])
  BY DEF Merge
<1> DEFINE left == {f \in Cached : Where(f) \notin of} \cup fs
           k == [o \in Objects |-> IF o = cached /\ left # {} THEN left ELSE known[o]]
<1>2. /\ Reloaded(r)
      /\ cached' = IF cached = None \/ left = {} THEN None ELSE cached
      /\ UNCHANGED <<disk, call>>
      /\ Know(k)
  BY <1>1 DEF Merge
<1>3. /\ ~reload[r].alone => apart' = Locations
      /\ reload[r].alone /\ cached = None => apart' = apart
      /\ reload[r].alone /\ cached # None => apart' = apart \ of
  <2> DEFINE lone == reload[r].alone
             empty == cached = None
  <2>1. apart' = CASE ~lone          -> Locations
                   [] lone /\ empty  -> apart
                   [] OTHER          -> apart \ of
    BY DEF Merge
  <2>2. lone \in BOOLEAN /\ empty \in BOOLEAN
    BY DEF IInv, Base, Types, ReloadType
  <2> HIDE DEF lone, empty, of
  <2>3. /\ ~lone => apart' = Locations
        /\ lone /\ empty => apart' = apart
        /\ lone /\ ~empty => apart' = apart \ of
    BY <2>1, <2>2
  <2> QED BY <2>3 DEF lone, empty
<1>4. /\ fs \subseteq reload[r].loaded /\ reload[r].loaded \subseteq Files
      /\ \A g \in reload[r].loaded : \E f \in fs : Where(f) = Where(g)
  BY Each DEF IInv, Base, Types, ReloadType
<1>5. left \subseteq Files
  BY <1>4, CachedFiles DEF IInv, Base
<1>6. k \in [Objects -> SUBSET Files]
  BY <1>5 DEF IInv, Base, Types
<1>7. cached \in Objects /\ left # {} => k[cached] = left
  OBVIOUS
<1>8. known' \in [Objects -> SUBSET Files]
      /\ Cached' = IF cached = None THEN {} ELSE left
  <2> HIDE DEF k, left
  <2> QED BY <1>2, <1>6, <1>7, Knowing DEF Cached, IInv, Base, Types
<1>9. cached' \in Objects \cup {None} /\ apart' \subseteq Locations
  <2>1. cached' \in Objects \cup {None}
    <3> HIDE DEF left
    <3> QED BY <1>2 DEF IInv, Base, Types
  <2>2. reload[r].alone \in BOOLEAN
    BY DEF IInv, Base, Types, ReloadType
  <2>3. apart' \subseteq Locations
    BY <1>3, <2>2 DEF IInv, Base, Types
  <2> QED BY <2>1, <2>3
<1>10. ASSUME \A c \in Calls : call[c] = NoCall, reload[r].alone,
              reload[r].loaded = {f \in OnDisk : Where(f) \in of},
              apart = Locations \/ Settled
       PROVE  /\ \A f \in Cached' : Where(f) \notin apart' => f \in OnDisk
              /\ \A f \in OnDisk : Where(f) \notin apart' =>
                   \E g \in Cached' : Where(g) = Where(f)
  <2>1. /\ \A f \in Cached : Where(f) \notin apart => f \in OnDisk
        /\ \A f \in OnDisk : Where(f) \notin apart => \E g \in Cached : Where(g) = Where(f)
    <3>1. \A f \in Cached \cup OnDisk : Where(f) \in Locations
      BY CachedFiles, FilesAndPlaces DEF IInv, Base
    <3>2. Noted = Cached
      BY <1>10, NothingComing DEF IInv, Base
    <3> QED BY <1>10, <3>1, <3>2 DEF Settled, Agreed
  <2>2. CASE cached = None
    BY <1>3, <1>8, <1>10, <2>1, <2>2 DEF Cached
  <2>3. CASE cached # None
    <3>1. Cached' = left /\ apart' = apart \ of
      BY <1>3, <1>8, <1>10, <2>3
    <3>2. \A f \in Cached' : Where(f) \notin apart' => f \in OnDisk
      BY <1>4, <1>10, <2>1, <3>1
    <3>3. ASSUME NEW f \in OnDisk, Where(f) \notin apart'
          PROVE  \E g \in Cached' : Where(g) = Where(f)
      <4>1. CASE Where(f) \in of
        BY <1>4, <1>10, <3>1, <4>1
      <4>2. CASE Where(f) \notin of
        BY <2>1, <3>1, <3>3, <4>2
      <4> QED BY <4>1, <4>2
    <3> QED BY <3>2, <3>3
  <2> QED BY <2>2, <2>3
<1> QED BY <1>2, <1>3, <1>8, <1>9, <1>10, ReloadEnds

-----------------------------------------------------------------------------
(* The whole specification                                                 *)

LEMMA VanishStep ==
  ASSUME IInv, Vanish
  PROVE  IInv'
<1>1. PICK f \in OnDisk : /\ disk' = [disk EXCEPT ![f] = "none"]
                          /\ apart' = apart \cup {Where(f)}
  BY DEF Vanish
<1>2. /\ call' = [c \in Calls |->
           IF call[c] = NoCall THEN NoCall ELSE [call[c] EXCEPT !.alone = FALSE]]
      /\ reload' = [r \in Reloads |->
           IF reload[r] = NoReload THEN NoReload ELSE [reload[r] EXCEPT !.alone = FALSE]]
      /\ UNCHANGED <<known, cached>>
  BY DEF Vanish
<1>3. \A c \in Calls :
        /\ call[c] \in CallType /\ call'[c] \in CallType
        /\ call'[c] = NoCall \/ (call'[c].alone = FALSE /\ call[c] # NoCall)
        /\ call[c] = NoCall => call'[c] = NoCall
        /\ InRole(call'[c])
  <2>1. TAKE c \in Calls
  <2>2. call[c] \in CallType /\ InRole(call[c])
    BY DEF IInv, Base, Types, Roles
  <2>3. CASE call[c] = NoCall
    BY <1>2, <2>2, <2>3
  <2>4. CASE call[c] # NoCall
    <3>1. call'[c] = [call[c] EXCEPT !.alone = FALSE]
      BY <1>2, <2>4
    <3>2. call'[c] \in CallType /\ call'[c].alone = FALSE
      BY <2>2, <3>1 DEF CallType
    <3>3. /\ call'[c].op = call[c].op /\ call'[c].pc = call[c].pc
          /\ call'[c].object = call[c].object /\ call'[c].done = call[c].done
      BY <2>2, <3>1 DEF CallType
    <3>4. InRole(call'[c])
      BY <2>2, <2>4, <3>3 DEF InRole
    <3> QED BY <2>2, <2>4, <3>2, <3>4
  <2> QED BY <2>3, <2>4
<1>4. \A r \in Reloads :
        /\ reload'[r] \in ReloadType
        /\ reload'[r] = NoReload \/ (reload'[r].alone = FALSE /\ reload'[r].pc # "none")
        /\ reload[r] = NoReload => reload'[r] = NoReload
        /\ reload'[r] = NoReload => reload[r] = NoReload \/ reload'[r].alone = FALSE
  <2>1. TAKE r \in Reloads
  <2>2. reload[r] \in ReloadType
    BY DEF IInv, Base, Types
  <2>3. CASE reload[r] = NoReload
    BY <1>2, <2>2, <2>3
  <2>4. CASE reload[r] # NoReload
    <3>1. reload'[r] = [reload[r] EXCEPT !.alone = FALSE]
      BY <1>2, <2>4
    <3>2. reload[r].pc # "none"
      BY <2>4 DEF IInv, Base, Reading, SeesDisk
    <3>3. reload'[r] \in ReloadType /\ reload'[r].alone = FALSE /\ reload'[r].pc = reload[r].pc
      BY <2>2, <3>1 DEF ReloadType
    <3> QED BY <2>4, <3>2, <3>3
  <2> QED BY <2>3, <2>4
<1>5. Types'
  <2>1. call' \in [Calls -> CallType]
    <3>1. call' = [c \in Calls |-> call'[c]]
      BY <1>2
    <3> QED BY <1>3, <3>1
  <2>2. reload' \in [Reloads -> ReloadType]
    <3>1. reload' = [r \in Reloads |-> reload'[r]]
      BY <1>2
    <3> QED BY <1>4, <3>1
  <2>3. disk' \in [Files -> {"none", "part", "tar"}] /\ apart' \subseteq Locations
    BY <1>1, FilesAndPlaces DEF OnDisk, IInv, Base, Types
  <2> QED BY <1>2, <2>1, <2>2, <2>3 DEF IInv, Base, Types
<1>6. Roles'
  BY <1>3 DEF Roles
<1>7. Reading'
  BY <1>4 DEF Reading, SeesDisk
<1>8. NoCall.op = "none" /\ NoCall.pc = "none" /\ NoCall.alone /\ NoReload.alone
  BY DEF NoCall, NoReload
<1>9. Together'
  BY <1>3, <1>8 DEF Together
<1>10. ASSUME Quiet' PROVE apart' = Locations \/ Settled'
  <2>1. \A c \in Calls : call'[c] = NoCall /\ call[c] = NoCall
    BY <1>2, <1>3, <1>10 DEF Quiet
  <2>2. \A r \in Reloads : reload[r] = NoReload
    BY <1>3, <1>4, <1>10 DEF Quiet
  <2>3. Quiet
    BY <1>8, <2>1, <2>2 DEF Quiet
  <2>4. CASE apart = Locations
    BY <1>1, <1>5, <2>4 DEF Types
  <2>5. CASE Settled
    <3>1. Noted' = Cached' /\ \A c \in Calls : Holding(call[c])'
      BY <1>5, <2>1, NothingComingNext
    <3>2. Noted = Cached /\ Cached' = Cached
      BY <1>2, <2>1, NothingComing DEF Cached, IInv, Base
    <3>3. OnDisk' = OnDisk \ {f}
      BY <1>1 DEF OnDisk, IInv, Base, Types
    <3>4. Agreed'
      BY <1>1, <2>5, <3>1, <3>2, <3>3 DEF Settled, Agreed
    <3> QED BY <3>1, <3>4 DEF Settled
  <2> QED BY <2>3, <2>4, <2>5 DEF IInv, Settling
<1> QED BY <1>5, <1>6, <1>7, <1>9, <1>10 DEF IInv, Base, Settling

LEMMA Initially ==
  ASSUME Init
  PROVE  IInv
<1> DEFINE o == CHOOSE x \in Objects : TRUE
<1>1. o \in Objects
  <2>1. Objects # {}
    <3>1. Cardinality(Objects) > Cardinality(Calls) + 1 /\ Cardinality(Calls) \in Nat
      BY CacheAssumption, FS_CardinalityType DEF CacheAssumption
    <3> QED BY <3>1, FS_EmptySet
  <2> QED BY <2>1
<1>2. PICK fs \in OneEach(OnDisk) :
        /\ known = [x \in Objects |-> IF x = o THEN fs ELSE {}]
        /\ cached = IF OnDisk = {} THEN None ELSE o
  BY DEF Init
<1> HIDE DEF o
<1>3. /\ disk \in [Files -> {"none", "tar"}] /\ apart = {}
      /\ call = [c \in Calls |-> NoCall] /\ reload = [r \in Reloads |-> NoReload]
  BY DEF Init
<1>4. Types
  <2>1. NoCall \in CallType /\ NoReload \in ReloadType
    BY DEF NoCall, CallType, NoReload, ReloadType
  <2>2. fs \subseteq Files
    BY Each DEF OnDisk
  <2> QED BY <1>1, <1>2, <1>3, <2>1, <2>2 DEF Types
<1>5. Roles
  BY <1>3 DEF Roles, InRole, NoCall
<1>6. Reading
  BY <1>3 DEF Reading, SeesDisk
<1>7. Together
  BY <1>3 DEF Together, NoCall
<1>8. Settled
  <2>1. /\ fs \subseteq OnDisk
        /\ \A g \in OnDisk : \E f \in fs : Where(f) = Where(g)
    BY Each
  <2>2. Cached = fs
    BY <1>1, <1>2, <2>1, CacheAssumption DEF Cached, CacheAssumption
  <2>3. Noted = Cached /\ \A c \in Calls : Holding(call[c])
    BY <1>3, <1>4, NothingComing
  <2> QED BY <2>1, <2>2, <2>3 DEF Settled, Agreed
<1> QED BY <1>4, <1>5, <1>6, <1>7, <1>8 DEF IInv, Base, Settling

LEMMA Step ==
  ASSUME IInv, [Next]_vars
  PROVE  IInv'
<1>1. ASSUME NEW c \in Calls, Create(c) \/ Import(c) \/ Remove(c) \/ Another(c) PROVE IInv'
  BY <1>1, CreateStep, ImportStep, RemoveStep, AnotherStep
<1>2. ASSUME NEW c \in Calls, CallStep(c) PROVE IInv'
  BY <1>2, WriteStep, EnterStep, CopyStep, CopyEndsStep, RenameStep, RegisterStep,
     DiscardStep, UnlinkStep, ForgetStep, AnotherFailsStep DEF CallStep
<1>3. ASSUME NEW r \in Reloads, ReloadStep(r) PROVE IInv'
  BY <1>3, ListStep, LoadStep, ReplaceStep, MergeStep DEF ReloadStep
<1>4. CASE ReloadAll
  BY <1>4, ReloadBegins DEF ReloadAll
<1>5. CASE ReloadMissing
  <2>1. PICK f \in Cached : BeginReload({Where(f)})
    BY <1>5 DEF ReloadMissing
  <2>2. {Where(f)} \in SUBSET Locations
    BY CachedFiles, FilesAndPlaces DEF IInv, Base
  <2>3. UNCHANGED <<files, call, apart>>
    BY <1>5 DEF ReloadMissing
  <2> QED BY <2>1, <2>2, <2>3, ReloadBegins
<1>6. CASE Vanish
  BY <1>6, VanishStep
<1>7. CASE UNCHANGED vars
  <2>1. /\ UNCHANGED <<disk, known, cached, call, reload, apart>>
        /\ OnDisk' = OnDisk /\ Cached' = Cached
    BY <1>7 DEF vars, files, OnDisk, Cached
  <2>2. Noted' = Noted
    BY <2>1 DEF Noted, Leaving
  <2>3. Base'
    BY <2>1 DEF IInv, Base, Types, Roles, Reading, SeesDisk, Together
  <2>4. Settling'
    BY <2>1, <2>2 DEF IInv, Settling, Quiet, Settled, Agreed, Holding
  <2> QED BY <2>3, <2>4 DEF IInv
<1> QED BY <1>1, <1>2, <1>3, <1>4, <1>5, <1>6, <1>7 DEF Next

(* Calls that follow each other undisturbed take cache and disk from one   *)
(* state in which they agree to another.  In between they owe each other   *)
(* the file that a remove has unlinked and not yet forgotten, and those    *)
(* that a create, an import or a copy has made and not yet noted; where a  *)
(* call leaves a file behind that nothing notes (a second one at the place *)
(* of a remove, the copies of an import), the location is in apart.        *)
THEOREM Invariance == Spec => []IInv
<1>1. Init => IInv
  BY Initially
<1>2. IInv /\ [Next]_vars => IInv'
  BY Step
<1> QED BY <1>1, <1>2, PTL DEF Spec

(* Whenever no call and no reload is under way the cache notes complete    *)
(* files only, and notes one at each location that has any; but not, until *)
(* the next reload, where the remove of one of two files left the other,   *)
(* where an import of a known backup made copies, where a copy or import   *)
(* failed over a complete file, where a file was lost or deleted as that   *)
(* of another backup, or once calls and reloads disturbed each other.  A   *)
(* new backup that fails, a copy that fails where there was no file, a     *)
(* remove that fails or finds no file, and an import beside another file   *)
(* make no exception.                                                      *)
THEOREM Follows == Spec => []CacheFollowsDisk
<1>1. IInv => CacheFollowsDisk
  <2>1. SUFFICES ASSUME IInv, Idle
                 PROVE  /\ \A f \in Cached : Where(f) \notin apart => f \in OnDisk
                        /\ Places(OnDisk) \subseteq Places(Cached) \cup apart
    BY Zenon DEF CacheFollowsDisk
  <2>2. /\ \A c \in Calls : call[c] = NoCall
        /\ \A r \in Reloads : reload[r] = NoReload
    BY <2>1 DEF Idle
  <2>3. NoCall.alone /\ NoReload.alone
    BY DEF NoCall, NoReload
  <2>4. Quiet
    BY <2>2, <2>3 DEF Quiet
  <2>5. Noted = Cached
    BY <2>1, <2>2, NothingComing DEF IInv, Base
  <2>6. CASE Settled
    BY <2>5, <2>6 DEF Settled, Agreed, Places
  <2>7. CASE apart = Locations
    <3>1. \A f \in Cached \cup OnDisk : Where(f) \in apart
      BY <2>1, <2>7, CachedFiles, FilesAndPlaces DEF IInv, Base
    <3> QED BY <3>1 DEF Places
  <2> QED BY <2>1, <2>4, <2>6, <2>7 DEF IInv, Settling
<1> QED BY <1>1, Invariance, PTL

=============================================================================
