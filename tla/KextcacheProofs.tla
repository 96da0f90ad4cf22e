--------------------------- MODULE KextcacheProofs ---------------------------
(***************************************************************************)
(* Proofs about Kextcache, for any tools, kexts, command lines and bounds. *)
(***************************************************************************)
EXTENDS Kextcache, TLAPS

(***************************************************************************)
(* Types.                                                                  *)
(***************************************************************************)
Modes == {"staging", "allowlist", "update", "compress", "build", "caches"}
FlagNames == {"local-root", "all-loaded", "invalidate", "build-immutable-kernel", "caches-only"}
Jobs == [mode : Modes, path : Paths,
         auth : SUBSET {"filesystem", "signature", "secure", "policy"},
         flags : SUBSET FlagNames, folders : BOOLEAN, trusted : BOOLEAN, root : BOOLEAN]
Kernels == [rev : Nat, time : Nat]
\* Newest() is a fold: that it returns some of its kexts is beyond the provers.
Contents == (SUBSET Kexts) \cup {Selected(ks, job) : ks \in SUBSET Kexts, job \in Jobs}
Images == [kexts : Contents, kernel : Nat, job : Jobs \cup {None}, raced : BOOLEAN]
PCs == Critical \cup Takes \cup {"idle", "read", "open", "close", "load", "exit"}
Whys == {"none", "lock", "inherited", "without", "lost"}
Tasks == [pc : PCs, job : Jobs \cup {None}, skip : BOOLEAN, port : BOOLEAN, ctr : -2..2,
          why : Whys, kernel : Kernels \cup {None}, kexts : SUBSET Kexts, ino : Nat, fd : Nat,
          created : BOOLEAN, time : Nat, image : Images, ok : BOOLEAN]
PlkFiles == [size : {"none", "empty", "full"}, ino : Nat, time : Nat,
             stamp : {"none", "own", "other"}, image : Images]
ImkFiles == [there : BOOLEAN, time : Nat, personal : BOOLEAN]

LEMMA JobType ==
    ASSUME NEW c \in Commands
    PROVE  Job(c) \in Jobs
<1>1. Mode(c) \in Modes
  BY DEF Mode, Modes
<1>2. Path(c) \in Paths
  BY DEF Path, Paths, Commands
<1>3. Authentication(c) \in SUBSET {"filesystem", "signature", "secure", "policy"}
  BY DEF Authentication
<1>4. c.trusted \in BOOLEAN /\ c.root \in BOOLEAN
  BY DEF Commands
<1> QED
  BY <1>1, <1>2, <1>3, <1>4 DEF Job, Jobs, FlagNames, Flags

\* The command "kextcache -u" runs builds the prelinked kernel of the system.
LEMMA RebuildJob ==
    ASSUME NEW job \in Jobs
    PROVE  LET child == Job(RebuildCommand(job)) IN
           child \in Jobs /\ child.mode = "build"
<1> DEFINE c == RebuildCommand(job)
<1>1. /\ "prelinked-kernel" \in c.opts /\ c.urls = {"system"} /\ c.path = "system"
      /\ c.opts \cap {"update-volume", "invalidate", "U", "clear-staging", "prune-staging",
                      "system-prelinked-kernel", "system-caches"} = {}
      /\ c.trusted = TRUE /\ c.root = job.root
  BY DEF RebuildCommand
<1> HIDE DEF c
<1>2. Mode(c) = "build"
  BY <1>1 DEF Mode, Staging, Updates, MakesPLK, URLs, SystemTargets
<1>3. Path(c) = "system"
  BY <1>1 DEF Path
<1>4. Authentication(c) \in SUBSET {"filesystem", "signature", "secure", "policy"}
  BY DEF Authentication
<1>5. Job(c) \in Jobs
  BY <1>1, <1>2, <1>3, <1>4 DEF Job, Jobs, Modes, Paths, FlagNames, Flags
<1> QED
  BY <1>2, <1>5 DEF Job, c

(***************************************************************************)
(* The inductive invariant: the types, what is true of a process by        *)
(* itself, who has the lock, and, for each of the files, what those that   *)
(* work at it know of it.                                                  *)
(***************************************************************************)
SafeImage(f, image) ==
    IsProtected(f) =>
        /\ image.job.trusted
        /\ \A k \in image.kexts : k.valid /\ k.signed /\ k.stageable /\ ~k.excluded

Updating == {"take main", "take context", "allow", "check", "wait", "fde", "fde write", "loc",
             "loc write", "loc stamp", "release", "after"}

\* Calls of takeVolumeForPath() that succeeded, less those of putVolumeForPath().
Counted(t) ==
    /\ t.pc \in {"idle", "take main", "take build", "read", "open", "load"} => t.ctr = 0
    /\ t.pc \in {"take context", "allow", "build", "stamp", "rename", "utimes", "backup",
                 "link", "personalize", "close"} => t.ctr \in 0..1
    /\ t.pc \in {"check", "wait", "fde", "fde write", "loc", "loc write", "loc stamp",
                 "release"} => t.ctr \in 0..2
    /\ t.pc = "after" => t.ctr \in -1..1
    /\ t.why = "lock" /\ t.pc \in (Critical \ {"after"}) \cup {"take context"} => t.ctr > 0

\* Of the process p.
Sound(p, t) ==
    /\ t.pc = "idle" => t = Idle
    /\ t.pc # "idle" => t.job \in Jobs /\ t.kernel \in Kernels
    /\ p[2] = "child" /\ t.pc # "idle" => t.job.mode = "build"
    /\ t.pc \in Updating => t.job.mode \in {"update", "allowlist"}
    /\ Counted(t)
    /\ t.pc \in {"idle", "take main", "take build", "read", "open", "load"} => t.why = "none"
    /\ t.pc = "take context" /\ ~t.skip => t.why # "lock"
    /\ t.why = "inherited" => p[2] = "child"
    /\ t.pc \in {"take build", "build", "stamp"} => t.fd # 0 /\ MayWrite(t.job)
    /\ t.pc \in {"stamp", "rename"} => SafeImage(t.job.path, t.image)

Typed ==
    /\ proc \in [Procs -> Tasks]
    /\ kextd \in {"down", "starting", "unwatched", "watching", "closed"}
    /\ holder \in Procs \cup {None}
    /\ clock \in 3..(3 + spent.events)
    /\ folder \in [kexts : Folders, time : 0..clock]
    /\ kernels \in Seq(Kernels) /\ kernels # <<>>
    /\ plk \in [Paths -> PlkFiles]
    /\ imk \in [Paths -> [now : ImkFiles, bak : ImkFiles]]
    /\ source \in [{"fde", "loc"} -> [rev : Nat, time : 0..clock]]
    /\ cache \in [{"fde", "loc"} -> [rev : Int, time : 0..(clock + 1)]]
    /\ allowed \in BOOLEAN
    /\ spent \in [starts : 0..MaxStarts, events : 0..MaxEvents, kills : Nat]
    /\ spent.kills <= spent.events

\* A child runs while its parent waits, or is gone.
Families ==
    \A p \in Procs :
        /\ p[2] = "child" /\ proc[p].pc # "idle" => proc[Parent(p)].pc \in {"wait", "idle"}
        /\ proc[p].pc = "wait" => proc[Child(p)].pc # "idle"

\* Whoever counts on the lock has it, or is the child of one who waits with it.
LockKept ==
    /\ holder # None => kextd = "watching" /\ proc[holder].port
    /\ \A p \in Procs :
          /\ /\ proc[p].why = "lock" /\ proc[p].ctr > 0
             /\ proc[p].pc \in Critical \cup {"take context"}
             => holder = p
          /\ proc[p].why = "inherited" =>
                proc[Parent(p)].why = "lock" /\ proc[Parent(p)].pc = "wait"

ProcInv == (\A p \in Procs : Sound(p, proc[p])) /\ Families /\ LockKept

\* All times are of now or before, those of files a second later at most.
Timely ==
    /\ \A i \in DOMAIN kernels : kernels[i].time <= clock
    /\ \A f \in Paths : plk[f].time <= clock + 1
    /\ \A p \in Procs : /\ proc[p].time <= clock + 1 /\ proc[p].fd <= Len(kernels)
                        /\ proc[p].pc # "idle" => proc[p].kernel.time <= clock

\* Of an image whose file has, or will have, this time: unless they are newer,
\* the folder and the kernel are those it was made of.
Remembered(time, image) ==
    ~image.raced =>
        /\ folder.time < time => image.kexts = Selected(folder.kexts, image.job)
        /\ Kernel.time < time => image.kernel = Kernel.rev

Remembers(t) ==
    /\ t.pc = "stamp" =>
        /\ kernels[t.fd] = t.kernel => t.image.kernel = kernels[t.fd].rev
        /\ t.image.kexts = Selected(t.kexts, t.image.job)
    /\ t.pc = "utimes" \/ (t.pc = "rename" /\ Dated(t.job)) => Remembered(t.time, t.image)
    /\ t.pc = "utimes" =>
        LET file == plk[t.job.path] IN
        /\ t.ino <= file.ino
        /\ t.ino = file.ino /\ file.size # "none" => file.size = "full" /\ file.image = t.image

PlkInv ==
    /\ \A f \in Paths :
          /\ plk[f].size = "full" => SafeImage(f, plk[f].image)
          /\ plk[f].stamp = "own" => plk[f].size = "full" /\ Remembered(plk[f].time, plk[f].image)
    /\ \A p \in Procs : Remembers(proc[p])

\* Somebody is at one of these steps of building the immutable kernel f.
At(steps, f) == \E p \in Procs : proc[p].pc \in steps /\ proc[p].job.path = f

\* A kernel put aside is going to be succeeded, or put back.
ImkInv ==
    \A f \in Paths :
        /\ imk[f].now.personal => imk[f].now.there
        /\ imk[f].bak.personal => imk[f].bak.there
        /\ spent.kills = 0 =>
              /\ imk[f].bak.there /\ ~imk[f].now.there => At({"link"}, f)
              /\ imk[f].bak.personal /\ ~imk[f].now.personal => At({"link", "personalize"}, f)

\* Whoever is to stamp the resources with the time of their sources has written
\* them from those; what another one wrote since is no older.
LocInv ==
    spent.kills = 0 =>
        /\ \A p \in Procs :
              proc[p].pc = "loc stamp" /\ proc[p].time = LocTime =>
                 \/ cache["loc"].rev = source["loc"].rev \/ cache["loc"] = NoCache
                 \/ \E q \in Procs : proc[q].pc = "loc write"
        /\ cache["loc"].time = LocTime =>
              \/ cache["loc"].rev = source["loc"].rev
              \/ \E q \in Procs : proc[q].pc \in {"loc write", "loc stamp"}
        /\ \A p \in Procs : proc[p].pc \in {"loc write", "loc stamp"} => proc[p].time <= LocTime

IInv == Typed /\ ProcInv /\ Timely /\ PlkInv /\ ImkInv /\ LocInv

(***************************************************************************)
(* From it, the properties.                                                *)
(***************************************************************************)
LEMMA FamilyFacts ==
    ASSUME NEW p \in Procs
    PROVE  /\ Parent(p) \in Procs /\ Child(p) \in Procs /\ p # None
           /\ Parent(p)[2] = "tool" /\ Child(p)[2] = "child" /\ Parent(p) # Child(p)
           /\ Parent(Child(p)) = Parent(p) /\ Child(Parent(p)) = Child(p)
           /\ p[2] = "tool" => p = Parent(p) /\ p # Child(p)
           /\ p[2] = "child" => p = Child(p) /\ p # Parent(p)
           /\ p[2] \in {"tool", "child"} /\ Parent(p)[1] = p[1] /\ p[1] \in Tools
  BY DEF Procs, Parent, Child, None

LEMMA KernelFacts ==
    ASSUME Typed
    PROVE  /\ Len(kernels) \in Nat \ {0} /\ DOMAIN kernels = 1..Len(kernels)
           /\ \A i \in DOMAIN kernels : kernels[i] \in Kernels
           /\ Kernel \in Kernels /\ Len(kernels) \in DOMAIN kernels
<1>1. kernels \in Seq(Kernels) /\ kernels # <<>>
  BY DEF Typed
<1>2. Len(kernels) \in Nat \ {0} /\ DOMAIN kernels = 1..Len(kernels)
  BY <1>1
<1>3. \A i \in DOMAIN kernels : kernels[i] \in Kernels
  BY <1>1
<1> QED
  BY <1>2, <1>3 DEF Kernel

LEMMA TypeHolds ==
    ASSUME IInv
    PROVE  TypeOK
<1> USE DEF IInv
<1>1. ASSUME NEW p \in Procs
      PROVE  /\ proc[p].pc \in PCs
             /\ {proc[p].skip, proc[p].port, proc[p].created, proc[p].ok} \subseteq BOOLEAN
             /\ proc[p].ctr \in -2..2 /\ proc[p].fd \in 0..Len(kernels)
             /\ proc[p].why \in Whys /\ proc[p].kexts \subseteq Kexts
  <2>1. proc[p] \in Tasks /\ Len(kernels) \in Nat
    BY KernelFacts DEF Typed
  <2>2. proc[p].fd \in 0..Len(kernels)
    BY <2>1 DEF Tasks, Timely
  <2> QED
    BY <2>1, <2>2 DEF Tasks
<1>2. clock \in 0..(3 + MaxEvents) /\ folder.kexts \in Folders /\ folder.time \in 0..clock
  BY KextcacheAssumption DEF Typed
<1>3. \A i \in DOMAIN kernels : kernels[i].time \in 0..clock
  BY <1>2, KernelFacts DEF Timely, Kernels
<1>4. \A f \in Paths : plk[f].size \in {"none", "empty", "full"} /\ plk[f].stamp \in {"none", "own", "other"}
  BY DEF Typed, PlkFiles
<1>5. spent.starts \in 0..MaxStarts /\ spent.events \in 0..MaxEvents /\ spent.kills \in 0..spent.events
  BY KextcacheAssumption DEF Typed
<1>6. /\ kextd \in {"down", "starting", "unwatched", "watching", "closed"}
      /\ holder \in Procs \cup {None} /\ allowed \in BOOLEAN
      /\ (holder # None => kextd = "watching" /\ proc[holder].port)
  BY DEF Typed, ProcInv, LockKept
<1> QED
  BY <1>1, <1>2, <1>3, <1>4, <1>5, <1>6 DEF TypeOK, PCs, Whys

LEMMA OneBuilderHolds ==
    ASSUME IInv
    PROVE  OneBuilder
<1>1. ASSUME NEW t \in Tools, Holds(t)
      PROVE  holder \in Procs /\ holder[1] = t
  <2>1. PICK p \in {t} \X {"tool", "child"} : HasLock(p)
    BY <1>1 DEF Holds
  <2>2. p \in Procs /\ p[1] = t
    BY <2>1 DEF Procs
  <2>3. CASE proc[p].why = "lock"
    BY <2>1, <2>2, <2>3 DEF HasLock, IInv, ProcInv, LockKept
  <2>4. CASE proc[p].why = "inherited"
    <3> DEFINE q == Parent(p)
    <3>1. q \in Procs /\ q[1] = t
      BY <2>2, FamilyFacts
    <3>2. proc[q].why = "lock" /\ proc[q].pc = "wait"
      BY <2>2, <2>4 DEF IInv, ProcInv, LockKept
    <3>3. proc[q].ctr > 0
      BY <3>1, <3>2 DEF IInv, ProcInv, Sound, Counted, Critical
    <3> QED
      BY <3>1, <3>2, <3>3 DEF IInv, ProcInv, LockKept, Critical
  <2> QED
    BY <2>1, <2>3, <2>4 DEF HasLock
<1> QED
  BY <1>1 DEF OneBuilder

LEMMA ImmutableRestoredHolds ==
    ASSUME IInv
    PROVE  ImmutableRestored
<1> SUFFICES ASSUME spent.kills = 0, NEW f \in Paths, imk[f].bak.personal, ~imk[f].now.personal
             PROVE  \E p \in Procs : proc[p].job # None /\ proc[p].job.path = f
                                     /\ proc[p].pc \in {"link", "personalize"}
  BY DEF ImmutableRestored
<1>1. PICK p \in Procs : proc[p].pc \in {"link", "personalize"} /\ proc[p].job.path = f
  BY DEF IInv, ImkInv, At
<1>2. proc[p].job \in Jobs
  BY <1>1 DEF IInv, ProcInv, Sound
<1>3. proc[p].job # None
  BY <1>2 DEF Jobs, None
<1> QED
  BY <1>1, <1>3

LEMMA AcceptedIsCurrentHolds ==
    ASSUME IInv
    PROVE  AcceptedIsCurrent
<1> DEFINE file == plk["system"]
           k == Kernel
<1> SUFFICES ASSUME Accepted("system"), file.stamp = "own", ~file.image.raced
             PROVE  /\ file.size = "full"
                    /\ file.image.kexts = Selected(folder.kexts, file.image.job)
                    /\ file.image.kernel = k.rev \/ k.time <= folder.time + 1
  BY DEF AcceptedIsCurrent
<1>1. file.size = "full" /\ Remembered(file.time, file.image)
  BY DEF IInv, PlkInv, Paths
<1>2. file.time = IF k.time > folder.time + 1 THEN k.time + 1 ELSE folder.time + 1
  BY DEF Accepted, Latest
<1>3. k.time \in Nat /\ folder.time \in Nat
  <2>1. Typed
    BY DEF IInv
  <2>2. k \in Kernels
    BY <2>1, KernelFacts
  <2>3. folder.time \in Nat
    BY <2>1 DEF Typed
  <2> QED
    BY <2>2, <2>3 DEF Kernels
<1>4. folder.time < file.time
  BY <1>2, <1>3
<1>5. k.time < file.time \/ k.time <= folder.time + 1
  BY <1>2, <1>3
<1> QED
  BY <1>1, <1>4, <1>5 DEF Remembered

LEMMA LocIsCurrentHolds ==
    ASSUME IInv
    PROVE  LocIsCurrent
  BY DEF IInv, LocInv, LocIsCurrent

LEMMA ProtectedIsSafeHolds ==
    ASSUME IInv
    PROVE  ProtectedIsSafe
  BY DEF IInv, PlkInv, SafeImage, IsProtected, Paths, ProtectedIsSafe

(***************************************************************************)
(* A step of one process.                                                  *)
(***************************************************************************)

\* t becomes the state of p.
Moves(p, t) == proc' = [proc EXCEPT ![p] = t]

\* What p does to the lock, and may count on then.
LockStep(p, t) ==
    /\ holder' = holder \/ (holder \in {p, None} /\ holder' \in {p, None})
    /\ holder' = p => t.port /\ kextd = "watching"
    /\ t.why = "lock" /\ t.ctr > 0 /\ t.pc \in Critical \cup {"take context"} => holder' = p
    /\ t.why = "inherited" => proc[Parent(p)].why = "lock" /\ proc[Parent(p)].pc = "wait"

LEMMA MoveKeeps ==
    ASSUME Typed, ProcInv, NEW p \in Procs, NEW t \in Tasks, Moves(p, t),
           proc[p].pc \notin {"idle", "wait"}, t.pc \notin {"idle", "wait"},
           Sound(p, t), LockStep(p, t), kextd' = kextd
    PROVE  /\ proc' \in [Procs -> Tasks] /\ holder' \in Procs \cup {None} /\ ProcInv'
           /\ \A q \in Procs : proc'[q] = IF q = p THEN t ELSE proc[q]
<1>1. proc' \in [Procs -> Tasks] /\ \A q \in Procs : proc'[q] = IF q = p THEN t ELSE proc[q]
  BY DEF Typed, Moves
<1>2. holder' \in Procs \cup {None}
  BY DEF Typed, LockStep
<1>3. \A q \in Procs : Sound(q, proc[q])'
  <2> SUFFICES ASSUME NEW q \in Procs
               PROVE  Sound(q, proc'[q])
    BY DEF Sound
  <2> QED
    BY <1>1 DEF ProcInv
<1>4. Families'
  <2> SUFFICES ASSUME NEW q \in Procs
               PROVE  /\ q[2] = "child" /\ proc'[q].pc # "idle" => proc'[Parent(q)].pc \in {"wait", "idle"}
                      /\ proc'[q].pc = "wait" => proc'[Child(q)].pc # "idle"
    BY DEF Families
  <2>1. /\ q[2] = "child" /\ proc[q].pc # "idle" => proc[Parent(q)].pc \in {"wait", "idle"}
        /\ proc[q].pc = "wait" => proc[Child(q)].pc # "idle"
    BY DEF ProcInv, Families
  <2>2. Parent(q) \in Procs /\ Child(q) \in Procs
    BY FamilyFacts
  <2> QED
    BY <1>1, <2>1, <2>2
<1>5. LockKept'
  <2>1. holder' # None => kextd' = "watching" /\ proc'[holder'].port
    BY <1>1 DEF LockStep, ProcInv, LockKept, Typed
  <2>2. ASSUME NEW q \in Procs
        PROVE  /\ /\ proc'[q].why = "lock" /\ proc'[q].ctr > 0
                  /\ proc'[q].pc \in Critical \cup {"take context"}
                  => holder' = q
               /\ proc'[q].why = "inherited" =>
                     proc'[Parent(q)].why = "lock" /\ proc'[Parent(q)].pc = "wait"
    <3>1. Parent(q) \in Procs /\ p # None /\ q # None
      BY FamilyFacts
    <3>2. CASE q = p
      <4>1. t.why = "inherited" => Parent(p) # p
        BY FamilyFacts DEF Sound
      <4> QED
        BY <1>1, <3>1, <3>2, <4>1 DEF LockStep
    <3>3. CASE q # p
      BY <1>1, <3>1, <3>3 DEF LockStep, ProcInv, LockKept
    <3> QED
      BY <3>2, <3>3
  <2> QED
    BY <2>1, <2>2 DEF LockKept
<1> QED
  BY <1>1, <1>2, <1>3, <1>4, <1>5 DEF ProcInv

\* The same but for the lock.
Alike(t, r) ==
    /\ t.pc = r.pc /\ t.job = r.job /\ t.kernel = r.kernel /\ t.kexts = r.kexts
    /\ t.ino = r.ino /\ t.fd = r.fd /\ t.time = r.time /\ t.image = r.image

\* Steps that do not touch what is remembered of a file.
LEMMA PlkFrame ==
    ASSUME PlkInv, UNCHANGED <<plk, folder, kernels>>,
           \A q \in Procs : proc'[q].pc \in {"stamp", "rename", "utimes"} => Alike(proc'[q], proc[q])
    PROVE  PlkInv'
<1>1. ASSUME NEW q \in Procs
      PROVE  Remembers(proc[q])'
  BY DEF PlkInv, Remembers, Remembered, Kernel, Alike
<1> QED
  BY <1>1 DEF PlkInv, Remembered, Kernel

LEMMA ImkFrame ==
    ASSUME ImkInv, UNCHANGED imk, spent'.kills = 0 => spent.kills = 0,
           spent'.kills = 0 =>
              \A q \in Procs : proc[q].pc \in {"link", "personalize"} =>
                 proc'[q].pc = proc[q].pc /\ proc'[q].job = proc[q].job
    PROVE  ImkInv'
<1> SUFFICES ASSUME NEW f \in Paths, spent'.kills = 0
             PROVE  /\ imk[f].bak.there /\ ~imk[f].now.there => At({"link"}, f)'
                    /\ imk[f].bak.personal /\ ~imk[f].now.personal => At({"link", "personalize"}, f)'
  BY DEF ImkInv
<1>1. At({"link"}, f) => At({"link"}, f)'
  BY DEF At
<1>2. At({"link", "personalize"}, f) => At({"link", "personalize"}, f)'
  BY DEF At
<1> QED
  BY <1>1, <1>2 DEF ImkInv

LEMMA LocFrame ==
    ASSUME LocInv, UNCHANGED <<cache["loc"], source["loc"]>>, spent'.kills = 0 => spent.kills = 0,
           spent'.kills = 0 =>
              \A q \in Procs : {proc[q].pc, proc'[q].pc} \cap {"loc write", "loc stamp"} # {} =>
                 proc'[q].pc = proc[q].pc /\ proc'[q].time = proc[q].time
    PROVE  LocInv'
<1> SUFFICES ASSUME spent'.kills = 0
             PROVE  LocInv'
  BY DEF LocInv
<1>1. \A q \in Procs : /\ proc'[q].pc = "loc write" <=> proc[q].pc = "loc write"
                       /\ proc'[q].pc = "loc stamp" <=> proc[q].pc = "loc stamp"
                       /\ proc[q].pc \in {"loc write", "loc stamp"} => proc'[q].time = proc[q].time
  OBVIOUS
<1>2. UNCHANGED LocTime
  BY DEF LocTime
<1> QED
  BY <1>1, <1>2 DEF LocInv

LEMMA SpentKept ==
    ASSUME Typed, Event \/ UNCHANGED spent
    PROVE  /\ spent' \in [starts : 0..MaxStarts, events : 0..MaxEvents, kills : Nat]
           /\ spent'.kills = spent.kills /\ spent'.kills <= spent'.events
           /\ spent.events <= spent'.events
<1>1. spent \in [starts : 0..MaxStarts, events : 0..MaxEvents, kills : Nat] /\ spent.kills <= spent.events
  BY DEF Typed
<1> QED
  BY <1>1, KextcacheAssumption DEF Event

Works == {"stamp", "rename", "utimes", "link", "personalize", "loc write", "loc stamp"}

LEMMA TypedMove ==
    ASSUME Typed, proc' \in [Procs -> Tasks], holder' \in Procs \cup {None}, kextd' = kextd,
           Event \/ UNCHANGED spent, UNCHANGED <<clock, sourceVars>>,
           plk' \in [Paths -> PlkFiles], imk' \in [Paths -> [now : ImkFiles, bak : ImkFiles]],
           cache' \in [{"fde", "loc"} -> [rev : Int, time : 0..(clock + 1)]], allowed' \in BOOLEAN
    PROVE  Typed'
<1>1. /\ spent' \in [starts : 0..MaxStarts, events : 0..MaxEvents, kills : Nat]
      /\ spent'.kills <= spent'.events /\ spent.events <= spent'.events
  BY SpentKept
<1>2. clock' \in 3..(3 + spent'.events)
  <2>1. clock \in 3..(3 + spent.events) /\ clock' = clock
    BY DEF Typed
  <2>2. spent.events \in Nat /\ spent'.events \in Nat
    BY <1>1, KextcacheAssumption DEF Typed
  <2> QED
    BY <1>1, <2>1, <2>2
<1> QED
  BY <1>1, <1>2 DEF Typed, sourceVars

LEMMA TimelyMove ==
    ASSUME Typed, Timely, NEW p \in Procs, NEW t \in Tasks,
           \A q \in Procs : proc'[q] = IF q = p THEN t ELSE proc[q],
           UNCHANGED <<clock, sourceVars>>, \A f \in Paths : plk'[f].time <= clock + 1,
           t.time <= clock + 1, t.fd <= Len(kernels), proc[p].pc # "idle", t.kernel = proc[p].kernel
    PROVE  Timely'
  BY DEF Timely, sourceVars

\* A step between two that have to do with no file.
LEMMA SilentMove ==
    ASSUME IInv, NEW p \in Procs, NEW t \in Tasks, Moves(p, t),
           proc[p].pc \notin {"idle", "wait"} \cup Works, t.pc \notin {"idle", "wait"} \cup Works,
           Sound(p, t), LockStep(p, t), UNCHANGED <<kextd, clock, sourceVars, plk, imk>>,
           Event \/ UNCHANGED spent, allowed' \in BOOLEAN,
           cache' \in [{"fde", "loc"} -> [rev : Int, time : 0..(clock + 1)]],
           UNCHANGED cache["loc"],
           t.time <= clock + 1, t.fd <= Len(kernels), t.kernel = proc[p].kernel
    PROVE  IInv'
<1>1. /\ proc' \in [Procs -> Tasks] /\ holder' \in Procs \cup {None} /\ ProcInv'
      /\ \A q \in Procs : proc'[q] = IF q = p THEN t ELSE proc[q]
  BY MoveKeeps DEF IInv
<1>2. Typed'
  BY <1>1, TypedMove DEF IInv, Typed
<1>3. \A q \in Procs : {proc[q].pc, proc'[q].pc} \cap Works # {} => proc'[q] = proc[q]
  BY <1>1
<1>4. PlkInv'
  BY <1>3, PlkFrame DEF IInv, Works, sourceVars, Alike
<1>5. spent'.kills = spent.kills
  BY SpentKept DEF IInv
<1>6. ImkInv'
  BY <1>3, <1>5, ImkFrame DEF IInv, Works
<1>7. LocInv'
  BY <1>3, <1>5, LocFrame DEF IInv, Works, sourceVars
<1>8. Timely'
  BY <1>1, TimelyMove DEF IInv, Timely
<1> QED
  BY <1>1, <1>2, <1>4, <1>6, <1>7, <1>8 DEF IInv

(***************************************************************************)
(* The lock.                                                               *)
(***************************************************************************)
LEMMA TaskFacts ==
    ASSUME IInv, NEW p \in Procs
    PROVE  /\ proc[p] \in Tasks /\ Sound(p, proc[p])
           /\ proc[p].time <= clock + 1 /\ proc[p].fd <= Len(kernels)
           /\ proc[p].pc # "idle" => /\ proc[p].job \in Jobs /\ proc[p].job.path \in Paths
                                     /\ proc[p].kernel \in Kernels
           /\ holder = p => proc[p].port /\ kextd = "watching"
           /\ plk \in [Paths -> PlkFiles] /\ imk \in [Paths -> [now : ImkFiles, bak : ImkFiles]]
           /\ cache \in [{"fde", "loc"} -> [rev : Int, time : 0..(clock + 1)]]
           /\ clock \in Nat /\ allowed \in BOOLEAN
<1>1. proc[p] \in Tasks /\ Sound(p, proc[p])
  BY DEF IInv, Typed, ProcInv
<1>2. proc[p].time <= clock + 1 /\ proc[p].fd <= Len(kernels)
  BY DEF IInv, Timely
<1>3. proc[p].pc # "idle" => /\ proc[p].job \in Jobs /\ proc[p].job.path \in Paths
                             /\ proc[p].kernel \in Kernels
  BY <1>1 DEF Sound, Jobs
<1>4. holder = p => proc[p].port /\ kextd = "watching"
  <2>1. p # None
    BY DEF Procs, None
  <2>2. LockKept
    BY DEF IInv, ProcInv
  <2> QED
    BY <2>1, <2>2 DEF LockKept
<1>5. clock \in Nat
  BY KextcacheAssumption DEF IInv, Typed
<1> QED
  BY <1>1, <1>2, <1>3, <1>4, <1>5 DEF IInv, Typed

LEMMA TakeKeeps ==
    ASSUME IInv, NEW p \in Procs, Take(p)
    PROVE  IInv'
<1> DEFINE u == proc[p]
           T(why) == [u EXCEPT !.pc = Past(p, TRUE), !.ctr = @ + 1,
                               !.why = IF @ \in {"none", "without"} THEN why ELSE @,
                               !.port = @ \/ why = "lock",
                               !.skip = @ \/ (why = "lock" /\ u.ctr = 0)]
           R == [u EXCEPT !.pc = Past(p, FALSE), !.ok = @ /\ u.pc = "take main"]
<1>1. /\ u \in Tasks /\ Sound(p, u) /\ u.pc \in Takes /\ u.ctr \in 0..1
      /\ u.pc # "take context" => u.ctr = 0 /\ u.why = "none"
      /\ u.why = "lock" => u.pc = "take context" /\ u.ctr > 0
      /\ u.job \in Jobs /\ u.kernel \in Kernels
  <2>1. u \in Tasks /\ Sound(p, u) /\ u.pc \in Takes /\ u.job \in Jobs /\ u.kernel \in Kernels
    BY TaskFacts DEF Take, Takes
  <2>2. Counted(u) /\ (u.pc # "take context" => u.why = "none")
    BY <2>1 DEF Sound, Takes
  <2>3. u.ctr \in 0..1 /\ (u.pc # "take context" => u.ctr = 0)
        /\ (u.why = "lock" /\ u.pc = "take context" => u.ctr > 0)
    <3>1. u.pc \in {"take main", "take build"} => u.ctr = 0
      BY <2>2 DEF Counted
    <3>2. u.pc = "take context" => u.ctr \in 0..1 /\ (u.why = "lock" => u.ctr > 0)
      BY <2>2 DEF Counted
    <3>3. u.ctr = 0 => u.ctr \in 0..1
      OBVIOUS
    <3> QED
      BY <2>1, <3>1, <3>2, <3>3 DEF Takes
  <2> QED
    BY <2>1, <2>2, <2>3
<1>n. u.ctr \in 0..1 /\ (u.why = "lock" => u.ctr > 0)
  BY <1>1
<1>2. /\ Past(p, TRUE) \in {"allow", "take context", "check", "build"}
      /\ Past(p, FALSE) \in {"allow", "take context", "release", "close"}
      /\ u.pc = "take main" => Past(p, TRUE) \in {"allow", "take context"}
                               /\ Past(p, FALSE) \in {"allow", "take context"}
      /\ u.pc = "take context" => Past(p, TRUE) = "check" /\ Past(p, FALSE) = "release"
      /\ u.pc = "take build" => Past(p, TRUE) = "build" /\ Past(p, FALSE) = "close"
  BY <1>1 DEF Past, Takes
<1>3. UNCHANGED <<kextd, clock, sourceVars, plk, imk, cache, allowed, spent>>
  BY DEF Take, fileVars
<1>a. ASSUME NEW why \in Whys \ {"none"}
      PROVE  /\ T(why) \in Tasks /\ T(why).pc = Past(p, TRUE) /\ T(why).ctr = u.ctr + 1
             /\ T(why).why = (IF u.why \in {"none", "without"} THEN why ELSE u.why)
             /\ T(why).port = (u.port \/ why = "lock")
             /\ T(why).skip = (u.skip \/ (why = "lock" /\ u.ctr = 0))
             /\ T(why).job = u.job /\ T(why).kernel = u.kernel /\ T(why).fd = u.fd
             /\ T(why).time = u.time /\ T(why).image = u.image
  <2> DEFINE ctr == u.ctr + 1
             pc == Past(p, TRUE)
             w == IF u.why \in {"none", "without"} THEN why ELSE u.why
             port == u.port \/ why = "lock"
             skip == u.skip \/ (why = "lock" /\ u.ctr = 0)
  <2>1. ctr \in -2..2
    BY <1>n
  <2>2. pc \in PCs
    BY <1>2 DEF PCs, Critical, Takes
  <2>3. w \in Whys
    BY <1>1 DEF Tasks
  <2>4. port \in BOOLEAN /\ skip \in BOOLEAN
    BY <1>1 DEF Tasks
  <2>5. T(why) = [u EXCEPT !.pc = pc, !.ctr = ctr, !.why = w, !.port = port, !.skip = skip]
    BY <1>1 DEF Tasks
  <2> HIDE DEF ctr, pc, w, port, skip, T
  <2>6. /\ T(why) \in Tasks /\ T(why).pc = pc /\ T(why).ctr = ctr /\ T(why).why = w
        /\ T(why).port = port /\ T(why).skip = skip
        /\ T(why).job = u.job /\ T(why).kernel = u.kernel /\ T(why).fd = u.fd
        /\ T(why).time = u.time /\ T(why).image = u.image
    BY <1>1, <2>1, <2>2, <2>3, <2>4, <2>5 DEF Tasks
  <2> QED
    BY <2>6 DEF ctr, pc, w, port, skip
<1>b. /\ R \in Tasks /\ R.pc = Past(p, FALSE) /\ R.ctr = u.ctr /\ R.why = u.why
      /\ R.port = u.port /\ R.skip = u.skip /\ R.job = u.job /\ R.kernel = u.kernel /\ R.fd = u.fd
      /\ R.time = u.time /\ R.image = u.image
  BY <1>1, <1>2 DEF Tasks, PCs, Critical, Takes
<1> HIDE DEF T, R
<1>5. ASSUME NEW why \in Whys \ {"none"}, why = "inherited" => p[2] = "child"
      PROVE  Sound(p, T(why))
  <2> DEFINE t == T(why)
  <2>1. t.ctr = u.ctr + 1 /\ t.pc = Past(p, TRUE) /\ t.pc \in {"allow", "take context", "check", "build"}
    BY <1>a, <1>2
  <2>a. t.pc = "take context" => u.pc = "take main" /\ u.ctr = 0
    BY <1>1, <1>2, <2>1 DEF Takes
  <2>b. t.pc \in {"allow", "build"} => u.ctr = 0
    BY <1>1, <1>2, <2>1 DEF Takes
  <2>2. Counted(t)
    <3>1. \A n \in 0..1 : n + 1 \in 0..2 /\ n + 1 > 0 /\ (n = 0 => n + 1 \in 0..1)
      OBVIOUS
    <3>2. t.ctr \in 0..2 /\ t.ctr > 0 /\ (u.ctr = 0 => t.ctr \in 0..1)
      BY <1>n, <2>1, <3>1
    <3> QED
      BY <2>1, <2>a, <2>b, <3>2 DEF Counted
  <2>3. t.job = u.job /\ t.kernel = u.kernel /\ t.fd = u.fd /\ u.pc # "idle"
    BY <1>1, <1>a DEF Takes
  <2>4. t.pc \in Updating => t.job.mode \in {"update", "allowlist"}
    BY <1>1, <1>2, <2>1, <2>3 DEF Sound, Updating, Takes
  <2>5. t.pc = "take context" /\ ~t.skip => t.why # "lock"
    <3>1. t.pc = "take context" => u.why = "none"
      BY <1>1, <2>a
    <3> QED
      BY <1>a, <2>a, <3>1
  <2>6. t.why = "inherited" => p[2] = "child"
    <3>1. u.why = "inherited" => p[2] = "child"
      BY <1>1 DEF Sound
    <3>2. t.why \in {why, u.why}
      BY <1>a
    <3> QED
      BY <1>5, <3>1, <3>2
  <2>7. t.pc \in {"take build", "build", "stamp"} => t.fd # 0 /\ MayWrite(t.job)
    BY <1>1, <1>2, <2>1, <2>3 DEF Sound, Takes
  <2> QED
    BY <1>1, <2>1, <2>2, <2>3, <2>4, <2>5, <2>6, <2>7 DEF Sound
<1>6. ASSUME NEW why \in Whys \ {"none"}, why = "inherited" => p[2] = "child", Moves(p, T(why)),
             LockStep(p, T(why))
      PROVE  IInv'
  <2>1. T(why) \in Tasks /\ T(why).pc = Past(p, TRUE) /\ T(why).time = u.time /\ T(why).fd = u.fd
        /\ T(why).kernel = u.kernel
    BY <1>a
  <2>2. u.pc \notin {"idle", "wait"} \cup Works /\ T(why).pc \notin {"idle", "wait"} \cup Works
    BY <1>1, <1>2, <2>1 DEF Takes, Works
  <2> QED
    BY <1>3, <1>5, <1>6, <2>1, <2>2, SilentMove, TaskFacts
<1>7. /\ u.why = "lock" /\ u.ctr > 0 /\ u.pc = "take context" => holder = p
      /\ u.why = "inherited" => proc[Parent(p)].why = "lock" /\ proc[Parent(p)].pc = "wait"
      /\ holder = p => u.port /\ kextd = "watching"
  BY TaskFacts DEF IInv, ProcInv, LockKept
<1>8. CASE u.skip /\ Taken(p, IF proc[Parent(p)].why = "lock" THEN "inherited" ELSE "lost")
           /\ UNCHANGED holder
  <2> DEFINE why == IF proc[Parent(p)].why = "lock" THEN "inherited" ELSE "lost"
             t == T(why)
  <2>1. why \in Whys \ {"none"} /\ Moves(p, t)
    BY <1>8 DEF Whys, Taken, Moves, T
  <2>a. why = "inherited" /\ u.why \in {"none", "without"} => p[2] = "child" /\ proc[Parent(p)].pc = "wait"
    <3> SUFFICES ASSUME why = "inherited", u.why \in {"none", "without"}
                 PROVE  p[2] = "child" /\ proc[Parent(p)].pc = "wait"
      OBVIOUS
    <3>1. proc[Parent(p)].why = "lock" /\ Parent(p) # p
      OBVIOUS
    <3>2. p[2] = "child" /\ Parent(p) \in Procs
      BY <3>1, FamilyFacts
    <3>3. proc[Parent(p)].pc # "idle"
      BY <3>1, <3>2, TaskFacts DEF Sound, Idle
    <3> QED
      BY <1>1, <3>2, <3>3 DEF IInv, ProcInv, Families, Takes
  <2>2. CASE u.why \in {"none", "without"}
    <3>1. LockStep(p, t)
      BY <1>1, <1>a, <1>7, <1>8, <2>1, <2>2, <2>a DEF LockStep
    <3> QED
      BY <1>6, <2>1, <2>2, <2>a, <3>1
  <2>3. CASE u.why \notin {"none", "without"}
    <3>1. t = T("lost")
      BY <1>1, <2>3 DEF T
    <3>2. LockStep(p, T("lost"))
      BY <1>1, <1>a, <1>7, <1>8, <2>3 DEF LockStep, Whys
    <3> QED
      BY <1>6, <2>1, <3>1, <3>2 DEF Whys
  <2> QED
    BY <2>2, <2>3
<1>9. CASE ~u.skip /\ Taken(p, "without") /\ UNCHANGED holder
  <2>1. Moves(p, T("without"))
    BY <1>9 DEF Taken, Moves, T
  <2>2. u.why # "lock"
    BY <1>1, <1>9 DEF Sound, Takes
  <2>3. LockStep(p, T("without"))
    BY <1>1, <1>a, <1>7, <1>9, <2>2 DEF LockStep, Whys
  <2> QED
    BY <1>6, <2>1, <2>3 DEF Whys
<1>10. CASE ~u.skip /\ kextd = "watching" /\ holder = None /\ Taken(p, "lock") /\ holder' = p
  <2>1. Moves(p, T("lock"))
    BY <1>10 DEF Taken, Moves, T
  <2>2. LockStep(p, T("lock"))
    BY <1>1, <1>a, <1>7, <1>10 DEF LockStep, Whys
  <2> QED
    BY <1>6, <2>1, <2>2 DEF Whys
<1>11. CASE Moves(p, R) /\ UNCHANGED holder
  <2>1. R.pc \in {"allow", "take context", "release", "close"}
    BY <1>2, <1>b
  <2>2. Sound(p, R)
    <3>a. R.pc \in {"allow", "take context"} => u.ctr = 0
      BY <1>1, <1>2, <1>b DEF Takes
    <3>1. Counted(R)
      <4>0. R.ctr = u.ctr /\ R.why = u.why
        BY <1>b
      <4>1. R.ctr \in 0..1
        BY <1>n, <4>0
      <4>2. R.ctr \in 0..2
        BY <4>1
      <4>3. R.why = "lock" => R.ctr > 0
        BY <1>n, <4>0
      <4> QED
        BY <2>1, <4>1, <4>2, <4>3 DEF Counted
    <3>2. R.pc \in Updating => R.job.mode \in {"update", "allowlist"}
      BY <1>1, <1>2, <1>b, <2>1 DEF Sound, Updating, Takes
    <3>3. R.pc = "take context" => R.why = "none"
      BY <1>1, <1>2, <1>b DEF Takes
    <3>4. R.why = "inherited" => p[2] = "child"
      BY <1>1, <1>b DEF Sound
    <3>5. p[2] = "child" => R.job.mode = "build"
      BY <1>1, <1>b DEF Sound, Takes
    <3> QED
      BY <1>1, <1>b, <2>1, <3>1, <3>2, <3>3, <3>4, <3>5 DEF Sound
  <2>3. LockStep(p, R)
    BY <1>1, <1>b, <1>7, <1>11 DEF LockStep
  <2>4. u.pc \notin {"idle", "wait"} \cup Works /\ R.pc \notin {"idle", "wait"} \cup Works
    BY <1>1, <2>1 DEF Takes, Works
  <2> QED
    BY <1>b, <1>3, <1>11, <2>2, <2>3, <2>4, SilentMove, TaskFacts
<1> QED
  BY <1>8, <1>9, <1>10, <1>11 DEF Take, Moves, R

\* t is p, gone on.
Follows(p, t) ==
    /\ t \in Tasks
    /\ t.job = proc[p].job /\ t.kernel = proc[p].kernel /\ t.fd = proc[p].fd
    /\ t.ctr = proc[p].ctr /\ t.why = proc[p].why /\ t.port = proc[p].port /\ t.skip = proc[p].skip

LEMMA LockStays ==
    ASSUME IInv, NEW p \in Procs, NEW t, Follows(p, t), UNCHANGED holder,
           t.pc \in Critical \cup {"take context"} =>
              proc[p].pc \in Critical \cup {"take context"} \/ proc[p].why # "lock"
    PROVE  LockStep(p, t)
<1>1. LockKept
  BY DEF IInv, ProcInv
<1>2. p # None
  BY FamilyFacts
<1> QED
  BY <1>1, <1>2 DEF LockStep, LockKept, Follows

\* The steps of doUpdateVolume() between its two puts.
Late == {"check", "fde", "fde write", "loc", "loc write", "loc stamp", "release"}

LEMMA UpdateStep ==
    ASSUME IInv, NEW p \in Procs, NEW t, Follows(p, t), proc[p].pc \in Late, t.pc \in Late,
           UNCHANGED holder
    PROVE  Sound(p, t) /\ LockStep(p, t)
<1> DEFINE u == proc[p]
<1>1. Sound(p, u)
  BY TaskFacts
<1>2. u.ctr \in 0..2 /\ (u.why = "lock" => u.ctr > 0) /\ u.why \in {"lock", "inherited", "without", "lost", "none"}
  <2>1. Counted(u)
    BY <1>1 DEF Sound
  <2> QED
    BY <2>1, TaskFacts DEF Counted, Late, Critical, Tasks, Whys
<1>3. Counted(t)
  BY <1>2 DEF Counted, Late, Follows
<1>4. Sound(p, t)
  BY <1>1, <1>3 DEF Sound, Late, Follows, Updating
<1>5. LockStep(p, t)
  BY LockStays DEF Late, Critical
<1> QED
  BY <1>4, <1>5

\* The steps of createPrelinkedKernel() with the lock.
Building == {"build", "stamp", "rename", "utimes", "backup", "link", "personalize"}

LEMMA BuildStep ==
    ASSUME IInv, NEW p \in Procs, NEW t, Follows(p, t), proc[p].pc \in Building,
           t.pc \in Building \cup {"close"}, UNCHANGED holder,
           t.pc \in {"build", "stamp"} => proc[p].pc \in {"build", "stamp"},
           t.pc \in {"stamp", "rename"} => SafeImage(t.job.path, t.image)
    PROVE  Sound(p, t) /\ LockStep(p, t)
<1> DEFINE u == proc[p]
<1>1. Sound(p, u)
  BY TaskFacts
<1>2. u.ctr \in 0..1 /\ (u.why = "lock" => u.ctr > 0)
  <2>1. Counted(u)
    BY <1>1 DEF Sound
  <2> QED
    BY <2>1 DEF Counted, Building, Critical
<1>3. Counted(t)
  BY <1>2 DEF Counted, Building, Follows
<1>4. Sound(p, t)
  BY <1>1, <1>3 DEF Sound, Building, Follows, Updating
<1>5. LockStep(p, t)
  BY LockStays DEF Building, Critical
<1> QED
  BY <1>4, <1>5

\* What a put makes of p.
PutTask(p, pc) == [proc[p] EXCEPT !.pc = pc, !.ctr = IF UnlockFails(p) THEN @ ELSE @ - 1,
                                  !.port = @ /\ ~Unlocks(p),
                                  !.skip = @ /\ (~Unlocks(p) \/ UnlockFails(p)),
                                  !.why = IF pc = "exit" THEN "none" ELSE @]

LEMMA PutKeeps ==
    ASSUME IInv, NEW p \in Procs, NEW pc, Put(p, pc),
           \/ proc[p].pc = "release" /\ pc = "after"
           \/ proc[p].pc \in {"after", "close"} /\ pc = "exit"
    PROVE  /\ Moves(p, PutTask(p, pc)) /\ Sound(p, PutTask(p, pc)) /\ LockStep(p, PutTask(p, pc))
           /\ PutTask(p, pc) \in Tasks /\ PutTask(p, pc).pc = pc
           /\ PutTask(p, pc).time = proc[p].time /\ PutTask(p, pc).fd = proc[p].fd
           /\ PutTask(p, pc).kernel = proc[p].kernel
<1> DEFINE u == proc[p]
           ctr == IF UnlockFails(p) THEN u.ctr ELSE u.ctr - 1
           port == u.port /\ ~Unlocks(p)
           skip == u.skip /\ (~Unlocks(p) \/ UnlockFails(p))
           why == IF pc = "exit" THEN "none" ELSE u.why
           t == PutTask(p, pc)
<1>1. u \in Tasks /\ Sound(p, u) /\ (holder = p => u.port /\ kextd = "watching")
  BY TaskFacts
<1>2. Moves(p, t)
  BY DEF Put, Moves, PutTask
<1>3. /\ u.pc = "release" => ctr \in -1..1 /\ (why = "lock" /\ ctr > 0 => u.ctr > 1)
      /\ u.pc \in {"after", "close"} => ctr \in -2..1
  <2>1. Counted(u)
    BY <1>1 DEF Sound
  <2>2. /\ u.pc = "release" => u.ctr \in 0..2
        /\ u.pc = "after" => u.ctr \in -1..1
        /\ u.pc = "close" => u.ctr \in 0..1
    BY <2>1 DEF Counted
  <2>3. /\ \A n \in 0..2 : n - 1 \in -1..1 /\ (n - 1 > 0 => n > 1)
        /\ \A n \in -1..1 : n - 1 \in -2..1 /\ n \in -2..1
        /\ \A n \in 0..1 : n - 1 \in -2..1 /\ n \in -2..1
        /\ \A n \in 0..2 : n <= 1 => n \in -1..1
    OBVIOUS
  <2>4. CASE ~UnlockFails(p)
    BY <2>2, <2>3, <2>4
  <2>5. CASE UnlockFails(p)
    <3>1. u.ctr <= 1 /\ holder # p /\ ctr = u.ctr
      BY <2>5 DEF UnlockFails, Unlocks
    <3>2. u.pc = "release" /\ u.why = "lock" => ~(u.ctr > 0)
      BY <3>1 DEF IInv, ProcInv, LockKept, Critical
    <3>3. u.pc = "release" /\ why = "lock" => u.why = "lock"
      OBVIOUS
    <3> HIDE DEF ctr, why, u
    <3> QED
      BY <2>2, <2>3, <3>1, <3>2, <3>3
  <2> QED
    BY <2>4, <2>5
<1>4. ctr \in -2..2
  BY <1>3
<1>5. t = [u EXCEPT !.pc = pc, !.ctr = ctr, !.port = port, !.skip = skip, !.why = why]
  BY <1>1 DEF Tasks, PutTask
<1>6. port \in BOOLEAN /\ skip \in BOOLEAN /\ why \in Whys /\ pc \in PCs
  BY <1>1 DEF Tasks, PCs, Critical, Whys
<1> HIDE DEF ctr, port, skip, why, t
<1>7. /\ t \in Tasks /\ t.pc = pc /\ t.ctr = ctr /\ t.port = port /\ t.skip = skip /\ t.why = why
      /\ t.job = u.job /\ t.kernel = u.kernel /\ t.fd = u.fd /\ t.time = u.time
  BY <1>1, <1>4, <1>5, <1>6 DEF Tasks
<1>8. Sound(p, t)
  <2>1. Counted(t)
    <3>1. pc = "after" => ctr \in -1..1
      BY <1>3
    <3> QED
      BY <1>7, <3>1 DEF Counted, Critical
  <2>2. why = "inherited" => p[2] = "child"
    BY <1>1 DEF Sound, why
  <2> QED
    BY <1>1, <1>7, <2>1, <2>2 DEF Sound, Updating
<1>9. LockStep(p, t)
  <2>1. holder' = IF Unlocks(p) /\ holder = p THEN None ELSE holder
    BY DEF Put
  <2>2. p # None
    BY DEF Procs, None
  <2>3. holder' = p => holder = p /\ ~Unlocks(p) /\ t.port
    BY <1>1, <1>7, <2>1, <2>2 DEF port
  <2>4. ASSUME t.why = "lock", t.ctr > 0, pc = "after"
        PROVE  holder' = p
    <3>1. u.pc = "release" /\ u.why = "lock" /\ u.ctr > 1
      BY <1>3, <1>7, <2>4 DEF why
    <3>2. holder = p
      <4>1. u.ctr > 0
        BY <1>1, <3>1 DEF Tasks
      <4> QED
        BY <3>1, <4>1 DEF IInv, ProcInv, LockKept, Critical
    <3>3. ~(u.ctr <= 1)
      BY <1>1, <3>1 DEF Tasks
    <3> QED
      BY <2>1, <3>2, <3>3 DEF Unlocks
  <2>5. t.why = "inherited" => u.why = "inherited"
    BY <1>7 DEF why
  <2>6. t.why = "inherited" => proc[Parent(p)].why = "lock" /\ proc[Parent(p)].pc = "wait"
    BY <2>5 DEF IInv, ProcInv, LockKept
  <2>7. pc = "exit" => t.why = "none"
    BY <1>7 DEF why
  <2> QED
    BY <1>1, <1>7, <2>1, <2>3, <2>4, <2>6, <2>7 DEF LockStep, Critical
<1> QED
  BY <1>2, <1>7, <1>8, <1>9 DEF t, u

LEMMA ReleaseKeeps ==
    ASSUME IInv, NEW p \in Procs, ReleaseContext(p) \/ After(p)
    PROVE  IInv'
<1> DEFINE pc == IF proc[p].pc = "release" THEN "after" ELSE "exit"
           t == PutTask(p, pc)
<1>1. /\ proc[p].pc \in {"release", "after"}
      /\ UNCHANGED <<kextd, clock, sourceVars, plk, imk, cache, allowed, spent>>
  BY DEF ReleaseContext, After, fileVars
<1>2. Put(p, pc)
  BY <1>1 DEF ReleaseContext, After
<1>3. /\ Moves(p, t) /\ Sound(p, t) /\ LockStep(p, t) /\ t \in Tasks /\ t.pc = pc
      /\ t.time = proc[p].time /\ t.fd = proc[p].fd /\ t.kernel = proc[p].kernel
  BY <1>1, <1>2, PutKeeps
<1>4. /\ proc[p].pc \notin {"idle", "wait"} \cup Works /\ t.pc \notin {"idle", "wait"} \cup Works
  BY <1>1, <1>3 DEF Works
<1> HIDE DEF t
<1> QED
  BY <1>1, <1>3, <1>4, SilentMove, TaskFacts

(***************************************************************************)
(* doUpdateVolume()                                                        *)
(***************************************************************************)
LEMMA UpdateAllowListKeeps ==
    ASSUME IInv, NEW p \in Procs, UpdateAllowList(p)
    PROVE  IInv'
<1> DEFINE u == proc[p]
<1>1. PICK ok \in BOOLEAN : Moves(p, [u EXCEPT !.pc = "after", !.ok = ok])
  <2>1. CASE Go(p, "after")
    <3>1. u = [u EXCEPT !.ok = u.ok] /\ u.ok \in BOOLEAN
      BY TaskFacts DEF Tasks
    <3>2. [u EXCEPT !.pc = "after"] = [u EXCEPT !.pc = "after", !.ok = u.ok]
      BY TaskFacts DEF Tasks
    <3> QED
      BY <2>1, <3>1, <3>2 DEF Go, Moves
  <2>2. CASE Fail(p, "after")
    BY <2>2 DEF Fail, Moves
  <2> QED
    BY <2>1, <2>2 DEF UpdateAllowList
<1> DEFINE t == [u EXCEPT !.pc = "after", !.ok = ok]
<1>2. Follows(p, t) /\ t.pc = "after" /\ t.time = u.time /\ u.pc = "allow"
  <2>1. u \in Tasks /\ u.pc = "allow"
    BY TaskFacts DEF UpdateAllowList
  <2>2. t \in Tasks
    <3>1. "after" \in PCs
      BY DEF PCs, Critical, Takes
    <3> QED
      BY <2>1, <3>1 DEF Tasks
  <2> HIDE DEF u
  <2>3. /\ t.pc = "after" /\ t.time = u.time /\ t.job = u.job
        /\ t.kernel = u.kernel /\ t.fd = u.fd /\ t.ctr = u.ctr
        /\ t.why = u.why /\ t.port = u.port /\ t.skip = u.skip
    BY <2>1 DEF Tasks
  <2> QED
    BY <2>1, <2>2, <2>3 DEF Follows, u
<1>3. /\ UNCHANGED <<kextd, holder, clock, sourceVars, plk, imk, cache>>
      /\ Event \/ UNCHANGED spent
      /\ allowed' \in BOOLEAN
  BY TaskFacts DEF UpdateAllowList
<1> HIDE DEF t
<1>4. Sound(p, t)
  <2>1. Sound(p, u) /\ u.ctr \in 0..1
    BY <1>2, TaskFacts DEF Sound, Counted
  <2>2. t.ctr \in -1..1
    BY <1>2, <2>1 DEF Follows
  <2>3. Counted(t)
    BY <1>2, <2>2 DEF Counted, Critical
  <2> QED
    BY <1>2, <2>1, <2>3 DEF Sound, Follows, Updating
<1>5. LockStep(p, t)
  BY <1>2, <1>3, LockStays DEF Critical
<1>6. u.pc \notin {"idle", "wait"} \cup Works /\ t.pc \notin {"idle", "wait"} \cup Works
  BY <1>2 DEF Works
<1> QED
  BY <1>1, <1>2, <1>3, <1>4, <1>5, <1>6, SilentMove, TaskFacts DEF Follows, t

LEMMA LateMove ==
    ASSUME IInv, NEW p \in Procs, NEW t, Follows(p, t), Moves(p, t),
           proc[p].pc \in Late, t.pc \in Late, t.time <= clock + 1,
           UNCHANGED <<kextd, holder, clock, sourceVars, plk, imk, allowed>>,
           Event \/ UNCHANGED spent,
           cache' \in [{"fde", "loc"} -> [rev : Int, time : 0..(clock + 1)]]
    PROVE  /\ Typed' /\ ProcInv' /\ Timely' /\ PlkInv' /\ ImkInv'
           /\ spent'.kills = spent.kills
           /\ \A q \in Procs : proc'[q] = IF q = p THEN t ELSE proc[q]
<1>1. Sound(p, t) /\ LockStep(p, t)
  BY UpdateStep
<1>2. proc[p].pc \notin {"idle", "wait"} /\ t.pc \notin {"idle", "wait"} /\ t \in Tasks
  BY DEF Late, Follows
<1>3. /\ proc' \in [Procs -> Tasks] /\ holder' \in Procs \cup {None} /\ ProcInv'
      /\ \A q \in Procs : proc'[q] = IF q = p THEN t ELSE proc[q]
  BY <1>1, <1>2, MoveKeeps DEF IInv
<1>4. Typed'
  BY <1>3, TypedMove DEF IInv, Typed
<1>5. \A q \in Procs : {proc[q].pc, proc'[q].pc} \cap {"stamp", "rename", "utimes", "link", "personalize"} # {}
                       => proc'[q] = proc[q]
  BY <1>3 DEF Late
<1>6. PlkInv'
  BY <1>5, PlkFrame DEF IInv, sourceVars, Alike
<1>7. spent'.kills = spent.kills
  BY SpentKept DEF IInv
<1>8. ImkInv'
  BY <1>5, <1>7, ImkFrame DEF IInv
<1>9. t.fd <= Len(kernels) /\ t.kernel = proc[p].kernel
  BY TaskFacts DEF Follows
<1>10. Timely'
  BY <1>2, <1>3, <1>9, TimelyMove DEF IInv, Timely
<1> QED
  BY <1>3, <1>4, <1>6, <1>7, <1>8, <1>10

\* A step in which p goes on or fails, or notes the time n.
LEMMA LateSteps ==
    ASSUME IInv, NEW p \in Procs, proc[p].pc \in Late, NEW pc \in Late, NEW n \in Nat,
           \/ (Go(p, pc) \/ Fail(p, pc)) /\ n = proc[p].time
           \/ proc' = [proc EXCEPT ![p].pc = pc, ![p].time = n]
    PROVE  \E t : Follows(p, t) /\ Moves(p, t) /\ t.pc = pc /\ t.time = n
<1> DEFINE u == proc[p]
<1>1. u \in Tasks /\ pc \in PCs
  BY TaskFacts DEF Late, PCs, Critical
<1>2. CASE Go(p, pc) /\ n = u.time
  <2> DEFINE t == [u EXCEPT !.pc = pc]
  <2>1. Moves(p, t)
    BY <1>2 DEF Go, Moves
  <2>2. Follows(p, t) /\ t.pc = pc /\ t.time = n
    BY <1>1, <1>2 DEF Tasks, Follows
  <2> QED
    BY <2>1, <2>2
<1>3. CASE Fail(p, pc) /\ n = u.time
  <2> DEFINE t == [u EXCEPT !.pc = pc, !.ok = FALSE]
  <2>1. proc' = [proc EXCEPT ![p] = t]
    BY <1>3 DEF Fail, IInv, Typed
  <2>2. Follows(p, t) /\ t.pc = pc /\ t.time = n
    BY <1>1, <1>3 DEF Tasks, Follows
  <2> QED
    BY <2>1, <2>2 DEF Moves
<1>4. CASE proc' = [proc EXCEPT ![p].pc = pc, ![p].time = n]
  <2> DEFINE t == [u EXCEPT !.pc = pc, !.time = n]
  <2>1. proc' = [proc EXCEPT ![p] = t]
    BY <1>4 DEF IInv, Typed
  <2>2. Follows(p, t) /\ t.pc = pc /\ t.time = n
    BY <1>1 DEF Tasks, Follows
  <2> QED
    BY <2>1, <2>2 DEF Moves
<1> QED
  BY <1>2, <1>3, <1>4

\* Neither CheckFDE nor WriteFDE touches the resources.
LEMMA FDEKeeps ==
    ASSUME IInv, NEW p \in Procs, CheckFDE(p) \/ WriteFDE(p)
    PROVE  IInv'
<1> DEFINE u == proc[p]
<1>1. u.time \in 0..(clock + 1) /\ source["fde"].time \in 0..(clock + 1) /\ u.pc \in {"fde", "fde write"}
  <2>1. u \in Tasks /\ u.time <= clock + 1 /\ clock \in Nat
    BY TaskFacts
  <2>2. source["fde"].time \in 0..clock
    BY DEF IInv, Typed
  <2>3. u.time \in 0..(clock + 1)
    <3>1. u.time \in Nat
      BY <2>1 DEF Tasks
    <3> QED
      BY <2>1, <3>1
  <2>4. source["fde"].time \in 0..(clock + 1)
    BY <2>1, <2>2
  <2> QED
    BY <2>3, <2>4 DEF CheckFDE, WriteFDE
<1>2. /\ UNCHANGED <<kextd, holder, clock, sourceVars, plk, imk, allowed>>
      /\ Event \/ UNCHANGED spent
  BY DEF CheckFDE, WriteFDE
<1>3. /\ cache' \in [{"fde", "loc"} -> [rev : Int, time : 0..(clock + 1)]]
      /\ cache'["loc"] = cache["loc"]
  <2>1. /\ cache \in [{"fde", "loc"} -> [rev : Int, time : 0..(clock + 1)]]
        /\ \/ cache' = cache \/ cache' = [cache EXCEPT !["fde"] = NoCache]
           \/ cache' = [cache EXCEPT !["fde"] = [rev |-> 0, time |-> u.time]]
    BY TaskFacts DEF CheckFDE, WriteFDE
  <2>2. NoCache \in [rev : Int, time : 0..(clock + 1)]
    BY TaskFacts DEF NoCache
  <2>3. [rev |-> 0, time |-> u.time] \in [rev : Int, time : 0..(clock + 1)]
    <3> DEFINE times == 0..(clock + 1)
    <3>1. u.time \in times
      BY <1>1
    <3> HIDE DEF times
    <3>2. [rev |-> 0, time |-> u.time] \in [rev : Int, time : times]
      BY <3>1
    <3> QED
      BY <3>2 DEF times
  <2> QED
    BY <2>1, <2>2, <2>3
<1>4. PICK pc, n :
         /\ pc \in {"loc", "fde write", "release"} /\ n \in {u.time, source["fde"].time}
         /\ \/ (Go(p, pc) \/ Fail(p, pc)) /\ n = proc[p].time
            \/ proc' = [proc EXCEPT ![p].pc = pc, ![p].time = n]
  BY DEF CheckFDE, WriteFDE
<1>5. u.pc \in Late /\ pc \in Late
  BY <1>1, <1>4 DEF Late
<1>6. n \in Nat /\ n <= clock + 1
  <2>1. clock \in Nat /\ n \in 0..(clock + 1)
    BY <1>1, <1>4, TaskFacts
  <2> QED
    BY <2>1
<1>7. PICK t : Follows(p, t) /\ Moves(p, t) /\ t.pc = pc /\ t.time = n
  <2>1. proc[p].pc \in Late /\ pc \in Late /\ n \in Nat
    BY <1>5, <1>6
  <2>2. \/ (Go(p, pc) \/ Fail(p, pc)) /\ n = proc[p].time
        \/ proc' = [proc EXCEPT ![p].pc = pc, ![p].time = n]
    BY <1>4
  <2>3. \E t : Follows(p, t) /\ Moves(p, t) /\ t.pc = pc /\ t.time = n
    BY <2>1, <2>2, LateSteps
  <2> QED
    BY <2>3
<1>9. /\ Typed' /\ ProcInv' /\ Timely' /\ PlkInv' /\ ImkInv' /\ spent'.kills = spent.kills
      /\ \A q \in Procs : proc'[q] = IF q = p THEN t ELSE proc[q]
  BY <1>2, <1>3, <1>5, <1>6, <1>7, LateMove
<1>10. \A q \in Procs : {proc[q].pc, proc'[q].pc} \cap {"loc write", "loc stamp"} # {} =>
                           proc'[q].pc = proc[q].pc /\ proc'[q].time = proc[q].time
  BY <1>1, <1>4, <1>7, <1>9
<1>11. LocInv'
  BY <1>2, <1>3, <1>9, <1>10, LocFrame DEF IInv, sourceVars
<1> QED
  BY <1>9, <1>11 DEF IInv

LEMMA LocTimes ==
    ASSUME IInv
    PROVE  /\ LocTime \in Nat /\ LocTime > 0 /\ LocTime <= clock + 1
           /\ cache["loc"] \in [rev : Int, time : 0..(clock + 1)] /\ source["loc"].rev \in Nat
           /\ clock \in Nat
<1>1. clock \in Nat /\ source["loc"].time \in 0..clock /\ source["loc"].rev \in Nat
  BY TaskFacts DEF IInv, Typed
<1>2. cache["loc"] \in [rev : Int, time : 0..(clock + 1)]
  BY DEF IInv, Typed
<1> QED
  BY <1>1, <1>2 DEF LocTime

LEMMA LocKeeps ==
    ASSUME IInv, NEW p \in Procs, CheckLoc(p) \/ WriteLoc(p) \/ StampLoc(p)
    PROVE  IInv'
<1> DEFINE u == proc[p]
           times == 0..(clock + 1)
<1>1. /\ clock \in Nat /\ u.time \in times /\ LocTime \in times /\ LocTime > 0 /\ LocTime \in Nat
      /\ clock \in times /\ 0 \in times /\ source["loc"].rev \in Int
  <2>1. u \in Tasks /\ u.time <= clock + 1
    BY TaskFacts
  <2>2. u.time \in Nat
    BY <2>1 DEF Tasks
  <2> QED
    BY <2>1, <2>2, LocTimes
<1>2. /\ u.pc \in {"loc", "loc write", "loc stamp"}
      /\ UNCHANGED <<kextd, holder, clock, sourceVars, plk, imk, allowed>>
      /\ Event \/ UNCHANGED spent
  BY DEF CheckLoc, WriteLoc, StampLoc
<1>3. cache' \in [{"fde", "loc"} -> [rev : Int, time : 0..(clock + 1)]]
  <2>1. cache \in [{"fde", "loc"} -> [rev : Int, time : times]]
    BY TaskFacts
  <2> HIDE DEF times
  <2>2. \/ cache' = cache \/ cache' = [cache EXCEPT !["loc"].time = u.time]
        \/ \E rev \in Int, n \in times : cache' = [cache EXCEPT !["loc"] = [rev |-> rev, time |-> n]]
    <3>0. -1 \in Int /\ clock \in times /\ 0 \in times /\ source["loc"].rev \in Int
      BY <1>1
    <3>1. CASE CheckLoc(p)
      BY <3>0, <3>1 DEF CheckLoc
    <3>2. CASE WriteLoc(p)
      <4>1. \/ cache' = [cache EXCEPT !["loc"] = [rev |-> source["loc"].rev, time |-> clock]]
            \/ cache' = [cache EXCEPT !["loc"] = [rev |-> -1, time |-> 0]]
        BY <3>2 DEF WriteLoc, NoCache
      <4> QED
        BY <3>0, <4>1
    <3>3. CASE StampLoc(p)
      BY <1>1, <3>3 DEF StampLoc, LocStamp
    <3> QED
      BY <3>1, <3>2, <3>3
  <2>3. cache' \in [{"fde", "loc"} -> [rev : Int, time : times]]
    BY <1>1, <2>1, <2>2
  <2> QED
    BY <2>3 DEF times
<1>4. PICK pc, n :
         /\ pc \in {"loc write", "loc stamp", "release"} /\ n \in {u.time, LocTime}
         /\ \/ (Go(p, pc) \/ Fail(p, pc)) /\ n = proc[p].time
            \/ proc' = [proc EXCEPT ![p].pc = pc, ![p].time = n]
  BY DEF CheckLoc, WriteLoc, StampLoc
<1>5. proc[p].pc \in Late /\ pc \in Late /\ n \in Nat /\ n <= clock + 1
  <2>1. u.pc \in Late /\ pc \in Late
    BY <1>2, <1>4 DEF Late
  <2>2. n \in times
    BY <1>1, <1>4
  <2> QED
    BY <1>1, <2>1, <2>2
<1>6. PICK t : Follows(p, t) /\ Moves(p, t) /\ t.pc = pc /\ t.time = n
  <2>1. \/ (Go(p, pc) \/ Fail(p, pc)) /\ n = proc[p].time
        \/ proc' = [proc EXCEPT ![p].pc = pc, ![p].time = n]
    BY <1>4
  <2>2. \E t : Follows(p, t) /\ Moves(p, t) /\ t.pc = pc /\ t.time = n
    BY <1>5, <2>1, LateSteps
  <2> QED
    BY <2>2
<1>7. /\ Typed' /\ ProcInv' /\ Timely' /\ PlkInv' /\ ImkInv' /\ spent'.kills = spent.kills
      /\ \A q \in Procs : proc'[q] = IF q = p THEN t ELSE proc[q]
  BY <1>2, <1>3, <1>5, <1>6, LateMove
<1> DEFINE loc == cache["loc"]
           rev == source["loc"].rev
<1>8. /\ proc'[p].pc = pc /\ proc'[p].time = n
      /\ UNCHANGED <<source, LocTime>>
      /\ \A q \in Procs \ {p} : proc'[q] = proc[q]
  BY <1>2, <1>6, <1>7 DEF sourceVars, LocTime
<1>a. proc \in [Procs -> Tasks] /\ u \in Tasks
  BY DEF IInv, Typed
<1>9. ASSUME NEW other, proc' = [proc EXCEPT ![p].pc = other]
      PROVE  pc = other /\ n = u.time
  <2>1. proc'[p] = [u EXCEPT !.pc = other]
    BY <1>a, <1>9
  <2>2. proc'[p].pc = other /\ proc'[p].time = u.time
    BY <1>a, <2>1 DEF Tasks
  <2> QED
    BY <1>8, <2>2
<1>10. SUFFICES ASSUME spent.kills = 0
                PROVE  /\ \A q \in Procs :
                             proc'[q].pc = "loc stamp" /\ proc'[q].time = LocTime =>
                                \/ loc'.rev = rev \/ loc' = NoCache
                                \/ \E r \in Procs : proc'[r].pc = "loc write"
                       /\ loc'.time = LocTime =>
                             \/ loc'.rev = rev
                             \/ \E q \in Procs : proc'[q].pc \in {"loc write", "loc stamp"}
                       /\ \A q \in Procs : proc'[q].pc \in {"loc write", "loc stamp"} => proc'[q].time <= LocTime
  BY <1>7, <1>8 DEF IInv, LocInv
<1>11. /\ \A q \in Procs :
             proc[q].pc = "loc stamp" /\ proc[q].time = LocTime =>
                \/ loc.rev = rev \/ loc = NoCache
                \/ \E r \in Procs : proc[r].pc = "loc write"
       /\ loc.time = LocTime =>
             \/ loc.rev = rev
             \/ \E q \in Procs : proc[q].pc \in {"loc write", "loc stamp"}
       /\ \A q \in Procs : proc[q].pc \in {"loc write", "loc stamp"} => proc[q].time <= LocTime
  BY <1>10 DEF IInv, LocInv
<1>12. NoCache.time # LocTime
  BY <1>1 DEF NoCache
<1>13. cache \in [{"fde", "loc"} -> [rev : Int, time : 0..(clock + 1)]]
  BY TaskFacts
<1>14. CASE CheckLoc(p) /\ pc = "release" /\ UNCHANGED cache
  <2>1. u.pc = "loc"
    BY <1>14 DEF CheckLoc
  <2> QED
    BY <1>8, <1>11, <1>14, <2>1
<1>15. CASE CheckLoc(p) /\ proc' = [proc EXCEPT ![p].pc = "loc write", ![p].time = LocTime]
  <2>1. proc'[p].pc = "loc write" /\ proc'[p].time = LocTime
    <3>1. proc' = [proc EXCEPT ![p] = [u EXCEPT !.pc = "loc write", !.time = LocTime]]
      BY <1>15, <1>a
    <3>2. proc'[p] = [u EXCEPT !.pc = "loc write", !.time = LocTime]
      BY <1>a, <3>1
    <3> QED
      BY <1>a, <3>2 DEF Tasks
  <2>2. LocTime <= LocTime
    BY <1>1
  <2> QED
    BY <1>8, <1>11, <2>1, <2>2
<1>16. CASE WriteLoc(p) /\ loc'.rev = rev
  <2>1. n = u.time /\ u.pc = "loc write"
    <3>1. u.pc = "loc write" /\ \E other : proc' = [proc EXCEPT ![p].pc = other]
      BY <1>16 DEF WriteLoc, Go
    <3> QED
      BY <1>9, <3>1
  <2>2. n <= LocTime
    BY <1>11, <2>1
  <2> QED
    BY <1>8, <1>11, <1>16, <2>2
<1>17. CASE WriteLoc(p) /\ loc' = NoCache
  <2>1. n = u.time /\ u.pc = "loc write"
    <3>1. u.pc = "loc write" /\ \E other : proc' = [proc EXCEPT ![p].pc = other]
      BY <1>17 DEF WriteLoc, Go
    <3> QED
      BY <1>9, <3>1
  <2>2. n <= LocTime
    BY <1>11, <2>1
  <2> QED
    BY <1>8, <1>11, <1>12, <1>17, <2>2
<1>18. CASE StampLoc(p)
  <2>1. u.pc = "loc stamp" /\ proc' = [proc EXCEPT ![p].pc = "release"]
    BY <1>18 DEF StampLoc, Go
  <2>2. proc'[p].pc = "release"
    BY <1>8, <1>9, <2>1
  <2>3. \A q \in Procs : proc'[q].pc \in {"loc write", "loc stamp"} =>
                            q # p /\ proc'[q] = proc[q]
    BY <1>8, <2>2
  <2>4. \A q \in Procs : proc[q].pc = "loc write" => proc'[q].pc = "loc write"
    BY <1>8, <2>1
  <2>5. CASE loc = NoCache
    <3>1. loc' = NoCache
      BY <1>18, <2>5 DEF StampLoc
    <3> QED
      BY <1>11, <1>12, <2>3, <3>1
  <2>6. CASE loc # NoCache
    <3>1. loc'.rev = loc.rev /\ loc'.time = u.time
      BY <1>13, <1>18, <2>6 DEF StampLoc, LocStamp
    <3>2. u.time = LocTime => loc.rev = rev \/ \E r \in Procs : proc[r].pc = "loc write"
      BY <1>11, <2>1, <2>6
    <3> QED
      BY <1>11, <2>3, <2>4, <2>6, <3>1, <3>2
  <2> QED
    BY <2>5, <2>6
<1> QED
  <2>1. CASE CheckLoc(p)
    <3>1. \/ proc' = [proc EXCEPT ![p].pc = "release"] /\ UNCHANGED cache
          \/ proc' = [proc EXCEPT ![p].pc = "loc write", ![p].time = LocTime]
      BY <2>1 DEF CheckLoc, Go
    <3>2. proc' = [proc EXCEPT ![p].pc = "release"] => pc = "release"
      BY <1>9
    <3> QED
      BY <1>14, <1>15, <2>1, <3>1, <3>2
  <2>2. CASE WriteLoc(p)
    <3>1. loc'.rev = rev \/ loc' = NoCache
      <4>1. \/ cache' = [cache EXCEPT !["loc"] = [rev |-> rev, time |-> clock]]
            \/ cache' = [cache EXCEPT !["loc"] = NoCache]
        BY <2>2 DEF WriteLoc
      <4> QED
        BY <1>13, <4>1
    <3> QED
      BY <1>16, <1>17, <2>2, <3>1
  <2> QED
    BY <1>18, <2>1, <2>2

(***************************************************************************)
(* Processes that begin and end.                                           *)
(***************************************************************************)
LEMMA FreshFacts ==
    ASSUME IInv, NEW p \in Procs, NEW job \in Jobs, NEW skip \in BOOLEAN,
           p[2] = "child" => job.mode = "build"
    PROVE  /\ Fresh(job, skip) \in Tasks /\ Sound(p, Fresh(job, skip))
           /\ Fresh(job, skip).pc \in {"take main", "read", "load", "exit"}
           /\ Fresh(job, skip).why = "none" /\ Fresh(job, skip).time = 0
           /\ Fresh(job, skip).fd = 0 /\ Fresh(job, skip).kernel.time <= clock
<1> DEFINE t == Fresh(job, skip)
<1>1. Kernel \in Kernels /\ Kernel.time <= clock
  BY KernelFacts DEF IInv, Timely, Kernel
<1>2. /\ First(job) \in {"take main", "read", "load", "exit"}
      /\ First(job) = "take main" => job.mode \in {"update", "allowlist"}
  BY DEF First, Jobs, Modes
<1>3. /\ t.pc = First(job) /\ t.job = job /\ t.skip = skip /\ t.kernel = Kernel /\ t.ctr = 0
      /\ t.why = "none" /\ t.time = 0 /\ t.fd = 0
  BY DEF Fresh, Idle
<1>4. t \in Tasks
  <2>1. NoImage \in Images
    BY DEF NoImage, Images, Contents, None
  <2>2. First(job) \in PCs
    BY <1>2 DEF PCs, Takes
  <2>3. 0 \in -2..2 /\ 0 \in Nat
    OBVIOUS
  <2>4. Idle \in Tasks
    BY <2>1, <2>3 DEF Idle, Tasks, PCs, Whys
  <2> QED
    BY <1>1, <2>2, <2>4 DEF Tasks, Fresh
<1>5. Sound(p, t)
  <2>1. Counted(t)
    BY <1>2, <1>3 DEF Counted
  <2> QED
    BY <1>1, <1>2, <1>3, <2>1 DEF Sound, Updating
<1> QED
  BY <1>1, <1>2, <1>3, <1>4, <1>5

LEMMA IdleFacts ==
    ASSUME IInv, NEW p \in Procs, proc[p].pc = "idle"
    PROVE  proc[p] = Idle /\ holder # p
<1>1. proc[p] = Idle
  BY TaskFacts DEF Sound
<1>2. holder # p
  BY <1>1, TaskFacts DEF Idle
<1> QED
  BY <1>1, <1>2

LEMMA BeginKeeps ==
    ASSUME IInv, NEW p \in Procs, NEW c \in Given[p[1]], Begin(p, c)
    PROVE  IInv'
<1> DEFINE t == Fresh(Job(c), FALSE)
<1>1. /\ UNCHANGED <<kextd, holder, clock, sourceVars, plk, imk, cache, allowed>>
      /\ proc' = [proc EXCEPT ![p] = t] /\ spent' = [spent EXCEPT !.starts = @ + 1]
      /\ spent.starts < MaxStarts
      /\ p[2] = "tool" /\ proc[p].pc = "idle" /\ proc[Child(p)].pc = "idle"
  BY FamilyFacts DEF Begin, fileVars
<1>2. /\ t \in Tasks /\ Sound(p, t) /\ t.pc \in {"take main", "read", "load", "exit"}
      /\ t.why = "none" /\ t.time = 0 /\ t.fd = 0 /\ t.kernel.time <= clock
  <2>1. c \in Commands
    BY FamilyFacts, KextcacheAssumption
  <2> QED
    BY <1>1, <2>1, JobType, FreshFacts
<1> HIDE DEF t
<1>3. proc' \in [Procs -> Tasks] /\ \A q \in Procs : proc'[q] = IF q = p THEN t ELSE proc[q]
  BY <1>1, <1>2 DEF IInv, Typed
<1>4. spent' \in [starts : 0..MaxStarts, events : 0..MaxEvents, kills : Nat]
      /\ spent'.events = spent.events /\ spent'.kills = spent.kills
  <2>1. spent \in [starts : 0..MaxStarts, events : 0..MaxEvents, kills : Nat]
    BY DEF IInv, Typed
  <2>2. spent.starts + 1 \in 0..MaxStarts
    BY <1>1, <2>1, KextcacheAssumption
  <2> QED
    BY <1>1, <2>1, <2>2
<1>5. Typed'
  BY <1>1, <1>3, <1>4 DEF IInv, Typed, sourceVars
<1>6. ProcInv'
  <2>1. \A q \in Procs : Sound(q, proc[q])'
    <3> SUFFICES ASSUME NEW q \in Procs
                 PROVE  Sound(q, proc'[q])
      BY DEF Sound
    <3> QED
      BY <1>2, <1>3 DEF IInv, ProcInv
  <2>2. Families'
    <3> SUFFICES ASSUME NEW q \in Procs
                 PROVE  /\ q[2] = "child" /\ proc'[q].pc # "idle" => proc'[Parent(q)].pc \in {"wait", "idle"}
                        /\ proc'[q].pc = "wait" => proc'[Child(q)].pc # "idle"
      BY DEF Families
    <3>1. /\ q[2] = "child" /\ proc[q].pc # "idle" => proc[Parent(q)].pc \in {"wait", "idle"}
          /\ proc[q].pc = "wait" => proc[Child(q)].pc # "idle"
      BY DEF IInv, ProcInv, Families
    <3>2. Parent(q) \in Procs /\ Child(q) \in Procs /\ Child(q) # p
          /\ (q[2] = "child" /\ Parent(q) = p => q = Child(p) /\ q # p)
      BY <1>1, FamilyFacts
    <3> QED
      BY <1>1, <1>2, <1>3, <3>1, <3>2
  <2>3. LockKept'
    <3>1. holder' # None => kextd' = "watching" /\ proc'[holder'].port
      <4>1. holder # p
        BY <1>1, IdleFacts
      <4> QED
        BY <1>1, <1>3, <4>1 DEF IInv, ProcInv, LockKept, Typed
    <3>2. ASSUME NEW q \in Procs
          PROVE  /\ /\ proc'[q].why = "lock" /\ proc'[q].ctr > 0
                    /\ proc'[q].pc \in Critical \cup {"take context"}
                    => holder' = q
                 /\ proc'[q].why = "inherited" =>
                       proc'[Parent(q)].why = "lock" /\ proc'[Parent(q)].pc = "wait"
      <4>1. Parent(q) \in Procs
        BY FamilyFacts
      <4> QED
        BY <1>1, <1>2, <1>3, <4>1 DEF IInv, ProcInv, LockKept
    <3> QED
      BY <3>1, <3>2 DEF LockKept
  <2> QED
    BY <2>1, <2>2, <2>3 DEF ProcInv
<1>7. Timely'
  <2>1. t.time <= clock + 1 /\ t.fd <= Len(kernels)
    <3>1. clock \in Nat /\ Len(kernels) \in Nat
      BY TaskFacts, KernelFacts DEF IInv
    <3>2. t.time = 0 /\ t.fd = 0
      BY <1>2
    <3> QED
      BY <3>1, <3>2
  <2> QED
    BY <1>1, <1>2, <1>3, <2>1 DEF IInv, Timely, sourceVars
<1>8. \A q \in Procs : {proc[q].pc, proc'[q].pc} \cap Works # {} => proc'[q] = proc[q]
  BY <1>1, <1>2, <1>3 DEF Works
<1>9. PlkInv'
  BY <1>1, <1>8, PlkFrame DEF IInv, Works, sourceVars, Alike
<1>10. ImkInv'
  BY <1>1, <1>4, <1>8, ImkFrame DEF IInv, Works
<1>11. LocInv'
  BY <1>1, <1>4, <1>8, LocFrame DEF IInv, Works, sourceVars
<1> QED
  BY <1>5, <1>6, <1>7, <1>9, <1>10, <1>11 DEF IInv

\* Check() goes on, or runs kextcache.
LEMMA CheckKeeps ==
    ASSUME IInv, NEW p \in Procs, Check(p)
    PROVE  IInv'
<1> DEFINE u == proc[p]
           c == Child(p)
           t == Fresh(Job(RebuildCommand(u.job)), u.skip)
           w == [u EXCEPT !.pc = "wait"]
<1>1. /\ UNCHANGED <<kextd, holder, clock, sourceVars, plk, imk, cache, allowed, spent>>
      /\ u.pc = "check" /\ u \in Tasks /\ Sound(p, u) /\ u.job \in Jobs
  BY TaskFacts DEF Check, fileVars
<1>2. CASE Go(p, "fde")
  <2>1. "fde" \in Late /\ u.pc \in Late /\ u.time \in Nat /\ u.time <= clock + 1
    BY <1>1, TaskFacts DEF Late, Tasks
  <2>2. \E r : Follows(p, r) /\ Moves(p, r) /\ r.pc = "fde" /\ r.time = u.time
    <3> DEFINE r == [u EXCEPT !.pc = "fde"]
    <3>1. Moves(p, r)
      BY <1>2 DEF Go, Moves
    <3>2. Follows(p, r) /\ r.pc = "fde" /\ r.time = u.time
      BY <1>1 DEF Tasks, Follows, PCs, Critical
    <3> QED
      BY <3>1, <3>2
  <2>3. PICK r : Follows(p, r) /\ Moves(p, r) /\ r.pc = "fde" /\ r.time = u.time
    BY <2>2
  <2>4. cache' \in [{"fde", "loc"} -> [rev : Int, time : 0..(clock + 1)]]
    BY <1>1, TaskFacts
  <2>5. /\ Typed' /\ ProcInv' /\ Timely' /\ PlkInv' /\ ImkInv' /\ spent'.kills = spent.kills
        /\ \A q \in Procs : proc'[q] = IF q = p THEN r ELSE proc[q]
    BY <1>1, <2>1, <2>3, <2>4, LateMove
  <2>6. \A q \in Procs : {proc[q].pc, proc'[q].pc} \cap {"loc write", "loc stamp"} # {} =>
                            proc'[q].pc = proc[q].pc /\ proc'[q].time = proc[q].time
    BY <1>1, <2>3, <2>5
  <2>7. LocInv'
    BY <1>1, <2>5, <2>6, LocFrame DEF IInv, sourceVars
  <2> QED
    BY <2>5, <2>7 DEF IInv
<1>3. CASE proc' = [proc EXCEPT ![p].pc = "wait", ![c] = t]
  <2>1. p[2] = "tool" /\ c \in Procs /\ c # p /\ c[2] = "child" /\ Parent(c) = p
    <3>1. u.job.mode # "build"
      BY <1>1 DEF Sound, Updating
    <3> QED
      BY <1>1, <3>1, FamilyFacts DEF Sound
  <2>2. proc[c].pc = "idle"
    BY <1>1, <2>1 DEF IInv, ProcInv, Families
  <2>3. /\ t \in Tasks /\ Sound(c, t) /\ t.pc \in {"take main", "read", "load", "exit"}
        /\ t.why = "none" /\ t.time = 0 /\ t.fd = 0 /\ t.kernel.time <= clock
    <3>1. Job(RebuildCommand(u.job)) \in Jobs /\ Job(RebuildCommand(u.job)).mode = "build"
      BY <1>1, RebuildJob
    <3>2. u.skip \in BOOLEAN
      BY <1>1 DEF Tasks
    <3> QED
      BY <2>1, <3>1, <3>2, FreshFacts
  <2>4. w \in Tasks /\ Follows(p, w) /\ w.pc = "wait" /\ w.time = u.time
    BY <1>1 DEF Tasks, PCs, Critical, Follows
  <2>5. proc' = [proc EXCEPT ![p] = w, ![c] = t]
    BY <1>3 DEF IInv, Typed
  <2> HIDE DEF t, w, c
  <2>6. /\ proc' \in [Procs -> Tasks]
        /\ \A q \in Procs : proc'[q] = IF q = c THEN t ELSE IF q = p THEN w ELSE proc[q]
    BY <2>1, <2>3, <2>4, <2>5 DEF IInv, Typed
  <2>7. Sound(p, w)
    <3>1. Counted(u)
      BY <1>1 DEF Sound
    <3>2. Counted(w)
      BY <1>1, <2>4, <3>1 DEF Counted, Follows, Critical
    <3> QED
      BY <1>1, <2>4, <3>2 DEF Sound, Follows, Updating
  <2>8. Typed'
    BY <1>1, <2>6 DEF IInv, Typed, sourceVars
  <2>9. ProcInv'
    <3>1. \A q \in Procs : Sound(q, proc[q])'
      <4> SUFFICES ASSUME NEW q \in Procs
                   PROVE  Sound(q, proc'[q])
        BY DEF Sound
      <4> QED
        BY <2>3, <2>6, <2>7 DEF IInv, ProcInv
    <3>2. Families'
      <4> SUFFICES ASSUME NEW q \in Procs
                   PROVE  /\ q[2] = "child" /\ proc'[q].pc # "idle" => proc'[Parent(q)].pc \in {"wait", "idle"}
                          /\ proc'[q].pc = "wait" => proc'[Child(q)].pc # "idle"
        BY DEF Families
      <4>1. /\ q[2] = "child" /\ proc[q].pc # "idle" => proc[Parent(q)].pc \in {"wait", "idle"}
            /\ proc[q].pc = "wait" => proc[Child(q)].pc # "idle"
        BY DEF IInv, ProcInv, Families
      <4>2. Parent(q) \in Procs /\ Child(q) \in Procs /\ Parent(q) # c
        BY <2>1, FamilyFacts
      <4>3. CASE q = c
        BY <2>1, <2>3, <2>4, <2>6, <4>2, <4>3
      <4>4. CASE q = p
        <5>1. Child(p) = c
          BY DEF c
        <5> QED
          BY <2>1, <2>3, <2>6, <4>4, <5>1
      <4>5. CASE q # c /\ q # p
        BY <2>3, <2>4, <2>6, <4>1, <4>2, <4>5
      <4> QED
        BY <4>3, <4>4, <4>5
    <3>3. LockKept'
      <4>1. holder' # None => kextd' = "watching" /\ proc'[holder'].port
        <5>1. holder # c /\ w.port = u.port
          BY <2>1, <2>2, <2>4, IdleFacts DEF Follows
        <5> QED
          BY <1>1, <2>6, <5>1 DEF IInv, ProcInv, LockKept, Typed
      <4>2. ASSUME NEW q \in Procs
            PROVE  /\ /\ proc'[q].why = "lock" /\ proc'[q].ctr > 0
                      /\ proc'[q].pc \in Critical \cup {"take context"}
                      => holder' = q
                   /\ proc'[q].why = "inherited" =>
                         proc'[Parent(q)].why = "lock" /\ proc'[Parent(q)].pc = "wait"
        <5>1. Parent(q) \in Procs /\ Parent(q) # c
          BY <2>1, FamilyFacts
        <5>2. /\ /\ proc[q].why = "lock" /\ proc[q].ctr > 0
                 /\ proc[q].pc \in Critical \cup {"take context"}
                 => holder = q
              /\ proc[q].why = "inherited" =>
                    proc[Parent(q)].why = "lock" /\ proc[Parent(q)].pc = "wait"
          BY DEF IInv, ProcInv, LockKept
        <5>3. w.why = u.why /\ w.ctr = u.ctr
          BY <2>4 DEF Follows
        <5>4. CASE q = c
          BY <2>1, <2>3, <2>6, <5>4
        <5>5. CASE q = p
          BY <1>1, <2>1, <2>4, <2>6, <5>1, <5>2, <5>3, <5>5 DEF Critical
        <5>6. CASE q # c /\ q # p
          BY <1>1, <2>4, <2>6, <5>1, <5>2, <5>3, <5>6
        <5> QED
          BY <5>4, <5>5, <5>6
      <4> QED
        BY <4>1, <4>2 DEF LockKept
    <3> QED
      BY <3>1, <3>2, <3>3 DEF ProcInv
  <2>10. Timely'
    <3>1. t.time <= clock + 1 /\ t.fd <= Len(kernels)
      <4>1. clock \in Nat /\ Len(kernels) \in Nat
        BY TaskFacts, KernelFacts DEF IInv
      <4>2. t.time = 0 /\ t.fd = 0
        BY <2>3
      <4> QED
        BY <4>1, <4>2
    <3>2. w.time = u.time /\ w.fd = u.fd /\ w.kernel = u.kernel
      BY <2>4 DEF Follows
    <3> QED
      BY <1>1, <2>3, <2>6, <3>1, <3>2 DEF IInv, Timely, sourceVars
  <2>11. \A q \in Procs : {proc[q].pc, proc'[q].pc} \cap Works # {} => proc'[q] = proc[q]
    BY <1>1, <2>2, <2>3, <2>4, <2>6 DEF Works
  <2>12. PlkInv'
    BY <1>1, <2>11, PlkFrame DEF IInv, Works, sourceVars, Alike
  <2>13. ImkInv'
    BY <1>1, <2>11, ImkFrame DEF IInv, Works
  <2>14. LocInv'
    BY <1>1, <2>11, LocFrame DEF IInv, Works, sourceVars
  <2> QED
    BY <2>8, <2>9, <2>10, <2>12, <2>13, <2>14 DEF IInv
<1> QED
  BY <1>2, <1>3 DEF Check

\* What becomes of q when p is gone.
Left(p, q, ok) ==
    IF q = p THEN Idle
    ELSE IF q = Parent(p) /\ proc[q].pc = "wait"
    THEN [proc[q] EXCEPT !.pc = IF ok THEN "fde" ELSE "release", !.ok = ok]
    ELSE IF q = Child(p)
    THEN [proc[q] EXCEPT !.why = IF @ = "inherited" THEN "lost" ELSE @]
    ELSE proc[q]

\* All that matters of it.
LeftBehind(p, q, t) ==
    /\ t \in Tasks /\ Sound(q, t)
    /\ q = p => t = Idle
    /\ q # p =>
          /\ t.job = proc[q].job /\ t.kernel = proc[q].kernel /\ t.fd = proc[q].fd
          /\ t.time = proc[q].time /\ t.ctr = proc[q].ctr /\ t.port = proc[q].port
          /\ \/ Alike(t, proc[q])
             \/ proc[q].pc = "wait" /\ t.pc \in {"fde", "release"} /\ q = Parent(p)
          /\ q = Parent(p) => t.pc # "wait"
          /\ q = Child(p) => t.why # "inherited"
          /\ q # Child(p) => t.why = proc[q].why
          /\ t.why # proc[q].why => t.why = "lost"
          /\ q # Parent(p) /\ q # Child(p) => t = proc[q]

LEMMA LeftFacts ==
    ASSUME IInv, NEW p \in Procs, NEW q \in Procs, NEW ok \in BOOLEAN
    PROVE  LeftBehind(p, q, Left(p, q, ok))
<1> DEFINE u == proc[q]
           t == Left(p, q, ok)
           pc == IF ok THEN "fde" ELSE "release"
           why == IF u.why = "inherited" THEN "lost" ELSE u.why
<1>1. u \in Tasks /\ Sound(q, u) /\ Counted(u)
  BY TaskFacts DEF Sound
<1>2. Parent(p) # Child(p)
  BY FamilyFacts
<1>3. CASE q = p
  <2>1. Idle \in Tasks /\ Sound(q, Idle)
    <3>1. NoImage \in Images
      BY DEF NoImage, Images, Contents, None
    <3>2. 0 \in -2..2 /\ 0 \in Nat
      OBVIOUS
    <3>3. Idle \in Tasks
      BY <3>1, <3>2 DEF Idle, Tasks, PCs, Whys
    <3> QED
      BY <3>3 DEF Idle, Sound, Counted, Updating, Critical
  <2> QED
    BY <1>3, <2>1 DEF Left, LeftBehind
<1>4. CASE q # p /\ q = Parent(p) /\ u.pc = "wait"
  <2>1. t = [u EXCEPT !.pc = pc, !.ok = ok]
    BY <1>4 DEF Left
  <2>2. pc \in {"fde", "release"}
    OBVIOUS
  <2> HIDE DEF pc, t
  <2>3. /\ t \in Tasks /\ t.pc = pc /\ t.job = u.job /\ t.kernel = u.kernel /\ t.fd = u.fd
        /\ t.time = u.time /\ t.ctr = u.ctr /\ t.port = u.port /\ t.why = u.why
    BY <1>1, <2>1, <2>2 DEF Tasks, PCs, Critical
  <2>4. Counted(t)
    BY <1>1, <1>4, <2>2, <2>3 DEF Counted, Critical
  <2>5. Sound(q, t)
    BY <1>1, <1>4, <2>2, <2>3, <2>4 DEF Sound, Updating
  <2> QED
    BY <1>2, <1>4, <2>2, <2>3, <2>5 DEF t, LeftBehind
<1>5. CASE q # p /\ ~(q = Parent(p) /\ u.pc = "wait") /\ q = Child(p)
  <2>1. t = [u EXCEPT !.why = why]
    BY <1>5 DEF Left
  <2>2. why \in Whys /\ (why # u.why => why = "lost") /\ why # "inherited"
    BY <1>1 DEF Tasks, Whys
  <2> HIDE DEF why, t
  <2>3. /\ t \in Tasks /\ t.pc = u.pc /\ t.job = u.job /\ t.kernel = u.kernel /\ t.fd = u.fd
        /\ t.time = u.time /\ t.ctr = u.ctr /\ t.port = u.port /\ t.why = why /\ t.skip = u.skip
        /\ Alike(t, u)
    BY <1>1, <2>1, <2>2 DEF Tasks, Alike
  <2>4. Counted(t)
    BY <1>1, <2>2, <2>3 DEF Counted
  <2>5. Sound(q, t)
    <3>1. u.pc = "idle" => t = u
      <4>1. u.pc = "idle" => u.why = "none"
        BY <1>1 DEF Sound, Idle
      <4>2. u.pc = "idle" => why = u.why
        BY <4>1 DEF why
      <4> QED
        BY <1>1, <2>1, <4>2 DEF Tasks
    <3>2. t.pc \in {"stamp", "rename"} => SafeImage(t.job.path, t.image)
      BY <1>1, <2>3 DEF Sound, Alike
    <3>3. t.pc \in {"idle", "take main", "take build", "read", "open", "load"} => t.why = "none"
      <4>1. u.pc \in {"idle", "take main", "take build", "read", "open", "load"} => u.why = "none"
        BY <1>1 DEF Sound
      <4>2. u.why = "none" => why = "none"
        BY DEF why
      <4> QED
        BY <2>3, <4>1, <4>2
    <3> QED
      BY <1>1, <2>2, <2>3, <2>4, <3>1, <3>2, <3>3 DEF Sound
  <2> QED
    BY <1>2, <1>5, <2>2, <2>3, <2>5 DEF t, LeftBehind
<1>6. CASE q # p /\ ~(q = Parent(p) /\ u.pc = "wait") /\ q # Child(p)
  <2>1. t = u
    BY <1>6 DEF Left
  <2> QED
    BY <1>1, <1>6, <2>1 DEF Alike, LeftBehind
<1> QED
  BY <1>3, <1>4, <1>5, <1>6

LEMMA GoneKeeps ==
    ASSUME IInv, NEW p \in Procs, \E ok \in BOOLEAN : Gone(p, ok), holder' = FreedBy(p),
           UNCHANGED <<kextd, clock, sourceVars, fileVars>>,
           spent' \in [starts : 0..MaxStarts, events : 0..MaxEvents, kills : Nat],
           spent.events <= spent'.events, spent'.kills <= spent'.events,
           spent'.kills = 0 => spent.kills = 0 /\ proc[p].pc = "exit"
    PROVE  IInv'
<1>1. /\ proc' \in [Procs -> Tasks]
      /\ \A q \in Procs : LeftBehind(p, q, proc'[q])
  <2>1. PICK ok \in BOOLEAN : Gone(p, ok)
    OBVIOUS
  <2>2. proc' = [q \in Procs |-> Left(p, q, ok)]
    BY <2>1 DEF Gone, Left
  <2>3. \A q \in Procs : LeftBehind(p, q, Left(p, q, ok))
    BY LeftFacts
  <2>4. \A q \in Procs : Left(p, q, ok) \in Tasks
    BY <2>3 DEF LeftBehind
  <2> QED
    BY <2>2, <2>3, <2>4
<1>2. holder' = IF holder = p THEN None ELSE holder
  BY DEF FreedBy
<1>3. Typed'
  <2>1. clock' \in 3..(3 + spent'.events)
    <3>1. clock \in 3..(3 + spent.events) /\ clock' = clock
      BY DEF IInv, Typed
    <3>2. spent.events \in Nat /\ spent'.events \in Nat
      BY KextcacheAssumption DEF IInv, Typed
    <3> QED
      BY <3>1, <3>2
  <2>2. holder' \in Procs \cup {None}
    BY <1>2 DEF IInv, Typed
  <2> QED
    BY <1>1, <2>1, <2>2 DEF IInv, Typed, sourceVars, fileVars
<1>4. \A q \in Procs : q # p /\ proc'[q].pc \notin {"fde", "release"} => Alike(proc'[q], proc[q])
  BY <1>1 DEF LeftBehind
<1>5. ProcInv'
  <2>1. \A q \in Procs : Sound(q, proc[q])'
    <3> SUFFICES ASSUME NEW q \in Procs
                 PROVE  Sound(q, proc'[q])
      BY DEF Sound
    <3> QED
      BY <1>1 DEF LeftBehind
  <2>2. Families'
    <3> SUFFICES ASSUME NEW q \in Procs
                 PROVE  /\ q[2] = "child" /\ proc'[q].pc # "idle" => proc'[Parent(q)].pc \in {"wait", "idle"}
                        /\ proc'[q].pc = "wait" => proc'[Child(q)].pc # "idle"
      BY DEF Families
    <3>1. /\ q[2] = "child" /\ proc[q].pc # "idle" => proc[Parent(q)].pc \in {"wait", "idle"}
          /\ proc[q].pc = "wait" => proc[Child(q)].pc # "idle"
      BY DEF IInv, ProcInv, Families
    <3>2. Parent(q) \in Procs /\ Child(q) \in Procs
      BY FamilyFacts
    <3>3. proc'[p].pc = "idle"
      BY <1>1 DEF LeftBehind, Idle
    <3>4. ASSUME q[2] = "child", proc'[q].pc # "idle"
          PROVE  proc'[Parent(q)].pc \in {"wait", "idle"}
      <4>1. q # p
        BY <3>3, <3>4
      <4>2. Parent(q) = p \/ Parent(q) # Parent(p)
        <5>1. Parent(q) = Parent(p) => p[2] = "tool"
          BY <3>4, <4>1, FamilyFacts
        <5> QED
          BY <5>1, FamilyFacts
      <4>3. q # Parent(p)
        BY <3>4, FamilyFacts
      <4>4. proc'[q].pc = proc[q].pc
        BY <1>1, <4>1, <4>3 DEF LeftBehind, Alike
      <4>5. Parent(q) # p => proc'[Parent(q)].pc = proc[Parent(q)].pc
        BY <1>1, <3>2, <4>2 DEF LeftBehind, Alike
      <4> QED
        BY <3>1, <3>3, <3>4, <4>4, <4>5
    <3>5. ASSUME proc'[q].pc = "wait"
          PROVE  proc'[Child(q)].pc # "idle"
      <4>1. q # p /\ q # Parent(p)
        BY <1>1, <3>3, <3>5 DEF LeftBehind
      <4>2. proc[q].pc = "wait"
        BY <1>1, <3>5, <4>1 DEF LeftBehind, Alike
      <4>3. Child(q) # p
        BY <4>1, FamilyFacts
      <4>4. proc'[Child(q)].pc = proc[Child(q)].pc \/ proc'[Child(q)].pc \in {"fde", "release"}
        BY <1>1, <3>2, <4>3 DEF LeftBehind, Alike
      <4> QED
        BY <3>1, <4>2, <4>4
    <3> QED
      BY <3>4, <3>5
  <2>3. LockKept'
    <3>1. holder' # None => kextd' = "watching" /\ proc'[holder'].port
      <4>1. holder' # None => holder \in Procs /\ holder # p /\ holder' = holder
        BY <1>2 DEF IInv, Typed
      <4>2. \A q \in Procs \ {p} : proc'[q].port = proc[q].port
        BY <1>1 DEF LeftBehind
      <4> QED
        BY <4>1, <4>2 DEF IInv, ProcInv, LockKept
    <3>2. ASSUME NEW q \in Procs
          PROVE  /\ /\ proc'[q].why = "lock" /\ proc'[q].ctr > 0
                    /\ proc'[q].pc \in Critical \cup {"take context"}
                    => holder' = q
                 /\ proc'[q].why = "inherited" =>
                       proc'[Parent(q)].why = "lock" /\ proc'[Parent(q)].pc = "wait"
      <4>1. /\ /\ proc[q].why = "lock" /\ proc[q].ctr > 0
               /\ proc[q].pc \in Critical \cup {"take context"}
               => holder = q
            /\ proc[q].why = "inherited" =>
                  proc[Parent(q)].why = "lock" /\ proc[Parent(q)].pc = "wait"
        BY DEF IInv, ProcInv, LockKept
      <4>2. CASE q = p
        <5>1. proc'[q] = Idle
          BY <1>1, <4>2 DEF LeftBehind
        <5> QED
          BY <5>1 DEF Idle
      <4>3. CASE q # p
        <5>1. ASSUME proc'[q].why = "lock", proc'[q].ctr > 0,
                     proc'[q].pc \in Critical \cup {"take context"}
              PROVE  holder' = q
          <6>1. proc[q].why = "lock" /\ proc[q].ctr > 0
            BY <1>1, <4>3, <5>1 DEF LeftBehind
          <6>2. proc[q].pc \in Critical \cup {"take context"}
            BY <1>1, <4>3, <5>1 DEF LeftBehind, Alike, Critical
          <6> QED
            BY <1>2, <4>1, <4>3, <6>1, <6>2
        <5>2. ASSUME proc'[q].why = "inherited"
              PROVE  proc'[Parent(q)].why = "lock" /\ proc'[Parent(q)].pc = "wait"
          <6>1. proc[q].why = "inherited" /\ q # Child(p)
            BY <1>1, <4>3, <5>2 DEF LeftBehind
          <6>2. q[2] = "child"
            BY <6>1, TaskFacts DEF Sound
          <6>3. Parent(q) \in Procs /\ Parent(q) # p /\ Parent(q) # Parent(p) /\ Parent(q) # Child(p)
            BY <4>3, <6>1, <6>2, FamilyFacts
          <6>4. proc'[Parent(q)] = proc[Parent(q)]
            BY <1>1, <6>3 DEF LeftBehind
          <6> QED
            BY <4>1, <6>1, <6>4
        <5> QED
          BY <5>1, <5>2
      <4> QED
        BY <4>2, <4>3
    <3> QED
      BY <3>1, <3>2 DEF LockKept
  <2> QED
    BY <2>1, <2>2, <2>3 DEF ProcInv
<1>6. Timely'
  <2>1. /\ \A i \in DOMAIN kernels : kernels[i].time <= clock
        /\ \A f \in Paths : plk[f].time <= clock + 1
        /\ \A q \in Procs : /\ proc[q].time <= clock + 1 /\ proc[q].fd <= Len(kernels)
                            /\ proc[q].pc # "idle" => proc[q].kernel.time <= clock
    BY DEF IInv, Timely
  <2>2. UNCHANGED <<clock, kernels, plk>>
    BY DEF sourceVars, fileVars
  <2>3. proc'[p].pc = "idle" /\ proc'[p].time <= clock + 1 /\ proc'[p].fd <= Len(kernels)
    <3>1. proc'[p] = Idle
      BY <1>1 DEF LeftBehind
    <3>2. clock \in Nat /\ Len(kernels) \in Nat
      BY TaskFacts, KernelFacts DEF IInv
    <3> QED
      BY <3>1, <3>2 DEF Idle
  <2>4. \A q \in Procs \ {p} : /\ proc'[q].time = proc[q].time /\ proc'[q].fd = proc[q].fd
                               /\ proc'[q].kernel = proc[q].kernel
                               /\ proc'[q].pc # "idle" => proc[q].pc # "idle"
    BY <1>1 DEF LeftBehind, Alike
  <2> QED
    BY <2>1, <2>2, <2>3, <2>4 DEF Timely
<1>7. PlkInv'
  <2>1. \A q \in Procs : proc'[q].pc \in {"stamp", "rename", "utimes"} => Alike(proc'[q], proc[q])
    BY <1>1, <1>4 DEF LeftBehind, Idle
  <2> QED
    BY <2>1, PlkFrame DEF IInv, sourceVars, fileVars
<1>8. ImkInv'
  <2>1. spent'.kills = 0 =>
           \A q \in Procs : proc[q].pc \in {"link", "personalize"} =>
              proc'[q].pc = proc[q].pc /\ proc'[q].job = proc[q].job
    BY <1>1 DEF LeftBehind, Alike
  <2> QED
    BY <2>1, ImkFrame DEF IInv, fileVars
<1>9. LocInv'
  <2>1. spent'.kills = 0 =>
           \A q \in Procs : {proc[q].pc, proc'[q].pc} \cap {"loc write", "loc stamp"} # {} =>
              proc'[q].pc = proc[q].pc /\ proc'[q].time = proc[q].time
    BY <1>1 DEF LeftBehind, Alike, Idle
  <2> QED
    BY <2>1, LocFrame DEF IInv, sourceVars, fileVars
<1> QED
  BY <1>3, <1>5, <1>6, <1>7, <1>8, <1>9 DEF IInv

LEMMA ExitKeeps ==
    ASSUME IInv, NEW p \in Procs, Exit(p)
    PROVE  IInv'
<1>1. proc[p].ok \in BOOLEAN
  BY TaskFacts DEF Tasks
<1>2. \E ok \in BOOLEAN : Gone(p, ok)
  BY <1>1 DEF Exit
<1>3. /\ spent' \in [starts : 0..MaxStarts, events : 0..MaxEvents, kills : Nat]
      /\ spent.events <= spent'.events /\ spent'.kills <= spent'.events /\ spent'.kills = spent.kills
  BY SpentKept DEF Exit, IInv
<1> QED
  BY <1>2, <1>3, GoneKeeps DEF Exit

LEMMA KillKeeps ==
    ASSUME IInv, NEW p \in Procs, Kill(p)
    PROVE  IInv'
<1>1. \E ok \in BOOLEAN : Gone(p, ok)
  BY DEF Kill
<1>2. /\ spent' \in [starts : 0..MaxStarts, events : 0..MaxEvents, kills : Nat]
      /\ spent.events <= spent'.events /\ spent'.kills <= spent'.events /\ spent'.kills # 0
  <2>1. /\ spent \in [starts : 0..MaxStarts, events : 0..MaxEvents, kills : Nat]
        /\ spent.kills <= spent.events
    BY DEF IInv, Typed
  <2>2. /\ spent' = [spent EXCEPT !.events = spent.events + 1, !.kills = spent.kills + 1]
        /\ spent.events < MaxEvents /\ MaxEvents \in Nat
    BY KextcacheAssumption DEF Kill
  <2>3. spent'.events = spent.events + 1 /\ spent'.kills = spent.kills + 1
    BY <2>1, <2>2
  <2>4. spent.events \in Nat /\ spent.kills \in Nat /\ spent.events + 1 \in 0..MaxEvents
    BY <2>1, <2>2
  <2>5. spent' \in [starts : 0..MaxStarts, events : 0..MaxEvents, kills : Nat]
    <3>1. spent.kills + 1 \in Nat
      BY <2>4
    <3> QED
      BY <2>1, <2>2, <2>4, <3>1
  <2> QED
    BY <2>1, <2>3, <2>4, <2>5
<1> QED
  BY <1>1, <1>2, GoneKeeps DEF Kill

(***************************************************************************)
(* The world.                                                              *)
(***************************************************************************)
LEMMA KextdKeeps ==
    ASSUME IInv, KextdReady \/ KextdChanges \/ ShutdownGivesUp
    PROVE  IInv'
<1>1. /\ UNCHANGED <<proc, holder, clock, sourceVars, fileVars>> /\ (Event \/ UNCHANGED spent)
      /\ kextd' \in {"starting", "unwatched", "watching", "closed"}
      /\ kextd # "watching" \/ holder = None
  BY DEF KextdReady, KextdChanges, ShutdownGivesUp
<1>2. /\ spent' \in [starts : 0..MaxStarts, events : 0..MaxEvents, kills : Nat]
      /\ spent'.kills = spent.kills /\ spent'.kills <= spent'.events /\ spent.events <= spent'.events
  BY <1>1, SpentKept DEF IInv
<1>3. clock' \in 3..(3 + spent'.events)
  <2>1. clock \in 3..(3 + spent.events) /\ clock' = clock
    BY <1>1 DEF IInv, Typed
  <2>2. spent.events \in Nat /\ spent'.events \in Nat
    BY <1>2, KextcacheAssumption DEF IInv, Typed
  <2> QED
    BY <1>2, <2>1, <2>2
<1>4. Typed'
  BY <1>1, <1>2, <1>3 DEF IInv, Typed, sourceVars, fileVars
<1>5. holder = None
  BY <1>1 DEF IInv, ProcInv, LockKept
<1>6. ProcInv'
  <2>1. LockKept'
    BY <1>1, <1>5 DEF IInv, ProcInv, LockKept
  <2>2. Families' /\ \A q \in Procs : Sound(q, proc[q])'
    BY <1>1 DEF IInv, ProcInv, Families, Sound
  <2> QED
    BY <2>1, <2>2 DEF ProcInv
<1>7. Timely'
  BY <1>1 DEF IInv, Timely, sourceVars, fileVars
<1>8. PlkInv'
  BY <1>1, PlkFrame DEF IInv, sourceVars, fileVars, Alike
<1>9. ImkInv'
  BY <1>1, <1>2, ImkFrame DEF IInv, fileVars
<1>10. LocInv'
  BY <1>1, <1>2, LocFrame DEF IInv, sourceVars, fileVars
<1> QED
  BY <1>4, <1>6, <1>7, <1>8, <1>9, <1>10 DEF IInv

LEMMA CrashKeeps ==
    ASSUME IInv, KextdCrashes
    PROVE  IInv'
<1> DEFINE L(q) == [proc[q] EXCEPT !.why = IF @ \in {"lock", "inherited"} THEN "lost" ELSE @]
<1>1. /\ UNCHANGED <<clock, sourceVars, fileVars>> /\ (Event \/ UNCHANGED spent)
      /\ kextd' = "down" /\ holder' = None /\ proc' = [q \in Procs |-> L(q)]
  BY DEF KextdCrashes
<1>2. ASSUME NEW q \in Procs
      PROVE  /\ L(q) \in Tasks /\ Alike(L(q), proc[q]) /\ L(q).why \notin {"lock", "inherited"}
             /\ Sound(q, L(q))
  <2> DEFINE u == proc[q]
             t == L(q)
             why == IF u.why \in {"lock", "inherited"} THEN "lost" ELSE u.why
  <2>1. u \in Tasks /\ Sound(q, u) /\ Counted(u)
    BY TaskFacts DEF Sound
  <2>2. why \in Whys /\ why \notin {"lock", "inherited"} /\ (u.why = "none" => why = "none")
    BY <2>1 DEF Tasks, Whys
  <2>3. t = [u EXCEPT !.why = why]
    OBVIOUS
  <2> HIDE DEF why, L
  <2>4. /\ t \in Tasks /\ Alike(t, u) /\ t.why = why /\ t.ctr = u.ctr /\ t.skip = u.skip
    BY <2>1, <2>2, <2>3 DEF Tasks, Alike
  <2>5. Counted(t)
    BY <2>1, <2>2, <2>4 DEF Counted, Alike
  <2>6. u.pc = "idle" => t = Idle
    <3>1. u.pc = "idle" => u = Idle /\ u.why = why
      BY <2>1, <2>2 DEF Sound, Idle
    <3> QED
      BY <2>1, <2>3, <3>1 DEF Tasks
  <2>7. t.pc \in {"stamp", "rename"} => SafeImage(t.job.path, t.image)
    BY <2>1, <2>4 DEF Sound, Alike
  <2>8. Sound(q, t)
    BY <2>1, <2>2, <2>4, <2>5, <2>6, <2>7 DEF Sound, Alike
  <2> QED
    BY <2>2, <2>4, <2>8
<1> HIDE DEF L
<1>3. proc' \in [Procs -> Tasks] /\ \A q \in Procs : proc'[q] = L(q)
  BY <1>1, <1>2
<1>4. /\ spent' \in [starts : 0..MaxStarts, events : 0..MaxEvents, kills : Nat]
      /\ spent'.kills = spent.kills /\ spent'.kills <= spent'.events /\ spent.events <= spent'.events
  BY <1>1, SpentKept DEF IInv
<1>5. clock' \in 3..(3 + spent'.events)
  <2>1. clock \in 3..(3 + spent.events) /\ clock' = clock
    BY <1>1 DEF IInv, Typed
  <2>2. spent.events \in Nat /\ spent'.events \in Nat
    BY <1>4, KextcacheAssumption DEF IInv, Typed
  <2> QED
    BY <1>4, <2>1, <2>2
<1>6. Typed'
  BY <1>1, <1>3, <1>4, <1>5 DEF IInv, Typed, sourceVars, fileVars
<1>7. ProcInv'
  <2>1. \A q \in Procs : Sound(q, proc[q])'
    <3> SUFFICES ASSUME NEW q \in Procs
                 PROVE  Sound(q, proc'[q])
      BY DEF Sound
    <3> QED
      BY <1>2, <1>3
  <2>2. \A q \in Procs : proc'[q].pc = proc[q].pc /\ proc'[q].why \notin {"lock", "inherited"}
    BY <1>2, <1>3 DEF Alike
  <2>3. Families'
    BY <2>2, FamilyFacts DEF IInv, ProcInv, Families
  <2>4. LockKept'
    BY <1>1, <2>2 DEF LockKept
  <2> QED
    BY <2>1, <2>3, <2>4 DEF ProcInv
<1>8. \A q \in Procs : Alike(proc'[q], proc[q])
  BY <1>2, <1>3
<1>9. Timely'
  BY <1>1, <1>8 DEF IInv, Timely, sourceVars, fileVars, Alike
<1>10. PlkInv'
  BY <1>1, <1>8, PlkFrame DEF IInv, sourceVars, fileVars
<1>11. ImkInv'
  BY <1>1, <1>4, <1>8, ImkFrame DEF IInv, fileVars, Alike
<1>12. LocInv'
  BY <1>1, <1>4, <1>8, LocFrame DEF IInv, sourceVars, fileVars, Alike
<1> QED
  BY <1>6, <1>7, <1>9, <1>10, <1>11, <1>12 DEF IInv

LEMMA ExceptKernel ==
    ASSUME NEW S, NEW s \in Seq(S), NEW e \in S, NEW i \in 1..Len(s)
    PROVE  /\ [s EXCEPT ![i] = e] \in Seq(S) /\ Len([s EXCEPT ![i] = e]) = Len(s)
           /\ [s EXCEPT ![i] = e][i] = e /\ DOMAIN [s EXCEPT ![i] = e] = 1..Len(s)
           /\ \A j \in 1..Len(s) : j # i => [s EXCEPT ![i] = e][j] = s[j]
  OBVIOUS

LEMMA ChangeKeeps ==
    ASSUME IInv, Change
    PROVE  IInv'
<1> DEFINE k == Kernel
           last == Len(kernels)
           new == [rev |-> k.rev + 1, time |-> clock + 1]
<1>1. /\ UNCHANGED <<proc, kextd, holder, plk, imk, cache, allowed>> /\ Event
      /\ clock' = clock + 1 /\ clock \in Nat
  <2>1. clock \in Nat
    BY KextcacheAssumption DEF IInv, Typed
  <2> QED
    BY <2>1 DEF Change, fileVars
<1>2. /\ last \in Nat \ {0} /\ DOMAIN kernels = 1..last /\ k \in Kernels /\ k = kernels[last]
      /\ \A i \in DOMAIN kernels : kernels[i] \in Kernels
      /\ kernels \in Seq(Kernels)
  BY KernelFacts DEF IInv, Typed, Kernel
<1>b. last \in Nat /\ last # 0 /\ DOMAIN kernels = 1..last
  BY <1>2
<1>3. new \in Kernels /\ new.time = clock + 1
  BY <1>1, <1>2 DEF Kernels
<1>4. /\ spent' \in [starts : 0..MaxStarts, events : 0..MaxEvents, kills : Nat]
      /\ spent'.kills = spent.kills /\ spent'.kills <= spent'.events
      /\ spent.events \in Nat /\ spent'.events = spent.events + 1
  <2>1. spent \in [starts : 0..MaxStarts, events : 0..MaxEvents, kills : Nat]
    BY DEF IInv, Typed
  <2>2. spent.events \in Nat
    BY <2>1, KextcacheAssumption
  <2>3. spent' = [spent EXCEPT !.events = spent.events + 1]
    BY <1>1 DEF Event
  <2>4. spent'.events = spent.events + 1
    BY <2>1, <2>3
  <2> QED
    BY <1>1, <2>2, <2>4, SpentKept DEF IInv
<1>5. /\ clock' \in 3..(3 + spent'.events) /\ clock' \in Nat
  <2>1. clock \in 3..(3 + spent.events)
    BY DEF IInv, Typed
  <2> QED
    BY <1>1, <1>4, <2>1
\* What is known of the kernels.
<1>6. /\ kernels' \in Seq(Kernels) /\ kernels' # <<>> /\ Len(kernels') \in Nat
      /\ last <= Len(kernels')
      /\ \A i \in 1..last : kernels'[i] = kernels[i] \/ kernels'[i].time = clock + 1
      /\ \A i \in DOMAIN kernels' : kernels'[i].time <= clock + 1
      /\ Kernel' = k \/ Kernel'.time = clock + 1
  <2>1. \A i \in DOMAIN kernels : kernels[i].time <= clock /\ kernels[i].time <= clock + 1
    <3>1. \A i \in DOMAIN kernels : kernels[i].time <= clock /\ kernels[i].time \in Nat
      BY <1>2 DEF IInv, Timely, Kernels
    <3> QED
      BY <1>1, <3>1
  <2>a. clock + 1 <= clock + 1
    BY <1>1
  <2>2. CASE kernels' = kernels
    <3>1. last <= last
      BY <1>2
    <3> QED
      BY <1>2, <2>1, <2>2, <3>1 DEF Kernel
  <2>3. CASE kernels' = Append(kernels, new)
    <3>1. /\ kernels' \in Seq(Kernels) /\ Len(kernels') = last + 1 /\ kernels'[last + 1] = new
          /\ \A i \in 1..last : kernels'[i] = kernels[i]
          /\ DOMAIN kernels' = 1..(last + 1)
      BY <1>2, <1>3, <2>3
    <3>2. Kernel' = new /\ last <= last + 1 /\ last + 1 \in Nat /\ kernels' # <<>>
      BY <1>2, <3>1 DEF Kernel
    <3>3. \A i \in DOMAIN kernels' : kernels'[i] = new \/ (i \in DOMAIN kernels /\ kernels'[i] = kernels[i])
      <4>1. \A i \in 1..(last + 1) : i = last + 1 \/ i \in 1..last
        BY <1>b
      <4> QED
        BY <1>b, <3>1, <4>1
    <3> QED
      BY <1>3, <2>1, <2>a, <3>1, <3>2, <3>3
  <2>4. CASE kernels' = [kernels EXCEPT ![last] = new]
    <3>1. /\ kernels' \in Seq(Kernels) /\ Len(kernels') = last /\ kernels'[last] = new
          /\ \A i \in 1..last : i # last => kernels'[i] = kernels[i]
          /\ DOMAIN kernels' = 1..last
      <4>1. last \in 1..last
        BY <1>b
      <4> QED
        <5>1. kernels \in Seq(Kernels) /\ new \in Kernels
          BY <1>2, <1>3
        <5> HIDE DEF new
        <5> QED
          BY <2>4, <4>1, <5>1, ExceptKernel
    <3>2. Kernel' = new /\ last <= last /\ kernels' # <<>>
      <4>1. Len(kernels') # 0
        BY <1>2, <3>1
      <4>2. kernels' # <<>>
        BY <4>1
      <4>3. Kernel' = new /\ last <= last
        <5>1. last <= last
          BY <1>b
        <5>2. kernels'[Len(kernels')] = new
          BY <3>1
        <5> QED
          BY <5>1, <5>2 DEF Kernel
      <4> QED
        BY <4>2, <4>3
    <3> QED
      BY <1>2, <1>3, <2>1, <2>a, <3>1, <3>2
  <2>5. \/ kernels' = kernels
        \/ kernels' \in {Append(kernels, [rev |-> k.rev + 1, time |-> clock']),
                         [kernels EXCEPT ![last] = [rev |-> k.rev + 1, time |-> clock']]}
    BY DEF Change
  <2> QED
    BY <1>1, <2>2, <2>3, <2>4, <2>5
<1>7. /\ folder' \in [kexts : Folders, time : 0..clock'] /\ (folder' = folder \/ folder'.time = clock + 1)
  <2>1. folder \in [kexts : Folders, time : 0..clock]
    BY DEF IInv, Typed
  <2>2. CASE folder' = folder
    <3>1. folder.time \in 0..clock'
      BY <1>1, <2>1
    <3> QED
      BY <2>1, <2>2, <3>1
  <2>3. CASE \E ks \in Folders : folder' = [kexts |-> ks, time |-> clock']
    <3>1. clock' \in 0..clock'
      BY <1>5
    <3> QED
      BY <1>1, <2>3, <3>1
  <2> QED
    BY <2>2, <2>3 DEF Change
<1>8. /\ source' \in [{"fde", "loc"} -> [rev : Nat, time : 0..clock']]
      /\ source'["loc"] = source["loc"] \/ source'["loc"].time = clock + 1
  <2>1. source \in [{"fde", "loc"} -> [rev : Nat, time : 0..clock]]
    BY DEF IInv, Typed
  <2>2. source \in [{"fde", "loc"} -> [rev : Nat, time : 0..clock']]
    <3>1. \A i \in 0..clock : i \in 0..clock'
      BY <1>1
    <3> QED
      BY <2>1, <3>1
  <2>3. CASE source' = source
    BY <2>2, <2>3
  <2>4. ASSUME NEW d \in {"fde", "loc"},
               source' = [source EXCEPT ![d] = [rev |-> source[d].rev + 1, time |-> clock']]
        PROVE  /\ source' \in [{"fde", "loc"} -> [rev : Nat, time : 0..clock']]
               /\ source'["loc"] = source["loc"] \/ source'["loc"].time = clock + 1
    <3>1. source[d].rev + 1 \in Nat /\ clock' \in 0..clock'
      BY <1>5, <2>1
    <3>2. [rev |-> source[d].rev + 1, time |-> clock'] \in [rev : Nat, time : 0..clock']
      BY <3>1
    <3> QED
      BY <1>1, <2>2, <2>4, <3>2
  <2> QED
    BY <2>3, <2>4 DEF Change
<1>9. Typed'
  <2>1. cache' \in [{"fde", "loc"} -> [rev : Int, time : 0..(clock' + 1)]]
    <3>1. \A i \in 0..(clock + 1) : i \in 0..(clock' + 1)
      BY <1>1
    <3> QED
      BY <1>1, <3>1 DEF IInv, Typed
  <2> QED
    BY <1>1, <1>4, <1>5, <1>6, <1>7, <1>8, <2>1 DEF IInv, Typed
<1>10. ProcInv'
  BY <1>1 DEF IInv, ProcInv, Families, Sound, LockKept
<1>11. Timely'
  <2>1. \A f \in Paths : plk[f].time \in Nat /\ plk[f].time <= clock + 1
    BY DEF IInv, Timely, Typed, PlkFiles
  <2>2. \A q \in Procs : /\ proc[q].time \in Nat /\ proc[q].time <= clock + 1
                         /\ proc[q].fd \in Nat /\ proc[q].fd <= last
    BY DEF IInv, Timely, Typed, Tasks
  <2>3. \A q \in Procs : proc[q].pc # "idle" => proc[q].kernel.time \in Nat /\ proc[q].kernel.time <= clock
    BY TaskFacts DEF IInv, Timely, Kernels
  <2>4. /\ \A f \in Paths : plk[f].time <= clock' + 1
        /\ \A q \in Procs : /\ proc[q].time <= clock' + 1
                            /\ proc[q].pc # "idle" => proc[q].kernel.time <= clock'
    BY <1>1, <2>1, <2>2, <2>3
  <2>5. \A q \in Procs : proc[q].fd <= Len(kernels')
    BY <1>2, <1>6, <2>2
  <2> QED
    BY <1>1, <1>6, <2>4, <2>5 DEF Timely
\* A folder or a kernel that has changed is newer than any file made of it.
<1>12. ASSUME NEW n, n \in Nat, n <= clock + 1, NEW image, Remembered(n, image)
       PROVE  ~image.raced =>
                 /\ folder'.time < n => image.kexts = Selected(folder'.kexts, image.job)
                 /\ Kernel'.time < n => image.kernel = Kernel'.rev
  <2>1. folder'.time < n => folder' = folder
    BY <1>1, <1>7, <1>12
  <2>2. Kernel'.time < n => Kernel' = k
    BY <1>1, <1>6, <1>12
  <2> QED
    BY <1>12, <2>1, <2>2 DEF Remembered
<1>13. PlkInv'
  <2>1. ASSUME NEW f \in Paths
        PROVE  /\ plk'[f].size = "full" => SafeImage(f, plk'[f].image)
               /\ plk'[f].stamp = "own" => plk'[f].size = "full" /\ Remembered(plk[f].time, plk[f].image)'
    <3>1. plk[f].time \in Nat /\ plk[f].time <= clock + 1
      BY DEF IInv, Timely, Typed, PlkFiles
    <3> QED
      BY <1>1, <1>12, <3>1 DEF IInv, PlkInv, Remembered
  <2>2. ASSUME NEW q \in Procs
        PROVE  Remembers(proc[q])'
    <3> DEFINE t == proc[q]
    <3>1. t \in Tasks /\ t.time \in Nat /\ t.time <= clock + 1 /\ t.fd \in Nat /\ t.fd <= last
      BY TaskFacts DEF Tasks
    <3>2. Remembers(t)
      BY DEF IInv, PlkInv
    <3>3. t.pc = "utimes" \/ (t.pc = "rename" /\ Dated(t.job)) => Remembered(t.time, t.image)'
      <4>1. ASSUME t.pc = "utimes" \/ (t.pc = "rename" /\ Dated(t.job))
            PROVE  Remembered(t.time, t.image)'
        <5>1. Remembered(t.time, t.image)
          BY <3>2, <4>1 DEF Remembers
        <5> QED
          BY <1>1, <1>12, <3>1, <5>1 DEF Remembered
      <4> QED
        BY <4>1
    <3>4. ASSUME t.pc = "stamp", kernels'[t.fd] = t.kernel
          PROVE  t.image.kernel = kernels'[t.fd].rev
      <4>1. t.fd # 0 /\ t.kernel.time <= clock /\ t.kernel \in Kernels
        BY <3>4, TaskFacts DEF Sound, IInv, Timely
      <4>2. t.fd \in 1..last
        BY <1>2, <3>1, <4>1
      <4>3. kernels'[t.fd].time # clock + 1
        <5>1. t.kernel.time \in Nat
          BY <4>1 DEF Kernels
        <5> QED
          BY <1>1, <3>4, <4>1, <5>1
      <4>4. kernels'[t.fd] = kernels[t.fd]
        BY <1>6, <4>2, <4>3
      <4> QED
        BY <3>2, <3>4, <4>4 DEF Remembers
    <3> QED
      BY <1>1, <3>2, <3>3, <3>4 DEF Remembers
  <2> QED
    BY <2>1, <2>2 DEF PlkInv
<1>14. ImkInv'
  BY <1>1, <1>4, ImkFrame DEF IInv
<1>15. LocInv'
  <2>1. CASE source'["loc"] = source["loc"]
    BY <1>1, <1>4, <2>1, LocFrame DEF IInv
  <2>2. CASE source'["loc"].time = clock + 1
    <3>1. LocTime' = clock + 2
      BY <1>1, <2>2 DEF LocTime
    <3>2. cache["loc"].time \in Nat /\ cache["loc"].time <= clock + 1
      <4>1. cache["loc"].time \in 0..(clock + 1)
        BY LocTimes
      <4> QED
        BY <1>1, <4>1
    <3>3. \A q \in Procs : proc[q].time \in Nat /\ proc[q].time <= clock + 1
      BY DEF IInv, Timely, Typed, Tasks
    <3>4. cache'["loc"].time # LocTime'
      BY <1>1, <3>1, <3>2
    <3>5. \A q \in Procs : proc'[q].time # LocTime' /\ proc'[q].time <= LocTime'
      BY <1>1, <3>1, <3>3
    <3> QED
      BY <3>4, <3>5 DEF LocInv
  <2> QED
    BY <1>8, <2>1, <2>2
<1> QED
  BY <1>9, <1>10, <1>11, <1>13, <1>14, <1>15 DEF IInv

(***************************************************************************)
(* createPrelinkedKernel(), compressPrelinkedKernel()                      *)
(***************************************************************************)

\* Of a step that works at the kernels, all but what it does to them.
LEMMA BuildMove ==
    ASSUME IInv, NEW p \in Procs, NEW t \in Tasks, Moves(p, t), Sound(p, t), LockStep(p, t),
           proc[p].pc \notin {"idle", "wait", "loc write", "loc stamp"},
           t.pc \notin {"idle", "wait", "loc write", "loc stamp"},
           UNCHANGED <<kextd, clock, sourceVars, cache, allowed>>, Event \/ UNCHANGED spent,
           plk' \in [Paths -> PlkFiles], \A f \in Paths : plk'[f].time <= clock + 1,
           imk' \in [Paths -> [now : ImkFiles, bak : ImkFiles]],
           t.time <= clock + 1, t.fd <= Len(kernels), t.kernel = proc[p].kernel
    PROVE  /\ Typed' /\ ProcInv' /\ Timely' /\ LocInv' /\ spent'.kills = spent.kills
           /\ \A q \in Procs : proc'[q] = IF q = p THEN t ELSE proc[q]
<1>1. /\ proc' \in [Procs -> Tasks] /\ holder' \in Procs \cup {None} /\ ProcInv'
      /\ \A q \in Procs : proc'[q] = IF q = p THEN t ELSE proc[q]
  BY MoveKeeps DEF IInv
<1>2. Typed'
  BY <1>1, TypedMove DEF IInv, Typed
<1>3. spent'.kills = spent.kills
  BY SpentKept DEF IInv
<1>4. \A q \in Procs : {proc[q].pc, proc'[q].pc} \cap {"loc write", "loc stamp"} # {} =>
                          proc'[q].pc = proc[q].pc /\ proc'[q].time = proc[q].time
  BY <1>1
<1>5. LocInv'
  BY <1>3, <1>4, LocFrame DEF IInv, sourceVars
<1>6. Timely'
  BY <1>1, TimelyMove DEF IInv, Timely
<1> QED
  BY <1>1, <1>2, <1>3, <1>5, <1>6

\* One prelinked kernel is replaced or given another time.
LEMMA PlkMove ==
    ASSUME IInv, NEW p \in Procs, \A q \in Procs \ {p} : proc'[q] = proc[q],
           UNCHANGED <<folder, kernels>>, NEW f \in Paths, NEW file \in PlkFiles,
           plk' = [plk EXCEPT ![f] = file],
           file.size = "full" => SafeImage(f, file.image),
           file.stamp = "own" => file.size = "full" /\ Remembered(file.time, file.image),
           \/ file.ino > plk[f].ino
           \/ /\ file.ino = plk[f].ino /\ file.image = plk[f].image
              /\ file.size = plk[f].size
           \/ file.ino = plk[f].ino /\ file.size = "none",
           Remembers(proc[p])'
    PROVE  PlkInv'
<1>1. plk \in [Paths -> PlkFiles]
  BY TaskFacts
<1>2. \A g \in Paths : plk'[g] = IF g = f THEN file ELSE plk[g]
  BY <1>1
<1>3. ASSUME NEW time, NEW image, Remembered(time, image)
      PROVE  ~image.raced =>
                /\ folder'.time < time => image.kexts = Selected(folder'.kexts, image.job)
                /\ Kernel'.time < time => image.kernel = Kernel'.rev
  BY <1>3 DEF Remembered, Kernel
<1>4. ASSUME NEW g \in Paths
      PROVE  /\ plk'[g].size = "full" => SafeImage(g, plk'[g].image)
             /\ plk'[g].stamp = "own" => plk'[g].size = "full" /\ Remembered(plk[g].time, plk[g].image)'
  <2>1. CASE g = f
    <3>1. plk'[g] = file
      BY <1>2, <2>1
    <3>2. file.stamp = "own" => Remembered(plk[g].time, plk[g].image)'
      BY <1>3, <3>1 DEF Remembered
    <3> QED
      BY <2>1, <3>1, <3>2
  <2>2. CASE g # f
    <3>1. plk'[g] = plk[g]
      BY <1>2, <2>2
    <3>2. plk[g].size = "full" => SafeImage(g, plk[g].image)
      BY DEF IInv, PlkInv
    <3>3. plk[g].stamp = "own" => plk[g].size = "full" /\ Remembered(plk[g].time, plk[g].image)
      BY DEF IInv, PlkInv
    <3>4. plk[g].stamp = "own" => Remembered(plk[g].time, plk[g].image)'
      BY <1>3, <3>1, <3>3 DEF Remembered
    <3> QED
      BY <3>1, <3>2, <3>3, <3>4
  <2> QED
    BY <2>1, <2>2
<1>5. ASSUME NEW q \in Procs
      PROVE  Remembers(proc[q])'
  <2>1. CASE q = p
    BY <2>1
  <2>2. CASE q # p
    <3> DEFINE t == proc[q]
               g == t.job.path
    <3>1. t' = t /\ Remembers(t)
      BY <2>2 DEF IInv, PlkInv
    <3>2. t.pc = "stamp" =>
            /\ kernels'[t.fd] = t.kernel => t.image.kernel = kernels'[t.fd].rev
            /\ t.image.kexts = Selected(t.kexts, t.image.job)
      BY <3>1 DEF Remembers
    <3>3. t.pc = "utimes" \/ (t.pc = "rename" /\ Dated(t.job)) => Remembered(t.time, t.image)'
      <4>1. t.pc = "utimes" \/ (t.pc = "rename" /\ Dated(t.job)) => Remembered(t.time, t.image)
        BY <3>1 DEF Remembers
      <4> QED
        BY <1>3, <3>1, <4>1 DEF Remembered
    <3>4. ASSUME t.pc = "utimes"
          PROVE  /\ t.ino <= plk'[g].ino
                 /\ t.ino = plk'[g].ino /\ plk'[g].size # "none" =>
                       plk'[g].size = "full" /\ plk'[g].image = t.image
      <4>1. /\ t.ino <= plk[g].ino
            /\ t.ino = plk[g].ino /\ plk[g].size # "none" => plk[g].size = "full" /\ plk[g].image = t.image
        BY <3>1, <3>4 DEF Remembers
      <4>2. g \in Paths
        BY <3>4, TaskFacts
      <4>3. CASE g # f
        BY <1>2, <4>1, <4>2, <4>3
      <4>4. CASE g = f
        <5>1. t.ino \in Nat /\ plk[f].ino \in Nat /\ file.ino \in Nat
          BY <1>1, TaskFacts DEF Tasks, PlkFiles
        <5>2. plk'[g] = file
          BY <1>2, <4>4
        <5>3. t.ino <= file.ino
          BY <4>1, <4>4, <5>1
        <5>4. file.ino > plk[f].ino => t.ino # file.ino
          BY <4>1, <4>4, <5>1
        <5> QED
          BY <4>1, <4>4, <5>2, <5>3, <5>4
      <4> QED
        BY <4>3, <4>4
    <3> QED
      BY <3>1, <3>2, <3>3, <3>4 DEF Remembers
  <2> QED
    BY <2>1, <2>2
<1> QED
  BY <1>4, <1>5 DEF PlkInv

\* The immutable kernel beside f is worked at by p.
LEMMA ImkMove ==
    ASSUME IInv, NEW p \in Procs, \A q \in Procs \ {p} : proc'[q] = proc[q],
           spent'.kills = spent.kills, NEW f \in Paths, proc[p].job.path = f,
           \A g \in Paths \ {f} : imk'[g] = imk[g],
           imk'[f].now.personal => imk'[f].now.there,
           imk'[f].bak.personal => imk'[f].bak.there,
           spent.kills = 0 =>
              /\ imk'[f].bak.there /\ ~imk'[f].now.there => At({"link"}, f)'
              /\ imk'[f].bak.personal /\ ~imk'[f].now.personal => At({"link", "personalize"}, f)'
    PROVE  ImkInv'
<1> SUFFICES ASSUME NEW g \in Paths
             PROVE  /\ imk'[g].now.personal => imk'[g].now.there
                    /\ imk'[g].bak.personal => imk'[g].bak.there
                    /\ spent'.kills = 0 =>
                          /\ imk'[g].bak.there /\ ~imk'[g].now.there => At({"link"}, g)'
                          /\ imk'[g].bak.personal /\ ~imk'[g].now.personal => At({"link", "personalize"}, g)'
  BY DEF ImkInv
<1>1. CASE g = f
  BY <1>1
<1>2. CASE g # f
  <2>1. imk'[g] = imk[g]
    BY <1>2
  <2>2. /\ imk[g].now.personal => imk[g].now.there
        /\ imk[g].bak.personal => imk[g].bak.there
        /\ spent.kills = 0 =>
              /\ imk[g].bak.there /\ ~imk[g].now.there => At({"link"}, g)
              /\ imk[g].bak.personal /\ ~imk[g].now.personal => At({"link", "personalize"}, g)
    BY DEF IInv, ImkInv
  <2>3. /\ At({"link"}, g) => At({"link"}, g)'
        /\ At({"link", "personalize"}, g) => At({"link", "personalize"}, g)'
    BY <1>2 DEF At
  <2> QED
    BY <2>1, <2>2, <2>3
<1> QED
  BY <1>1, <1>2

LEMMA ReadKextsKeeps ==
    ASSUME IInv, NEW p \in Procs, ReadKexts(p)
    PROVE  IInv'
<1> DEFINE u == proc[p]
<1>1. /\ UNCHANGED <<kextd, holder, clock, sourceVars, plk, imk, cache, allowed>>
      /\ Event \/ UNCHANGED spent
      /\ u.pc = "read" /\ u \in Tasks /\ Sound(p, u) /\ folder.kexts \subseteq Kexts
  <2>1. folder.kexts \subseteq Kexts
    BY KextcacheAssumption DEF IInv, Typed
  <2> QED
    BY <2>1, TaskFacts DEF ReadKexts, fileVars
<1>2. PICK t \in Tasks : /\ Moves(p, t) /\ t.pc \in {"open", "exit"} /\ Follows(p, t) /\ t.time = u.time
  <2>1. CASE Fail(p, "exit")
    <3> DEFINE t == [u EXCEPT !.pc = "exit", !.ok = FALSE]
    <3>1. proc' = [proc EXCEPT ![p] = t]
      BY <2>1 DEF Fail, IInv, Typed
    <3>2. t \in Tasks /\ t.pc = "exit" /\ Follows(p, t) /\ t.time = u.time
      BY <1>1 DEF Tasks, PCs, Follows
    <3> QED
      BY <3>1, <3>2 DEF Moves
  <2>2. CASE proc' = [proc EXCEPT ![p].pc = "open", ![p].kexts = folder.kexts]
    <3> DEFINE t == [u EXCEPT !.pc = "open", !.kexts = folder.kexts]
    <3>1. proc' = [proc EXCEPT ![p] = t]
      BY <2>2 DEF IInv, Typed
    <3>2. t \in Tasks /\ t.pc = "open" /\ Follows(p, t) /\ t.time = u.time
      BY <1>1 DEF Tasks, PCs, Follows
    <3> QED
      BY <3>1, <3>2 DEF Moves
  <2> QED
    BY <2>1, <2>2 DEF ReadKexts
<1>3. u.ctr = 0 /\ u.why = "none"
  BY <1>1 DEF Sound, Counted
<1>4. Sound(p, t)
  BY <1>1, <1>2, <1>3 DEF Sound, Counted, Follows, Updating, Critical
<1>5. LockStep(p, t)
  BY <1>1, <1>2, <1>3, LockStays
<1>6. u.pc \notin {"idle", "wait"} \cup Works /\ t.pc \notin {"idle", "wait"} \cup Works
  BY <1>1, <1>2 DEF Works
<1> QED
  BY <1>1, <1>2, <1>4, <1>5, <1>6, SilentMove, TaskFacts DEF Follows

\* What createPrelinkedKernel() opens for f.
Opened(f) == IF plk[f].size # "none" THEN plk[f]
             ELSE [NoFile EXCEPT !.size = "empty", !.ino = plk[f].ino + 1, !.time = clock]

LEMMA OpenFilesKeeps ==
    ASSUME IInv, NEW p \in Procs, OpenFiles(p)
    PROVE  IInv'
<1> DEFINE u == proc[p]
           f == u.job.path
           file == Opened(f)
           ok == MayWrite(u.job)
           created == file.size = "empty"
           pc == IF ok THEN "take build" ELSE "close"
           t == [u EXCEPT !.ino = file.ino, !.fd = Len(kernels), !.created = created,
                          !.ok = ok, !.pc = pc]
<1>1. /\ UNCHANGED <<kextd, holder, clock, sourceVars, imk, cache, allowed, spent>>
      /\ u.pc = "open" /\ u \in Tasks /\ Sound(p, u) /\ f \in Paths /\ plk' = [plk EXCEPT ![f] = file]
  BY TaskFacts DEF OpenFiles, Opened
<1>2. Moves(p, t)
  <2>1. proc' = [proc EXCEPT ![p].ino = file.ino, ![p].fd = Len(kernels), ![p].created = created,
                             ![p].ok = ok, ![p].pc = pc]
    BY DEF OpenFiles, Opened
  <2> HIDE DEF file, ok, created, pc
  <2> QED
    BY <2>1 DEF Moves, IInv, Typed
<1>3. /\ file \in PlkFiles /\ file.time <= clock + 1
      /\ \/ file = plk[f]
         \/ plk[f].size = "none" /\ file.size = "empty" /\ file.stamp = "none"
            /\ file.ino = plk[f].ino + 1
  <2>1. plk[f] \in PlkFiles /\ plk[f].time <= clock + 1 /\ plk[f].ino \in Nat
    BY <1>1, TaskFacts DEF PlkFiles, IInv, Timely
  <2>2. CASE plk[f].size # "none"
    BY <2>1, <2>2 DEF Opened
  <2>3. CASE plk[f].size = "none"
    <3>1. NoImage \in Images
      BY DEF NoImage, Images, Contents, None
    <3>2. file = [size |-> "empty", ino |-> plk[f].ino + 1, time |-> clock, stamp |-> "none", image |-> NoImage]
      BY <2>3 DEF Opened, NoFile
    <3>3. plk[f].ino + 1 \in Nat /\ clock \in Nat /\ clock <= clock + 1
      <4>1. clock \in Nat
        BY TaskFacts
      <4> QED
        BY <2>1, <4>1
    <3> HIDE DEF file
    <3> QED
      BY <2>3, <3>1, <3>2, <3>3 DEF PlkFiles
  <2> QED
    BY <2>2, <2>3
<1>4. Len(kernels) \in Nat /\ Len(kernels) # 0 /\ file.ino \in Nat
  <2>1. Len(kernels) \in Nat /\ Len(kernels) # 0
    BY KernelFacts DEF IInv
  <2> QED
    BY <1>3, <2>1 DEF PlkFiles
<1>5. created \in BOOLEAN /\ ok \in BOOLEAN /\ pc \in {"take build", "close"} /\ (pc = "take build" => ok)
  BY DEF MayWrite
<1> HIDE DEF file, created, ok, pc
<1>6. /\ t \in Tasks /\ t.pc = pc /\ t.job = u.job /\ t.kernel = u.kernel /\ t.fd = Len(kernels)
      /\ t.ctr = u.ctr /\ t.why = u.why /\ t.port = u.port /\ t.time = u.time
  BY <1>1, <1>4, <1>5 DEF Tasks, PCs, Takes
<1> HIDE DEF t
<1>7. u.ctr = 0 /\ u.why = "none"
  BY <1>1 DEF Sound, Counted
<1>8. Sound(p, t)
  <2>1. Counted(t)
    <3>1. 0 \in 0..1
      OBVIOUS
    <3> QED
      BY <1>5, <1>6, <1>7, <3>1 DEF Counted
  <2> QED
    BY <1>1, <1>4, <1>5, <1>6, <1>7, <2>1 DEF Sound, Updating, ok
<1>9. LockStep(p, t)
  BY <1>1, <1>6, <1>7, TaskFacts DEF LockStep
<1>10. u.pc = "open" /\ t.pc \in {"take build", "close"}
  BY <1>1, <1>5, <1>6
<1>11. \A g \in Paths : plk'[g] = IF g = f THEN file ELSE plk[g]
  BY <1>1, TaskFacts
<1>12. /\ Typed' /\ ProcInv' /\ Timely' /\ LocInv' /\ spent'.kills = spent.kills
       /\ \A q \in Procs : proc'[q] = IF q = p THEN t ELSE proc[q]
  <2>1. plk' \in [Paths -> PlkFiles]
    BY <1>1, <1>3, TaskFacts
  <2>2. \A g \in Paths : plk'[g].time <= clock + 1
    BY <1>3, <1>11 DEF IInv, Timely
  <2>3. imk' \in [Paths -> [now : ImkFiles, bak : ImkFiles]]
    BY <1>1, TaskFacts
  <2>4. t.time <= clock + 1 /\ t.fd <= Len(kernels) /\ t.kernel = u.kernel
    BY <1>4, <1>6, TaskFacts
  <2> QED
    BY <1>1, <1>2, <1>6, <1>8, <1>9, <1>10, <2>1, <2>2, <2>3, <2>4, BuildMove
<1>13. PlkInv'
  <2>1. file.size = "full" => SafeImage(f, file.image)
    BY <1>1, <1>3 DEF IInv, PlkInv
  <2>2. file.stamp = "own" => file.size = "full" /\ Remembered(file.time, file.image)
    BY <1>1, <1>3 DEF IInv, PlkInv
  <2>3. file.ino > plk[f].ino \/ file = plk[f]
    <3>1. plk[f].ino \in Nat
      BY <1>1, TaskFacts DEF PlkFiles
    <3>2. plk[f].ino + 1 > plk[f].ino
      BY <3>1
    <3> QED
      BY <1>3, <3>2
  <2>4. Remembers(proc[p])'
    BY <1>10, <1>12 DEF Remembers
  <2> QED
    BY <1>1, <1>3, <1>12, <2>1, <2>2, <2>3, <2>4, PlkMove DEF sourceVars
<1>14. ImkInv'
  BY <1>1, <1>10, <1>12, ImkFrame DEF IInv
<1> QED
  BY <1>12, <1>13, <1>14 DEF IInv

\* A step that changes no file.
LEMMA BuildQuiet ==
    ASSUME IInv, NEW p \in Procs, NEW t \in Tasks, Moves(p, t), Sound(p, t), LockStep(p, t),
           proc[p].pc \notin {"idle", "wait", "loc write", "loc stamp", "link", "personalize"},
           t.pc \notin {"idle", "wait", "loc write", "loc stamp", "link", "personalize"},
           UNCHANGED <<kextd, clock, sourceVars, plk, imk, cache, allowed>>, Event \/ UNCHANGED spent,
           t.time <= clock + 1, t.fd <= Len(kernels), t.kernel = proc[p].kernel,
           Remembers(proc[p])'
    PROVE  IInv'
<1>1. /\ plk' \in [Paths -> PlkFiles] /\ imk' \in [Paths -> [now : ImkFiles, bak : ImkFiles]]
      /\ \A f \in Paths : plk'[f].time <= clock + 1
  BY TaskFacts DEF IInv, Timely
<1>2. /\ Typed' /\ ProcInv' /\ Timely' /\ LocInv' /\ spent'.kills = spent.kills
      /\ \A q \in Procs : proc'[q] = IF q = p THEN t ELSE proc[q]
  BY <1>1, BuildMove
<1>3. PlkInv'
  <2>1. UNCHANGED <<plk, folder, kernels>>
    BY DEF sourceVars
  <2>2. ASSUME NEW q \in Procs
        PROVE  Remembers(proc[q])'
    <3>1. CASE q = p
      BY <3>1
    <3>2. CASE q # p
      <4>1. proc'[q] = proc[q] /\ Remembers(proc[q])
        BY <1>2, <3>2 DEF IInv, PlkInv
      <4> QED
        BY <2>1, <4>1 DEF Remembers, Remembered, Kernel
    <3> QED
      BY <3>1, <3>2
  <2> QED
    BY <2>1, <2>2 DEF IInv, PlkInv, Remembered, Kernel
<1>4. ImkInv'
  BY <1>2, ImkFrame DEF IInv
<1> QED
  BY <1>2, <1>3, <1>4 DEF IInv

\* A step of createPrelinkedKernel() that fails.
LEMMA BuildFails ==
    ASSUME IInv, NEW p \in Procs, proc[p].pc \in Building \ {"link", "personalize"}, Fail(p, "close"),
           UNCHANGED <<kextd, holder, clock, sourceVars, plk, imk, cache, allowed>>,
           Event \/ UNCHANGED spent
    PROVE  IInv'
<1> DEFINE u == proc[p]
           t == [u EXCEPT !.pc = "close", !.ok = FALSE]
<1>1. u \in Tasks /\ Sound(p, u)
  BY TaskFacts
<1>2. Moves(p, t) /\ proc' = [proc EXCEPT ![p] = t]
  BY DEF Fail, IInv, Typed, Moves
<1>3. t \in Tasks /\ t.pc = "close" /\ Follows(p, t) /\ t.time = u.time
  BY <1>1 DEF Tasks, PCs, Follows
<1> HIDE DEF t
<1>4. Sound(p, t) /\ LockStep(p, t)
  BY <1>3, BuildStep
<1>5. Remembers(proc[p])'
  <2>1. proc'[p] = t
    BY <1>2 DEF IInv, Typed
  <2> QED
    BY <1>3, <2>1 DEF Remembers
<1>6. u.pc \notin {"idle", "wait", "loc write", "loc stamp", "link", "personalize"}
  BY DEF Building
<1> QED
  BY <1>2, <1>3, <1>4, <1>5, <1>6, BuildQuiet, TaskFacts DEF Follows

\* What goes into a kernel is what the command may put there.
LEMMA SelectedIsSafe ==
    ASSUME NEW job \in Jobs, MayWrite(job), NEW ks, NEW image, image.job = job,
           image.kexts = Selected(ks, job)
    PROVE  SafeImage(job.path, image)
<1> SUFFICES ASSUME IsProtected(job.path)
             PROVE  /\ job.trusted
                    /\ \A k \in Selected(ks, job) : k.valid /\ k.signed /\ k.stageable /\ ~k.excluded
  BY DEF SafeImage
<1>1. {"filesystem", "signature", "secure", "policy"} \subseteq job.auth /\ job.trusted
  BY DEF MayWrite
<1> QED
  BY <1>1 DEF Selected, IsAuthentic

LEMMA SelectedType ==
    ASSUME NEW folderKexts \in SUBSET Kexts, NEW job \in Jobs
    PROVE  Selected(folderKexts, job) \in Contents
  BY DEF Contents

LEMMA BuildSliceKeeps ==
    ASSUME IInv, NEW p \in Procs, BuildSlice(p)
    PROVE  IInv'
<1> DEFINE u == proc[p]
           ks == Selected(u.kexts, u.job)
           image == [kexts |-> ks, kernel |-> kernels[u.fd].rev, job |-> u.job, raced |-> FALSE]
           t == [u EXCEPT !.pc = "stamp", !.image = image]
<1>1. /\ UNCHANGED <<kextd, holder, clock, sourceVars, plk, imk, cache, allowed, spent>>
      /\ u.pc = "build" /\ u \in Tasks /\ Sound(p, u) /\ u.job \in Jobs
  BY TaskFacts DEF BuildSlice, fileVars
<1>2. CASE Fail(p, "close")
  BY <1>1, <1>2, BuildFails DEF Building
<1>3. CASE proc' = [proc EXCEPT ![p].pc = "stamp", ![p].image = image]
  <2>1. proc' = [proc EXCEPT ![p] = t]
    <3> HIDE DEF image
    <3> QED
      BY <1>3 DEF IInv, Typed
  <2>2. u.fd # 0 /\ MayWrite(u.job)
    BY <1>1 DEF Sound
  <2>3. image \in Images
    <3>1. u.fd \in DOMAIN kernels
      BY <1>1, <2>2, KernelFacts, TaskFacts DEF Tasks, IInv
    <3>2. kernels[u.fd].rev \in Nat
      BY <3>1, KernelFacts DEF Kernels, IInv
    <3>3. u.kexts \in SUBSET Kexts
      BY <1>1 DEF Tasks
    <3>4. ks \in Contents
      BY <1>1, <3>3, SelectedType
    <3> HIDE DEF ks
    <3> QED
      BY <1>1, <3>2, <3>4 DEF Images
  <2>4. SafeImage(u.job.path, image)
    BY <1>1, <2>2, SelectedIsSafe
  <2>5. image.kernel = kernels[u.fd].rev /\ image.kexts = Selected(u.kexts, image.job)
    OBVIOUS
  <2> HIDE DEF image
  <2>6. /\ t \in Tasks /\ t.pc = "stamp" /\ Follows(p, t) /\ t.time = u.time /\ t.image = image
        /\ t.kexts = u.kexts
    BY <1>1, <2>3 DEF Tasks, PCs, Critical, Follows
  <2> HIDE DEF t
  <2>7. Sound(p, t) /\ LockStep(p, t)
    <3>1. SafeImage(t.job.path, t.image)
      BY <2>4, <2>6 DEF Follows
    <3> QED
      BY <1>1, <2>6, <3>1, BuildStep DEF Building
  <2>8. Remembers(proc[p])'
    <3>1. proc'[p] = t
      BY <2>1 DEF IInv, Typed
    <3>2. UNCHANGED kernels
      BY <1>1 DEF sourceVars
    <3> QED
      BY <2>5, <2>6, <3>1, <3>2 DEF Remembers, Follows
  <2> QED
    BY <1>1, <2>1, <2>6, <2>7, <2>8, BuildQuiet, TaskFacts DEF Follows, Moves
<1> QED
  BY <1>2, <1>3 DEF BuildSlice

\* The time a file gets is later than what it was made of, and not in the future.
LEMMA ExpectedFacts ==
    ASSUME NEW now \in Nat, NEW exts \in 0..now, NEW kernel \in Nat, kernel <= now
    PROVE  Expected(exts, kernel) \in Nat /\ Expected(exts, kernel) <= now + 1
  BY DEF Expected

LEMMA StampKeeps ==
    ASSUME IInv, NEW p \in Procs, Stamp(p)
    PROVE  IInv'
<1> DEFINE u == proc[p]
           dated == Dated(u.job)
           time == IF dated THEN Expected(folder.time, kernels[u.fd].time) ELSE u.time
           raced == folder.kexts # u.kexts \/ u.fd # Len(kernels)
           image == [u.image EXCEPT !.raced = raced]
           t == [u EXCEPT !.pc = "rename", !.time = time, !.image = image]
<1>1. /\ UNCHANGED <<kextd, holder, clock, sourceVars, plk, imk, cache, allowed, spent>>
      /\ u.pc = "stamp" /\ u \in Tasks /\ Sound(p, u) /\ Remembers(u)
  BY TaskFacts DEF Stamp, fileVars, IInv, PlkInv
<1>2. CASE Fail(p, "close")
  BY <1>1, <1>2, BuildFails DEF Building
<1>3. CASE /\ dated => KernelAsAtStart(p)
           /\ proc' = [proc EXCEPT ![p].pc = "rename", ![p].time = time, ![p].image.raced = raced]
  <2>1. Moves(p, t)
    <3> HIDE DEF time, raced
    <3> QED
      BY <1>1, <1>3 DEF IInv, Typed, Moves, Tasks
  <2>2. time \in Nat /\ time <= clock + 1
    <3>1. clock \in Nat /\ folder.time \in 0..clock
      BY TaskFacts DEF IInv, Typed
    <3>2. u.fd \in DOMAIN kernels
      <4>1. u.fd # 0
        BY <1>1 DEF Sound
      <4> QED
        BY <1>1, <4>1, KernelFacts, TaskFacts DEF Tasks, IInv
    <3>3. kernels[u.fd].time \in Nat /\ kernels[u.fd].time <= clock
      BY <3>2, KernelFacts DEF Kernels, IInv, Timely
    <3>4. u.time \in Nat /\ u.time <= clock + 1
      BY <1>1, TaskFacts DEF Tasks
    <3> HIDE DEF u, dated
    <3> QED
      BY <3>1, <3>3, <3>4, ExpectedFacts
  <2>3. /\ image \in Images /\ image.kexts = u.image.kexts /\ image.job = u.image.job
        /\ image.kernel = u.image.kernel /\ image.raced = raced
    BY <1>1 DEF Tasks, Images
  <2> HIDE DEF time, image
  <2>4. /\ t.pc = "rename" /\ Follows(p, t) /\ t.time = time /\ t.image = image
    BY <1>1, <2>2, <2>3 DEF Tasks, PCs, Critical, Follows
  <2> HIDE DEF t
  <2>5. Sound(p, t) /\ LockStep(p, t)
    <3>1. SafeImage(t.job.path, t.image)
      BY <1>1, <2>3, <2>4 DEF Follows, Sound, SafeImage
    <3> QED
      BY <1>1, <2>4, <3>1, BuildStep DEF Building
  <2>6. dated => Remembered(time, image)
    <3>1. dated /\ ~raced => /\ image.kexts = Selected(folder.kexts, image.job)
                    /\ image.kernel = Kernel.rev
      BY <1>1, <1>3, <2>3 DEF Remembers, KernelAsAtStart, Kernel
    <3> QED
      BY <2>3, <3>1 DEF Remembered
  <2>7. Remembers(proc[p])'
    <3>1. proc'[p] = t
      BY <2>1 DEF IInv, Typed, Moves
    <3>2. dated => Remembered(proc[p].time, proc[p].image)'
      BY <1>1, <2>4, <2>6, <3>1 DEF Remembered, Kernel, sourceVars
    <3> QED
      BY <2>4, <3>1, <3>2 DEF Remembers, Follows
  <2> QED
    BY <1>1, <2>1, <2>2, <2>4, <2>5, <2>7, BuildQuiet, TaskFacts DEF Follows
<1> QED
  BY <1>2, <1>3 DEF Stamp

LEMMA RenameKeeps ==
    ASSUME IInv, NEW p \in Procs, Rename(p)
    PROVE  IInv'
<1> DEFINE u == proc[p]
           f == u.job.path
           ino == plk[f].ino + 1
           file == [size |-> "full", ino |-> ino, time |-> clock, stamp |-> "none",
                    image |-> u.image]
           pc == IF Dated(u.job) THEN "utimes" ELSE Written(u.job)
           t == [u EXCEPT !.pc = pc, !.created = FALSE, !.ino = ino]
<1>1. /\ UNCHANGED <<kextd, holder, clock, sourceVars, imk, cache, allowed>>
      /\ u.pc = "rename" /\ u \in Tasks /\ Sound(p, u) /\ f \in Paths
      /\ plk \in [Paths -> PlkFiles] /\ clock \in Nat
      /\ Dated(u.job) => Remembered(u.time, u.image)
  BY TaskFacts DEF Rename, IInv, PlkInv, Remembers
<1>2. CASE Fail(p, "close") /\ UNCHANGED plk /\ (Event \/ UNCHANGED spent)
  BY <1>1, <1>2, BuildFails DEF Building
<1>3. CASE /\ plk' = [plk EXCEPT ![f] = file]
           /\ proc' = [proc EXCEPT ![p].pc = pc, ![p].created = FALSE, ![p].ino = ino]
           /\ UNCHANGED spent
  <2>1. Moves(p, t)
    <3> HIDE DEF ino, pc
    <3> QED
      BY <1>3 DEF IInv, Typed, Moves
  <2>2. plk[f].ino \in Nat /\ ino \in Nat /\ ino > plk[f].ino
    BY <1>1 DEF PlkFiles
  <2> HIDE DEF ino
  <2>3. file \in PlkFiles /\ file.ino = ino
    BY <1>1, <2>2 DEF PlkFiles, Tasks
  <2>a. pc \in {"utimes", "backup", "close"} /\ (pc = "utimes" => Dated(u.job))
    BY DEF Written
  <2> HIDE DEF pc
  <2>4. /\ t.pc = pc /\ Follows(p, t) /\ t.time = u.time /\ t.image = u.image /\ t.ino = ino
    BY <1>1, <2>2, <2>a DEF Tasks, PCs, Critical, Follows
  <2>5. Sound(p, t) /\ LockStep(p, t)
    BY <1>1, <2>4, <2>a, BuildStep DEF Building
  <2>6. SafeImage(f, u.image)
    BY <1>1 DEF Sound
  <2>7. \A g \in Paths : plk'[g] = IF g = f THEN file ELSE plk[g]
    BY <1>1, <1>3
  <2> HIDE DEF t
  <2>8. /\ Typed' /\ ProcInv' /\ Timely' /\ LocInv' /\ spent'.kills = spent.kills
        /\ \A q \in Procs : proc'[q] = IF q = p THEN t ELSE proc[q]
    <3>1. plk' \in [Paths -> PlkFiles]
      BY <1>1, <1>3, <2>3
    <3>2. \A g \in Paths : plk'[g].time <= clock + 1
      <4>1. file.time <= clock + 1
        BY <1>1
      <4> QED
        BY <2>7, <4>1 DEF IInv, Timely
    <3>3. imk' \in [Paths -> [now : ImkFiles, bak : ImkFiles]]
      BY <1>1, TaskFacts
    <3>4. t.time <= clock + 1 /\ t.fd <= Len(kernels) /\ t.kernel = u.kernel /\ t \in Tasks
      BY <2>4, TaskFacts DEF Follows
    <3>5. u.pc \notin {"idle", "wait", "loc write", "loc stamp"} /\ t.pc \notin {"idle", "wait", "loc write", "loc stamp"}
      BY <1>1, <2>4, <2>a
    <3>6. UNCHANGED spent
      BY <1>3
    <3> HIDE DEF file
    <3> QED
      BY <1>1, <2>1, <2>5, <3>1, <3>2, <3>3, <3>4, <3>5, <3>6, BuildMove
  <2>9. PlkInv'
    <3>1. Remembers(proc[p])'
      <4>1. proc'[p] = t
        BY <2>8
      <4>2. pc = "utimes" => Remembered(proc[p].time, proc[p].image)'
        BY <1>1, <2>4, <2>a, <4>1 DEF Remembered, Kernel, sourceVars
      <4>3. LET now == plk'[proc'[p].job.path] IN
            /\ proc'[p].ino <= now.ino /\ now.size = "full" /\ now.image = proc'[p].image
        BY <1>1, <2>2, <2>4, <2>7, <4>1 DEF Follows
      <4> QED
        BY <2>4, <2>a, <4>1, <4>2, <4>3 DEF Remembers
    <3>2. file.size = "full" /\ file.stamp = "none" /\ file.image = u.image /\ file.ino > plk[f].ino
      BY <2>2
    <3> HIDE DEF file
    <3> QED
      BY <1>1, <1>3, <2>3, <2>6, <2>8, <3>1, <3>2, PlkMove DEF sourceVars
  <2>10. ImkInv'
    BY <1>1, <2>4, <2>8, <2>a, ImkFrame DEF IInv
  <2> QED
    BY <2>8, <2>9, <2>10 DEF IInv
<1> QED
  BY <1>2, <1>3 DEF Rename

LEMMA SetTimesKeeps ==
    ASSUME IInv, NEW p \in Procs, SetTimes(p)
    PROVE  IInv'
<1> DEFINE u == proc[p]
           f == u.job.path
           stamp == IF plk[f].ino = u.ino THEN "own" ELSE "other"
           file == IF plk[f].size = "none" THEN plk[f]
                   ELSE [plk[f] EXCEPT !.time = u.time, !.stamp = stamp]
           pc == Written(u.job)
           t == [u EXCEPT !.pc = pc]
<1>1. /\ UNCHANGED <<kextd, holder, clock, sourceVars, imk, cache, allowed, spent>>
      /\ u.pc = "utimes" /\ u \in Tasks /\ Sound(p, u) /\ f \in Paths
      /\ plk \in [Paths -> PlkFiles] /\ Remembered(u.time, u.image) /\ clock \in Nat
      /\ u.time \in Nat /\ u.time <= clock + 1
      /\ plk[f].ino = u.ino /\ plk[f].size # "none" => plk[f].size = "full" /\ plk[f].image = u.image
  BY TaskFacts DEF SetTimes, IInv, PlkInv, Remembers, Tasks
<1>2. Moves(p, t)
  BY DEF SetTimes, Go, Moves
<1>3. plk' = [plk EXCEPT ![f] = file]
  BY <1>1 DEF SetTimes
<1>4. /\ file \in PlkFiles /\ file.ino = plk[f].ino /\ file.image = plk[f].image
      /\ file.size = plk[f].size
      /\ file.time <= clock + 1
      /\ file = plk[f] \/ (file.size # "none" /\ file.time = u.time /\ (file.stamp = "own" <=> plk[f].ino = u.ino))
  <2>1. plk[f] \in PlkFiles /\ plk[f].time <= clock + 1
    BY <1>1 DEF IInv, Timely
  <2>2. CASE plk[f].size = "none"
    BY <2>1, <2>2
  <2>3. CASE plk[f].size # "none"
    <3>1. stamp \in {"own", "other"} /\ (stamp = "own" <=> plk[f].ino = u.ino)
      OBVIOUS
    <3>2. file = [plk[f] EXCEPT !.time = u.time, !.stamp = stamp]
      BY <2>3
    <3> HIDE DEF stamp, file
    <3> QED
      BY <1>1, <2>1, <2>3, <3>1, <3>2 DEF PlkFiles
  <2> QED
    BY <2>2, <2>3
<1> HIDE DEF file
<1>5. pc \in {"backup", "close"}
  BY DEF Written
<1> HIDE DEF pc
<1>6. t.pc = pc /\ Follows(p, t) /\ t.time = u.time
  BY <1>1, <1>5 DEF Tasks, PCs, Critical, Follows
<1>7. Sound(p, t) /\ LockStep(p, t)
  BY <1>1, <1>5, <1>6, BuildStep DEF Building
<1> HIDE DEF t
<1>8. \A g \in Paths : plk'[g] = IF g = f THEN file ELSE plk[g]
  BY <1>1, <1>3
<1>9. /\ Typed' /\ ProcInv' /\ Timely' /\ LocInv' /\ spent'.kills = spent.kills
      /\ \A q \in Procs : proc'[q] = IF q = p THEN t ELSE proc[q]
  <2>1. plk' \in [Paths -> PlkFiles]
    BY <1>1, <1>3, <1>4
  <2>2. \A g \in Paths : plk'[g].time <= clock + 1
    BY <1>4, <1>8 DEF IInv, Timely
  <2>3. imk' \in [Paths -> [now : ImkFiles, bak : ImkFiles]]
    BY <1>1, TaskFacts
  <2>4. t.time <= clock + 1 /\ t.fd <= Len(kernels) /\ t.kernel = u.kernel /\ t \in Tasks
    BY <1>6, TaskFacts DEF Follows
  <2>5. u.pc \notin {"idle", "wait", "loc write", "loc stamp"} /\ t.pc \notin {"idle", "wait", "loc write", "loc stamp"}
    BY <1>1, <1>5, <1>6
  <2> QED
    BY <1>1, <1>2, <1>7, <2>1, <2>2, <2>3, <2>4, <2>5, BuildMove
<1>10. PlkInv'
  <2>1. Remembers(proc[p])'
    BY <1>5, <1>6, <1>9 DEF Remembers
  <2>2. file.size = "full" => SafeImage(f, file.image)
    BY <1>1, <1>4 DEF IInv, PlkInv
  <2>3. file.stamp = "own" => file.size = "full" /\ Remembered(file.time, file.image)
    <3>1. plk[f].stamp = "own" => plk[f].size = "full" /\ Remembered(plk[f].time, plk[f].image)
      BY <1>1 DEF IInv, PlkInv
    <3> QED
      BY <1>1, <1>4, <3>1
  <2> QED
    BY <1>1, <1>3, <1>4, <1>9, <2>1, <2>2, <2>3, PlkMove DEF sourceVars
<1>11. ImkInv'
  BY <1>1, <1>5, <1>6, <1>9, ImkFrame DEF IInv
<1> QED
  BY <1>9, <1>10, <1>11 DEF IInv

\* buildImmutableKernelcache(): a step that makes "now" of the immutable kernel
\* and "bak" of its backup.
LEMMA ImkStep ==
    ASSUME IInv, NEW p \in Procs, proc[p].pc \in {"backup", "link", "personalize"},
           NEW pc \in {"link", "personalize", "close"}, Go(p, pc) \/ Fail(p, pc),
           UNCHANGED <<kextd, holder, clock, sourceVars, plk, cache, allowed>>,
           Event \/ UNCHANGED spent,
           NEW now \in ImkFiles, NEW bak \in ImkFiles,
           imk' = [imk EXCEPT ![proc[p].job.path] = [now |-> now, bak |-> bak]],
           now.personal => now.there, bak.personal => bak.there,
           spent.kills = 0 /\ bak.there /\ ~now.there =>
              \/ pc = "link"
              \/ \E q \in Procs \ {p} : proc[q].pc = "link" /\ proc[q].job.path = proc[p].job.path,
           spent.kills = 0 /\ bak.personal /\ ~now.personal =>
              \/ pc \in {"link", "personalize"}
              \/ \E q \in Procs \ {p} : proc[q].pc = "link" /\ proc[q].job.path = proc[p].job.path
    PROVE  IInv'
<1> DEFINE u == proc[p]
           f == u.job.path
<1>1. /\ u \in Tasks /\ Sound(p, u) /\ f \in Paths
      /\ imk \in [Paths -> [now : ImkFiles, bak : ImkFiles]] /\ plk \in [Paths -> PlkFiles]
  BY TaskFacts
<1>2. PICK t : Moves(p, t) /\ Follows(p, t) /\ t.pc = pc /\ t.time = u.time
  <2>1. CASE Go(p, pc)
    <3> DEFINE t == [u EXCEPT !.pc = pc]
    <3>1. Moves(p, t)
      BY <2>1 DEF Go, Moves
    <3>2. Follows(p, t) /\ t.pc = pc /\ t.time = u.time
      BY <1>1 DEF Tasks, PCs, Critical, Follows
    <3> QED
      BY <3>1, <3>2
  <2>2. CASE Fail(p, pc)
    <3> DEFINE t == [u EXCEPT !.pc = pc, !.ok = FALSE]
    <3>1. Moves(p, t)
      BY <2>2 DEF Fail, IInv, Typed, Moves
    <3>2. Follows(p, t) /\ t.pc = pc /\ t.time = u.time
      BY <1>1 DEF Tasks, PCs, Critical, Follows
    <3> QED
      BY <3>1, <3>2
  <2> QED
    BY <2>1, <2>2
<1>3. Sound(p, t) /\ LockStep(p, t)
  BY <1>2, BuildStep DEF Building
<1>4. \A g \in Paths : imk'[g] = IF g = f THEN [now |-> now, bak |-> bak] ELSE imk[g]
  BY <1>1
<1>5. /\ Typed' /\ ProcInv' /\ Timely' /\ LocInv' /\ spent'.kills = spent.kills
      /\ \A q \in Procs : proc'[q] = IF q = p THEN t ELSE proc[q]
  <2>1. plk' \in [Paths -> PlkFiles] /\ \A g \in Paths : plk'[g].time <= clock + 1
    BY <1>1 DEF IInv, Timely
  <2>2. imk' \in [Paths -> [now : ImkFiles, bak : ImkFiles]]
    BY <1>1
  <2>3. t.time <= clock + 1 /\ t.fd <= Len(kernels) /\ t.kernel = u.kernel /\ t \in Tasks
    BY <1>2, TaskFacts DEF Follows
  <2>4. u.pc \notin {"idle", "wait", "loc write", "loc stamp"} /\ t.pc \notin {"idle", "wait", "loc write", "loc stamp"}
    BY <1>2
  <2> QED
    BY <1>2, <1>3, <2>1, <2>2, <2>3, <2>4, BuildMove
<1>6. PlkInv'
  BY <1>2, <1>5, PlkFrame DEF IInv, sourceVars, Alike
<1>7. ImkInv'
  <2>1. proc'[p].pc = pc /\ proc'[p].job.path = f /\ \A q \in Procs \ {p} : proc'[q] = proc[q]
    BY <1>2, <1>5 DEF Follows
  <2>2. imk'[f].now = now /\ imk'[f].bak = bak /\ \A g \in Paths \ {f} : imk'[g] = imk[g]
    BY <1>1, <1>4
  <2>3. ASSUME spent.kills = 0, bak.there, ~now.there
        PROVE  At({"link"}, f)'
    BY <2>1, <2>3 DEF At
  <2>4. ASSUME spent.kills = 0, bak.personal, ~now.personal
        PROVE  At({"link", "personalize"}, f)'
    BY <2>1, <2>4 DEF At
  <2> QED
    BY <1>1, <1>5, <2>1, <2>2, <2>3, <2>4, ImkMove
<1> QED
  BY <1>5, <1>6, <1>7 DEF IInv

LEMMA BackUpKeeps ==
    ASSUME IInv, NEW p \in Procs, BackUp(p)
    PROVE  IInv'
<1> DEFINE f == proc[p].job.path
           old == imk[f]
<1>1. /\ UNCHANGED <<kextd, holder, clock, sourceVars, plk, cache, allowed, spent>>
      /\ proc[p].pc = "backup" /\ Go(p, "link") /\ f \in Paths
      /\ imk \in [Paths -> [now : ImkFiles, bak : ImkFiles]]
  BY TaskFacts DEF BackUp
<1>2. /\ old.now \in ImkFiles /\ old.bak \in ImkFiles /\ NoKernel \in ImkFiles
      /\ old = [now |-> old.now, bak |-> old.bak]
      /\ old.now.personal => old.now.there
      /\ old.bak.personal => old.bak.there
  BY <1>1 DEF ImkFiles, NoKernel, IInv, ImkInv
<1>3. CASE old.now.there
  <2>1. imk' = [imk EXCEPT ![f] = [now |-> NoKernel, bak |-> old.now]]
    BY <1>3 DEF BackUp
  <2> QED
    BY <1>1, <1>2, <2>1, ImkStep DEF NoKernel
<1>4. CASE ~old.now.there
  <2>1. imk' = [imk EXCEPT ![f] = [now |-> old.now, bak |-> old.bak]]
    BY <1>1, <1>2, <1>4 DEF BackUp
  <2> QED
    BY <1>1, <1>2, <2>1, ImkStep
<1> QED
  BY <1>3, <1>4

\* A failure that puts the backup back, if there is one.
LEMMA RestoreKeeps ==
    ASSUME IInv, NEW p \in Procs, proc[p].pc \in {"link", "personalize"}, Fail(p, "close"),
           UNCHANGED <<kextd, holder, clock, sourceVars, plk, cache, allowed>>,
           Event \/ UNCHANGED spent, imk' = Restored(proc[p].job.path)
    PROVE  IInv'
<1> DEFINE f == proc[p].job.path
           old == imk[f]
<1>1. f \in Paths /\ imk \in [Paths -> [now : ImkFiles, bak : ImkFiles]]
  BY TaskFacts
<1>2. /\ old.now \in ImkFiles /\ old.bak \in ImkFiles /\ NoKernel \in ImkFiles
      /\ old = [now |-> old.now, bak |-> old.bak]
      /\ old.now.personal => old.now.there
      /\ old.bak.personal => old.bak.there
  BY <1>1 DEF ImkFiles, NoKernel, IInv, ImkInv
<1>3. CASE old.bak.there
  <2>1. imk' = [imk EXCEPT ![f] = [now |-> old.bak, bak |-> NoKernel]]
    BY <1>3 DEF Restored
  <2>2. ~NoKernel.there /\ ~NoKernel.personal
    BY DEF NoKernel
  <2> QED
    BY <1>2, <2>1, <2>2, ImkStep
<1>4. CASE ~old.bak.there
  <2>1. imk' = [imk EXCEPT ![f] = [now |-> old.now, bak |-> old.bak]]
    BY <1>1, <1>2, <1>4 DEF Restored
  <2> QED
    BY <1>2, <1>4, <2>1, ImkStep
<1> QED
  BY <1>3, <1>4

LEMMA LinkKeeps ==
    ASSUME IInv, NEW p \in Procs, Link(p)
    PROVE  IInv'
<1> DEFINE f == proc[p].job.path
           old == imk[f]
           new == [there |-> TRUE, time |-> plk[f].time, personal |-> FALSE]
<1>1. /\ UNCHANGED <<kextd, holder, clock, sourceVars, plk, cache, allowed, spent>>
      /\ proc[p].pc = "link" /\ f \in Paths
      /\ imk \in [Paths -> [now : ImkFiles, bak : ImkFiles]] /\ plk \in [Paths -> PlkFiles]
  BY TaskFacts DEF Link
<1>2. /\ old.bak \in ImkFiles /\ new \in ImkFiles
      /\ old.bak.personal => old.bak.there
  BY <1>1 DEF ImkFiles, PlkFiles, IInv, ImkInv
<1>3. CASE imk' = [imk EXCEPT ![f].now = new] /\ Go(p, "personalize")
  <2> HIDE DEF new
  <2>1. imk' = [imk EXCEPT ![f] = [now |-> new, bak |-> old.bak]]
    <3>1. old \in [now : ImkFiles, bak : ImkFiles]
      BY <1>1
    <3>2. [old EXCEPT !.now = new] = [now |-> new, bak |-> old.bak]
      BY <3>1
    <3> QED
      BY <1>3, <3>2
  <2>2. new.there /\ ~new.personal
    BY DEF new
  <2> QED
    BY <1>1, <1>2, <1>3, <2>1, <2>2, ImkStep
<1>4. CASE imk' = Restored(f) /\ Fail(p, "close")
  BY <1>1, <1>4, RestoreKeeps
<1> QED
  BY <1>3, <1>4 DEF Link

LEMMA PersonalizeKeeps ==
    ASSUME IInv, NEW p \in Procs, Personalize(p)
    PROVE  IInv'
<1> DEFINE f == proc[p].job.path
           old == imk[f]
           personal == old.now.personal \/ old.now.there
           new == [old.now EXCEPT !.personal = personal]
<1>1. /\ UNCHANGED <<kextd, holder, clock, sourceVars, plk, cache, allowed>>
      /\ proc[p].pc = "personalize" /\ f \in Paths
      /\ imk \in [Paths -> [now : ImkFiles, bak : ImkFiles]]
  BY TaskFacts DEF Personalize
<1>2. /\ old.now \in ImkFiles /\ old.bak \in ImkFiles
      /\ old.now.personal => old.now.there
      /\ old.bak.personal => old.bak.there
      /\ spent.kills = 0 /\ old.bak.there /\ ~old.now.there => At({"link"}, f)
  BY <1>1 DEF IInv, ImkInv
<1>3. CASE imk' = [imk EXCEPT ![f].now.personal = personal] /\ Go(p, "close") /\ UNCHANGED spent
  <2>1. /\ new \in ImkFiles /\ new.there = old.now.there /\ (new.personal <=> old.now.there)
    <3>1. personal \in BOOLEAN /\ (personal <=> old.now.there)
      BY <1>2 DEF ImkFiles
    <3> HIDE DEF personal
    <3> QED
      BY <1>2, <3>1 DEF ImkFiles
  <2>2. imk' = [imk EXCEPT ![f] = [now |-> new, bak |-> old.bak]]
    <3> HIDE DEF personal
    <3>1. old \in [now : ImkFiles, bak : ImkFiles]
      BY <1>1
    <3>2. [old EXCEPT !.now.personal = personal] = [now |-> new, bak |-> old.bak]
      BY <3>1
    <3> QED
      BY <1>3, <3>2
  <2>3. spent.kills = 0 /\ old.bak.there /\ ~old.now.there =>
           \E q \in Procs \ {p} : proc[q].pc = "link" /\ proc[q].job.path = f
    BY <1>1, <1>2 DEF At
  <2> HIDE DEF new
  <2> QED
    BY <1>1, <1>2, <1>3, <2>1, <2>2, <2>3, ImkStep
<1>4. CASE imk' = Restored(f) /\ Fail(p, "close") /\ Event
  BY <1>1, <1>4, RestoreKeeps
<1> QED
  BY <1>3, <1>4 DEF Personalize

LEMMA CloseKeeps ==
    ASSUME IInv, NEW p \in Procs, Close(p)
    PROVE  IInv'
<1> DEFINE u == proc[p]
           f == u.job.path
           file == IF u.created /\ ~u.ok THEN [NoFile EXCEPT !.ino = plk[f].ino] ELSE plk[f]
<1>1. /\ UNCHANGED <<kextd, clock, sourceVars, imk, cache, allowed, spent>>
      /\ u.pc = "close" /\ u \in Tasks /\ Sound(p, u) /\ f \in Paths
      /\ plk \in [Paths -> PlkFiles] /\ clock \in Nat
      /\ \A g \in Paths : plk[g].time <= clock + 1
  BY TaskFacts DEF Close, IInv, Timely
<1>2. PICK t \in Tasks : /\ Moves(p, t) /\ Sound(p, t) /\ LockStep(p, t) /\ t.pc = "exit"
                         /\ t.time = u.time /\ t.fd = u.fd /\ t.kernel = u.kernel
  <2>1. CASE Put(p, "exit")
    <3> DEFINE t == PutTask(p, "exit")
    <3>1. /\ Moves(p, t) /\ Sound(p, t) /\ LockStep(p, t) /\ t \in Tasks /\ t.pc = "exit"
          /\ t.time = u.time /\ t.fd = u.fd /\ t.kernel = u.kernel
      BY <1>1, <2>1, PutKeeps
    <3> HIDE DEF t
    <3> QED
      BY <3>1
  <2>2. CASE Go(p, "exit") /\ UNCHANGED holder
    <3> DEFINE t == [u EXCEPT !.pc = "exit"]
    <3>1. Moves(p, t)
      BY <2>2 DEF Go, Moves
    <3>2. Follows(p, t) /\ t.pc = "exit" /\ t.time = u.time
      BY <1>1 DEF Tasks, PCs, Follows
    <3> HIDE DEF t
    <3>3. Sound(p, t)
      BY <1>1, <3>2 DEF Sound, Counted, Follows, Updating, Critical
    <3>4. LockStep(p, t)
      BY <2>2, <3>2, LockStays DEF Critical
    <3> QED
      BY <3>1, <3>2, <3>3, <3>4 DEF Follows
  <2> QED
    BY <2>1, <2>2 DEF Close
<1>3. plk' = [plk EXCEPT ![f] = file]
  BY <1>1 DEF Close
<1>4. /\ file \in PlkFiles /\ file.time <= clock + 1
      /\ \/ file = plk[f]
         \/ file.ino = plk[f].ino /\ file.size = "none" /\ file.stamp = "none"
  <2>1. plk[f] \in PlkFiles /\ plk[f].ino \in Nat
    BY <1>1 DEF PlkFiles
  <2>2. NoImage \in Images
    BY DEF NoImage, Images, Contents, None
  <2>3. CASE u.created /\ ~u.ok
    <3>1. file = [size |-> "none", ino |-> plk[f].ino, time |-> 0, stamp |-> "none", image |-> NoImage]
      BY <2>3 DEF NoFile
    <3> HIDE DEF file
    <3> QED
      BY <1>1, <2>1, <2>2, <3>1 DEF PlkFiles
  <2>4. CASE ~(u.created /\ ~u.ok)
    BY <1>1, <2>4
  <2> QED
    BY <2>3, <2>4
<1> HIDE DEF file
<1>5. \A g \in Paths : plk'[g] = IF g = f THEN file ELSE plk[g]
  BY <1>1, <1>3
<1>6. /\ Typed' /\ ProcInv' /\ Timely' /\ LocInv' /\ spent'.kills = spent.kills
      /\ \A q \in Procs : proc'[q] = IF q = p THEN t ELSE proc[q]
  <2>1. plk' \in [Paths -> PlkFiles]
    BY <1>1, <1>3, <1>4
  <2>2. \A g \in Paths : plk'[g].time <= clock + 1
    BY <1>1, <1>4, <1>5
  <2>3. imk' \in [Paths -> [now : ImkFiles, bak : ImkFiles]]
    BY <1>1, TaskFacts
  <2>4. t.time <= clock + 1 /\ t.fd <= Len(kernels)
    BY <1>2, TaskFacts
  <2>5. u.pc \notin {"idle", "wait", "loc write", "loc stamp"} /\ t.pc \notin {"idle", "wait", "loc write", "loc stamp"}
    BY <1>1, <1>2
  <2> QED
    BY <1>1, <1>2, <2>1, <2>2, <2>3, <2>4, <2>5, BuildMove
<1>7. PlkInv'
  <2>1. Remembers(proc[p])'
    BY <1>2, <1>6 DEF Remembers
  <2>2. file.size = "full" => SafeImage(f, file.image)
    BY <1>1, <1>4 DEF IInv, PlkInv
  <2>3. file.stamp = "own" => file.size = "full" /\ Remembered(file.time, file.image)
    BY <1>1, <1>4 DEF IInv, PlkInv
  <2>4. \/ file.ino = plk[f].ino /\ file.image = plk[f].image /\ file.size = plk[f].size
        \/ file.ino = plk[f].ino /\ file.size = "none"
    BY <1>4
  <2> QED
    BY <1>1, <1>3, <1>4, <1>6, <2>1, <2>2, <2>3, <2>4, PlkMove DEF sourceVars
<1>8. ImkInv'
  BY <1>1, <1>2, <1>6, ImkFrame DEF IInv
<1> QED
  BY <1>6, <1>7, <1>8 DEF IInv

LEMMA LoadKeeps ==
    ASSUME IInv, NEW p \in Procs, Load(p)
    PROVE  IInv'
<1> DEFINE u == proc[p]
           f == u.job.path
           file == plk[f]
           raced == file.image.raced \/ file.stamp # "own"
           image == [file.image EXCEPT !.raced = raced]
<1>1. /\ UNCHANGED <<kextd, holder, clock, sourceVars, plk, imk, cache, allowed, spent>>
      /\ u.pc = "load" /\ u \in Tasks /\ Sound(p, u) /\ f \in Paths
      /\ file \in PlkFiles /\ clock \in Nat /\ file.time <= clock + 1
  BY TaskFacts DEF Load, fileVars, IInv, Timely
<1>2. u.ctr = 0 /\ u.why = "none"
  BY <1>1 DEF Sound, Counted
<1>3. PICK t : /\ Moves(p, t) /\ Follows(p, t) /\ t.time <= clock + 1
               /\ \/ t.pc = "exit"
                  \/ /\ t.pc = "rename" /\ file.size = "full"
                     /\ t.time = file.time /\ t.image = image
  <2>1. CASE Fail(p, "exit")
    <3> DEFINE t == [u EXCEPT !.pc = "exit", !.ok = FALSE]
    <3>1. Moves(p, t)
      BY <2>1 DEF Fail, IInv, Typed, Moves
    <3>2. Follows(p, t) /\ t.pc = "exit" /\ t.time = u.time
      BY <1>1 DEF Tasks, PCs, Follows
    <3> QED
      BY <3>1, <3>2, TaskFacts
  <2>2. CASE /\ file.size = "full"
             /\ proc' = [proc EXCEPT ![p].pc = "rename", ![p].time = file.time, ![p].image = image]
    <3> DEFINE t == [u EXCEPT !.pc = "rename", !.time = file.time, !.image = image]
    <3>1. image \in Images /\ file.time \in Nat
      <4>1. raced \in BOOLEAN /\ file.image \in Images
        BY <1>1 DEF PlkFiles, Images
      <4> HIDE DEF raced
      <4> QED
        BY <1>1, <4>1 DEF PlkFiles, Images
    <3> HIDE DEF image, file
    <3>2. Moves(p, t)
      BY <2>2 DEF IInv, Typed, Moves
    <3>3. Follows(p, t) /\ t.pc = "rename" /\ t.time = file.time /\ t.image = image
      BY <1>1, <3>1 DEF Tasks, PCs, Critical, Follows
    <3> QED
      BY <1>1, <2>2, <3>2, <3>3
  <2> QED
    BY <2>1, <2>2 DEF Load
<1>4. t.pc = "rename" => SafeImage(f, t.image) /\ Remembered(t.time, t.image)
  <2> SUFFICES ASSUME t.pc = "rename"
               PROVE  SafeImage(f, t.image) /\ Remembered(t.time, t.image)
    OBVIOUS
  <2>1. /\ file.size = "full" /\ t.time = file.time /\ t.image.kexts = file.image.kexts
        /\ t.image.kernel = file.image.kernel /\ t.image.job = file.image.job
        /\ (~t.image.raced => ~file.image.raced /\ file.stamp = "own")
    BY <1>1, <1>3 DEF PlkFiles, Images
  <2>2. SafeImage(f, file.image) /\ (file.stamp = "own" => Remembered(file.time, file.image))
    BY <1>1, <2>1 DEF IInv, PlkInv
  <2>3. SafeImage(f, t.image)
    BY <2>1, <2>2 DEF SafeImage
  <2>4. Remembered(t.time, t.image)
    BY <2>1, <2>2 DEF Remembered
  <2> QED
    BY <2>3, <2>4
<1>5. t.pc \in {"exit", "rename"}
  BY <1>3
<1>6. Sound(p, t)
  <2>1. Counted(t)
    <3>1. t.ctr = 0 /\ 0 \in 0..1 /\ t.why = "none"
      BY <1>2, <1>3 DEF Follows
    <3> QED
      BY <1>5, <3>1 DEF Counted, Critical
  <2> QED
    BY <1>1, <1>2, <1>3, <1>4, <1>5, <2>1 DEF Sound, Follows, Updating
<1>7. LockStep(p, t)
  BY <1>1, <1>2, <1>3, LockStays
<1>8. Remembers(proc[p])'
  <2>1. proc'[p] = t
    BY <1>3 DEF IInv, Typed, Moves
  <2>2. t.pc = "rename" => Remembered(proc[p].time, proc[p].image)'
    BY <1>1, <1>4, <2>1 DEF Remembered, Kernel, sourceVars
  <2> QED
    BY <1>5, <2>1, <2>2 DEF Remembers
<1>9. /\ u.pc \notin {"idle", "wait", "loc write", "loc stamp", "link", "personalize"}
      /\ t.pc \notin {"idle", "wait", "loc write", "loc stamp", "link", "personalize"}
  BY <1>1, <1>5
<1>10. t \in Tasks /\ t.fd <= Len(kernels) /\ t.kernel = u.kernel
  BY <1>3, TaskFacts DEF Follows
<1> QED
  BY <1>1, <1>3, <1>6, <1>7, <1>8, <1>9, <1>10, BuildQuiet

(***************************************************************************)
(* The invariant, and what follows from it.                                *)
(***************************************************************************)
LEMMA InitHolds ==
    ASSUME Init
    PROVE  IInv
<1> USE KextcacheAssumption DEF Init
<1>1. NoImage \in Images /\ Idle \in Tasks
  <2>1. NoImage \in Images
    BY DEF NoImage, Images, Contents, None
  <2> QED
    BY <2>1 DEF Idle, Tasks, PCs, Whys, None
<1>2. kernels \in Seq(Kernels) /\ kernels # <<>> /\ Len(kernels) = 1
  BY DEF Kernels
<1>3. Typed
  <2>1. proc \in [Procs -> Tasks] /\ holder \in Procs \cup {None}
    BY <1>1
  <2>2. plk \in [Paths -> PlkFiles] /\ imk \in [Paths -> [now : ImkFiles, bak : ImkFiles]]
    BY <1>1 DEF NoFile, NoKernel, PlkFiles, ImkFiles
  <2>3. /\ folder \in [kexts : Folders, time : 0..clock] /\ clock \in 3..(3 + spent.events)
        /\ source \in [{"fde", "loc"} -> [rev : Nat, time : 0..clock]]
        /\ cache \in [{"fde", "loc"} -> [rev : Int, time : 0..(clock + 1)]]
        /\ spent.kills <= spent.events
    BY DEF NoCache
  <2>4. spent \in [starts : 0..MaxStarts, events : 0..MaxEvents, kills : Nat]
    BY KextcacheAssumption
  <2> QED
    BY <1>2, <2>1, <2>2, <2>3, <2>4 DEF Typed
<1>4. ProcInv
  <2>1. \A p \in Procs : Sound(p, proc[p])
    BY DEF Sound, Counted, Idle, Updating, Critical
  <2>2. Families /\ LockKept
    BY FamilyFacts DEF Families, LockKept, Idle
  <2> QED
    BY <2>1, <2>2 DEF ProcInv
<1>5. Timely
  <2>1. \A i \in DOMAIN kernels : kernels[i].time <= clock
    OBVIOUS
  <2>2. \A f \in Paths : plk[f].time <= clock + 1
    BY DEF NoFile
  <2>3. \A p \in Procs : proc[p].time = 0 /\ proc[p].fd = 0 /\ proc[p].pc = "idle"
    BY DEF Idle
  <2> QED
    BY <1>2, <2>1, <2>2, <2>3 DEF Timely
<1>6. PlkInv
  BY DEF PlkInv, Remembers, NoFile, Idle
<1>7. ImkInv
  BY DEF ImkInv, NoKernel
<1>8. LocInv
  <2>1. \A p \in Procs : proc[p].pc = "idle"
    BY DEF Idle
  <2>2. cache["loc"].time = 0 /\ LocTime = 2
    BY DEF LocTime, NoCache
  <2>3. cache["loc"].time # LocTime
    BY <2>2
  <2>4. \A p \in Procs : proc[p].pc # "loc stamp" /\ proc[p].pc # "loc write"
    BY <2>1
  <2> HIDE DEF Init
  <2> QED
    BY <2>3, <2>4 DEF LocInv
<1> QED
  BY <1>3, <1>4, <1>5, <1>6, <1>7, <1>8 DEF IInv

LEMMA StepKeeps ==
    ASSUME IInv, NEW p \in Procs, Step(p)
    PROVE  IInv'
  BY TakeKeeps, ExitKeeps, ReadKextsKeeps, OpenFilesKeeps, BuildSliceKeeps, StampKeeps, RenameKeeps,
     SetTimesKeeps, BackUpKeeps, LinkKeeps, PersonalizeKeeps, CloseKeeps, LoadKeeps, CheckKeeps,
     FDEKeeps, LocKeeps, ReleaseKeeps, UpdateAllowListKeeps DEF Step

LEMMA NextKeeps ==
    ASSUME IInv, [Next]_vars
    PROVE  IInv'
<1>1. CASE UNCHANGED vars
  <2>1. UNCHANGED <<proc, kextd, holder, clock, folder, kernels, plk, imk, source, cache, allowed, spent>>
    BY <1>1 DEF vars
  <2>2. Typed'
    BY <2>1 DEF IInv, Typed
  <2>3. ProcInv'
    BY <2>1 DEF IInv, ProcInv, Sound, Counted, Families, LockKept
  <2>4. Timely'
    BY <2>1 DEF IInv, Timely
  <2>5. PlkInv'
    BY <2>1 DEF IInv, PlkInv, Remembers, Remembered, Kernel
  <2>6. ImkInv'
    BY <2>1 DEF IInv, ImkInv, At
  <2>7. LocInv'
    BY <2>1 DEF IInv, LocInv, LocTime
  <2> QED
    BY <2>2, <2>3, <2>4, <2>5, <2>6, <2>7 DEF IInv
<1>2. CASE \E p \in Procs : Step(p) \/ Kill(p)
  BY <1>2, StepKeeps, KillKeeps
<1>3. CASE \E p \in Procs : \E c \in Given[p[1]] : Begin(p, c)
  BY <1>3, BeginKeeps
<1>4. CASE Change
  BY <1>4, ChangeKeeps
<1>5. CASE KextdReady \/ KextdChanges \/ ShutdownGivesUp
  BY <1>5, KextdKeeps
<1>6. CASE KextdCrashes
  BY <1>6, CrashKeeps
<1> QED
  BY <1>1, <1>2, <1>3, <1>4, <1>5, <1>6 DEF Next

\* The invariant is one: what each process is in the middle of, who counts on
\* the lock, and what may be said of the files meanwhile.
THEOREM SpecImpliesIInv == Spec => []IInv
<1>1. Init => IInv
  BY InitHolds
<1>2. IInv /\ [Next]_vars => IInv'
  BY NextKeeps
<1> QED
  BY <1>1, <1>2, PTL DEF Spec

\* BuildersInOrder: everything stays of its type; of the kextcaches of a volume
\* that count on kextd's lock, whether they took it or their parent did, one is
\* at work, however its calls of takeVolumeForPath() are nested; an immutable
\* kernel that was put aside is succeeded or put back.
THEOREM BuildersAreInOrder == Spec => []BuildersInOrder
<1>1. IInv => BuildersInOrder
  BY TypeHolds, OneBuilderHolds, ImmutableRestoredHolds DEF BuildersInOrder
<1> QED
  BY <1>1, SpecImpliesIInv, PTL

\* CachesAreCurrent: a prelinked kernel, or a cache of localized resources, that
\* the checks of kextcache take for current was made of what is there now, but
\* for the cases the two properties name.
THEOREM CachesStayCurrent == Spec => []CachesAreCurrent
<1>1. IInv => CachesAreCurrent
  BY AcceptedIsCurrentHolds, LocIsCurrentHolds DEF CachesAreCurrent
<1> QED
  BY <1>1, SpecImpliesIInv, PTL

\* ProtectedIsSafe: with SIP on no command puts into the system's prelinked
\* kernel a kext that is not signed, staged and approved.
THEOREM ProtectedStaysSafe == Spec => []ProtectedIsSafe
<1>1. IInv => ProtectedIsSafe
  BY ProtectedIsSafeHolds
<1> QED
  BY <1>1, SpecImpliesIInv, PTL
=============================================================================
