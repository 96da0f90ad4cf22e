------------------------------ MODULE Kextcache ------------------------------
(***************************************************************************)
(* The kextcache processes of one volume: prelinked kernels built by hand,  *)
(* "kextcache -u" with the child it forks, the immutable kernel and the     *)
(* caches for EFI login (kextcache_main.c, kernelcache.c, bootcaches.c), and *)
(* the lock that should keep them apart, which a process counts, hands to    *)
(* its child in the environment, and does without when kextd does not watch  *)
(* the volume (takeVolumeForPath(), putVolumeForPath()).                     *)
(*                                                                         *)
(* Files are known by name, by inode and by time, in seconds: a file counts  *)
(* as current if its time is the one its sources call for.  Between any two  *)
(* steps of a process installers change the sources and other processes run; *)
(* a process may be killed, kextd may crash.                                 *)
(*                                                                         *)
(* Assumed: a source changes at most once in a second.  Left out: the plist  *)
(* caches and the helper partitions (KextdExtensions, BootHelpers), kernel    *)
(* variants, symbols, the other slices of a fat file, the root folders and    *)
(* bootcaches.plist when they are missing.                                   *)
(***************************************************************************)
EXTENDS KextcacheArgs, Sequences

CONSTANTS
    Tools,      \* command lines that may run side by side
    Given,      \* [Tools -> SUBSET Commands], what each may be given
    Folders,    \* what the extensions folder may hold
    Installed,  \* ... and what it holds at first
    MaxStarts,  \* bound: tools started
    MaxEvents   \* bound: changes of the sources and of kextd, kills, failures

ASSUME KextcacheAssumption ==
    /\ \A t \in Tools : Given[t] \subseteq Commands
    /\ Folders \subseteq SUBSET Kexts /\ Installed \in Folders
    /\ {MaxStarts, MaxEvents} \subseteq Nat

Procs == Tools \X {"tool", "child"}
Child(p) == <<p[1], "child">>
Parent(p) == <<p[1], "tool">>
None == <<>>

VARIABLES
    proc,    \* the processes
    kextd,   \* what kextd is to takeVolumeForPath(); "closed": a reboot has begun
    holder,  \* of kextd's lock for the volume, or None
    clock,
    folder,  \* the extensions folder: kexts, time
    kernels, \* the kernels by inode, the last is at the path: rev, time
    plk,     \* the prelinked kernels
    imk,     \* the immutable kernel beside each, and its backup
    source,  \* of each of the caches for EFI login: rev, time
    cache,   \* these caches: rev, time
    allowed, \* the kext allow list is of this boot session
    spent    \* what the bounds count

vars == <<proc, kextd, holder, clock, folder, kernels, plk, imk, source, cache,
          allowed, spent>>
sourceVars == <<folder, kernels, source>>
fileVars == <<plk, imk, cache, allowed>>

NoImage == [kexts |-> {}, kernel |-> 0, job |-> None, raced |-> FALSE]
\* "stamp": who gave the file its time: nobody (it is the time of the last write),
\* the process that wrote it, or another one.
NoFile == [size |-> "none", ino |-> 0, time |-> 0, stamp |-> "none", image |-> NoImage]
NoKernel == [there |-> FALSE, time |-> 0, personal |-> FALSE]
NoCache == [rev |-> -1, time |-> 0]

\* A process: where it is; its arguments; _com_apple_kextd_skiplocks in its
\* environment, sBRUptLock, sBRUptLockCtr; how it got past takeVolumeForPath();
\* the kernel's time at the start, its descriptors (the prelinked kernel as an
\* inode, the kernel as an index), created_plk, the times and the file to write,
\* the status so far.
Idle == [pc |-> "idle", job |-> None, skip |-> FALSE, port |-> FALSE, ctr |-> 0,
         why |-> "none", kernel |-> None, kexts |-> {}, ino |-> 0, fd |-> 0,
         created |-> FALSE, time |-> 0, image |-> NoImage, ok |-> TRUE]

-----------------------------------------------------------------------------
Kernel == kernels[Len(kernels)]

\* The steps in which a process has passed takeVolumeForPath() and not yet put.
Critical == {"build", "stamp", "rename", "utimes", "backup", "link", "personalize",
             "check", "wait", "fde", "fde write", "loc", "loc write", "loc stamp",
             "release", "after", "allow"}
Takes == {"take main", "take context", "take build"}

TypeOK ==
    /\ \A p \in Procs :
          /\ proc[p].pc \in Critical \cup Takes \cup {"idle", "read", "open", "close", "load", "exit"}
          /\ {proc[p].skip, proc[p].port, proc[p].created, proc[p].ok} \subseteq BOOLEAN
          /\ proc[p].ctr \in -2..2 /\ proc[p].fd \in 0..Len(kernels)
          /\ proc[p].why \in {"none", "lock", "inherited", "without", "lost"}
          /\ proc[p].kexts \subseteq Kexts
    /\ kextd \in {"down", "starting", "unwatched", "watching", "closed"}
    /\ holder \in Procs \cup {None}
    /\ holder # None => kextd = "watching" /\ proc[holder].port
    /\ clock \in 0..(3 + MaxEvents)
    /\ folder.kexts \in Folders /\ folder.time \in 0..clock
    /\ \A i \in DOMAIN kernels : kernels[i].time \in 0..clock
    /\ \A f \in Paths : /\ plk[f].size \in {"none", "empty", "full"}
                        /\ plk[f].stamp \in {"none", "own", "other"}
    /\ {allowed} \subseteq BOOLEAN
    /\ spent.starts \in 0..MaxStarts /\ spent.events \in 0..MaxEvents
    /\ spent.kills \in 0..spent.events

\* Nothing is built; the kernel is older than the folder.
Init ==
    /\ proc = [p \in Procs |-> Idle]
    /\ kextd = "starting" /\ holder = None
    /\ clock = 3
    /\ folder = [kexts |-> Installed, time |-> 1]
    /\ kernels = <<[rev |-> 0, time |-> 0]>>
    /\ plk = [f \in Paths |-> NoFile]
    /\ imk = [f \in Paths |-> [now |-> NoKernel, bak |-> NoKernel]]
    /\ source = [d \in {"fde", "loc"} |-> [rev |-> 0, time |-> 1]]
    /\ cache = [d \in {"fde", "loc"} |-> NoCache]
    /\ allowed = FALSE
    /\ spent = [starts |-> 0, events |-> 0, kills |-> 0]

Event == spent.events < MaxEvents /\ spent' = [spent EXCEPT !.events = @ + 1]
Go(p, pc) == proc' = [proc EXCEPT ![p].pc = pc]
Fail(p, pc) == proc' = [proc EXCEPT ![p].pc = pc, ![p].ok = FALSE]

-----------------------------------------------------------------------------
(* Times. *)

\* check_kext_boot_cache_file(): the time a prelinked kernel should have.
Latest(exts, kernel) == IF kernel > exts + 1 THEN kernel + 1 ELSE exts + 1

\* getExpectedPrelinkedKernelModTime(): the time it is given; it is not the
\* same if the kernel is one second newer than the folder.
Expected(exts, kernel) == IF kernel > exts THEN kernel + 1 ELSE exts + 1

Accepted(f) == /\ plk[f].size # "none"
               /\ plk[f].time = Latest(folder.time, Kernel.time)

\* The immutable kernel must have that time, too, if one is asked for.
NeedsRebuild(job) ==
    \/ "invalidate" \in job.flags
    \/ ~Accepted("system")
    \/ /\ "build-immutable-kernel" \in job.flags
       /\ ~ (imk["system"].now.there /\ imk["system"].now.time = plk["system"].time)

-----------------------------------------------------------------------------
(* The lock: takeVolumeForPath(), putVolumeForPath(). *)

Past(p, ok) ==
    CASE proc[p].pc = "take main" -> IF proc[p].job.mode = "allowlist" THEN "allow"
                                     ELSE "take context"
      [] proc[p].pc = "take context" -> IF ok THEN "check" ELSE "release"
      [] proc[p].pc = "take build" -> IF ok THEN "build" ELSE "close"

\* Counted; the environment is set if this is the first call and has the lock.
Taken(p, why) ==
    proc' = [proc EXCEPT ![p].pc = Past(p, TRUE), ![p].ctr = @ + 1,
                         ![p].why = IF @ \in {"none", "without"} THEN why ELSE @,
                         ![p].port = @ \/ why = "lock",
                         ![p].skip = @ \/ (why = "lock" /\ proc[p].ctr = 0)]

\* A kextd that is starting is asked again, a lock that is held is waited for.
\* main() ignores a failure.
Take(p) ==
    /\ proc[p].pc \in Takes
    /\ \/ /\ proc[p].skip
          /\ Taken(p, IF proc[Parent(p)].why = "lock" THEN "inherited" ELSE "lost")
          /\ UNCHANGED holder
       \/ ~proc[p].skip /\ (~proc[p].job.root \/ kextd \in {"down", "unwatched"})
          /\ Taken(p, "without") /\ UNCHANGED holder
       \/ ~proc[p].skip /\ proc[p].job.root /\ kextd = "watching" /\ holder = None
          /\ Taken(p, "lock") /\ holder' = p
       \/ ~proc[p].skip /\ proc[p].job.root /\ kextd = "closed"
          /\ proc' = [proc EXCEPT ![p].pc = Past(p, FALSE),
                                  ![p].ok = @ /\ proc[p].pc = "take main"]
          /\ UNCHANGED holder
    /\ UNCHANGED <<kextd, clock, sourceVars, fileVars, spent>>

UnlocksAlways(p) == proc[p].port

Unlocks(p) == proc[p].port /\ proc[p].ctr <= 1

\* A kextd that has crashed since knows of no lock.
UnlockFails(p) == Unlocks(p) /\ holder # p

\* What is left of p's count, at "pc": nothing is counted if kextd refuses, though
\* the port is given up.
Put(p, pc) ==
    /\ proc' = [proc EXCEPT ![p].pc = pc,
                            ![p].ctr = IF UnlockFails(p) THEN @ ELSE @ - 1,
                            ![p].port = @ /\ ~Unlocks(p),
                            ![p].skip = @ /\ (~Unlocks(p) \/ UnlockFails(p)),
                            ![p].why = IF pc = "exit" THEN "none" ELSE @]
    /\ holder' = IF Unlocks(p) /\ holder = p THEN None ELSE holder

-----------------------------------------------------------------------------
(* A tool begins and ends. *)

KeptBy(p) == holder

\* kextd is told that the port in a dead process has died.
FreedBy(p) == IF holder = p THEN None ELSE holder

First(job) ==
    CASE job.mode \in {"update", "allowlist"} -> "take main"
      [] job.mode = "build" -> "read"
      [] job.mode = "compress" -> "load"
      [] OTHER -> "exit"

\* main() with arguments that were checked; checkArgs() has recorded the
\* kernel's time.
Fresh(job, skip) == [Idle EXCEPT !.pc = First(job), !.job = job, !.skip = skip,
                                 !.kernel = Kernel]

Begin(p, c) ==
    /\ p = Parent(p) /\ proc[p].pc = "idle" /\ proc[Child(p)].pc = "idle"
    /\ CheckArgs(c) = "EX_OK"
    /\ spent.starts < MaxStarts
    /\ spent' = [spent EXCEPT !.starts = @ + 1]
    /\ proc' = [proc EXCEPT ![p] = Fresh(Job(c), FALSE)]
    /\ UNCHANGED <<kextd, holder, clock, sourceVars, fileVars>>

\* Once p is gone: the parent that waits for it goes on, its orphan has no lock
\* to rely on.
Gone(p, ok) ==
    proc' = [q \in Procs |->
        IF q = p THEN Idle
        ELSE IF q = Parent(p) /\ proc[q].pc = "wait"
        THEN [proc[q] EXCEPT !.pc = IF ok THEN "fde" ELSE "release", !.ok = ok]
        ELSE IF q = Child(p)
        THEN [proc[q] EXCEPT !.why = IF @ = "inherited" THEN "lost" ELSE @]
        ELSE proc[q]]

Exit(p) ==
    /\ proc[p].pc = "exit"
    /\ Gone(p, proc[p].ok)
    /\ holder' = FreedBy(p)
    /\ UNCHANGED <<kextd, clock, sourceVars, fileVars, spent>>

-----------------------------------------------------------------------------
(* createPrelinkedKernel() *)

\* All the kexts, and, with -all-loaded, which of them are loaded; the kernel may
\* not say.
ReadKexts(p) ==
    /\ proc[p].pc = "read"
    /\ LET ks == {k \in folder.kexts : "secure" \in proc[p].job.auth => k.stageable} IN
       \/ ks = {} /\ Fail(p, "exit") /\ UNCHANGED spent
       \/ /\ ks # {} /\ proc' = [proc EXCEPT ![p].pc = "open", ![p].kexts = folder.kexts]
          /\ UNCHANGED spent
       \/ ks # {} /\ "all-loaded" \in proc[p].job.flags /\ Event /\ Fail(p, "exit")
    /\ UNCHANGED <<kextd, holder, clock, sourceVars, fileVars>>

\* An empty file is as good as one just created.
OpenFiles(p) ==
    /\ proc[p].pc = "open"
    /\ LET f == proc[p].job.path
           file == IF plk[f].size # "none" THEN plk[f]
                   ELSE [NoFile EXCEPT !.size = "empty", !.ino = plk[f].ino + 1, !.time = clock] IN
       /\ plk' = [plk EXCEPT ![f] = file]
       /\ proc' = [proc EXCEPT ![p].ino = file.ino, ![p].fd = Len(kernels),
                               ![p].created = file.size = "empty",
                               ![p].ok = MayWrite(proc[p].job),
                               ![p].pc = IF MayWrite(proc[p].job) THEN "take build" ELSE "close"]
    /\ UNCHANGED <<kextd, holder, clock, sourceVars, imk, cache, allowed, spent>>

\* createPrelinkedKernelForArch(): the kernel is read through its descriptor.
BuildSlice(p) ==
    /\ proc[p].pc = "build"
    /\ LET ks == Selected(proc[p].kexts, proc[p].job) IN
       \/ ks = {} /\ Fail(p, "close")
       \/ /\ ks # {}
          /\ proc' = [proc EXCEPT ![p].pc = "stamp",
                        ![p].image = [kexts |-> ks, kernel |-> kernels[proc[p].fd].rev,
                                      job |-> proc[p].job, raced |-> FALSE]]
    /\ UNCHANGED <<kextd, holder, clock, sourceVars, fileVars, spent>>

KernelThere(p) == proc[p].fd # 0

KernelAsAtStart(p) == kernels[proc[p].fd] = proc[p].kernel

\* checkArgs() has times of both sources: with no folder there is no time to give
\* to the file, and the kernel's is not looked at.
Dated(job) == job.mode = "compress" \/ job.folders

\* The folder's time is read now, and not compared with what it was.
Stamp(p) ==
    /\ proc[p].pc = "stamp"
    /\ \/ Dated(proc[p].job) /\ ~KernelAsAtStart(p) /\ Fail(p, "close")
       \/ /\ Dated(proc[p].job) => KernelAsAtStart(p)
          /\ proc' = [proc EXCEPT ![p].pc = "rename",
                        ![p].time = IF Dated(proc[p].job)
                                    THEN Expected(folder.time, kernels[proc[p].fd].time) ELSE @,
                        ![p].image.raced = \/ folder.kexts # proc[p].kexts
                                           \/ proc[p].fd # Len(kernels)]
    /\ UNCHANGED <<kextd, holder, clock, sourceVars, fileVars, spent>>

\* A rename in place of the file that was opened, or (writeFatFile()) of any.
SameFile(p) == proc[p].job.mode = "compress"
               \/ (plk[proc[p].job.path].size # "none" /\ plk[proc[p].job.path].ino = proc[p].ino)

\* Where a kextcache goes once the file is written.
Written(job) == IF "build-immutable-kernel" \in job.flags /\ job.mode = "build"
                THEN "backup" ELSE "close"

\* writeFatFileWithValidation(): the new file gets its time afterwards.
Rename(p) ==
    /\ proc[p].pc = "rename"
    /\ LET f == proc[p].job.path IN
       \/ /\ SameFile(p)
          /\ plk' = [plk EXCEPT ![f] = [size |-> "full", ino |-> @.ino + 1, time |-> clock,
                                        stamp |-> "none", image |-> proc[p].image]]
          /\ proc' = [proc EXCEPT ![p].created = FALSE,
                                  ![p].pc = IF Dated(proc[p].job) THEN "utimes"
                                            ELSE Written(proc[p].job),
                                  ![p].ino = plk[f].ino + 1]
          /\ UNCHANGED spent
       \/ ~SameFile(p) /\ Fail(p, "close") /\ UNCHANGED <<plk, spent>>
       \/ Event /\ Fail(p, "close") /\ UNCHANGED plk
    /\ UNCHANGED <<kextd, holder, clock, sourceVars, imk, cache, allowed>>

\* utimes() goes by name.
SetTimes(p) ==
    /\ proc[p].pc = "utimes"
    /\ LET f == proc[p].job.path IN
       plk' = IF plk[f].size = "none" THEN plk
              ELSE [plk EXCEPT ![f].time = proc[p].time,
                               ![f].stamp = IF plk[f].ino = proc[p].ino THEN "own" ELSE "other"]
    /\ Go(p, Written(proc[p].job))
    /\ UNCHANGED <<kextd, holder, clock, sourceVars, imk, cache, allowed, spent>>

\* buildImmutableKernelcache(): the old one is put aside, the new one linked,
\* then personalized; if that fails the backup comes back, if there is one.
BackUp(p) ==
    /\ proc[p].pc = "backup"
    /\ LET f == proc[p].job.path IN
       imk' = IF imk[f].now.there
              THEN [imk EXCEPT ![f] = [now |-> NoKernel, bak |-> imk[f].now]] ELSE imk
    /\ Go(p, "link")
    /\ UNCHANGED <<kextd, holder, clock, sourceVars, plk, cache, allowed, spent>>

Restored(f) == IF imk[f].bak.there
               THEN [imk EXCEPT ![f] = [now |-> imk[f].bak, bak |-> NoKernel]] ELSE imk

Link(p) ==
    /\ proc[p].pc = "link"
    /\ LET f == proc[p].job.path IN
       \/ /\ ~imk[f].now.there /\ plk[f].size # "none"
          /\ imk' = [imk EXCEPT ![f].now = [there |-> TRUE, time |-> plk[f].time, personal |-> FALSE]]
          /\ Go(p, "personalize")
       \/ /\ imk[f].now.there \/ plk[f].size = "none"
          /\ imk' = Restored(f)
          /\ Fail(p, "close")
    /\ UNCHANGED <<kextd, holder, clock, sourceVars, plk, cache, allowed, spent>>

Personalize(p) ==
    /\ proc[p].pc = "personalize"
    /\ LET f == proc[p].job.path IN
       \/ /\ imk' = [imk EXCEPT ![f].now.personal = @ \/ imk[f].now.there]
          /\ Go(p, "close")
          /\ UNCHANGED spent
       \/ /\ Event
          /\ imk' = Restored(f)
          /\ Fail(p, "close")
    /\ UNCHANGED <<kextd, holder, clock, sourceVars, plk, cache, allowed>>

\* finish: a file that had to be created is removed if there was a failure.
Close(p) ==
    /\ proc[p].pc = "close"
    /\ plk' = IF proc[p].created /\ ~proc[p].ok
              THEN [plk EXCEPT ![proc[p].job.path] = [NoFile EXCEPT !.ino = plk[proc[p].job.path].ino]]
              ELSE plk
    /\ IF proc[p].job.mode = "build" THEN Put(p, "exit") ELSE Go(p, "exit") /\ UNCHANGED holder
    /\ UNCHANGED <<kextd, clock, sourceVars, imk, cache, allowed, spent>>

\* compressPrelinkedKernel() takes no lock; the file keeps its time.
Load(p) ==
    /\ proc[p].pc = "load"
    /\ LET file == plk[proc[p].job.path] IN
       \/ file.size # "full" /\ Fail(p, "exit")
       \/ /\ file.size = "full"
          /\ proc' = [proc EXCEPT ![p].pc = "rename", ![p].time = file.time,
                        ![p].image = [file.image EXCEPT !.raced = @ \/ file.stamp # "own"]]
    /\ UNCHANGED <<kextd, holder, clock, sourceVars, fileVars, spent>>

-----------------------------------------------------------------------------
(* doUpdateVolume(), checkRebuildAllCaches() *)

\* rebuild_kext_boot_cache_file() runs kextcache and waits for it.
Check(p) ==
    /\ proc[p].pc = "check"
    /\ IF NeedsRebuild(proc[p].job)
       THEN proc' = [proc EXCEPT ![p].pc = "wait",
                        ![Child(p)] = Fresh(Job(RebuildCommand(proc[p].job)), proc[p].skip)]
       ELSE Go(p, "fde")
    /\ UNCHANGED <<kextd, holder, clock, sourceVars, fileVars, spent>>

\* rebuild_csfde_cache(): the file has no content but its time.
CheckFDE(p) ==
    /\ proc[p].pc = "fde"
    /\ IF cache["fde"].time = source["fde"].time
       THEN Go(p, "loc") /\ UNCHANGED cache
       ELSE /\ proc' = [proc EXCEPT ![p].pc = "fde write", ![p].time = source["fde"].time]
            /\ cache' = [cache EXCEPT !["fde"] = NoCache]
    /\ UNCHANGED <<kextd, holder, clock, sourceVars, plk, imk, allowed, spent>>

WriteFDE(p) ==
    /\ proc[p].pc = "fde write"
    /\ \/ /\ cache' = [cache EXCEPT !["fde"] = [rev |-> 0, time |-> proc[p].time]]
          /\ Go(p, "loc")
          /\ UNCHANGED spent
       \/ Event /\ Fail(p, "release") /\ UNCHANGED cache
    /\ UNCHANGED <<kextd, holder, clock, sourceVars, plk, imk, allowed>>

LocTime == source["loc"].time + 1

\* rebuild_loccache(): the times of the sources are read before the sources are,
\* and an empty directory waits for them.
CheckLoc(p) ==
    /\ proc[p].pc = "loc"
    /\ IF cache["fde"] = NoCache \/ cache["loc"].time = LocTime
       THEN Go(p, "release") /\ UNCHANGED cache
       ELSE /\ proc' = [proc EXCEPT ![p].pc = "loc write", ![p].time = LocTime]
            /\ cache' = [cache EXCEPT !["loc"] = [rev |-> -1, time |-> clock]]
    /\ UNCHANGED <<kextd, holder, clock, sourceVars, plk, imk, allowed, spent>>

\* A failure, as the directory was removed again, removes it, and is forgiven.
WriteLoc(p) ==
    /\ proc[p].pc = "loc write"
    /\ \/ /\ cache["loc"] # NoCache
          /\ cache' = [cache EXCEPT !["loc"] = [rev |-> source["loc"].rev, time |-> clock]]
          /\ Go(p, "loc stamp")
          /\ UNCHANGED spent
       \/ /\ (cache["loc"] = NoCache /\ UNCHANGED spent) \/ Event
          /\ cache' = [cache EXCEPT !["loc"] = NoCache]
          /\ Go(p, "release")
    /\ UNCHANGED <<kextd, holder, clock, sourceVars, plk, imk, allowed>>

LocStamp(p) == proc[p].time

StampLoc(p) ==
    /\ proc[p].pc = "loc stamp"
    /\ cache' = IF cache["loc"] = NoCache THEN cache
                ELSE [cache EXCEPT !["loc"].time = LocStamp(p)]
    /\ Go(p, "release")
    /\ UNCHANGED <<kextd, holder, clock, sourceVars, plk, imk, allowed, spent>>

\* releaseContext(); main() then prunes the staged kexts and makes the plist
\* caches, and puts the lock a second time.
ReleaseContext(p) ==
    /\ proc[p].pc = "release"
    /\ Put(p, "after")
    /\ UNCHANGED <<kextd, clock, sourceVars, fileVars, spent>>

After(p) ==
    /\ proc[p].pc = "after"
    /\ Put(p, "exit")
    /\ UNCHANGED <<kextd, clock, sourceVars, fileVars, spent>>

\* updateKextAllowList(): once in a boot session.
UpdateAllowList(p) ==
    /\ proc[p].pc = "allow"
    /\ \/ /\ allowed /\ Fail(p, "after") /\ UNCHANGED <<allowed, spent>>
       \/ /\ ~allowed /\ allowed' = TRUE /\ Go(p, "after") /\ UNCHANGED spent
       \/ /\ ~allowed /\ Event /\ Fail(p, "after") /\ UNCHANGED allowed
    /\ UNCHANGED <<kextd, holder, clock, sourceVars, plk, imk, cache>>

-----------------------------------------------------------------------------
(* The world. *)

\* A source changes, in a second of its own.
Change ==
    /\ Event
    /\ clock' = clock + 1
    /\ \/ /\ \E ks \in Folders \ {folder.kexts} : folder' = [kexts |-> ks, time |-> clock']
          /\ UNCHANGED <<kernels, source>>
       \/ /\ LET new == [rev |-> Kernel.rev + 1, time |-> clock'] IN
             kernels' \in {Append(kernels, new), [kernels EXCEPT ![Len(kernels)] = new]}
          /\ UNCHANGED <<folder, source>>
       \/ /\ \E d \in {"fde", "loc"} :
                source' = [source EXCEPT ![d] = [rev |-> @.rev + 1, time |-> clock']]
          /\ UNCHANGED <<folder, kernels>>
    /\ UNCHANGED <<proc, kextd, holder, fileVars>>

Kill(p) ==
    /\ proc[p].pc # "idle" /\ spent.events < MaxEvents
    /\ spent' = [spent EXCEPT !.events = @ + 1, !.kills = @ + 1]
    /\ Gone(p, FALSE)
    /\ holder' = FreedBy(p)
    /\ UNCHANGED <<kextd, clock, sourceVars, fileVars>>

\* kextd gets ready; a volume appears; a shutdown takes the lock.
KextdReady ==
    /\ \/ kextd = "starting" /\ kextd' \in {"unwatched", "watching"}
       \/ kextd = "down" /\ kextd' = "starting"
    /\ UNCHANGED <<proc, holder, clock, sourceVars, fileVars, spent>>

KextdChanges ==
    /\ Event
    /\ \/ kextd = "unwatched" /\ kextd' = "watching"
       \/ kextd = "watching" /\ holder = None /\ kextd' = "closed"
    /\ UNCHANGED <<proc, holder, clock, sourceVars, fileVars>>

\* The shutdown that took the lock dies.
ShutdownGivesUp ==
    /\ kextd = "closed" /\ kextd' = "watching"
    /\ UNCHANGED <<proc, holder, clock, sourceVars, fileVars, spent>>

KextdCrashes ==
    /\ kextd # "down" /\ Event
    /\ kextd' = "down" /\ holder' = None
    /\ proc' = [p \in Procs |-> [proc[p] EXCEPT
                    !.why = IF @ \in {"lock", "inherited"} THEN "lost" ELSE @]]
    /\ UNCHANGED <<clock, sourceVars, fileVars>>

Step(p) ==
    \/ Take(p) \/ Exit(p)
    \/ ReadKexts(p) \/ OpenFiles(p) \/ BuildSlice(p) \/ Stamp(p) \/ Rename(p) \/ SetTimes(p)
    \/ BackUp(p) \/ Link(p) \/ Personalize(p) \/ Close(p) \/ Load(p)
    \/ Check(p) \/ CheckFDE(p) \/ WriteFDE(p) \/ CheckLoc(p) \/ WriteLoc(p) \/ StampLoc(p)
    \/ ReleaseContext(p) \/ After(p) \/ UpdateAllowList(p)

Next ==
    \/ \E p \in Procs : Step(p) \/ Kill(p)
    \/ \E p \in Procs : \E c \in Given[p[1]] : Begin(p, c)
    \/ Change \/ KextdReady \/ KextdChanges \/ ShutdownGivesUp \/ KextdCrashes

Spec == Init /\ [][Next]_vars

\* A process that can run runs, a kextd that has been started gets ready.
FairSpec == Spec /\ (\A p \in Procs : WF_vars(Step(p))) /\ WF_vars(KextdReady)

-----------------------------------------------------------------------------
(* What the kextcaches of a volume promise. *)

\* At work past takeVolumeForPath(), with kextd's lock, and with a put still due.
HasLock(p) ==
    proc[p].pc \in Critical /\ proc[p].why \in {"lock", "inherited"} /\ proc[p].ctr > 0

Holds(t) == \E p \in {t} \X {"tool", "child"} : HasLock(p)

\* Of the tools that went past takeVolumeForPath() with kextd's lock, their own
\* or that of the parent, only one is at work until it has put the lock as often
\* as it took it, as long as kextd lives: nested calls neither drop the lock
\* early nor take it twice.  A main() whose own call was refused, as a shutdown
\* had the reboot lock, is not among them after releaseContext(): it goes on to
\* the staging folder and the plist caches with no lock (its put is one too many).
OneBuilder == \A s, t \in Tools : Holds(s) /\ Holds(t) => s = t

\* What check_kext_boot_cache_file() takes for current is made of the kexts that
\* are there and of the kernel that is there, whatever ran at the same time.
\* Three things break it: a source that changed while the kernel was built
\* ("raced": no later check sees that), a kernel whose time is not beyond
\* the second after the folder's, and a file that has its time by accident (the
\* stamp of another process, or none as its writer was killed).
AcceptedIsCurrent ==
    LET file == plk["system"] IN
    Accepted("system") /\ file.stamp = "own" /\ ~file.image.raced =>
        /\ file.size = "full"
        /\ file.image.kexts = Selected(folder.kexts, file.image.job)
        /\ file.image.kernel = Kernel.rev \/ Kernel.time <= folder.time + 1

\* The localized resources that check_loccache() takes for current are, unless
\* their directory was made in just the second their time stands for.
LocIsCurrent ==
    /\ cache["loc"].time = LocTime
    /\ \A p \in Procs : proc[p].pc \notin {"loc write", "loc stamp"}
    /\ spent.kills = 0
    => cache["loc"].rev = source["loc"].rev

\* A cache whose time the checks accept has the content they take it for.
CachesAreCurrent == AcceptedIsCurrent /\ LocIsCurrent

\* With SIP on, the system's prelinked kernel never holds a kext that is not
\* signed, staged and approved, nor an untrusted kernel, whichever command,
\* child or compression wrote it.
ProtectedIsSafe ==
    Sip /\ plk["system"].size = "full" =>
        /\ plk["system"].image.job.trusted
        /\ \A k \in plk["system"].image.kexts :
              k.valid /\ k.signed /\ k.stageable /\ ~k.excluded

\* A personalized immutable kernel that was put aside is back in place, or has a
\* personalized successor, once nobody works on it: a failure at any step undoes
\* the renames (buildImmutableKernelcache()); a kill does not.
ImmutableRestored ==
    spent.kills = 0 =>
        \A f \in Paths : imk[f].bak.personal /\ ~imk[f].now.personal =>
            \E p \in Procs : proc[p].job # None /\ proc[p].job.path = f
                             /\ proc[p].pc \in {"link", "personalize"}

\* Builders keep to themselves and undo what they do not finish.
BuildersInOrder == TypeOK /\ OneBuilder /\ ImmutableRestored

\* A tool whose child waits for the tool's own lock: the volume became watched
\* between its two calls of takeVolumeForPath(), so that it has the lock but not
\* _com_apple_kextd_skiplocks.
WaitsForItself(t) ==
    /\ holder = <<t, "tool">>
    /\ proc[<<t, "child">>].pc = "take build" /\ ~proc[<<t, "child">>].skip

\* Every kextcache ends: waits for the lock, for kextd to start and for a child
\* do not form a cycle, except the one above.
ToolsEnd ==
    \A t \in Tools :
        proc[<<t, "tool">>].pc # "idle" ~>
            (proc[<<t, "tool">>].pc = "idle" \/ \E s \in Tools : WaitsForItself(s))
=============================================================================
