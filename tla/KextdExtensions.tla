--------------------------- MODULE KextdExtensions ---------------------------
(***************************************************************************)
(* The kexts kextd knows, the personalities it gives to the kernel, and the *)
(* requests it answers with them (kextd_main.c, kextd_personalities.c,      *)
(* kextd_request.c), composed with the alerts of KextdAlerts.               *)
(*                                                                         *)
(* kextd reads the extensions folders when a request needs them, releases   *)
(* them a while later, and reads them again if a folder's time changed.  It *)
(* sends all personalities to the kernel when it starts and when it finds   *)
(* the plist caches out of date; the personalities come from a cache file   *)
(* if that is as new as the folders.  kextcache writes the same files.      *)
(*                                                                         *)
(* kextd has one thread; while it works through one operation, installers   *)
(* and kextcache run.  Abstracted: what a kext contains (a status), the     *)
(* order of the kernel's requests, plug-ins, the arguments of a request     *)
(* (a malformed one is ignored), the exclude list's own kext.               *)
(***************************************************************************)
EXTENDS KextdAlerts

CONSTANTS
    Statuses,   \* what a kext can be on disk, in this instance
    MaxChanges  \* bound: changes to the extensions folders, and SIGHUPs

\* "badDeps": a dependency is not authentic; "unloadable": OSKextLoad()
\* fails; "tampered": authentic when checked, not when loaded.
AllStatuses == {"absent", "unstageable", "inauthentic", "badDeps", "unloadable",
                "tampered", "good"}
Authentic == AllStatuses \ {"absent", "unstageable", "inauthentic"}

ASSUME ExtensionsAssumption ==
    /\ Statuses \subseteq AllStatuses
    /\ MaxChanges \in Nat

Requests == {"load", "launch", "resource"} \X Kexts
NoKexts == [k \in Kexts |-> "absent"]

VARIABLES
    dexts,      \* the kexts that are driver extensions, run in user space
    disk,       \* the extensions folders
    mtime,      \* their latest time of modification
    allKexts,   \* sAllKexts
    read,       \* sAllKexts # NULL
    lastMod,    \* lastModTime of readExtensions()
    op,         \* the operation kextd works at, and how far it has come
    persCache,  \* the cache of personalities: the folders' time, and whose
    helperTime, \* the folders' time the other plist caches were made for
    builder,    \* a kextcache that rebuilds the plist caches: what it scanned
    watch,      \* the volume watcher is going to check '/'
    catalogue,  \* IOCatalogue: the kexts whose personalities the kernel has
    loaded,     \* kexts in the kernel, drivers in user space
    waiting,    \* requests the kernel waits for
    asked,      \* ... those not yet handled
    refused,    \* history: personalities removed since they were last sent
    orphaned,   \* history: requests that were lost in a crash
    sentFor,    \* history: the folders' time of what last replaced the catalogue
    misled,     \* history: what was sent rests on a cache of older folders, or
                \*   the watcher found up to date what kextd had not seen
    changes     \* what MaxChanges bounds

folderVars == <<dexts, disk, mtime, changes>>
knownVars == <<allKexts, read, lastMod>>
cacheVars == <<persCache, helperTime, builder>>
kernelVars == <<catalogue, loaded, waiting, asked, refused, orphaned>>
rescanVars == <<watch, sentFor, misled>>
vars == <<alertVars, folderVars, knownVars, op, cacheVars, kernelVars, rescanVars>>

Idle == [what |-> "none", on |-> <<>>, step |-> "idle"]
Op(what, on) == [what |-> what, on |-> on, step |-> "stat"]
NoBuilder == [busy |-> FALSE, kexts |-> {}]

AuthenticIn(view) == {k \in Kexts : view[k] \in Authentic}

\* Every variable has its type.
TypeOK ==
    /\ AlertsTypeOK
    /\ dexts \subseteq Kexts
    /\ disk \in [Kexts -> Statuses \cup {"absent"}]
    /\ mtime \in 1..(MaxChanges + 1) /\ changes \in 0..MaxChanges
    /\ allKexts \in [Kexts -> Statuses \cup {"absent"}] /\ read \in BOOLEAN
    /\ {lastMod, helperTime, sentFor, persCache.time} \subseteq 0..mtime
    /\ op.what \in {"none", "start", "rescan", "request"}
    /\ op.on \in Requests \cup {<<>>}
    /\ op.step \in {"idle", "stat", "scan", "send", "cache", "helpers", "serve"}
    /\ persCache.kexts \subseteq Kexts
    /\ builder \in [busy : BOOLEAN, kexts : SUBSET Kexts]
    /\ {watch, misled} \subseteq BOOLEAN
    /\ {catalogue, loaded, refused} \subseteq SUBSET Kexts
    /\ {waiting, asked, orphaned} \subseteq SUBSET Requests
    /\ asked \subseteq waiting

Init ==
    /\ AlertsInit
    /\ dexts \in SUBSET Kexts
    /\ disk \in [Kexts -> Statuses]
    /\ mtime = 1 /\ changes = 0
    /\ allKexts = NoKexts /\ read = FALSE /\ lastMod = 0
    /\ op = Op("start", <<>>)
    /\ \E ks \in {{}, AuthenticIn(disk)} : persCache = [time |-> IF ks = {} THEN 0 ELSE 1, kexts |-> ks]
    /\ helperTime \in {0, 1} /\ builder = NoBuilder
    /\ watch = FALSE /\ sentFor = 0 /\ misled = FALSE
    /\ catalogue = {} /\ loaded = {} /\ waiting = {} /\ asked = {}
    /\ refused = {} /\ orphaned = {}

-----------------------------------------------------------------------------
(* Installers, kextcache, the kernel. *)

\* A kext is installed, replaced, damaged or removed; the volume watcher hears
\* of the folder.
ChangeFolder(k, s) ==
    /\ changes < MaxChanges
    /\ s # disk[k]
    /\ changes' = changes + 1
    /\ disk' = [disk EXCEPT ![k] = s]
    /\ mtime' = mtime + 1
    /\ watch' = TRUE
    /\ UNCHANGED <<alertVars, dexts, knownVars, op, cacheVars, kernelVars, sentFor, misled>>

\* updateSystemPlistCaches(): it scans, then writes all the plist caches; a
\* cache file gets the time the folders have when it is written.
KextcacheScan ==
    /\ ~ builder.busy
    /\ persCache.time # mtime \/ helperTime # mtime
    /\ builder' = [busy |-> TRUE, kexts |-> AuthenticIn(disk)]
    /\ UNCHANGED <<alertVars, folderVars, knownVars, op, persCache, helperTime,
                   kernelVars, rescanVars>>

KextcacheWrite ==
    /\ builder.busy
    /\ builder' = NoBuilder
    /\ persCache' = [time |-> mtime, kexts |-> builder.kexts]
    /\ helperTime' = mtime
    /\ UNCHANGED <<alertVars, folderVars, knownVars, op, kernelVars, rescanVars>>

\* The kernel matches a driver and asks for it, or a loaded kext asks for a
\* resource of its bundle.
KernelAsks(r) ==
    /\ r \notin waiting
    /\ IF r[1] = "resource" THEN r[2] \in loaded
       ELSE r[2] \in catalogue \ loaded /\ (r[1] = "launch" <=> r[2] \in dexts)
    /\ waiting' = waiting \cup {r}
    /\ asked' = asked \cup {r}
    /\ UNCHANGED <<alertVars, folderVars, knownVars, op, cacheVars, rescanVars,
                   catalogue, loaded, refused, orphaned>>

-----------------------------------------------------------------------------
(* kextd reads the extensions: readExtensions(), releaseExtensions(). *)

ToStep(s) == op' = [op EXCEPT !.step = s]

FoldersOlder == lastMod > mtime

FoldersChanged == lastMod # mtime

\* The times of the folders are taken first; what is known goes if they
\* differ from the last time, or cannot be had.  A rescan releases it anyway.
StatFolders ==
    /\ op.step = "stat"
    /\ ToStep("scan")
    /\ \/ /\ lastMod' = mtime
          /\ read' = (read /\ ~ FoldersChanged /\ op.what # "rescan")
          /\ UNCHANGED spent
       \/ /\ Fault
          /\ read' = FALSE
          /\ UNCHANGED lastMod
    /\ allKexts' = IF read' THEN allKexts ELSE NoKexts
    /\ UNCHANGED <<sessionVars, queueVars, blocks, fileVars, historyVars,
                   folderVars, cacheVars, kernelVars, rescanVars>>

AfterScan == IF op.what = "request" THEN "serve" ELSE "send"

\* createStagedKextsFromURLs(): a kext that cannot be staged is not among them.
ScanFolders ==
    /\ op.step = "scan"
    /\ ToStep(AfterScan)
    /\ read' = TRUE
    /\ allKexts' = IF read THEN allKexts
                   ELSE [k \in Kexts |-> IF disk[k] = "unstageable" THEN "absent" ELSE disk[k]]
    /\ UNCHANGED <<alertVars, folderVars, lastMod, cacheVars, kernelVars, rescanVars>>

\* The timer of scheduleReleaseExtensions().
ReleaseExtensions ==
    /\ op = Idle /\ read
    /\ read' = FALSE /\ allKexts' = NoKexts
    /\ UNCHANGED <<alertVars, folderVars, lastMod, op, cacheVars, kernelVars, rescanVars>>

-----------------------------------------------------------------------------
(* kextd sends personalities: sendSystemKextPersonalitiesToKernel(). *)

ResetsIfEmpty == op.what = "rescan" /\ catalogue = {}

\* rescanExtensions() resets the catalogue, main() adds to what is there.
Resets == op.what = "rescan"

Replaces == Resets \/ catalogue = {}

Send(ks, time, wrong) ==
    /\ sentFor' = IF Replaces THEN time ELSE sentFor
    /\ misled' = (wrong \/ (misled /\ ~ Replaces))
    /\ catalogue' = IF Resets THEN ks ELSE catalogue \cup ks
    /\ refused' = refused \ catalogue'
    /\ UNCHANGED <<loaded, waiting, asked, orphaned>>

AfterSend == IF op.what = "rescan" THEN "helpers" ELSE "idle"

\* When kextd has started, it watches the volumes and checks each.
Finish(step) ==
    IF step = "idle"
    THEN op' = Idle /\ watch' = (watch \/ op.what = "start")
    ELSE ToStep(step) /\ UNCHANGED watch

\* sendCachedPersonalitiesToKernel(), if _OSKextReadCache() finds the cache of
\* the time the folders have.
SendCached ==
    /\ op.step = "send"
    /\ persCache.time = mtime
    /\ Send(persCache.kexts, mtime, persCache.kexts # AuthenticIn(disk))
    /\ Finish(AfterSend)
    /\ UNCHANGED <<alertVars, folderVars, knownVars, cacheVars>>

\* Otherwise from the kexts read before, each staged once more.
SendFromKexts ==
    /\ op.step = "send"
    /\ persCache.time # mtime
    /\ RecordNonsecureKexts({k \in Kexts : allKexts[k] # "absent"
                                           /\ disk[k] \in {"absent", "unstageable"}})
    /\ Send(AuthenticIn(allKexts), lastMod, FALSE)
    /\ ToStep("cache")
    /\ UNCHANGED <<sessionVars, dialog, blocks, fileVars, historyVars, spent,
                   folderVars, knownVars, cacheVars, watch>>

\* ... and the cache is written for the next time, with the folders' time of now.
WriteCache ==
    /\ op.step = "cache"
    /\ persCache' = [time |-> mtime, kexts |-> AuthenticIn(allKexts)]
    /\ Finish(AfterSend)
    /\ UNCHANGED <<alertVars, folderVars, knownVars, helperTime, builder, kernelVars,
                   sentFor, misled>>

\* The rescan ends with the values of OSBundleHelper, read and written anew.
UpdateHelpers ==
    /\ op.step = "helpers"
    /\ helperTime' = mtime
    /\ Finish("idle")
    /\ UNCHANGED <<alertVars, folderVars, knownVars, persCache, builder, kernelVars,
                   sentFor, misled>>

\* rescanExtensions() begins.
Rescan ==
    /\ op = Idle
    /\ op' = Op("rescan", <<>>)
    /\ Reset(FALSE)
    /\ UNCHANGED <<sessionVars, signalled, blocks, fileVars, shown, unwritten,
                   knownVars, cacheVars, kernelVars, sentFor>>

\* check_rebuild() of '/': plistCachesNeedRebuild() looks at the caches of
\* identifiers and of OSBundleHelper, not at the one of personalities.
WatcherChecks ==
    /\ op = Idle /\ watch
    /\ watch' = FALSE
    /\ \/ helperTime # mtime /\ Rescan /\ UNCHANGED <<folderVars, misled, spent>>
       \/ /\ helperTime = mtime
          /\ misled' = (misled \/ sentFor # mtime)
          /\ UNCHANGED <<alertVars, folderVars, knownVars, op, cacheVars, kernelVars, sentFor>>

\* SIGHUP.
HangUp ==
    /\ changes < MaxChanges
    /\ changes' = changes + 1
    /\ Rescan
    /\ UNCHANGED <<spent, dexts, disk, mtime, watch, misled>>

-----------------------------------------------------------------------------
(* kextd serves the kernel: kextdProcessKernel...Request(). *)

Fetched(r) == asked \ {r}

TakeRequest(r) ==
    /\ op = Idle
    /\ r \in asked
    /\ asked' = Fetched(r)
    /\ op' = Op("request", r)
    /\ UNCHANGED <<alertVars, folderVars, knownVars, cacheVars, rescanVars,
                   catalogue, loaded, waiting, refused, orphaned>>

Answered == waiting' = waiting \ {op.on}

\* OSKextRemovePersonalitiesForIdentifierFromKernel(): nothing is waited for
\* any more.
RemoveNothing(k) ==
    /\ refused' = refused \cup {k}
    /\ UNCHANGED <<catalogue, waiting>>

RemovePersonalities(k) ==
    /\ catalogue' = catalogue \ {k}
    /\ refused' = refused \cup {k}
    /\ waiting' = waiting \ {<<"load", k>>, <<"launch", k>>}

\* kextdProcessKernelLoadRequest(): the load, and the note for the trace.
LoadKext(k) ==
    /\ allKexts[k] = "good"
    /\ loaded' = loaded \cup {k}
    /\ Answered
    /\ blocks' = blocks \cup {[type |-> "loads", kexts |-> {k}]}
    /\ UNCHANGED <<pended, notified, signalled, catalogue, refused>>

\* ... or it is not found, cannot be staged, is not authentic, nor are its
\* dependencies, or does not load.
RefuseKext(k) ==
    /\ allKexts[k] # "good" \/ disk[k] \in {"absent", "unstageable"}
    /\ RemovePersonalities(k)
    /\ IF allKexts[k] = "tampered"
       THEN RecordNonsecureKexts({k})
       ELSE UNCHANGED <<pended, notified, signalled>>
    /\ blocks' = IF allKexts[k] \in {"unloadable", "tampered"}
                 THEN blocks \cup {[type |-> "loads", kexts |-> {k}]} ELSE blocks
    /\ UNCHANGED loaded

\* kextdProcessDaemonLaunchRequest(): one that is not found, or cannot be
\* started, is left alone.
LaunchDext(k) ==
    /\ \/ /\ allKexts[k] = "good"
          /\ loaded' = loaded \cup {k}
          /\ Answered
          /\ UNCHANGED <<catalogue, refused>>
       \/ /\ allKexts[k] \in {"inauthentic", "badDeps"}
          /\ RemovePersonalities(k)
          /\ UNCHANGED loaded
       \/ /\ allKexts[k] \in {"absent", "unloadable", "tampered"}
          /\ UNCHANGED <<catalogue, refused, waiting, loaded>>
    /\ UNCHANGED <<pended, notified, signalled, blocks>>

\* kextdProcessKernelResourceRequest(): found or not, a result is sent.
SendResource ==
    /\ Answered
    /\ UNCHANGED <<pended, notified, signalled, blocks, catalogue, refused, loaded>>

Serve ==
    /\ op.step = "serve"
    /\ LET kind == op.on[1]
           k == op.on[2] IN
       \/ kind = "load" /\ LoadKext(k)
       \/ kind = "load" /\ RefuseKext(k)
       \/ kind = "launch" /\ LaunchDext(k)
       \/ kind = "resource" /\ SendResource
    /\ op' = Idle
    /\ UNCHANGED <<sessionVars, dialog, fileVars, historyVars, spent,
                   folderVars, knownVars, cacheVars, asked, orphaned, rescanVars>>

-----------------------------------------------------------------------------
(* kextd crashes and is started again; the kernel's catalogue stays. *)

Restarted(batch) ==
    /\ op' = Op("start", <<>>)
    /\ allKexts' = NoKexts /\ read' = FALSE /\ lastMod' = 0
    /\ asked' = asked \ batch
    /\ orphaned' = orphaned \cup batch \cup ({op.on} \ {<<>>})
    /\ UNCHANGED <<folderVars, cacheVars, catalogue, loaded, waiting, refused,
                   watch, sentFor, misled>>

Crash == \E batch \in SUBSET asked : Restarted(batch) /\ CrashAlerts
CrashInWrite == \E b \in blocks : Restarted({}) /\ CrashWriting(b)

-----------------------------------------------------------------------------
Apart == UNCHANGED <<folderVars, knownVars, op, cacheVars, kernelVars, rescanVars>>
WhenIdle(A) == op = Idle /\ A /\ Apart

\* The notes of other tools and the user's logins are left to KextdAlerts.
Alerts == WhenIdle(AlertsStep)

Continue ==
    \/ StatFolders \/ ScanFolders
    \/ SendCached \/ SendFromKexts \/ WriteCache \/ UpdateHelpers
    \/ Serve

Next ==
    \/ \E k \in Kexts, s \in Statuses : ChangeFolder(k, s)
    \/ KextcacheScan \/ KextcacheWrite
    \/ \E r \in Requests : KernelAsks(r)
    \/ \E r \in Requests : TakeRequest(r)
    \/ WatcherChecks \/ HangUp \/ ReleaseExtensions
    \/ Continue
    \/ Alerts
    \/ Crash \/ CrashInWrite

Spec == Init /\ [][Next]_vars

\* kextd works on what it has begun, and the run loop comes to every source
\* again and again; a kextcache ends.
Fairness ==
    /\ WF_vars(Continue)
    /\ WF_vars(KextcacheWrite)
    /\ SF_vars(WatcherChecks)
    /\ \A r \in Requests : SF_vars(TakeRequest(r))

FairSpec == Spec /\ Fairness

-----------------------------------------------------------------------------
(* What kextd promises of its kexts. *)

\* A request is never answered from kexts older than the folders: while the
\* remembered time is the folders' time, what is known is what is there, however
\* a change falls between the stat and the scan (readExtensions()).
ViewIsFresh ==
    read /\ lastMod = mtime =>
        \A k \in Kexts : allKexts[k] = IF disk[k] = "unstageable" THEN "absent" ELSE disk[k]

\* kextd's view of the kexts and the operation it is in are of their types, and
\* the view is fresh.
ServiceInv == TypeOK /\ ViewIsFresh

\* The kernel does not wait for a kext for ever: each load or resource request
\* ends in the kext, its personalities taken back, or a result, except those a
\* crash of kextd takes along.
NobodyWaits ==
    \A r \in Requests :
        r[1] # "launch" => (r \in waiting ~> (r \notin waiting \/ r \in orphaned))

\* When the folders change no more, the kernel has in the end the personalities
\* of the kexts that are there, less those it was refused.  Two things can break
\* it ("misled"): a cache written for folders that changed after the scan, and
\* caches a kextcache made before the watcher looked (it is then that a kextd
\* started again, which only adds to the catalogue, leaves removed kexts in it).
CatalogueCatchesUp == <>[](misled \/ catalogue = AuthenticIn(disk) \ refused)

=============================================================================
