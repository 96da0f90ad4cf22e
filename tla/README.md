# kext_tools in TLA+

A verification project for kext_tools: the daemon `kextd`, the cache builder
`kextcache`, and the tools around them (`kextload`, `kextutil`, `kextunload`,
`kextstat`, `kextfind`, `kextlibs`, `kclist`, `kcgen`, ...).  Paths below are
relative to the repository; `l.` is a line of the file named last.

## 1. Inventory

| part | sources | state it keeps | who calls it |
| --- | --- | --- | --- |
| volume watcher and locks | `kextd_watchvol.c`, `kextmanager*.defs` | one `watchedVol` per volume (locker, waiters, error and attempt counts, owners flag), reboot lock and waiter, reply ports, timers | disk arbitration, notifyd, kextcache, shutdown/reboot over MiG, port deaths |
| helper partitions | `update_boot.c` | `struct updatingVol`; on each helper: the R, P and S directories, `boot.efi` and `.old`, the blessing, `.new` files, the label | `kextcache -u`, libBootRoot clients |
| boot caches and stamps | `bootcaches.c` | `struct bootCaches` as read from bootcaches.plist, bootstamps in the volume | both of the above |
| safe file calls | `safecalls.c` | none (descriptors tied to a volume) | both of the above |
| kextload lock | `kextd_serialize_kextload.c` | the dispatch source that watches its holder, whether kernel requests were put off | kextutil, the kernel's ping |
| main loop and kernel requests | `kextd_main.c`, `kextd_request.c`, `kextd_mig_server.c` | signal port, run loop sources, kernel request queue, loaded kext list | launchd, kernel, kextload |
| kexts and personalities | `kextd_personalities.c`, `kextd_main.c` | `sAllKexts`, the folders' time, plist caches, what the kernel was sent | main loop, kernel |
| user notifications | `kextd_usernotification.c` | alerts pended by kind, one dialog of each kind, console user, the files of alerts sent | notes of kextload, kextutil, kextcache and of kextd itself |
| kextcache | `kextcache_main.c`, `kernelcache.c`, `compression.c`, `mkext*.c`, `fork_program.c`, `pgo.c`, `driverkit.m` | volume lock count (and the variable its children inherit), kernels and caches being written, their times | kextd, launchd, installers |
| staging and policy | `staging.m`, `security.c`, `syspolicy.m` | the staged copy of each kext, whether the policy service can be asked | kextd, kextload, kextutil |
| shared utilities | `kext_tools_util.c`, `signposts.m` | caches in /System/Library/Caches | all |
| command-line tools | `kextload_main.c`, `kextunload_main.c`, `kextutil_main.c`, `kextstat_main.c`, `kextlibs_main.c`, `kextfind_*.c`, `QEQuery.c` | none between runs | users |
| kernel collection tools | `kc_staging.m`, `kcditto_main.m`, `kclist_main.c`, `kcgen_main.c`, `kctool_main.c` | the staged collection | installers |
| audit | `kextaudit.c`, `KextAudit/` | none | load path |

How they interact: kextd watches the files named in each volume's
bootcaches.plist and forks `kextcache -u` when one is out of date; kextcache
asks kextd for the volume's lock, builds the caches, copies them to the helper
partitions, writes the bootstamps and unlocks with its exit status; shutdown
asks kextd for the reboot lock and waits until no volume is busy.  kextload
asks kextd to load, or loads by itself when there is no kextd; kextutil holds
kextd's lock meanwhile.  All of them stage a kext under
/Library/StagedExtensions before they load it, and ask the policy service.  What
a tool finds wrong with a kext it posts to kextd, which tells the user.  kextd
and kextcache both write the plist caches.

What is hard here:

* **Interleaving and death of clients.**  Lock requests, their deaths, volumes
  that come and go and callbacks that are late all meet in one run loop; the
  kernel's port and the tables have to agree whatever dies when.
* **Being cut off.**  An update of a helper is some thirty file operations,
  and a kill or a power failure between any two must leave something to boot.
* **Partial failure.**  One of several steps, or one of several helpers, fails;
  what was done is reverted, what could not be is not, and the stamps must not
  claim otherwise.
* **Actions that are not over when they return.**  The lock of kextutil is
  given up by a dispatch source's cancellation, which ends in a later turn of
  the run loop; signals are messages to a port with room for one.
* **Stale data.**  Times are captured before copies are made; kextd keeps its
  own idea of what partitions a volume has; a cache is taken for current by its
  time alone, in seconds, while anybody can change what it was made of; a kext
  is checked, staged and loaded in steps with other programs in between.
* **Files that several programs write.**  Two kextcaches and their children,
  two programs staging one kext, kextd and kextcache writing one plist cache.
* **Liveness.**  Waiters must be answered, shutdown must get through although
  updates fail, and no change may be lost.

What makes each part correct is stated by its properties (section 4).

## 2. Modules

| module | what it is |
| --- | --- |
| `KextdWatchVol` | `kextd_watchvol.c`, with the parts of `bootcaches.c` and `kextcache_main.c` it depends on |
| `UpdateLocks` | abstract: one lock per volume with a queue, one exclusive shutdown lock; `KextdWatchVol` implements it (`ImplementsLocks`) |
| `KextdWatchVolProofs` | TLAPS proofs about `KextdWatchVol`: dictionary, locks and queues, the checks of volumes, the root volume, a clean shutdown |
| `KextdPortsProofs` | on top of it: the four tables of ports agree, the bookkeeping around the locks, and the refinement of `UpdateLocks` |
| `BootHelpers` | `kextcache -u` on the helper partitions (`update_boot.c`), with the stamps of `bootcaches.c` and the copying of `safecalls.c` |
| `BootHelpersProofs` | TLAPS proofs about `BootHelpers` |
| `KextdRequests` | the kernel's requests, kextutil's lock, signals, and the end and restart of kextd (`kextd_request.c`, `kextd_serialize_kextload.c`, `kextd_main.c`, `kextutil_main.c`) |
| `KextdRequestsProofs` | TLAPS proofs about `KextdRequests` |
| `KextdAlerts` | what kextd tells the user (`kextd_usernotification.c`, the callbacks of `kextd_main.c`, the notes posted by `kext_tools_util.c`) |
| `KextdExtensions` | the kexts kextd knows, the personalities it sends and the requests it serves with them (`kextd_main.c`, `kextd_personalities.c`, `kextd_request.c`); composed with `KextdAlerts`, which it extends |
| `KextdServicesProofs` | TLAPS proofs about `KextdAlerts` and `KextdExtensions` |
| `KextcacheArgs` | what a command line makes kextcache do and which kexts it takes: pure operators |
| `Kextcache` | the kextcache processes of one volume and the files they share (`kextcache_main.c`, `kernelcache.c`, `bootcaches.c`, the lock of `update_boot.c`) |
| `KextcacheProofs` | TLAPS proofs about `Kextcache` |
| `KextcacheClaims` | a comment of `kextcache_main.c` that the code does not keep |
| `KextPolicy` | what a kext must be to be loaded and who may ask: pure operators (`security.c`, `syspolicy.m`, checks of `kextutil_main.c` and `kextd_request.c`) |
| `KextLoading` | staging, checking, loading, starting, rollback, unloading by kextd, kextload, kextutil and kextunload side by side (`staging.m` and the tools) |
| `KextLoadingProofs` | TLAPS proofs about `KextLoading` |
| `QEQuery` | kextfind's query engine (`QEQuery.c`), how queries are built: pure operators |
| `QEQueryEvaluation` | the same, how they are evaluated (recursive operators, kept apart from what is proved about) |
| `QueryGrammar` | the reference for it: the grammar of the manual page, as a recursive-descent reader and its meaning |
| `KextfindPredicates` | every predicate, command and report column (`kextfind_query.c`, `kextfind_report.c`): how its words are parsed and what it says of a kext |
| `KextfindArgs` | `kextfind_main.c`: from the command line to the two queries |
| `Kextfind` | `kextfind_main.c`: from there to the lines printed |
| `KextfindProofs` | TLAPS proofs about `QEQuery` and `KextfindArgs` |
| `MC...` | instances of these for TLC; `MCKextdWatchVol` adds the symmetry of the kextcaches |

**KextdWatchVol.**  kextd runs all its handlers on one run loop, so a handler
with everything it calls is one action: the disk arbitration callbacks
(`vol_appeared`, `vol_changed`, `vol_disappeared`, `is_dadisk_busy`), the
notify message (`fsys_changed`), the timers (`check_now`, `checkAutoUpdate`),
the MiG routines (`_kextmanager_lock_reboot`, `_kextmanager_lock_volume`,
`_kextmanager_unlock_volume`, `updateVolForMedia`) and `port_died`.  The
environment acts between handlers: volumes are mounted and unmounted, files
change, installers run, clients die.  What it does becomes a pending event; the
run loop delivers pending events in any order, and identical ones coalesce.  A
port whose context is a freed `watchedVol` has `portInfo = "freed"`.  `stale[v]`
is what of a volume is out of date.  A kextcache that has its answer captures
the files' times (`needUpdates`; `seen` is what it found), and its success makes
current only what it saw then (`StaleAfter`): a change that comes while it works
stays.  With `BrokenHelpers` a kextcache may exit before it asks for the lock.

**BootHelpers.**  kextd's lock makes kextcache the only writer of a helper, so
the module has one kextcache (`up`, its `struct updatingVol`), the volume, the
helpers, and as environment installers, failing calls, kills and losses of
power.  One action is one file operation that something can come between.  A
copy takes two: it leaves a partial file after the first; so does a recursive
unlink.  The actions follow `updateBootHelpers()` in order: `Mount` (with
`checkBootContents()`), `PickRPS` to `CopyRPS` (`ucopyRPS()`), `CopyMisc`,
`Label`, `UnlinkOld` to `FillBooter` (`ucopyBooters()`), `SyncBooters` and
`Bless` (`activateBooters()`), `RenameRPS` and `SyncRPS` (`activateRPS()`),
`ActivateMisc`; a failure goes to `Rebless`, `UnlinkNew`, `RestoreOld` and
`RevertLabel` (`revertState()`, entered by `changestate`), and every helper ends
with `NukeOld`, `NukeRPS` (`nukeFallbacks()`) and `Unmount`.  `Start`,
`RetrySmaller`, `GiveUp`, `BeginStamps` and `WriteStamp` are
`checkUpdateCachesAndBoots()` and `updateStamps()`.

Files are abstracted to versions: the time of change of the copy's original,
`Absent`, or `Partial`.  `releases` are the versions at which the whole system
was updated together; a booter starts the kernels of its release and of earlier ones
(`Supports`).
`mishaps` is a history variable: what befell a helper since it was last updated
whole.  The properties say in terms of it which misfortunes cost which
guarantee; it never guards an action.

What the model takes from outside `src/`: the firmware starts the booter whose
file ID is blessed, the booter picks the directory as `FindRPSDir()` does (its
comment says it was copied from there), renames and unlinks reach the disk in
order, and data is lost by a power failure unless flushed.

**KextdRequests.**  Clients and kernel write to one port, a FIFO (`inbox`);
`Receive` takes its head and the MiG routine (`LockKextload`, `UnlockKextload`,
`Ping`) runs.  `_gKextutilLock` is `lock`; between `dispatch_source_cancel()`
and the cancel handler (`SourceCancelled`) it is still set, with `cancelled`
true.  `kextd_process_kernel_requests()` is not atomic: it fetches
(`CopyKernelRequests`), serves one after the other (`ServeRequest`) and ends
(`FinishRequests`), and meanwhile the kernel goes on asking, clients die and
signals come; no other source of the run loop is served (`Idle`).  A request is
of one of three kinds, which is all the loop tells apart: served at once
("load", which stands for resources and drivers' hosts too), noted and served
at the end ("prelink", and likewise notifications), or "exit".  kextutil's
`serializeLoad()` and its `finish:` label are `AskForLock`, `Busy`, `Leave`,
`FinishLoading` and `Unlocked`; a client that sleeps between two tries is back
at "start".  `Going` is what is lost when kextd stops or crashes, `Start` what
launchd does by `com.apple.kextd.plist`.  Taken from outside `src/`: launchd
keeps the port and its messages over a restart, the kernel pings a kextd that
says it is active if it has requests, a port that died in the queue arrives as
a dead name, and `dispatch_source_get_handle(NULL)` crashes.

`late`, `orphaned`, `unheeded` and `missed` are history variables and guard no
action.

**KextdAlerts.**  A note (`PostNote`) becomes a block on the main queue
(`blocks`, any order); `RunBlock` is the block: it validates the note, looks the
kexts up in the plist of its kind (`file`, `sent`), pends those that are not
there and writes the plist, each in the order the code has; the revoked kind has
no file.  `CheckNotificationQueue` is the run loop source that raises a dialog
per kind while `user` is somebody, `NotificationDismissed` its callback,
`SessionDidChange` the console user's.  `shown`, `unwritten` and `lost` are
histories; a crash may come while a plist has been emptied and not written
(`CrashWriting`: "torn").

**KextdExtensions.**  `op` is what kextd's one thread works at, and its steps
are the points at which installers and kextcache can come between: a
`StatFolders` and a `ScanFolders` of `readExtensions()`, `SendCached`
(`sendCachedPersonalitiesToKernel()`), `SendFromKexts` and `WriteCache` of
`sendSystemKextPersonalitiesToKernel()`, `UpdateHelpers` (the cache by which a
rescan ends), `Serve` of one request.  `WatcherChecks` is the
watcher's finding that the plist caches are out of date and the rescan it
causes, `HangUp` SIGHUP's, `ReleaseExtensions` the timer's.  A folder is a
status for each kext and a time; `disk` is what is there, `allKexts` what kextd
read, `catalogue` what the kernel has been sent, `waiting` what it waits for.
The composition with the alerts is by the shared variables: requests and
rescans pend alerts and post notes, a rescan and a restart clear the queue.

**KextcacheArgs** and **Kextcache.**  `Kextcache` is a set of processes
`<<tool, "tool">>` and `<<tool, "child">>` (the fork of `-u` that builds the
kernel).  `why` is how a process came past `takeVolumeForPath()`: with its own
lock, with the parent's by the variable it inherits (`skip`), without one as the
volume is not watched.  A build goes `ReadKexts`, `OpenFiles`, `Take`,
`BuildSlice`, `Stamp`, `Rename`, `SetTimes` as `createPrelinkedKernel()` does
(the file is opened before the lock is taken, the times are set by name after
the rename); an immutable kernel is put aside, linked and personalized and put
back when a step fails (`BackUp`, `Link`, `Personalize`); `Check`, `CheckFDE`,
`CheckLoc` with `WriteFDE`, `WriteLoc`, `StampLoc` are the checks of
`checkUpdateCachesAndBoots()` and what they rebuild.  A file is a name, an
inode, a time, a size ("empty", "full") and an image: the kexts and kernel it
was made of and the job that made it.  Its time is set only if the job has
folders or compresses (`Dated`); otherwise it keeps the moment of writing.
Which kexts of the folders and which named ones a job takes, by OSBundleRequired,
-local-root and what is loaded, is `Matches`, with the implied `Flags` and
`Required`.  `Put` counts the lock down unless the call of kextd fails
(`UnlockFails`: the lock is not the caller's any more).

**KextPolicy** and **KextLoading.**  One bundle at one path: `source` is what is
installed, `staged` the copy, `loaded` what the kernel has.  `task[p]` is where
a program is: `Compare`, `Remove`, `Removed`, `Copy`, `Validate`, `Move` and
`Refresh` are `createStagedKext()` with `stageBundle()`; `Check` the
authentication and dependency tests, `AskPolicy` the policy service, `Load`,
`Reread`, `GenerateSymbols`, `Start`, `SendPersonalities` the rest of kextutil's
`loadKext()` and its kin, `RollbackReads` and `RollbackUnloads` what kextutil
does when starting fails, `GivesUp` its three ends between load and start that
undo nothing.  `CleanStaging` removes the first file of a staged kext and
`Cleaned` the rest, with other programs in between. kextd works for one client
at a time (`Serve`), kextload by itself when it finds none (`KextloadBegins`),
kextutil under the lock (`TakeLock`).  `crossed` says that another program
changed the staged copy after it was compared, `early` that the program had no
policy service when it first looked, or does not ask, `abandoned` that a
kextutil was killed, could not do its rollback, or gave up between load and
start.

**QEQuery, KextfindPredicates, KextfindArgs and Kextfind.**
`QEQueryAppendElementFromArgs`, `StartGroup`, `PushGroup`, `PopGroupAndCoalesce`
and `QEQueryEvaluate` are the functions of those names; a group in progress is
on a stack instead of in its parent.  The actions are the phases of `main()`: in
`KextfindArgs` `ReadArgs`, `ParseQuery` (one element at a time), `CheckQuery`,
`ParseReport`, `CheckReport` and `ReadKexts`, in `Kextfind` `EvaluateKext` (one
kext at a time) and `EvaluatedAll`.  Strings are records that tell apart equal,
equal but for case, and contained; kexts are records of what OSKext answers.

## 3. Runs

| run | question | states |
| --- | --- | --- |
| `KextdLocks` | do tables, ports and clients agree, does shutdown exclude updates, does kextd implement `UpdateLocks`? two volumes, one removable, two kextcaches that may be broken, one shutdown | 499 k |
| `KextdRootQueue` | three kextcaches, which may be broken, and an installer queue for "/": is the lock handed on in order and over the dead, are owners put back, is shutdown let through over clean volumes only? | 993 k |
| `KextdAnswers` | do the limits hold, is every waiting kextcache answered, is every change noticed, also one made while a kextcache is at work, as updates fail, die or cannot be forked and partitions come and go? (fair) | 70 k |
| `BootHelpers` | two helpers, one tainted, with a Recovery OS and all three directories; `-U` updates, one failed call and one crash anywhere: what can be booted, does the kernel suit the booter, are the stamps true, does it come right in the end? (fair) | 1.0 M |
| `KextdRequests` | two kextutils and the kernel, kextd crashing, stopping or forking once: who has the lock, does the kernel wait, is every request served, every lock freed, every signal heeded? (fair) | 133 k |
| `KextdAlerts` | two kexts, two users, two notes, two logins or logouts, one fault: is each kext told of once, does what the files say agree with the dialogs, does no alert stay stuck? (fair) | 77 k |
| `KextdServices` | one kext that changes once at any step, kextcache writing the same caches, one crash: is kextd's view as fresh as its time says, is the kernel answered, does its catalogue catch up? (fair) | 95 k |
| `Kextcache` | two kextcaches with a child each, one event: one builder at a time, are accepted caches current, what gets into the system's kernel, does every tool end? (fair) | 201 k |
| `KextLoading` | two tools and kextd, one event: is what is staged validated, what is loaded approved and fresh, does nothing stay half started? | 2.4 M |
| `Kextfind` | command lines of all shapes over every predicate: does evaluation mean what the grammar says, is what was accepted kept, do rows fit the header? | 1.8 M |
| `ClaimStall` | violated: "updtattempts caps the total number of automatic update attempts", lest a broken kextcache stall the reboot (`kextd_watchvol.c` l.1621-1623): one that exits without asking for the lock does (fair) | |
| `ClaimKernel` | violated: the kernel written by kextcache "is now valid, and should not be removed on subsequent errors" (`kextcache_main.c` l.3578) | |

Every property of a passing run has a mutant of the code (defined next to the
operator it replaces, marked `Mutant`) that violates it.

**Bounds.**  Locks: two or three kextcaches make a locker, a waiter and one
more behind it, the longest queue any handler distinguishes; one shutdown,
because the source says only one is needed; two volumes, as handlers look at
their own volume or at all.  `MaxChanges` bounds the environment's changes,
`ErrCap` saturates `updterrs` above its limit, and the limits are 0 to 2 so that
both sides of each test happen.  `KextdAnswers` has two kextcaches, three
changes and only those updates that kextd launches (`SpontaneousVols` is empty):
a kextcache run by others may update what it likes and excuses nothing.  Its
kextcaches ask for the lock before they exit; what one that does not brings
about is `ClaimStall`, and the safety runs have such ones (`BrokenHelpers`).
Helpers: two partitions, as a run of
`updateBootHelpers()` carries only its flags and `result` from one to the next;
three versions (`MaxClock`), so that the volume can change before and during an
update; one failing call and one crash, each at every step.  Experiments with
two failing calls and one helper gave no new exception; the proofs, which have no
bounds, gave one (`kernelWentBack`, section 5).  The run has `-U`
("expect"), under which the label is put back as well; with plain and
`-Installer` ("optional") updates mixed in it has 3.9 million states, passes too
and takes too long to be a run.  The option `-f` ("force") may be repeated
without end; one helper and two versions with it were checked apart, without
`Converges`.  Requests: two
kextutils contend for one lock, and a third would only wait as the second does;
two tries, so that a client both sleeps and gives up; two requests of the
kernel, in one fetch or in two, of the kinds whose service is delayed; one
event, which is a crash, a fork (two children share one SIGCHLD, as the
prelinked kernel's kextcache is another) or a signal.  `AllThree`, a sequence of
three requests with a load among them (457 k states), and one with two events
pass as well but take too long to be a run.

Alerts: two kexts, so that a note can name one that is known and one that is
not, or more than a note may (`MaxInKexts` = 1); `MaxNotes`, `MaxSessions` and
`MaxFaults` bound notes, logins with logouts, and crashes with failed writes.
Services: one kext, since `readExtensions()` and the requests treat each kext by
itself, with every status a kext can have there; `MaxChanges` = 1 is one change
or hang-up at any step; no notes and no user, which `KextdAlerts` has.
Kextcache: three kexts - a signed driver, a newer unsigned one of the same
identifier, a spare - before and after an installation; the commands of
`MCKextcache` cover each kind of job and each path by which a system kernel is
written, one of each start's list, so that a build of the system's kernel, an
unwatched or an untrusted one meets an update, an invalidation or a compression;
`MaxStarts` = 2 starts, `MaxEvents` = 1 is one change of a source, kill, failed
call, or change of kextd's state.  Loading: `MCKextLoading` has the valid
bundle, an excluded one, one with a bad signature and a driver extension, the
four kinds the checks tell apart; each program with the options that change its
path; two starts (`MaxStarts`) and one event, which is an installation,
approval, kill, death of kextd or failed call.  The first start has every
command but kextutil's full load and the second is such a kextutil with an
option that matters, so that each command meets a load at every step while kextd
stages and loads by itself.  Two kextutils that contend for the lock are in
`KextdRequests`, and in the theorems any number of programs is. Kextfind: all
command lines of up to five words over two predicates, a command and the
operators, those of six without the command, those of seven over the words that
bind elements together, each predicate with each of its arguments alone, negated
and in an OR, reports of up to three columns; four kexts that differ in every
answer.

**Deadlock** is not checked in the helpers' runs: with the clock at its bound
and everything up to date nothing is left to do; nor in that of the requests,
which ends when all are served and all kextutils have exited; nor in the five
below it, where all notes, changes or starts are used up and every program has
ended.

**Fairness.**  kextd: the run loop serves every source, timers fire, and a
kextcache at work ends; nobody is obliged to fail, die or change anything.
kextcache: it takes its next step, and somebody runs it while something is out
of date (kextd does at each notification and again before shutdown).
Requests: the run loop serves each of its sources, a handler ends, launchd
starts kextd again, and a living kextutil goes on; asking, dying, signalling
and crashing are nobody's duty.  Alerts: the sources of the run loop are served
(`SessionDidChange`, `CheckNotificationQueue`), a user who is there dismisses a
dialog; blocks need not run for `AlertsSurface`.  Services: kextd goes on with
what it has begun and a kextcache ends (weak); its run loop comes to each request
and to the watcher again and again, though each may be disabled meanwhile by
other work (strong: CFRunLoop serves its sources in turn, and none can starve
another that stays signalled).  Kextcache: a process that can run runs, a kextd
that launchd has started gets ready; the lock itself is not fair in the model,
since a process waits for it in a retry loop or in kextd's queue.

## 4. What the properties say

*Locks.*  `RebootExcludesUpdates`, `NoWaiterOnFreeLock`, `FirstComeFirstServed`,
`RootKept`, `OneUpdaterOfRoot`: mutual exclusion and queueing.
`ReplyPortsMatchWaiters`, `PortsTracked`, `LockersWereTold`: the four tables and
the clients' own view agree after every handler.  `OwnersRestored`,
`AttemptsBounded`, `RebootOnlyWhenClean`: the bookkeeping around them.  The runs
check some of them as one: `PortsAgree` is `ReplyPortsMatchWaiters`,
`PortsTracked` and `LockersWereTold`; `RootLockHonest` is `OneUpdaterOfRoot` and
`OwnersRestored`; `RootInOrder` is `RootKept` and `FirstComeFirstServed`.
`OwnersRestored` is checked with remounts that succeed; after a failing one
owners stay as they are until the next unlock.  Liveness: `WaiterAnswered`, of a
kextcache that waits, and `ChangeNoticed`, of a change to the boot files.  The
code gives a change up when an error is on record, the attempts are used up, or
the kextcache that came for it died or was refused for a shutdown; and the
start-up check, which by its comment "checks all watched volumes" (l.370),
passes over one that is locked, so that a change made before it waits for the
next one.  `RebootWaiterAnswered`, that a shutdown gets its lock, is what the
comment on the limits claims and `ClaimStall` refutes.

*Helpers.*  `AlwaysBootable`: whatever fails, wherever an update is cut off, a
helper boots, with eight named exceptions:

| mishap | what happened | lines of `update_boot.c` |
| --- | --- | --- |
| `interrupted` | cut off while the blessed booter was called `.old`; the next update unlinks it before the new one is there | 2973 |
| `cutShort` | cut off, or failed, when copying a first booter with no `.old` to return to | 2981, 1901 |
| `notRestored` | the new booter was unlinked and the old one could not be renamed back | 1902 |
| `notReblessed` | the old booter could not be blessed again, and the blessed one is unlinked | 1891 |
| `recoveryNotBlessed` | the Recovery OS was not blessed, and the kernel erased all the same | 1743 |
| `noKernel` | an update ends, or is cut off, with the Recovery OS blessed and no whole kernel; a later booter-only update blesses the booter | 2500 |
| `partlyErased` | erasing the current directory failed half-way and it is still the current one | 2500 |
| `unflushed` | power failed after the new directory was renamed and before F_FULLFSYNC | 3136-3141 |

`StampsHonest`: stamps that call the volume up to date mean that every helper
boots what the volume holds, except when its booter or kernel was lost, the
helper was optional and left out (`optional`), the Recovery OS was left blessed
(`recoveryKept`), or with it blessed the kernel was erased and the one before is
current again while the stamps stay valid: by `-f` (`forced`) or by a failed
update that the stamps had not asked for, since `checkBootContents()` had found
something missing on an earlier helper (`kernelWentBack`, l.432).
`BooterSupportsKernel`: no kernel is started by the booter of an earlier
release, except after a late reversion (`revertedLate`), when the system was
updated between `needUpdates()` and the copy (`changedUnderCopy`), or on a
helper left out under `-Installer` (`optional`): it is stamped, and a later
change of the kernel alone gives it that kernel with its old booter.
`LabelMeansSettled`: a helper without Recovery OS that shows its label has its
blessed booter in place.  `BlessedIsFlushed` and `NeverThree` are what the order
of flush, bless, rename and erase is for (`HelpersInOrder` is these two,
`LabelMeansSettled` and the types).  `KernelAdvances` is about the whole
history: once a helper boots a kernel it never again boots an earlier one,
whatever partial directories, reversions and crashes lie between, unless its
kernel was lost, the directory before was found again (`kernelWentBack`), the
Recovery OS was left blessed (`recoveryKept`) or the helper was left out
(`optional`); each ends with the helper's next whole update.  `Converges`: in
the end everything is right again.

*Requests.*  `HolderIsKnown`: whoever was told that it has the lock is the
client kextd knows, until its unlock is served.  `KernelWaits`: meanwhile kextd
loads nothing for the kernel.  Both except a kextutil that outlived the kextd
that gave it the lock (`orphaned`): the new one knows nothing of it, and grants
the lock again.  `LockFreed`: the lock of a client that has gone becomes free.
`RequestsServed`: each request of the kernel is served, unless it was lost with
a kextd that went, its exit was dropped (`removeKextutilLock()` ignores the
result, `kextd_serialize_kextload.c` l.48), kextd was stopped while it was put
off and no message is there to start it, or its ping came between the
cancellation of the lock and the cancel handler (`late`): then nothing looks at
`gKernelRequestsPending` when the lock becomes free, and the request waits for
the next ping or kextutil.  `SignalsHeeded`: a signal has its effect unless the
port held another one when it came; two children may share one SIGCHLD because
all that ended are reaped.

*Alerts.*  `ToldProperly`: a kext is in a dialog of its kind once
(`ToldOnce`), plus once for each write of its file that failed, unless the file
is torn; and what a file calls told is queued, was shown, or went with one of
the four things that clear the queue, a logout, a rescan, a restart, a dialog
that cannot be raised (`SentAreAccounted`).  `AlertsSurface`: with somebody at
the console no alert stays queued, save revoked ones whose dialog failed.

*Services.*  `ServiceInv` with `ViewIsFresh`: while the remembered time is the
folders', what kextd knows is what is there, however a change falls between
looking at the time and reading.  `NobodyWaits`: each load and resource request
ends, but for those a crash takes along; a driver extension's launch that is
not found is never answered and is left out.  `CatalogueCatchesUp`: the kernel
has in the end the personalities of the kexts that are there, less those it was
refused, unless (`misled`) a cache was written for folders that changed after
the scan, or kextcache made the caches before the watcher looked.

*Kextcache.*  `OneBuilder`: of the tools that went on with kextd's lock, their
own or their parent's, one is at work, while kextd lives.  `ImmutableRestored`:
a personalized kernel that was put aside comes back, unless its process was
killed.  `AcceptedIsCurrent`: what `check_kext_boot_cache_file()` accepts was
made of the kexts and the kernel that are there, unless a source changed during
the build (`raced`), the kernel file is no newer than the second after the
folder's time, or the file has its time by accident (another's stamp by name,
or a file left by a kill).  `LocIsCurrent`: the same of the localized resources.
`ProtectedIsSafe`: with SIP on the system's kernel holds only trusted kernels
and kexts signed, staged and not excluded, whichever command or child wrote it.
`ToolsEnd`: waiting for the lock, for kextd and for the child is no cycle, with
one exception, `WaitsForItself`: the volume becomes watched between the two
calls of `takeVolumeForPath()`.

*Loading.*  `StagedIsValidated`: what lies at the staged path was validated as
it is, whatever installers and other stagers do.  `ApprovedAtLoad`: with SIP on
what is loaded is signed; and approved and not excluded, unless the copy was
swapped between check and load (`crossed`), or the program found no policy
service or is a kextload without kextd, which does not ask (`early`).
`NoneHalfStarted` (in `LoadingInv`): after kextutil's end nothing is loaded and
not started, unless (`abandoned`) it was killed, its rollback could not be
done, or it went to its end without one: it could not reread the load
information (l.1377), generate the symbols for -s (l.1389-1395), or list what to
start (l.1958-1992 of `kextutil_main.c`).
`LoadsAreFresh`: what a program loads was installed at some time since it began,
but for `crossed`.

*Kextfind.*  `EvaluatesAsWritten`: a query of the manual's grammar over the words
it documents is accepted, but for `-print-match-property`, which the tool does
not know; and what is printed is, line by line, what the grammar's reading of the words
means, with negation, precedence, short circuits and the merging of groups.
`AcceptedIsKept`: also of a query outside the grammar that the engine accepts,
every predicate is in the tree, in order, and parentheses are balanced: its
first part, `ParenthesesMatch` of `KextfindArgs`, says that the stack of groups
is balanced and counted as the parentheses are (`GroupsBalanced`), that no word
beyond the last is read, and that what is evaluated is complete.
`RowsMatchHeader`: each row has a field for each column of the header, except
reports with a symbol column, and rows with a duplicate column for a kext that
the library does not find by its identifier.

## 5. Proofs

Each theorem holds for every value of the constants that satisfies the module's
named assumption (`WatchVolAssumption`, ...), which TLC evaluates in every run:
any volumes, programs, kexts and commands, any limits, any number of faults.
Every inductive invariant below was a TLC invariant of that component's runs
before it was proved (that of `KextfindProofs` without the shape of its records,
which no finite set bounds).

**KextdWatchVolProofs.**  `TypeCorrect` (`TypeOK`), `NobodyWaitsInVain`
(`NoWaiterOnFreeLock`), `ShutdownIsExclusive` (`RebootExcludesUpdates`),
`ShutdownIsClean` (`RebootOnlyWhenClean`).  The invariant `IInv` is `TypeOK`
with: every entry of the dictionary that is unlocked has an empty queue, and all
are unlocked while the reboot lock is held.  These are not inductive apart: that
no volume is granted under a reboot lock needs that a hand-off finds no waiter,
and type correctness of a hand-off needs that a first live waiter exists
(`FirstLiveExists`, by well-foundedness).  Lemmas on the checks
(`CheckVolBusyKeeps`, `CheckAllKeeps`: a check never touches lock or queue)
reduce each handler to its effect on the dictionary; then one lemma per action.
`ShutdownIsClean` is about one handler, the lock request of a shutdown: a
launched update `Settles` its volume, a second look by `reconsiderVolumes` at a
settled volume launches nothing, so that what is let through was found settled,
and a settled volume is up to date or has one of the excuses of
`RebootOnlyWhenClean`.

**KextdPortsProofs.**  `PortsAlwaysAgree` (`PortsAgree`), `RootLockIsHonest`
(`RootLockHonest`), `AttemptsAreBounded` (`AttemptsBounded`), `RootIsInOrder`
(`RootInOrder`, an action property) and `LocksImplemented` (`ImplementsLocks`:
kextd implements `UpdateLocks` by the mapping of `KextdWatchVol`).  That the
tables agree is not inductive: a handler answers a client by what its own table
says, and one has to know that the other tables cannot contradict it.
`FullInv` adds to `IInv` where each client is: each has its place in one queue or
is one locker (`OnePlace`); ports, contexts and tables are those of clients in
place (`Proper`, `RepliesOwed`, `Told`); a volume kextd cannot watch was never
in the dictionary; owners are owed only by a locker (`OwnersDue`); and what the
shutdown that waits or holds has (`Shutdown`).  Almost every action
is one of eleven kinds of step (`SameRight`, `AnsweredRight`, `DiesRight`,
`ForgetRight`, `LockRight`, `EnqueueRight`, `LeaveRight`, `HandedOnRight`,
`ShutDownRight`, `AwaitRight`, `GoneRight`); each kind is proved once to keep
`FullInv` and to be a step of `UpdateLocks` or a stutter, and an action has only
to be shown to be of its kind.

**BootHelpersProofs.**  `HelpersStayInOrder` (`HelpersInOrder`), `StaysBootable`
(`AlwaysBootable`), `StampsStayHonest` (`StampsHonest`), `BooterStaysAhead`
(`BooterSupportsKernel`) and `KernelsAdvance` (`KernelAdvances`): every safety
property of the module, from `BootHelpersAssumption` alone, so for any number of
helpers, with or without a Recovery OS, any options, and any number of versions,
failing calls, kills and losses of power.  None of them is inductive: that a
helper boots after `RenameOld`, say, needs that the booter renamed was whole,
blessed and flushed, and so on back through the update. `IInv` says for each
helper what the stage that kextcache has reached on it implies, in eight parts:
the directories (`DirsKept`: the one written is the one before the current, and
the third is not there), the booter and its `.old` copy (`BootersKept`), the
kernel (`KernelKept`), the label (`LabelKept`), what is new (`NewKept`), how old
the booter may be (`AgeKept`), that it starts the kernel (`SupportKept`) and
when a Recovery OS stays blessed (`RecoveryKept`); the parts are under the
mishaps that void them.  `StageKept` ties `changestate` and the flags to the
stage, so that `revertState()` begins where its stage's part holds; `StampsKept`
relates the volume's versions, the stamps and what `needUpdates()` captured.
The argument is local: a step is `Local` to the helper kextcache is at,
`LocalKeeps` reduces it to that helper, and for that one what the step leaves is
what the next stage asks for (`FailsKeeps`, `QuietKeeps`, `BooterStep`,
`DirStep` are the kinds of step, one lemma per action applies them).  Kills and
losses of power leave a stage anywhere (`Leaves`); that a loss of power takes
only unflushed data is why the blessed booter survives it. `KernelsAdvance` has
the form "if ever ... then from then on": for each helper and version `Later(h,
n)` says what holds of the three directories and of what is being copied once
kernel n was booted; it holds then (`BootsFirst`), every step keeps it
(`LaterStays`), and it leaves nothing older to boot (`LaterBoots`). It rests on
the directory copied being no older than the two others, since the volume's time
of change only grows.  The exception `kernelWentBack` of `StampsHonest` was
found by the proof: no run of the model had met it, and TLC shows it when guided
there, with three helpers, four failures and two kills.  A helper with a
Recovery OS, left out of a stamped update under `-Installer`, is updated whole
and killed before its old directory goes, killed again after the new one was
erased, and then given a booter alone.

**KextdRequestsProofs.**  `TypeCorrect`, `LockIsHeld` (`HolderIsKnown`) and
`KernelIsHeldOff` (`KernelWaits`).  Its `IInv` adds to `TypeOK` and
`HolderIsKnown`: `MailFits`, that a client has at most one message in the port
and waits for its answer or is dead, and the client whose call is being served
has none; and `LockFits`, that only an existing source is cancelled and that
kextd serves the kernel only when there is no source or it is cancelled.
`HolderIsKnown` needs `MailFits`: an unlock in the port must be the only one of
its sender, who must not have asked anew; type correctness needs it as well,
since an answer moves its client on.  `KernelWaits` follows from `HolderIsKnown`
and `LockFits`.

**KextdServicesProofs.**  `AlertsToldOnce` and `DaemonToldOnce` (`ToldProperly`,
of the alerts alone and within the daemon), `SpecImpliesServiceIInv` and
`ServiceIsFresh` (`ServiceInv`).  `ToldOnce` counts dialogs over the whole
history, so the invariant (`AlertsIInv`) has for each kext what was paid for:
a dialog shown, or the alert queued, is matched by an entry of the file or by a
write that failed (`Paid`), and what a file says is accounted for by a queue, a
dialog or a loss (`Accounted`).  For the services it adds `ViewIsFresh` and the
types of what the thread works at, one conjunct each, because a step disturbs one.
The alerts' lemmas are stated of their actions and used again in the
composition, whose steps are steps of the alerts or leave their invariant alone.

**KextcacheProofs.**  `SpecImpliesIInv`, `BuildersAreInOrder` (`BuildersInOrder`:
`OneBuilder` and `ImmutableRestored`), `CachesStayCurrent` (`CachesAreCurrent`:
`AcceptedIsCurrent` and `LocIsCurrent`), `ProtectedStaysSafe`
(`ProtectedIsSafe`).  `IInv` is the types with `ProcInv` (a process past
`takeVolumeForPath()` has its reason: it holds the lock, or is the child of one
that waits for it; a tool waits for no other child than its own), `Timely` (no
file, folder or process has a time ahead of the clock), `PlkInv` (of the files
of the prelinked kernel: one that bears its stamp was made of what was there
at that time, `Remembered`; a process's file is the one it opened, `Remembers`),
`ImkInv` (the immutable kernel is there, or put aside by a process that knows)
and `LocInv`.  The argument for `CachesAreCurrent` is about time: a source
that changes gets the present time, which is later than every stamp not
excused, and a stamp is only given to a file the same process made.  Which
kexts the fold that chooses the newest of each identifier yields is induction
over data; the proofs need of it only that it is a function of the folder.

**KextLoadingProofs.**  `SpecImpliesIInv`, `LoadingIsSafe` (`LoadingInv`),
`StagingIsSafe` (`StagedIsValidated`), `LoadedIsApproved` (`ApprovedAtLoad`),
`LoadedIsFresh` (`LoadsAreFresh`).  `IInv` is the types with `TaskInv` (what a
program remembers was so when it looked; what it copies was a source it has seen;
a client of kextd waits for it; the lock is the one of a program between take
and release), `StagedIsValidated` (the temporary copy is the program's own, so
that what `Move` puts in place is what it validated), `HalfStartedIsSettled` and
`Vetted` (a program at a step after `Check` has a kext that passed it, or one of
the named excuses).  `LoadedIsApproved` and `LoadedIsFresh` have a hypothesis
that is not the assumption: SIP must not be configured to allow Apple-internal
kexts and nothing else (`Csr # {"internal"}`).  TLC shows that under that
configuration both are false, since the code then validates torn and badly signed
copies.  `csr_check(CSR_ALLOW_APPLE_INTERNAL)` passing while
`CSR_ALLOW_UNTRUSTED_KEXTS` does not (`security.c` l.1679, l.2228) is that
setting; with SIP on or off as a user can have it, the hypothesis holds.

**KextfindProofs.**  `ParenthesesAlwaysMatch` (`ParenthesesMatch`, the first part
of `AcceptedIsKept`), `ElementFromArgs` and `ClosesWhatIsOpen`: of every command
line, however long, and of any answers of the parse callbacks.  Queries are trees
of any depth, so the proofs know of a query only its outline: a stack of records,
whose arguments are a sequence (`IsQuery`).  The engine changes it in three ways,
the arguments of the top group (`ArgsSet`), a group pushed (`GroupOpened`), the
top popped (`TopPopped`); `AndOnOr`, `OrOpened`, `AndClosed` and `OrClosed` say
what these do to balance, and one lemma per function of `QEQuery.c` puts them
together.  `ClosesWhatIsOpen` shows that the checks of `QEQueryEndGroup()` for
"internal logic" errors (l.828-841) can never fire.  The specification is
`ParseSpec`, the steps of `main()` that read the command line; evaluation, which
changes of the queries only their error, needs the recursive module.

**Only model-checked.**  Liveness (`WaiterAnswered`, `ChangeNoticed`,
`Converges`, `RequestsServed`, `LockFreed`, `SignalsHeeded`, `AlertsSurface`,
`NobodyWaits`, `CatalogueCatchesUp`, `ToolsEnd`), which is out of the prover's
reach, and of kextfind what is evaluated: `EvaluatesAsWritten`,
`RowsMatchHeader` and the order of the leaves in `AcceptedIsKept`.  The
evaluation and its reference are recursive operators over trees, which the
prover does not take, and what they compute is an induction over the words of
the command line.

## 6. Plan

1. The libBootRoot entry points that copy to a directory
   (`BRCopyBootFilesToDir`, `BRUpdatePreboot`), as other users of the steps of
   `BootHelpers`.
2. The staging of kernel collections (`kc_staging.m`, `kcditto_main.m`), should
   something else of the repository come to use what they copy.

## 7. Not modelled

In the helpers: Open Firmware's BootX (the EFI booter's path is the
same), the NVRAM blessings (`blessSpec` is the file system's default here), the
early-boot variant of `-U`, the libBootRoot entry points that copy to other
directories, failures of "best effort" unlinks, and a failing unmount.  The
label file is taken to be among the files copied, and an update of everything
on the volume as one step.  In kextd: `daemon`-wide memory failures, and
`updateRAIDSet`-style media callbacks beyond `updateVolForMedia`; a kextd that
fails to start, `disableKextTools()`, under which the kernel's requests are left
alone, callers of the lock that are not root, which kextd refuses, lookups by
bundle identifier, and the alerts that are compiled out.  In kextcache: mkext
archives, pgo files, slices of fat files, symbol output and the compression
format, which are data.  In loading: GPU bundles, resets of kernel collections,
plug-ins and dependencies one by one, the symbols generated, the interactive
questions other than those about loading and starting.  In kextfind: the
wording of what a command prints.

Left out whole: kextstat and kextlibs (listings with no state), kclist, kcgen,
kctool, kcditto and kc_staging (one-shot tools on files of their own),
kextaudit (one message to the audit kext), mkextunpack and brtest, and the
KernelManagement shims, which translate arguments for a program that is not in
the repository.  Listing, logging and property-list syntax are out of scope
throughout.

## 8. Observations

What `ClaimKernel` and `ClaimStall` show is in section 3; the rest has no run of
its own.

* `vol_appeared()` (l.912) computes `isRoot` as `strcmp(path, "/") != 0`, so
  that a read-only data volume is watched and a read-only "/" is not, against
  "7628429: ignore read-only filesystems" (l.907).
* "updtattempts caps the total number of automatic update attempts" (l.1622):
  `check_rebuild()` tests with `>` where `check_vol_busy()` has `<`, and gaining
  partitions launches twice in one check; `AttemptsBounded` has the real bound.
* After a volume other than "/" is unmounted and mounted again, or its
  bootcaches.plist changes, a kextcache told `ENOENT` and one that locks it anew
  work at the same time; the lock "serializes" them only on "/".
* A kextcache told `ENOENT` never unlocks; nothing at shutdown waits for it.
  Where kextd launched it and the volume was unmounted before it asked, the
  shutdown that waits for its unlock stalls as in `ClaimStall`.
* `activateMisc()` no longer makes a label, so an update of the kernel alone
  that runs without `-U` removes the label and does not bring it back.
* `moveLabels()` that cannot clear the label's details after its rename
  (l.2817-2824) returns success with the change state still `nothingSerious`: the
  update goes on, and if it fails before the booter nothing brings the label back.
* A helper skipped under `-Installer` is stamped as if it had been updated.
* What `checkBootContents()` finds missing on one helper is set in `doRPS`,
  `doBooters` and `doMisc` for all helpers after it (l.432): these are updated
  although their stamps are valid, and if that fails the stamps stay valid.
* What `ucopyMisc()` could not copy is renamed into place and stamped.
* A kextutil killed after it sent its unlock: its death is served first, the
  source is cancelled and freed, and the unlock finds `_gKextutilLock` NULL:
  `dispatch_source_get_handle(NULL)` (`kextd_serialize_kextload.c` l.162) takes
  kextd down.  So does the unlock of a client whose lock an earlier kextd gave.
* kextload has kextd load and never asks for kextutil's lock: its loads are not
  serialized with a kextutil's, only the kernel's are.
* "rescanExtensions() is called (via the runloop) whenever kextd gets a SIGHUP"
  (`kextd_main.c` l.1112): not when another signal is in the port
  (`SignalsHeeded` has the exception).

Comments of `kextd_watchvol.c` and `update_boot.c` that the code does not keep:

* Owners are not enabled for a locker that got the volume by hand-off (l.632,
  2018-2026) until it is granted anew, against the comment of l.69-70.
* `vol_disappeared()` destroys a locked `watchedVol` (l.1220), while
  `destroy_watchedVol()` takes the lock to be cleaned up (l.446).
* `blessRecovery()` loses its error (`update_boot.c` l.1743), so that the kernel
  is erased although no Recovery OS is blessed (l.2496).
* A reversion after `activateRPS()` keeps the new kernel with the old booter
  (`update_boot.c` l.3406-3411).

`kextd_usernotification.c`, `kextd_main.c`, `kextd_personalities.c`:

* `_OSKextWriteCache()` gives a cache the folders' time at the moment of
  writing: a change after the scan leaves a stale cache that looks valid.  Caches
  made by a kextcache before kextd's check mask the rescan.
* A kextd that starts again sends the personalities without a reset
  (`kextd_main.c` l.285), so that those of removed kexts stay.
* A crash between emptying and writing an alert plist silences its kind for ever.
* A note of more than ten kexts is dropped whole.  Revoked alerts recorded while
  a dialog is up vanish unseen.  Alerts in the file whose queue a logout, rescan
  or restart cleared are never shown.
* Launch requests of driver extensions that are not found get no answer.

`kextcache_main.c`, `bootcaches.c`, `update_boot.c`:

* The folder's time is read at the end of a build only (l.3934-4015), and
  `extensionsDirTimes` is never compared: a kext installed during a build is
  missing from a kernel that counts as current.
* `main()` ignores a refused `takeVolumeForPath()` (`kextcache_main.c` l.376);
  the call of `createContext()` may then get the lock, `releaseContext()` drops
  it, and main goes on without it and puts once more than it took, against
  "Don't unlock until calls ... are balanced" (`update_boot.c` l.3744).
* The child of `-u` waits for ever for its parent's lock when the volume becomes
  watched in between (`WaitsForItself`).
* `SetTimes` and the compressor set times by path: a compress that races a
  builder gets the builder's stamp.  A file left empty by a kill is accepted
  when it was made in the second after the folder's change.
* The second of two builders that found no file always fails, after a full
  build, and removes the first one's kernel (`ClaimKernel`).
* The newest kext replaces an older authentic one of its identifier before it is
  authenticated.  `have_backup` is set although nothing was backed up; a kill
  during personalization lets the next build overwrite the good backup.
* `writeFatFile()` returns EX_OK without writing when a directory cannot be
  opened.  `setDefaultKernel()` copies a `statBuf` that may be uninitialised.
  `waitForGreatSystemLoad()` mixes milliseconds and microseconds.  A put without
  a take makes the lock's count -1.

`staging.m`, `syspolicy.m`, `kextutil_main.c`, `kextd_request.c`:

* `_kextmanager_validate_ext()` always returns success (l.376), and stop and
  update requests do when the extension object cannot be made.
* Whether the policy service exists is decided once per process
  (`syspolicy.m` l.39).
* Of two programs that stage one kext the slower overwrites a newer copy with an
  older one, or fails in the removal; what was authenticated can be swapped
  before it is loaded.
* kextutil's rollback may unload a kext that another client was told is loaded;
  with -i, a failure to reread the load information, to generate symbols (-s,
  l.1389-1395) or to list what to start (l.1958-1992) leaves it loaded and not
  started.

`kextfind_*.c`, `QEQuery.c`:

* Words that are refused exit with EX_OK.
* The operator of `-version ltX` is lost (`kextfind_query.c` l.1097): it means
  equal.  A property of type number compared with other words passes NULL to
  `CFEqual()` (l.516); a number in a report column ends the report.
* `-exec` crashes as it reads its arguments (l.1757).
* `-print-match-property` (`-pm`) is documented (`kextfind.8` l.450-456) and used
  in an example (l.630), but `queryCallbackList` (`kextfind_tables.c` l.73-194)
  has no callback for it: it is refused, and its branch of the evaluation
  (`kextfind_query.c` l.1608-1611) is dead.
* A duplicate column leaves no field for a kext that is not found by its
  identifier (`kextfind_report.c` l.317-319).
* A symbol column that is not the first adds a header field, and none for a kext
  without an executable (`kextfind_report.c` l.510-545), against the
  tab-delimited table of `kextfind.8` l.506-513.
* A dangling operator is accepted, "-not )" loses its -not, and a group goes on
  evaluating after an error.
