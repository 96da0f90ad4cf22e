---------------------------- MODULE KextdWatchVol ----------------------------
(***************************************************************************)
(* The volume-watching half of kextd (kextd_watchvol.c): which volumes are *)
(* watched, when kextcache is launched to bring a volume's caches up to    *)
(* date, and the two locks kextd arbitrates: one lock per watched volume   *)
(* for the kextcache processes, and the one reboot lock for shutdown(8)    *)
(* and reboot(8).                                                          *)
(*                                                                         *)
(* kextd runs every handler on the one thread of its run loop, so a        *)
(* handler with everything it calls is one action.  Clients, the file      *)
(* systems, disk arbitration and notifyd are the environment: they act     *)
(* between handlers, and what they have sent waits in a set of pending     *)
(* events until the run loop delivers it, in any order.                    *)
(***************************************************************************)
EXTENDS Naturals, FiniteSets, SequencesExt

CONSTANTS
    Vols,               \* volumes, by UUID
    Root,               \* the volume mounted at "/"
    Helpers,            \* kextcache processes
    Rebooters,          \* shutdown(8) and reboot(8) processes
    NonRoot,            \* the clients that do not run as root
    NoPort,             \* a NULL CFMachPortRef
    kMaxUpdateFailures,
    kMaxUpdateAttempts,
    GetOutOfMyWay,      \* boot-arg kextd_watchvol is not 1
    BaseSystem,         \* booted into the install environment
    AutoRebuildDisabled \* kext-dev-mode: no automatic prelinked kernel

CONSTANTS               \* what the environment may do
    ReadOnlyVols,       \* mounted read-only
    HiddenVols,         \* nobrowse, on a network, or on read-only media
    UnwatchableVols,    \* notifyd refuses to watch their files
    NoOwnersVols,       \* mounted with MNT_IGNORE_OWNERSHIP
    RemovableVols,      \* may be unmounted and mounted again
    BootVols,           \* have Apple_Boot partitions at the start
    BootChangeVols,     \* may gain and lose their Apple_Boot partitions
    PlistVols,          \* may have bootcaches.plist replaced or removed
    InstallVols,        \* may be the target of a running installer
    TouchVols,          \* may have kexts, kernels or booters replaced
    TouchKinds,         \* the kinds of cache a change can make stale
    ForkOutcomes,       \* results of fork/exec of kextcache
    MountOutcomes,      \* results of updateMount()
    ExitOutcomes,       \* "EX_OK" or "failed": how kextcache ends its update
    SpontaneousVols,    \* processes other than kextd may run kextcache on them
    BrokenHelpers,      \* a kextcache may exit before kextd has its port
    MaxChanges,         \* bound on the changes of the environment
    ErrCap              \* updterrs saturates here (> kMaxUpdateFailures)

Clients == Helpers \cup Rebooters
CacheKinds == {"kext", "boot"}

ASSUME WatchVolAssumption ==
    /\ Root \in Vols
    /\ NoPort \notin Clients
    /\ Helpers \cap Rebooters = {}
    /\ Vols \cap {"none", "reboot", "freed"} = {}
    /\ kMaxUpdateFailures \in Nat /\ kMaxUpdateAttempts \in Nat
    /\ MaxChanges \in Nat
    /\ ErrCap \in Nat /\ ErrCap > kMaxUpdateFailures
    /\ TouchKinds \subseteq CacheKinds
    /\ ForkOutcomes \subseteq BOOLEAN
    /\ MountOutcomes \subseteq BOOLEAN
    /\ ExitOutcomes \subseteq {"EX_OK", "failed"}
    /\ {GetOutOfMyWay, BaseSystem, AutoRebuildDisabled, BrokenHelpers} \subseteq BOOLEAN

VARIABLES               \* kextd_watchvol.c's module-wide data
    sFsysWatchDict,     \* watched volumes -> struct watchedVol
    sReplyPorts,        \* clients whose reply port kextd holds
    sRebootLock,
    sRebootWaiter,
    sAutoUpdateDelayer, \* the five-minute timer is pending
    portInfo            \* the context of each client's CFMachPort

VARIABLES               \* clients
    reply,              \* what kextd last told a client
    target,             \* the volume a client last asked for
    dead,               \* clients that exited and whose port kextd still has
    seen                \* kextcaches at work that have read the files' times ->
                        \* what they found out of date, unless changed since

VARIABLES               \* volumes
    mounted,
    ownersIgnored,      \* MNT_IGNORE_OWNERSHIP is in force
    hasBoots,           \* has Apple_Boot partitions
    stale,              \* which caches are out of date
    plist,              \* bootcaches.plist, against what kextd last read
    installing,         \* a live installer owns installd.commit.pid
    launched,           \* a kextcache -u forked by kextd has yet to lock
    daEvents,           \* pending disk arbitration callbacks
    fsEvents,           \* watched volumes with a pending notify(3) message
    changes             \* number of environment changes so far

kextdVars == <<sFsysWatchDict, sReplyPorts, sRebootLock, sRebootWaiter,
               sAutoUpdateDelayer, portInfo>>
clientVars == <<reply, target, dead, seen>>
mediaVars == <<mounted, hasBoots, installing, changes>>
vars == <<kextdVars, clientVars, mediaVars, ownersIgnored, stale, plist,
          launched, daEvents, fsEvents>>

WatchedVol ==
    [delayer: BOOLEAN, lock: Clients \cup {NoPort}, waiters: Seq(Clients),
     updterrs: Nat, updtattempts: Nat, origMntFlags: BOOLEAN,
     isBootRoot: BOOLEAN]

Replies == {"none", "blocked", "OK", "EPERM", "EBUSY", "EALREADY", "ENOLCK",
            "ENOENT", "KERN_FAILURE"}
Infos == {"none", "reboot", "freed"} \cup Vols
DAKeys == {"appeared", "disappeared", "VolumePath", "MediaContent"}

KextdTypeOK ==
    /\ DOMAIN sFsysWatchDict \subseteq Vols
    /\ sFsysWatchDict \in [DOMAIN sFsysWatchDict -> WatchedVol]
    /\ sReplyPorts \subseteq Clients
    /\ sRebootLock \in Clients \cup {NoPort}
    /\ sRebootWaiter \in Clients \cup {NoPort}
    /\ sAutoUpdateDelayer \in BOOLEAN
    /\ portInfo \in [Clients -> Infos]
SeenTypeOK == /\ DOMAIN seen \subseteq Helpers
              /\ seen \in [DOMAIN seen -> SUBSET CacheKinds]
ClientTypeOK ==
    /\ reply \in [Clients -> Replies]
    /\ target \in [Clients -> Vols]
    /\ dead \subseteq Clients
    /\ SeenTypeOK
VolumeTypeOK ==
    /\ mounted \in [Vols -> BOOLEAN]
    /\ ownersIgnored \in [Vols -> BOOLEAN]
    /\ hasBoots \in [Vols -> BOOLEAN]
    /\ stale \in [Vols -> SUBSET CacheKinds]
    /\ plist \in [Vols -> {"read", "newer", "missing"}]
    /\ installing \subseteq Vols
    /\ launched \in [Vols -> BOOLEAN]
    /\ daEvents \subseteq (Vols \X DAKeys)
    /\ fsEvents \subseteq Vols
    /\ changes \in 0..MaxChanges
TypeOK == KextdTypeOK /\ ClientTypeOK /\ VolumeTypeOK

Watched == DOMAIN sFsysWatchDict
Bump(n) == IF n < ErrCap THEN n + 1 ELSE n
Outcomes == ForkOutcomes \X ForkOutcomes    \* of check_rebuild's two forks

(***************************************************************************)
(* check_rebuild and what is built on it.  A check of one volume yields    *)
(* the new watchedVol, its caches' staleness, whether any kextcache was    *)
(* forked, and launched, which is what check_rebuild returned.             *)
(***************************************************************************)
Unchecked(w, st) == [w |-> w, stale |-> st, forked |-> FALSE, launched |-> FALSE]

LaunchRebuild(r, ok) ==
    IF ok THEN [r EXCEPT !.w.updtattempts = @ + 1, !.forked = TRUE,
                         !.launched = TRUE]
          ELSE [r EXCEPT !.w.updterrs = Bump(@), !.launched = FALSE]

KextCacheStale(st) == "kext" \in st /\ ~AutoRebuildDisabled
\* Mutant: the cap in check_rebuild looks at the errors.
StopTryingOnErrors(w) == w.updterrs > kMaxUpdateAttempts \/ GetOutOfMyWay
StopTrying(w) == w.updtattempts > kMaxUpdateAttempts \/ GetOutOfMyWay
CancelDelayer(w) == [w EXCEPT !.delayer = FALSE]

\* check_rebuild once isBootRoot is known to be right
RebuildIfStale(w, st, ok) ==
    LET r == Unchecked(CancelDelayer(w), st)
    IN  IF ~StopTrying(w) /\ (KextCacheStale(st) \/ (w.isBootRoot /\ "boot" \in st))
          THEN LaunchRebuild(r, ok)
          ELSE r

\* Gained partitions: check_rebuild is re-entered.  Lost partitions: the
\* bootstamps are unlinked, so needUpdates() will say yes if they come back.
CheckBootsSetNvram(w, st, boots, ok) ==
    CASE boots /\ ~w.isBootRoot ->
           RebuildIfStale([w EXCEPT !.isBootRoot = TRUE], st, ok)
      [] ~boots /\ w.isBootRoot ->
           Unchecked([w EXCEPT !.isBootRoot = FALSE], st \cup {"boot"})
      [] OTHER -> Unchecked(w, st)

\* o[1]: the fork of the re-entered check_rebuild (its result is dropped);
\* o[2]: the fork of this one
CheckRebuild(w, st, boots, o) ==
    LET r == Unchecked(CancelDelayer(w), st)
        b == CheckBootsSetNvram(r.w, st, boots, o[1])
    IN  CASE StopTrying(w) -> r
          [] ~StopTrying(w) /\ KextCacheStale(st) -> LaunchRebuild(r, o[2])
          [] OTHER -> IF b.w.isBootRoot /\ "boot" \in b.stale
                        THEN LaunchRebuild(b, o[2])
                        ELSE [b EXCEPT !.launched = FALSE]

WithinLimits(w) ==
    w.updterrs < kMaxUpdateFailures /\ w.updtattempts < kMaxUpdateAttempts

CheckVolBusy(w, st, boots, o) ==
    IF w.lock = NoPort /\ WithinLimits(w)
      THEN CheckRebuild(w, st, boots, o)
      ELSE Unchecked(w, st)

\* checkAllWatched() over a dictionary d and staleness s
CheckAll(d, s, o) ==
    [v \in DOMAIN d |-> CheckVolBusy(d[v], s[v], hasBoots[v], o[v])]
\* Mutants: busy is only what was launched just now; only what is locked.
AnyLaunched(all) == \E v \in DOMAIN all : all[v].launched
AnyLocked(all) == \E v \in DOMAIN all : all[v].w.lock # NoPort
AnyBusy(all) == \E v \in DOMAIN all : all[v].w.lock # NoPort \/ all[v].launched

\* what a set of checks leaves in the dictionary, on disk and in flight
DictOf(all) == [v \in DOMAIN all \ UnwatchableVols |-> all[v].w]
StaleOf(all, s) ==
    [v \in Vols |-> IF v \in DOMAIN all THEN all[v].stale ELSE s[v]]
Launched(all) ==
    launched' = [v \in Vols |-> \/ launched[v]
                                \/ v \in DOMAIN all /\ all[v].forked]
Put(d, v, w) == [u \in DOMAIN d \cup {v} |-> IF u = v THEN w ELSE d[u]]
One(v, r) == [u \in {v} |-> r]

(***************************************************************************)
(* handleWatchedHandoff(): the first waiter that is still alive gets the   *)
(* lock.  The reply to a dead one fails; its port is cleaned up and the    *)
(* next waiter is tried.                                                   *)
(***************************************************************************)
WaiterSet(w) == ToSet(w.waiters)
Holds(w, c) == w.lock = c
AllDead(w) == WaiterSet(w) \subseteq dead
FirstLive(w) == CHOOSE i \in 1..Len(w.waiters) :
                    /\ w.waiters[i] \notin dead
                    /\ \A j \in 1..(i - 1) : w.waiters[j] \in dead
\* Mutants: no retry when the first waiter is dead; the new locker is not taken
\* off the queue; the newest waiter comes first.
HandoffOnce(w) ==
    IF w.waiters = <<>> \/ w.waiters[1] \in dead
      THEN [w EXCEPT !.lock = NoPort, !.waiters = SubSeq(@, 2, Len(@))]
      ELSE [w EXCEPT !.lock = w.waiters[1], !.waiters = SubSeq(@, 2, Len(@))]
HandoffKeep(w) ==
    IF AllDead(w)
      THEN [w EXCEPT !.lock = NoPort, !.waiters = <<>>]
      ELSE [w EXCEPT !.lock = w.waiters[FirstLive(w)]]
HandoffNewest(w) ==
    IF AllDead(w)
      THEN [w EXCEPT !.lock = NoPort, !.waiters = <<>>]
      ELSE [w EXCEPT !.lock = w.waiters[Len(w.waiters)],
                     !.waiters = SubSeq(@, 1, Len(@) - 1)]
Handoff(w) ==
    IF AllDead(w)
      THEN [w EXCEPT !.lock = NoPort, !.waiters = <<>>]
      ELSE [w EXCEPT !.lock = w.waiters[FirstLive(w)],
                     !.waiters = SubSeq(@, FirstLive(w) + 1, Len(@))]
\* Mutant: the dead waiters' ports are not cleaned up.
DroppedLockOnly(w) == {w.lock} \ {NoPort, Handoff(w).lock}
\* the ports it cleans up: the old lock, and the dead waiters it popped
Dropped(w) ==
    ({w.lock} \cup (WaiterSet(w) \ WaiterSet(Handoff(w)))) \ {NoPort, Handoff(w).lock}

(***************************************************************************)
(* vol_appeared for a volume that is not watched.  The code's isRoot is    *)
(* true when the path is NOT "/", so that a read-only "/" is ignored and   *)
(* another read-only volume is ignored only in the install environment.    *)
(***************************************************************************)
Eligible(v) ==
    /\ mounted[v]
    /\ v \in ReadOnlyVols => v # Root /\ ~BaseSystem
    /\ v \notin HiddenVols
    /\ plist[v] # "missing"

CreateWatchedVol(v, st) ==
    Unchecked([delayer |-> FALSE, lock |-> NoPort, waiters |-> <<>>,
               updterrs |-> 0, updtattempts |-> 0, origMntFlags |-> FALSE,
               isBootRoot |-> hasBoots[v]],
              IF hasBoots[v] THEN st ELSE st \cup {"boot"})

\* A WATCH() that fails destroys the watchedVol.  Before the startup delay has
\* passed the volume is watched but not checked.
Appear(v, st, o) ==
    LET r == CreateWatchedVol(v, st)
    IN  IF v \notin UnwatchableVols /\ ~sAutoUpdateDelayer
          THEN CheckRebuild(r.w, r.stale, hasBoots[v], o)
          ELSE r

\* vol_appeared's effect on everything but the ports, from dictionary d
VolAppeared(d, v, st, o) ==
    LET r == Appear(v, st, o)
    IN  IF Eligible(v)
          THEN /\ sFsysWatchDict' = IF v \in UnwatchableVols THEN d ELSE Put(d, v, r.w)
               /\ stale' = [stale EXCEPT ![v] = r.stale]
               /\ plist' = [plist EXCEPT ![v] = "read"]
               /\ Launched(One(v, r))
          ELSE /\ sFsysWatchDict' = d
               /\ stale' = [stale EXCEPT ![v] = st]
               /\ UNCHANGED <<plist, launched>>

(***************************************************************************)
(* vol_disappeared for a watched volume other than "/": every waiter is    *)
(* told ENOENT; the locker is abandoned, its port keeping a context that   *)
(* is now freed.                                                           *)
(***************************************************************************)
\* Mutant: the waiters of a volume that goes are not told.
WaitersForgotten(v) == {}
WaitersOn(v) == IF v \in Watched THEN WaiterSet(sFsysWatchDict[v]) ELSE {}
LockersOf(v) == IF v \in Watched THEN {sFsysWatchDict[v].lock} \ {NoPort} ELSE {}

StopWatching(v) ==
    /\ sReplyPorts' = sReplyPorts \ WaitersOn(v)
    /\ portInfo' = [c \in Clients |-> CASE c \in WaitersOn(v) -> "none"
                                        [] c \in LockersOf(v) -> "freed"
                                        [] OTHER -> portInfo[c]]
    /\ reply' = [c \in Clients |-> IF c \in WaitersOn(v) \ dead THEN "ENOENT"
                                                             ELSE reply[c]]
    /\ dead' = dead \ WaitersOn(v)

\* disappear, then appear if the volume is (still) worth watching
Reappear(v, st, o) ==
    IF v = Root /\ v \in Watched
      THEN /\ stale' = [stale EXCEPT ![v] = st]     \* refusing to lose state
           /\ UNCHANGED <<sFsysWatchDict, sReplyPorts, portInfo, reply, dead,
                          plist, launched>>
      ELSE /\ StopWatching(v)
           /\ VolAppeared(Restrict(sFsysWatchDict, Watched \ {v}), v, st, o)

\* A destroyed watchedVol cancels its notification tokens.
ForgetEvents(v) == fsEvents' = IF v = Root THEN fsEvents ELSE fsEvents \ {v}

reboot == <<sRebootLock, sRebootWaiter>>

(***************************************************************************)
(* Disk arbitration callbacks.                                             *)
(***************************************************************************)
vol_appeared(v) ==
    /\ <<v, "appeared">> \in daEvents
    /\ daEvents' = daEvents \ {<<v, "appeared">>}
    /\ \E o \in Outcomes : Reappear(v, stale[v], o)
    /\ ForgetEvents(v)
    /\ UNCHANGED <<reboot, sAutoUpdateDelayer, target, seen, mediaVars, ownersIgnored>>

vol_disappeared(v) ==
    /\ <<v, "disappeared">> \in daEvents
    /\ daEvents' = daEvents \ {<<v, "disappeared">>}
    /\ IF v = Root
         THEN UNCHANGED <<sFsysWatchDict, sReplyPorts, portInfo, reply, dead>>
         ELSE /\ StopWatching(v)
              /\ sFsysWatchDict' = Restrict(sFsysWatchDict, Watched \ {v})
    /\ ForgetEvents(v)
    /\ UNCHANGED <<reboot, sAutoUpdateDelayer, target, seen, mediaVars, ownersIgnored,
                   stale, plist, launched>>

\* One changed key per callback.  A new mount point is disappear and appear;
\* a media change looks at the Apple_Boot partitions, or for a new volume.
vol_changed(v, key) ==
    /\ <<v, key>> \in daEvents
    /\ daEvents' = daEvents \ {<<v, key>>}
    /\ \/ /\ key = "VolumePath" \/ (key = "MediaContent" /\ v \notin Watched)
          /\ \E o \in Outcomes : Reappear(v, stale[v], o)
          /\ ForgetEvents(v)
       \/ /\ key = "MediaContent"
          /\ v \in Watched
          /\ \E ok \in ForkOutcomes :
               LET r == CheckBootsSetNvram(sFsysWatchDict[v], stale[v], hasBoots[v], ok)
               IN  /\ sFsysWatchDict' = Put(sFsysWatchDict, v, r.w)
                   /\ stale' = [stale EXCEPT ![v] = r.stale]
                   /\ Launched(One(v, r))
          /\ UNCHANGED <<sReplyPorts, portInfo, reply, dead, plist, fsEvents>>
    /\ UNCHANGED <<reboot, sAutoUpdateDelayer, target, seen, mediaVars, ownersIgnored>>

\* Asked before an unmount.  A volume that is not watched may become so; one
\* that is locked or, if BootRoot, needs an update is busy, and that counts as
\* an error.  Disk arbitration asks after it has reported the volume.
DissentUnmount(v, w, st, o) ==
    LET r == IF w.isBootRoot THEN CheckVolBusy(w, st, hasBoots[v], o)
                             ELSE Unchecked(w, st)
        busy == w.lock # NoPort \/ r.launched
    IN  [r EXCEPT !.w.updterrs = IF busy /\ @ = 0 THEN 1 ELSE @]

is_dadisk_busy(v) ==
    /\ ~BaseSystem
    /\ mounted[v] /\ <<v, "appeared">> \notin daEvents
    /\ plist[v] # "missing"
    /\ v \in Watched \/ Eligible(v)
    /\ \E o \in Outcomes \X Outcomes :
         LET a == IF v \in Watched THEN Unchecked(sFsysWatchDict[v], stale[v])
                                   ELSE Appear(v, stale[v], o[1])
             r == IF v \in UnwatchableVols THEN a
                    ELSE DissentUnmount(v, a.w, a.stale, o[2])
         IN  /\ sFsysWatchDict' = IF v \in UnwatchableVols THEN sFsysWatchDict
                                    ELSE Put(sFsysWatchDict, v, r.w)
             /\ stale' = [stale EXCEPT ![v] = r.stale]
             /\ plist' = IF v \in Watched THEN plist ELSE [plist EXCEPT ![v] = "read"]
             /\ Launched(One(v, [r EXCEPT !.forked = @ \/ a.forked]))
    /\ UNCHANGED <<sReplyPorts, portInfo, reboot, sAutoUpdateDelayer,
                   clientVars, mediaVars, ownersIgnored, daEvents, fsEvents>>

(***************************************************************************)
(* File system notifications and timers.                                   *)
(***************************************************************************)
\* Mutant: a volume that is locked is being updated, so a change is ignored.
IgnoreLocked(v) ==
    GetOutOfMyWay \/ ~mounted[v] \/ plist[v] = "missing" \/ sFsysWatchDict[v].lock # NoPort
IgnoreChange(v) ==
    v \in installing \/ GetOutOfMyWay \/ ~mounted[v] \/ plist[v] = "missing"

\* st: the staleness of v when it is called.  A new bootcaches.plist is read by
\* disappear and appear.
CheckScheduleUpdate(v, st) ==
    IF ~IgnoreChange(v) /\ plist[v] = "newer"
      THEN \E o \in Outcomes : Reappear(v, st, o)
      ELSE /\ sFsysWatchDict' =
                IF IgnoreChange(v) \/ sAutoUpdateDelayer THEN sFsysWatchDict
                  ELSE [sFsysWatchDict EXCEPT ![v].delayer = TRUE]
           /\ stale' = [stale EXCEPT ![v] = st]
           /\ UNCHANGED <<sReplyPorts, portInfo, reply, dead, plist, launched>>

\* (a message whose volume index is not in sVolTable is dropped)
fsys_changed(v) ==
    /\ v \in fsEvents \cap Watched
    /\ CheckScheduleUpdate(v, stale[v])
    /\ fsEvents' = fsEvents \ {v}
    /\ UNCHANGED <<reboot, sAutoUpdateDelayer, target, seen, mediaVars, ownersIgnored,
                   daEvents>>

\* a RAID set or CoreStorage group changed; its bootstamps may be invalidated
updateVolForMedia(v, invalidateStamps) ==
    /\ v \in Watched
    /\ changes < MaxChanges
    /\ changes' = changes + 1
    /\ CheckScheduleUpdate(v, IF invalidateStamps THEN stale[v] \cup {"boot"}
                                                  ELSE stale[v])
    /\ IF ~IgnoreChange(v) /\ plist[v] = "newer" THEN ForgetEvents(v)
                                                 ELSE UNCHANGED fsEvents
    /\ UNCHANGED <<reboot, sAutoUpdateDelayer, target, seen, mounted, hasBoots,
                   installing, ownersIgnored, daEvents>>

check_now(v) ==
    /\ v \in Watched
    /\ sFsysWatchDict[v].delayer
    /\ \E o \in Outcomes :
         LET r == CheckRebuild(sFsysWatchDict[v], stale[v], hasBoots[v], o)
         IN  /\ sFsysWatchDict' = Put(sFsysWatchDict, v, r.w)
             /\ stale' = [stale EXCEPT ![v] = r.stale]
             /\ Launched(One(v, r))
    /\ UNCHANGED <<sReplyPorts, portInfo, reboot, sAutoUpdateDelayer,
                   clientVars, mediaVars, ownersIgnored, plist, daEvents, fsEvents>>

\* Five minutes after start: disk arbitration has reported the volumes it had.
checkAutoUpdate ==
    /\ sAutoUpdateDelayer
    /\ \A v \in Vols : <<v, "appeared">> \notin daEvents
    /\ sAutoUpdateDelayer' = FALSE
    /\ \E o \in [Watched -> Outcomes] :
         LET all == CheckAll(sFsysWatchDict, stale, o)
         IN  /\ sFsysWatchDict' = DictOf(all)
             /\ stale' = StaleOf(all, stale)
             /\ Launched(all)
    /\ UNCHANGED <<sReplyPorts, portInfo, reboot, clientVars, mediaVars,
                   ownersIgnored, plist, daEvents, fsEvents>>

(***************************************************************************)
(* The reboot lock.                                                        *)
(***************************************************************************)
Idle(c) == c \notin dead /\ portInfo[c] = "none" /\ reply[c] # "blocked"

\* reconsiderVolumes() after the checks found nothing busy: watched volumes
\* have their Apple_Boot partitions looked at (what that launches is not
\* reported), the others may appear.
Reconsider(all, s, o) ==
    [v \in DOMAIN all \cup {u \in Vols : Eligible(u)} |->
        CASE v \in DOMAIN all /\ mounted[v] ->
               LET r == CheckBootsSetNvram(all[v].w, s[v], hasBoots[v], o[v][1])
               IN  [r EXCEPT !.launched = FALSE]
          [] v \in DOMAIN all /\ ~mounted[v] -> all[v]
          [] OTHER -> Appear(v, s[v], o[v])]

LockReboot(c, waitForLock, all) ==
    /\ sFsysWatchDict' = DictOf(all)
    /\ stale' = StaleOf(all, stale)
    /\ plist' = [v \in Vols |-> IF v \in DOMAIN all \ Watched THEN "read"
                                                              ELSE plist[v]]
    /\ Launched(all)
    /\ CASE ~AnyBusy(all) ->
              /\ sRebootLock' = c
              /\ portInfo' = [portInfo EXCEPT ![c] = "reboot"]
              /\ reply' = [reply EXCEPT ![c] = "OK"]
              /\ UNCHANGED <<sRebootWaiter, sReplyPorts>>
         [] AnyBusy(all) /\ waitForLock /\ sRebootWaiter = NoPort ->
              /\ sRebootWaiter' = c
              /\ portInfo' = [portInfo EXCEPT ![c] = "reboot"]
              /\ sReplyPorts' = sReplyPorts \cup {c}
              /\ reply' = [reply EXCEPT ![c] = "blocked"]
              /\ UNCHANGED sRebootLock
         [] OTHER ->
              /\ reply' = [reply EXCEPT ![c] = "EBUSY"]
              /\ UNCHANGED <<reboot, sReplyPorts, portInfo>>

_kextmanager_lock_reboot(c, waitForLock) ==
    /\ c \in Rebooters
    /\ Idle(c)
    /\ IF c \in NonRoot \/ sRebootLock # NoPort
         THEN /\ reply' = [reply EXCEPT ![c] = IF c \in NonRoot THEN "EPERM"
                                                                ELSE "EALREADY"]
              /\ UNCHANGED <<sFsysWatchDict, sReplyPorts, portInfo, reboot,
                             stale, plist, launched>>
         ELSE \E o \in [Vols -> Outcomes] :
                LET all == CheckAll(sFsysWatchDict, stale, o)
                    s   == StaleOf(all, stale)
                IN  LockReboot(c, waitForLock,
                               IF AnyBusy(all) THEN all ELSE Reconsider(all, s, o))
    /\ UNCHANGED <<sAutoUpdateDelayer, target, dead, seen, mediaVars, ownersIgnored,
                   daEvents, fsEvents>>

(***************************************************************************)
(* The volume locks, as kextcache's takeVolumeForPath and putVolumeForPath *)
(* use them: a first call that does not wait, then one that does.  Told    *)
(* ENOENT, kextcache goes on without the lock.                             *)
(***************************************************************************)
Granted(w, c, ignored) ==
    [w EXCEPT !.lock = c, !.origMntFlags = w.origMntFlags \/ ignored]

_kextmanager_lock_volume(c, v, waitForLock) ==
    /\ c \in Helpers
    /\ Idle(c)
    /\ IF waitForLock
         THEN /\ reply[c] = "EBUSY" /\ target[c] = v
              /\ UNCHANGED launched
         ELSE /\ reply[c] \notin {"EBUSY", "ENOENT"}
              /\ mounted[v]
              /\ v \in SpontaneousVols \/ launched[v]
              /\ launched' = [launched EXCEPT ![v] = FALSE]
    /\ target' = [target EXCEPT ![c] = v]
    /\ CASE c \in NonRoot ->
              /\ reply' = [reply EXCEPT ![c] = "EPERM"]
              /\ UNCHANGED <<sFsysWatchDict, sReplyPorts, portInfo, ownersIgnored>>
         [] c \notin NonRoot /\ sRebootLock # NoPort ->
              /\ reply' = [reply EXCEPT ![c] = "ENOLCK"]
              /\ UNCHANGED <<sFsysWatchDict, sReplyPorts, portInfo, ownersIgnored>>
         [] c \notin NonRoot /\ sRebootLock = NoPort /\ v \notin Watched ->
              /\ reply' = [reply EXCEPT ![c] = "ENOENT"]
              /\ UNCHANGED <<sFsysWatchDict, sReplyPorts, portInfo, ownersIgnored>>
         [] OTHER ->
              \/ /\ sFsysWatchDict[v].lock = NoPort
                 /\ \E ok \in MountOutcomes :
                      ownersIgnored' = [ownersIgnored EXCEPT ![v] = @ /\ ~ok]
                 /\ sFsysWatchDict' =
                      [sFsysWatchDict EXCEPT
                         ![v] = Granted(sFsysWatchDict[v], c, ownersIgnored[v])]
                 /\ portInfo' = [portInfo EXCEPT ![c] = v]
                 /\ reply' = [reply EXCEPT ![c] = "OK"]
                 /\ UNCHANGED sReplyPorts
              \/ /\ sFsysWatchDict[v].lock # NoPort
                 /\ waitForLock
                 /\ sFsysWatchDict' =
                      [sFsysWatchDict EXCEPT ![v].waiters = Append(@, c)]
                 /\ sReplyPorts' = sReplyPorts \cup {c}
                 /\ portInfo' = [portInfo EXCEPT ![c] = v]
                 /\ reply' = [reply EXCEPT ![c] = "blocked"]
                 /\ UNCHANGED ownersIgnored
              \/ /\ sFsysWatchDict[v].lock # NoPort
                 /\ ~waitForLock
                 /\ reply' = [reply EXCEPT ![c] = "EBUSY"]
                 /\ UNCHANGED <<sFsysWatchDict, sReplyPorts, portInfo, ownersIgnored>>
    /\ UNCHANGED <<reboot, sAutoUpdateDelayer, dead, seen, mediaVars, stale, plist,
                   daEvents, fsEvents>>

\* The common end of unlock and of the locker's death: owners are put back,
\* the lock handed on and, if shutdown waits, everything checked once more.
\* w: the volume's watchedVol, its errors accounted; s: every staleness.  The
\* client has unlocked, or is dead.
\* Mutant: origMntFlags is cleared before it is used.
RestoreOwnersLate(v, ok) == UNCHANGED ownersIgnored
RestoreOwners(v, ok) ==
    ownersIgnored' = [ownersIgnored EXCEPT
                        ![v] = IF sFsysWatchDict[v].origMntFlags /\ ok THEN TRUE
                                                                      ELSE @]

HandOn(client, v, w, s, o) ==
    LET w2   == Handoff([w EXCEPT !.origMntFlags = FALSE])
        d    == Put(sFsysWatchDict, v, w2)
        try  == sRebootLock = NoPort /\ sRebootWaiter # NoPort
        all  == IF try THEN CheckAll(d, s, o)
                       ELSE [u \in DOMAIN d |-> Unchecked(d[u], s[u])]
        free == try /\ ~AnyBusy(all)
        told == {w2.lock} \cup (IF free THEN {sRebootWaiter} ELSE {})
        gone == Dropped(w)
    IN  /\ sFsysWatchDict' = DictOf(all)
        /\ stale' = StaleOf(all, s)
        /\ Launched(all)
        /\ sRebootLock' = IF free /\ sRebootWaiter \notin dead THEN sRebootWaiter
                                                               ELSE sRebootLock
        /\ sRebootWaiter' = IF free THEN NoPort ELSE sRebootWaiter
        /\ sReplyPorts' = sReplyPorts \ (gone \cup told)
        /\ portInfo' = [c \in Clients |-> IF c \in gone THEN "none" ELSE portInfo[c]]
        /\ dead' = dead \ gone
        /\ reply' = [c \in Clients |-> CASE c = client -> "none"
                                         [] c \in told \ dead -> "OK"
                                         [] OTHER -> reply[c]]

\* Mutant: the errors are counted down.
ExitAccountingDown(w, exitstatus) ==
    IF exitstatus = "EX_OK" THEN w ELSE [w EXCEPT !.updterrs = @ - 1]
ExitAccounting(w, exitstatus) ==
    CASE exitstatus = "EX_OK" /\ w.updterrs > 0 ->
           [w EXCEPT !.updterrs = 0, !.updtattempts = 0]
      [] exitstatus = "EX_OK" /\ w.updterrs = 0 -> w
      [] OTHER -> [w EXCEPT !.updterrs = Bump(@)]

\* A kextcache that has its answer captures the files' times, which are those its
\* bootstamps will have.  One run by someone else may update something else.
needUpdates(c) ==
    /\ c \in Helpers \ (dead \cup DOMAIN seen)
    /\ reply[c] \in {"OK", "ENOENT"}
    /\ mounted[target[c]]
    /\ \E found \in {stale[target[c]]} \cup (IF target[c] \in SpontaneousVols THEN {{}} ELSE {}) :
         seen' = Put(seen, c, found)
    /\ UNCHANGED <<kextdVars, reply, target, dead, mediaVars, ownersIgnored, stale,
                   plist, launched, daEvents, fsEvents>>

\* What is out of date when c's update ends: as well as before, or without what it
\* saw.  What changed after it had looked stays out of date.
StaleAfter(c, exitstatus) ==
    IF exitstatus = "EX_OK" THEN stale[target[c]] \ seen[c] ELSE stale[target[c]]
Finished(c, exitstatus) == exitstatus = "EX_OK" => c \in DOMAIN seen
ForgetSeen(c) == seen' = Restrict(seen, DOMAIN seen \ {c})

_kextmanager_unlock_volume(c, exitstatus) ==
    LET v == target[c] IN
    /\ c \in Helpers \ dead
    /\ reply[c] = "OK"
    /\ exitstatus = "EX_OK" => mounted[v]
    /\ Finished(c, exitstatus)
    /\ ForgetSeen(c)
    /\ LET s == [stale EXCEPT ![v] = StaleAfter(c, exitstatus)] IN
         IF v \in Watched /\ Holds(sFsysWatchDict[v], c)
           THEN /\ \E o \in [Watched -> Outcomes] :
                     HandOn(c, v, ExitAccounting(sFsysWatchDict[v], exitstatus), s, o)
                /\ \E ok \in MountOutcomes : RestoreOwners(v, ok)
           ELSE /\ stale' = s               \* "Couldn't unlock"; c's port dies
                /\ dead' = dead \cup {c}
                /\ reply' = [reply EXCEPT ![c] = "none"]
                /\ UNCHANGED <<sFsysWatchDict, sReplyPorts, reboot, portInfo,
                               launched, ownersIgnored>>
    /\ UNCHANGED <<sAutoUpdateDelayer, target, mediaVars, plist, daEvents, fsEvents>>

\* kextcache that went on without a lock is done
FinishUnlocked(c) ==
    /\ c \in Helpers
    /\ reply[c] = "ENOENT"
    /\ \E exitstatus \in {"EX_OK", "failed"} :
         /\ Finished(c, exitstatus)
         /\ stale' = [stale EXCEPT ![target[c]] = StaleAfter(c, exitstatus)]
    /\ ForgetSeen(c)
    /\ reply' = [reply EXCEPT ![c] = "none"]
    /\ UNCHANGED <<kextdVars, target, dead, mediaVars, ownersIgnored, plist,
                   launched, daEvents, fsEvents>>

\* The dead-name notification of c's port.  The freed context may by now be
\* the address of another watchedVol: then c is an "unknown helper".
port_died(c) ==
    /\ c \in dead
    /\ CASE portInfo[c] = "reboot" ->
              /\ sRebootLock' = IF sRebootLock = c THEN NoPort ELSE sRebootLock
              /\ sRebootWaiter' = IF sRebootWaiter = c THEN NoPort ELSE sRebootWaiter
              /\ sReplyPorts' = sReplyPorts \ {c}
              /\ portInfo' = [portInfo EXCEPT ![c] = "none"]
              /\ dead' = dead \ {c}
              /\ UNCHANGED <<sFsysWatchDict, reply, stale, launched, ownersIgnored>>
         [] portInfo[c] # "reboot" /\ portInfo[c] \notin Watched ->
              /\ portInfo' = [portInfo EXCEPT ![c] = "none"]
              /\ dead' = dead \ {c}
              /\ UNCHANGED <<sFsysWatchDict, sReplyPorts, reboot, reply, stale,
                             launched, ownersIgnored>>
         [] OTHER ->
              LET v == portInfo[c]
                  w == sFsysWatchDict[v]
              IN  \/ /\ Holds(w, c)
                     /\ \E o \in [Watched -> Outcomes] :
                          HandOn(c, v, [w EXCEPT !.updterrs = Bump(@)], stale, o)
                     /\ \E ok \in MountOutcomes : RestoreOwners(v, ok)
                  \/ /\ ~Holds(w, c)
                     /\ \E i \in DOMAIN w.waiters :
                          /\ w.waiters[i] = c
                          /\ sFsysWatchDict' =
                               [sFsysWatchDict EXCEPT ![v].waiters = RemoveAt(@, i)]
                     /\ sReplyPorts' = sReplyPorts \ {c}
                     /\ portInfo' = [portInfo EXCEPT ![c] = "none"]
                     /\ dead' = dead \ {c}
                     /\ UNCHANGED <<reboot, reply, stale, launched, ownersIgnored>>
    /\ UNCHANGED <<sAutoUpdateDelayer, target, seen, mediaVars, plist, daEvents, fsEvents>>

(***************************************************************************)
(* The environment.  Every change of a volume counts against MaxChanges.   *)
(***************************************************************************)
Change == changes < MaxChanges /\ changes' = changes + 1
Notify(v) == fsEvents' = fsEvents \cup ({v} \cap Watched)

Mount(v) ==
    /\ Change
    /\ v \in RemovableVols
    /\ ~mounted[v]
    /\ mounted' = [mounted EXCEPT ![v] = TRUE]
    /\ ownersIgnored' = [ownersIgnored EXCEPT ![v] = v \in NoOwnersVols]
    /\ daEvents' = daEvents \cup {<<v, "VolumePath">>}
    /\ UNCHANGED <<kextdVars, clientVars, hasBoots, installing, stale, plist,
                   launched, fsEvents>>

\* root's own unmounts, and forced ones, need no approval; how: the mount
\* point goes, or the whole disk does
Unmount(v, how) ==
    /\ Change
    /\ v \in RemovableVols
    /\ mounted[v]
    /\ mounted' = [mounted EXCEPT ![v] = FALSE]
    /\ daEvents' = daEvents \cup {<<v, how>>}
    /\ UNCHANGED <<kextdVars, clientVars, hasBoots, installing, ownersIgnored,
                   stale, plist, launched, fsEvents>>

\* A kext, a kernel or a booter on the volume changes.
Touch(v, kind) ==
    /\ Change
    /\ v \in TouchVols
    /\ mounted[v]
    /\ stale' = [stale EXCEPT ![v] = @ \cup {kind}]
    /\ seen' = [c \in DOMAIN seen |-> IF target[c] = v THEN seen[c] \ {kind}
                                                     ELSE seen[c]]
    /\ Notify(v)
    /\ UNCHANGED <<kextdVars, reply, target, dead, mounted, hasBoots, installing,
                   ownersIgnored, plist, launched, daEvents>>

ChangePlist(v, to) ==
    /\ Change
    /\ v \in PlistVols
    /\ mounted[v]
    /\ plist' = [plist EXCEPT ![v] = to]
    /\ Notify(v)
    /\ UNCHANGED <<kextdVars, clientVars, mounted, hasBoots, installing,
                   ownersIgnored, stale, launched, daEvents>>

ChangeBoots(v) ==
    /\ Change
    /\ v \in BootChangeVols
    /\ hasBoots' = [hasBoots EXCEPT ![v] = ~@]
    /\ daEvents' = daEvents \cup {<<v, "MediaContent">>}
    /\ UNCHANGED <<kextdVars, clientVars, mounted, installing, ownersIgnored,
                   stale, plist, launched, fsEvents>>

\* The installer writes installd.commit.pid; it may die without removing it.
InstallerStarts(v) ==
    /\ Change
    /\ v \in InstallVols \ installing
    /\ mounted[v]
    /\ installing' = installing \cup {v}
    /\ Notify(v)
    /\ UNCHANGED <<kextdVars, clientVars, mounted, hasBoots, ownersIgnored,
                   stale, plist, launched, daEvents>>

InstallerEnds(v) ==
    /\ v \in installing
    /\ installing' = installing \ {v}
    /\ Notify(v) \/ UNCHANGED fsEvents
    /\ UNCHANGED <<kextdVars, clientVars, mounted, hasBoots, changes,
                   ownersIgnored, stale, plist, launched, daEvents>>

\* A forked kextcache exits before it asks for the lock; nobody is told.
LaunchedQuits(v) ==
    /\ BrokenHelpers
    /\ launched[v]
    /\ launched' = [launched EXCEPT ![v] = FALSE]
    /\ UNCHANGED <<kextdVars, clientVars, mediaVars, ownersIgnored, stale, plist,
                   daEvents, fsEvents>>

\* (nor of one that dies after it was told EBUSY)
ClientDies(c) ==
    /\ c \notin dead
    /\ reply[c] # "none"
    /\ c \in Helpers /\ reply[c] = "EBUSY" => BrokenHelpers
    /\ reply' = [reply EXCEPT ![c] = "none"]
    /\ dead' = IF portInfo[c] = "none" THEN dead ELSE dead \cup {c}
    /\ ForgetSeen(c)
    /\ UNCHANGED <<kextdVars, target, mediaVars, ownersIgnored, stale, plist,
                   launched, daEvents, fsEvents>>

(***************************************************************************)
(* kextd_watch_volumes() has registered with disk arbitration, which is    *)
(* about to report every volume, and has started the five-minute timer.    *)
(***************************************************************************)
Init ==
    /\ sFsysWatchDict = [v \in {} |-> {}]
    /\ sReplyPorts = {}
    /\ sRebootLock = NoPort
    /\ sRebootWaiter = NoPort
    /\ sAutoUpdateDelayer = TRUE
    /\ portInfo = [c \in Clients |-> "none"]
    /\ reply = [c \in Clients |-> "none"]
    /\ target = [c \in Clients |-> Root]
    /\ dead = {}
    /\ seen = [c \in {} |-> {}]
    /\ mounted = [v \in Vols |-> TRUE]
    /\ ownersIgnored = [v \in Vols |-> v \in NoOwnersVols]
    /\ hasBoots = [v \in Vols |-> v \in BootVols]
    /\ stale = [v \in Vols |-> {}]
    /\ plist = [v \in Vols |-> "read"]
    /\ installing = {}
    /\ launched = [v \in Vols |-> FALSE]
    /\ daEvents = Vols \X {"appeared"}
    /\ fsEvents = {}
    /\ changes = 0

VolumeCallback ==
    \E v \in Vols :
        \/ vol_appeared(v)
        \/ vol_disappeared(v)
        \/ \E key \in {"VolumePath", "MediaContent"} : vol_changed(v, key)
        \/ fsys_changed(v)
        \/ check_now(v)

KextdCallback == VolumeCallback \/ checkAutoUpdate \/ \E c \in Clients : port_died(c)

ClientCall ==
    \E c \in Clients :
        \/ \E wait \in BOOLEAN : _kextmanager_lock_reboot(c, wait)
        \/ \E wait \in BOOLEAN, v \in Vols : _kextmanager_lock_volume(c, v, wait)
        \/ needUpdates(c)
        \/ \E exit \in ExitOutcomes : _kextmanager_unlock_volume(c, exit)
        \/ FinishUnlocked(c)
        \/ ClientDies(c)

VolumeEvent ==
    \E v \in Vols :
        \/ is_dadisk_busy(v)
        \/ \E inv \in BOOLEAN : updateVolForMedia(v, inv)
        \/ Mount(v)
        \/ \E how \in {"VolumePath", "disappeared"} : Unmount(v, how)
        \/ \E kind \in TouchKinds : Touch(v, kind)
        \/ \E to \in {"newer", "missing"} : ChangePlist(v, to)
        \/ ChangeBoots(v)
        \/ InstallerStarts(v)
        \/ InstallerEnds(v)
        \/ LaunchedQuits(v)

Next == KextdCallback \/ ClientCall \/ VolumeEvent

Spec == Init /\ [][Next]_vars

(***************************************************************************)
(* The run loop delivers every pending event, every timer fires, a forked  *)
(* kextcache gets to ask for the lock and asks again when it was busy, and *)
(* a kextcache at work ends.  Nobody is obliged to fail, die or change     *)
(* anything.                                                               *)
(***************************************************************************)
HelperEnds(c) ==
    \/ \E exit \in ExitOutcomes : _kextmanager_unlock_volume(c, exit)
    \/ FinishUnlocked(c)

Fairness ==
    /\ \A v \in Vols : /\ WF_vars(vol_appeared(v))
                       /\ WF_vars(vol_disappeared(v))
                       /\ WF_vars(\E key \in DAKeys : vol_changed(v, key))
                       /\ WF_vars(fsys_changed(v))
                       /\ WF_vars(check_now(v))
                       /\ WF_vars(\E c \in Helpers : _kextmanager_lock_volume(c, v, FALSE))
    /\ WF_vars(checkAutoUpdate)
    /\ \A c \in Clients : WF_vars(port_died(c))
    /\ \A c \in Helpers : /\ WF_vars(needUpdates(c))
                          /\ WF_vars(HelperEnds(c))
                          /\ WF_vars(_kextmanager_lock_volume(c, target[c], TRUE))

FairSpec == Spec /\ Fairness

(***************************************************************************)
(* Safety                                                                  *)
(***************************************************************************)
LockOf(v) == sFsysWatchDict[v].lock
WaitersFor(v) == WaiterSet(sFsysWatchDict[v])

\* Once shutdown holds the reboot lock no kextcache holds the lock of a watched
\* volume, and none is queued for one: the lock is granted only when nothing is
\* busy, and from then on every path that could grant a volume lock is closed.
RebootExcludesUpdates ==
    sRebootLock # NoPort =>
        \A v \in Watched : LockOf(v) = NoPort /\ WaitersFor(v) = {}

\* Nobody waits for a lock that nobody holds: each path that gives a lock up
\* (unlock, death of the locker, death of waiters) hands it on.
NoWaiterOnFreeLock ==
    \A v \in Watched : LockOf(v) = NoPort => sFsysWatchDict[v].waiters = <<>>

\* kextd holds exactly the reply ports of the clients it has yet to answer,
\* each in one queue: a client that is blocked will be found by signalWaiter,
\* and no reply right is kept for one that was answered or cleaned up.
ReplyPortsMatchWaiters ==
    /\ sReplyPorts = (UNION {WaitersFor(v) : v \in Watched})
                       \cup ({sRebootWaiter} \ {NoPort})
    /\ \A c \in Clients : reply[c] = "blocked" => c \in sReplyPorts
    /\ \A u, v \in Watched : u # v => WaitersFor(u) \cap WaitersFor(v) = {}

\* Every port that has a context is where port_died() will look for it: none of
\* "unknown helper exited", "presumed waiter died, but no waiters" and, but for a
\* waiter that died before its turn came, "Improperly tracked shutdown/reboot
\* process died" is reached.  And no volume is locked by a port without context.
PortsTracked ==
    \A c \in Clients :
        /\ portInfo[c] \in Vols =>
              /\ portInfo[c] \in Watched
              /\ c = LockOf(portInfo[c]) \/ c \in WaitersFor(portInfo[c])
        /\ portInfo[c] = "reboot" => c \in {sRebootLock, sRebootWaiter} \cup dead
        /\ \A v \in Watched :
              c = LockOf(v) \/ c \in WaitersFor(v) => portInfo[c] = v

\* kextd and its clients agree: a live locker was told so and asked for this
\* very volume, and a live client told OK for a watched volume is its locker
\* unless the volume was taken off the watch list meanwhile.
LockersWereTold ==
    /\ \A v \in Watched :
         LET c == LockOf(v) IN
         c \in Clients \ dead => reply[c] = "OK" /\ target[c] = v
    /\ \A c \in Helpers \ dead :
         reply[c] = "OK" =>
            \/ portInfo[c] = "freed"
            \/ target[c] \in Watched /\ LockOf(target[c]) = c

\* kextd's bookkeeping of ports: what a port's context says, the queues and the
\* replies owed, and what the clients were told, are one story, in whatever order
\* locks are asked for, given up, waited for and died over.
PortsAgree == ReplyPortsMatchWaiters /\ PortsTracked /\ LockersWereTold

\* The clients that now change v's caches: those told OK, and those told
\* ENOENT, which go on without a lock.
UpdatersOf(v) ==
    {c \in Helpers \ dead : reply[c] \in {"OK", "ENOENT"} /\ target[c] = v}

\* The locking serializes the kextcache processes that work on "/": it is never
\* taken off the watch list, so that once it is watched nobody is told ENOENT.
OneUpdaterOfRoot ==
    \A c \in UpdatersOf(Root) :
        reply[c] = "OK" => Root \in Watched /\ LockOf(Root) = c

\* Owners are put back: when no kextcache holds the lock of "/", owners are
\* ignored there exactly if it was mounted so (unless a remount failed), however
\* the lock was passed on and whoever died with it.
OwnersRestored ==
    MountOutcomes = {TRUE} /\ (Root \in Watched => LockOf(Root) = NoPort) =>
        (ownersIgnored[Root] <=> Root \in NoOwnersVols)

\* The lock of "/": one kextcache at a time works on it, and its owners are as
\* they were mounted when none does.
RootLockHonest == OneUpdaterOfRoot /\ OwnersRestored

\* updtattempts is only stopped by check_rebuild's own test (">", where
\* check_vol_busy has "<"), and gaining Apple_Boot partitions makes one check
\* fork two helpers: two more than the limit is the real bound.
AttemptsBounded ==
    \A v \in Watched : sFsysWatchDict[v].updtattempts <= kMaxUpdateAttempts + 2

(***************************************************************************)
(* Action properties                                                       *)
(***************************************************************************)
\* "/" once watched stays watched, and its lock is never torn from a locker:
\* it changes hands only when the locker unlocks or its death is noticed.
RootKeptStep ==
    Root \in Watched =>
        /\ Root \in Watched'
        /\ \/ LockOf(Root) \in dead \cup {NoPort}
           \/ LockOf(Root)' = LockOf(Root)
           \/ reply[LockOf(Root)] = "OK" /\ reply'[LockOf(Root)] = "none"
RootKept == [][RootKeptStep]_vars

\* First come, first served: whoever is handed a volume's lock waited longer
\* than everyone who still waits, and every client passed over was dead.
HandedTo(v, c) ==
    v \in Watched' /\ LockOf(v) # NoPort /\ LockOf(v) # c /\ LockOf(v)' = c
FirstComeFirstServed ==
    [][\A v \in Watched : \A c \in Clients :
         HandedTo(v, c) =>
            LET q == sFsysWatchDict[v].waiters IN
            \E i \in DOMAIN q : q[i] = c /\ \A j \in 1..(i - 1) : q[j] \in dead]_vars

\* The lock of "/" goes from kextcache to kextcache in the order they asked for
\* it, and from none that lives, though "/" is reported again and its
\* bootcaches.plist read anew.
RootInOrder == RootKept /\ FirstComeFirstServed

\* kextd implements UpdateLocks: whatever its handlers check, launch and forget,
\* each of their steps is one step of that arbiter or leaves it alone.
Locks == INSTANCE UpdateLocks WITH
            Updaters <- Helpers,
            Shutdowns <- Rebooters,
            holder <- [v \in Vols |-> IF v \in Watched THEN LockOf(v) ELSE NoPort],
            queue <- [v \in Vols |-> IF v \in Watched THEN sFsysWatchDict[v].waiters
                                                      ELSE <<>>],
            shutdown <- sRebootLock
ImplementsLocks == Locks!Spec

\* Shutdown is let through only over a clean system: when the reboot lock is
\* granted no watched volume has caches out of date that kextd would rebuild,
\* unless it gave up on the volume, could not start the update, or only notices
\* the volume in this very call, before the startup delay has passed.
Clean(v) ==
    \/ ~KextCacheStale(stale[v]) /\ (sFsysWatchDict[v].isBootRoot => "boot" \notin stale[v])
    \/ GetOutOfMyWay
GaveUp(v) ==
    \/ sFsysWatchDict'[v].updterrs >= kMaxUpdateFailures
    \/ v \in Watched /\ sFsysWatchDict[v].updtattempts >= kMaxUpdateAttempts
ForkFailed(v) == FALSE \in ForkOutcomes /\ sFsysWatchDict'[v].updterrs > 0
RebootOnlyWhenClean ==
    [][sRebootLock = NoPort /\ sRebootLock' # NoPort =>
         \A v \in Watched' :
            \/ Clean(v)'
            \/ GaveUp(v)
            \/ ForkFailed(v)
            \/ v \notin Watched /\ sAutoUpdateDelayer]_vars

(***************************************************************************)
(* Liveness                                                                *)
(***************************************************************************)
\* A kextcache that waits for a volume's lock gets an answer: the lock, or
\* ENOENT when the volume is no longer watched.
WaiterAnswered ==
    \A c \in Helpers : reply[c] = "blocked" ~> reply[c] # "blocked"

\* shutdown(8) or reboot(8) that waits for the reboot lock gets it: as the comment
\* on updtattempts above check_rebuild() has it, the limit on update attempts keeps
\* also a kextcache that never takes a lock from stalling the reboot for ever.
RebootWaiterAnswered ==
    \A c \in Rebooters : sRebootWaiter = c ~> sRebootWaiter # c

\* No change is lost: boot caches of a volume that go out of date are rebuilt, or
\* an error is on record, or the updates have used up the limit, or a kextcache
\* that came to rebuild them died or was refused because of a shutdown, or the
\* volume has gone.  A change waits for the start-up check, or for what is already on its way
\* to the volume; also one that comes while a kextcache is at work on it.  The
\* start-up check goes past a volume that is locked: what changed before it is
\* then left to the next change.
OutOfDate(v) == v \in Watched /\ "boot" \in stale[v] /\ hasBoots[v]
OnItsWay(v) ==
    /\ ~sAutoUpdateDelayer
    /\ v \in Watched
    /\ \/ v \in fsEvents
       \/ <<v, "MediaContent">> \in daEvents /\ ~sFsysWatchDict[v].isBootRoot
       \/ sFsysWatchDict[v].delayer
       \/ launched[v]
PassedOver(v) == ~sAutoUpdateDelayer /\ v \in Watched /\ LockOf(v) # NoPort
UpdateGivenUp(v) ==
    /\ v \in Watched
    /\ \/ sFsysWatchDict[v].updterrs > 0
       \/ sFsysWatchDict[v].updtattempts > kMaxUpdateAttempts
Attended(v) ==
    \/ ~OutOfDate(v) \/ UpdateGivenUp(v)
    \/ \E c \in Helpers : reply[c] = "ENOLCK" \/ (c \in dead /\ target[c] = v)
ChangeNoticed ==
    \A v \in Vols :
        /\ OutOfDate(v) /\ sAutoUpdateDelayer ~> Attended(v) \/ OnItsWay(v) \/ PassedOver(v)
        /\ OutOfDate(v) /\ OnItsWay(v) ~> Attended(v)
=============================================================================
