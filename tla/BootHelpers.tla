---------------------------- MODULE BootHelpers ----------------------------
(***************************************************************************)
(* How `kextcache -u' brings the Apple_Boot helper partitions of a volume  *)
(* up to date (update_boot.c): the kernel and its caches go to one of the  *)
(* rock, paper and scissors directories, the booter is replaced beside a   *)
(* .old copy and then blessed, the pre-boot files and the disk label are   *)
(* renamed into place, and bootstamps in the volume record what was copied.*)
(*                                                                         *)
(* One action is one step another process, a failure or a loss of power    *)
(* can come between: a copy is two steps and leaves a partial file after   *)
(* the first.  kextd's lock lets one kextcache work on a volume at a time. *)
(* The helper's firmware boots the blessed booter, and that booter the     *)
(* directory FindRPSDir() calls current.                                   *)
(***************************************************************************)
EXTENDS Integers, FiniteSets

CONSTANTS
    NumBoots,           \* helper partitions of the volume
    Recovery,           \* the helpers that hold a Recovery OS
    Tainted,            \* the helpers that hold non-default content at first
    FirstDirs,          \* the RPS directories found on each helper at first
    RootVolume,         \* the volume is mounted at "/"
    Options,            \* the sets of options kextcache is run with
    Changes,            \* the sets of files of the volume that change together
    MaxClock,           \* bound on the versions of the volume's files
    MaxFaults,          \* bound on failing system calls
    MaxCrashes          \* bound on crashes and losses of power

Boots == 1..NumBoots
Dirs == {"R", "P", "S"}
Kinds == {"rps", "booter", "misc"}
Absent == 0
Partial == -1
Versions == 1..MaxClock
Content == Versions \cup {Absent, Partial}

ASSUME BootHelpersAssumption ==
    /\ NumBoots \in Nat
    /\ Recovery \subseteq Boots /\ Tainted \subseteq Boots
    /\ FirstDirs \in [Boots -> (SUBSET Dirs) \ {{}}]
    /\ RootVolume \in BOOLEAN
    /\ Options \subseteq SUBSET {"force", "expect", "optional"}
    /\ Changes \subseteq SUBSET Kinds
    /\ MaxClock \in Nat \ {0} /\ MaxFaults \in Nat /\ MaxCrashes \in Nat

VARIABLES               \* the volume
    src,                \* the version of each kind of file, by time of change
    stamps,             \* the version each bootstamp records, 0 for none
    releases,           \* the versions that were updates of the whole system
    clock
VARIABLES               \* the helper partitions
    rps,                \* content of each directory
    booter, old,        \* boot.efi and boot.efi.old
    blessed,            \* the booter the firmware starts
    pre,                \* pre-boot files, the label, and their .new forms
    tainted,            \* helpers marked as not the default content
    dirty               \* files whose data may not have reached the disk
VARIABLES
    up,                 \* struct updatingVol of the one kextcache
    faults, crashes,    \* failures so far
    mishaps             \* what befell a helper since its last whole update

volume == <<src, stamps, releases, clock>>
kernel == <<rps, pre, tainted>>
boot == <<booter, old, blessed>>
vars == <<volume, kernel, boot, dirty, up, faults, crashes, mishaps>>

Whole(c) == c \in Versions

\* What can leave a helper without its booter, and without its kernel: the
\* update was cut off between renaming the booter and blessing the new one, or
\* after part of a first booter; the old booter could not be brought back, or
\* not be blessed again; the Recovery OS was taken for blessed, or left blessed
\* over no kernel; the current directory was erased in part; or power was lost
\* before a directory already renamed was flushed.
BooterLost == {"interrupted", "cutShort", "notRestored", "notReblessed"}
KernelLost == {"recoveryNotBlessed", "noKernel", "partlyErased", "unflushed"}

(***************************************************************************)
(* FindRPSDir(): the current directory is the one whose successor does not *)
(* exist; with none of the three, or all of them, it is R.                 *)
(***************************************************************************)
After == [d \in Dirs |-> CASE d = "R" -> "P" [] d = "P" -> "S" [] d = "S" -> "R"]
Before == [d \in Dirs |-> After[After[d]]]
Present(h) == {d \in Dirs : rps[h][d] # Absent}
\* Mutant: the directory whose predecessor does not exist is current.
CurrentOldest(h) == IF Present(h) \in {{}, Dirs} THEN "R"
                    ELSE CHOOSE d \in Present(h) : Before[d] \notin Present(h)
Current(h) == IF Present(h) \in {{}, Dirs} THEN "R"
              ELSE CHOOSE d \in Present(h) : After[d] \notin Present(h)

\* What the firmware and the booter would start.
BlessedBooter(h) == CASE blessed[h] = "booter" -> booter[h]
                      [] blessed[h] = "old"    -> old[h]
                      [] OTHER                 -> Absent
Kernel(h) == rps[h][Current(h)]
Bootable(h) == \/ blessed[h] = "recovery"
               \/ Whole(BlessedBooter(h)) /\ Whole(Kernel(h))

\* needUpdates(): a file is out of date unless its stamp has its time.
\* Mutant: any stamp will do for the booter.
OutOfDateOrNew(k) == IF k = "booter" THEN stamps[k] = 0 ELSE stamps[k] # src[k]
\* Mutant: any stamp will do.
OutOfDateUnstamped(k) == stamps[k] = 0
OutOfDate(k) == stamps[k] # src[k]

Nothing == [k \in Kinds |-> 0]
Idle == [pc |-> "idle", bootIdx |-> 0, opts |-> {}, doRPS |-> FALSE,
         doBooters |-> FALSE, doMisc |-> FALSE, changestate |-> "nothingSerious",
         dstdir |-> "none", tstamps |-> Nothing, result |-> "ok",
         updated |-> {}, retried |-> FALSE]

ChangeStates == {"nothingSerious", "noLabel", "copyingEFIBooter", "copiedBooters",
                 "activatingEFIBooter", "activatedBooters"}
Phases == {"idle", "mount", "findRPS", "recovery", "eraseCur", "eraseDst", "mkdir",
           "copyRPS", "copyMisc", "label", "unlinkOld", "renameOld", "createBooter",
           "fillBooter", "syncBooters", "bless", "renameRPS", "syncRPS",
           "activateMisc", "rebless", "unlinkNew", "restoreOld", "revertLabel",
           "nukeOld", "nukeRPS", "unmount", "stampRPS", "stampBooter", "stampMisc"}

Init ==
    /\ clock = 1 /\ releases = {1}
    /\ src = [k \in Kinds |-> 1]
    /\ stamps = src
    /\ rps = [h \in Boots |-> [d \in Dirs |-> IF d \in FirstDirs[h] THEN 1 ELSE Absent]]
    /\ booter = [h \in Boots |-> 1]
    /\ old = [h \in Boots |-> Absent]
    /\ blessed = [h \in Boots |-> "booter"]
    /\ pre = [h \in Boots |-> [misc |-> 1, miscNew |-> Absent,
                               label |-> TRUE, labelNew |-> FALSE]]
    /\ tainted = Tainted
    /\ dirty = [h \in Boots |-> {}]
    /\ up = Idle
    /\ faults = 0 /\ crashes = 0
    /\ mishaps = [h \in Boots |-> {}]

-----------------------------------------------------------------------------
(* Steps of kextcache.  Here is the helper it works on. *)

Here == up.bootIdx
At(phase) == up.pc = phase
Goto(phase) == up' = [up EXCEPT !.pc = phase]
Fault == faults < MaxFaults /\ faults' = faults + 1
Fine == UNCHANGED faults
\* A file that is renamed or removed takes its unflushed data along.
DirtyAs(from, to) ==
    dirty' = [dirty EXCEPT ![Here] = IF from \in @ THEN (@ \ {from}) \cup to ELSE @ \ to]
Because(why) == mishaps' = [mishaps EXCEPT ![Here] = @ \cup {why}]

\* bootfail: where revertState() begins, by the state of change reached.
\* Mutant: the old booter is not blessed again.
RevertNoBless(state) ==
    CASE state \in {"copyingEFIBooter", "copiedBooters", "activatingEFIBooter",
                    "activatedBooters"} -> "unlinkNew"
      [] state = "noLabel" -> "revertLabel"
      [] OTHER -> "nukeOld"
RevertFrom(state) ==
    CASE state = "activatedBooters" -> "rebless"
      [] state \in {"copyingEFIBooter", "copiedBooters", "activatingEFIBooter"} -> "unlinkNew"
      [] state = "noLabel" -> "revertLabel"
      [] OTHER -> "nukeOld"
Bootfail(err, state) ==
    up' = [up EXCEPT !.result = err, !.changestate = state, !.pc = RevertFrom(state)]

SetBlessing(which) == blessed' = [blessed EXCEPT ![Here] = which]
Synced == dirty' = [dirty EXCEPT ![Here] = {}]

\* Changes to the volume's files; a change of them all is a system update.
Bump(kinds) ==
    /\ clock < MaxClock
    /\ clock' = clock + 1
    /\ src' = [k \in Kinds |-> IF k \in kinds THEN clock + 1 ELSE src[k]]
    /\ releases' = IF kinds = Kinds THEN releases \cup {clock + 1} ELSE releases
    /\ UNCHANGED stamps

\* checkRebuildAllCaches() with something to rebuild.
RebuildCaches == Bump({"rps"})

\* checkUpdateCachesAndBoots() up to updateBootHelpers(): it may rebuild the
\* kernel cache, and goes on if some stamp is out of date or under -f.
Start(o, rebuild) ==
    /\ At("idle")
    /\ o \in Options
    /\ IF rebuild THEN RebuildCaches ELSE UNCHANGED volume
    /\ LET stale == {k \in Kinds : OutOfDate(k)'}
           do    == IF "force" \in o THEN Kinds ELSE stale
       IN  /\ do # {}
           /\ up' = [Idle EXCEPT !.pc = "mount", !.bootIdx = 1, !.opts = o,
                        !.doRPS = "rps" \in do, !.doBooters = "booter" \in do,
                        !.doMisc = "misc" \in do, !.tstamps = src']
    /\ UNCHANGED <<kernel, boot, dirty, faults, crashes, mishaps>>

\* checkBootContents(): what is missing here is done here and on the helpers
\* after this one.
CheckContents ==
    LET default == Here \notin tainted
    IN [up EXCEPT !.doRPS = @ \/ ~default,
                  !.doBooters = @ \/ ~default \/ booter[Here] = Absent,
                  !.doMisc = @ \/ ~default \/ pre[Here].misc = Absent
                               \/ ~pre[Here].label]

\* mountBoot(); a helper that does not mount is passed over.
Mount ==
    /\ At("mount") /\ Here \in Boots
    /\ \/ up' = [CheckContents EXCEPT !.pc = "findRPS"] /\ Fine
       \/ up' = [up EXCEPT !.result = "failed", !.bootIdx = @ + 1] /\ Fault
    /\ UNCHANGED <<volume, kernel, boot, dirty, crashes, mishaps>>

\* sdeepunlink() of a directory that still has content leaves some of it for
\* a while.
Emptying(d) ==
    /\ Whole(rps[Here][d])
    /\ rps' = [rps EXCEPT ![Here][d] = Partial]
    /\ UNCHANGED <<up, dirty>>
Emptied(d) ==
    /\ ~Whole(rps[Here][d])
    /\ rps' = [rps EXCEPT ![Here][d] = Absent]
    /\ DirtyAs(d, {})
EraseFails(d) ==
    /\ Fault
    /\ rps[Here][d] # Absent
    /\ rps' = [rps EXCEPT ![Here][d] = Partial]

\* FindRPSDir() with all three directories: P is destroyed.
EraseThird ==
    /\ At("findRPS") /\ up.doRPS
    /\ Present(Here) = Dirs
    /\ \/ Emptying("P") /\ Fine
       \/ Emptied("P") /\ Fine /\ UNCHANGED up
       \/ EraseFails("P") /\ UNCHANGED dirty /\ Bootfail("failed", up.changestate)
    /\ UNCHANGED <<volume, pre, tainted, boot, crashes, mishaps>>

\* ucopyRPS() picks the directory before the current one.
PickRPS ==
    /\ At("findRPS")
    /\ up.doRPS => Present(Here) # Dirs
    /\ IF up.doRPS
       THEN up' = [up EXCEPT !.dstdir = Before[Current(Here)],
                    !.pc = IF Here \in Recovery THEN "recovery" ELSE "eraseDst"]
       ELSE Goto("copyMisc")
    /\ UNCHANGED <<volume, kernel, boot, dirty, faults, crashes, mishaps>>

\* blessRecovery(): what the blessing returned is lost when the F_FULLFSYNC
\* after it succeeds, and eraseRPSIfRecoveryBlessed() goes by the latter.
BlessRecovery ==
    /\ At("recovery")
    /\ \E set, sync \in BOOLEAN :
          /\ IF set /\ sync THEN Fine ELSE Fault
          /\ IF set THEN SetBlessing("recovery") ELSE UNCHANGED blessed
          /\ IF sync THEN Synced ELSE UNCHANGED dirty
          /\ Goto(IF sync THEN "eraseCur" ELSE "eraseDst")
          /\ mishaps' = [mishaps EXCEPT ![Here] = @
                \cup (IF sync /\ ~set THEN {"recoveryNotBlessed"} ELSE {})
                \cup (IF "force" \in up.opts THEN {"forced"} ELSE {})]
    /\ UNCHANGED <<volume, kernel, booter, old, crashes>>

\* The current directory goes to make room; failing to erase it is ignored.
EraseCur ==
    /\ At("eraseCur")
    /\ LET d == After[up.dstdir]
           after == up' = [up EXCEPT !.doBooters = TRUE, !.pc = "eraseDst"]
       IN  \/ Emptying(d) /\ Fine /\ UNCHANGED mishaps
           \/ Emptied(d) /\ after /\ Fine /\ UNCHANGED mishaps
           \/ EraseFails(d) /\ after /\ UNCHANGED dirty /\ Because("partlyErased")
    /\ UNCHANGED <<volume, pre, tainted, boot, crashes>>

EraseDst ==
    /\ At("eraseDst")
    /\ \/ Emptying(up.dstdir) /\ Fine
       \/ Emptied(up.dstdir) /\ Goto("mkdir") /\ Fine
       \/ EraseFails(up.dstdir) /\ UNCHANGED dirty /\ Bootfail("failed", up.changestate)
    /\ UNCHANGED <<volume, pre, tainted, boot, crashes, mishaps>>

CopyErrors == IF "optional" \in up.opts THEN {"failed"} ELSE {"failed", "ENOSPC"}

\* The rest of ucopyRPS(): the directory is made, then its files copied.
MakeRPS ==
    /\ At("mkdir")
    /\ \/ /\ Goto("copyRPS") /\ Fine
          /\ rps' = [rps EXCEPT ![Here][up.dstdir] = Partial]
          /\ dirty' = [dirty EXCEPT ![Here] = @ \cup {up.dstdir}]
       \/ /\ Bootfail("failed", up.changestate) /\ Fault
          /\ UNCHANGED <<rps, dirty>>
    /\ UNCHANGED <<volume, pre, tainted, boot, crashes, mishaps>>

\* A booter starts the kernels of its release and of earlier ones.
Supports(b, k) == \A r \in releases : r <= k => r <= b

CopyRPS ==
    /\ At("copyRPS")
    /\ \/ /\ Goto("copyMisc") /\ Fine
          /\ rps' = [rps EXCEPT ![Here][up.dstdir] = src["rps"]]
          /\ IF ~up.doBooters /\ ~Supports(up.tstamps["booter"], src["rps"])
             THEN Because("changedUnderCopy") ELSE UNCHANGED mishaps
       \/ /\ \E err \in {"failed", "ENOSPC"} : Bootfail(err, up.changestate)
          /\ Fault
          /\ UNCHANGED <<rps, mishaps>>
    /\ UNCHANGED <<volume, pre, tainted, boot, dirty, crashes>>

\* ucopyMisc() writes the .new files, the label's among them; its failures
\* are not looked at.
CopyMisc ==
    /\ At("copyMisc")
    /\ Goto("label")
    /\ \/ ~up.doMisc /\ Fine /\ UNCHANGED pre
       \/ /\ up.doMisc /\ Fine
          /\ pre' = [pre EXCEPT ![Here].miscNew = src["misc"],
                                ![Here].labelNew = TRUE]
       \/ /\ up.doMisc /\ Fault
          /\ \E left \in {Absent, Partial} :
                pre' = [pre EXCEPT ![Here].miscNew = left]
    /\ UNCHANGED <<volume, rps, tainted, boot, dirty, crashes, mishaps>>

\* moveLabels() under -U, nukeBRLabels() otherwise.  A label that moveLabels()
\* has renamed but cannot open to clear its type is no error: the update goes on
\* and the state of change is as before.
Label ==
    /\ At("label")
    /\ LET on    == IF up.doBooters THEN "unlinkOld"
                    ELSE IF up.doRPS THEN "renameRPS" ELSE "activateMisc"
           done  == up' = [up EXCEPT !.changestate = "noLabel", !.pc = on]
           aside == pre' = [pre EXCEPT ![Here].label = FALSE,
                                       ![Here].labelNew = @ \/ pre[Here].label]
       IN  IF "expect" \in up.opts
           THEN \/ aside /\ done /\ Fine
                \/ aside /\ Goto(on) /\ pre[Here].label /\ Fault
                \/ /\ Bootfail("failed", up.changestate) /\ pre[Here].label /\ Fault
                   /\ UNCHANGED pre
           ELSE \/ /\ pre' = [pre EXCEPT ![Here].label = FALSE]
                   /\ done /\ Fine
                \/ /\ pre[Here].label /\ Fault
                   /\ Bootfail("failed", "noLabel")
                   /\ UNCHANGED pre
    /\ UNCHANGED <<volume, rps, tainted, boot, dirty, crashes, mishaps>>

\* ucopyBooters(): away with a .old booter, ...
RemoveOld ==
    /\ old' = [old EXCEPT ![Here] = Absent]
    /\ DirtyAs("old", {})
    /\ blessed' = [blessed EXCEPT ![Here] = IF @ = "old" THEN "nothing" ELSE @]

UnlinkOld ==
    /\ At("unlinkOld")
    /\ RemoveOld
    /\ up' = [up EXCEPT !.changestate = "copyingEFIBooter", !.pc = "renameOld"]
    /\ UNCHANGED <<volume, kernel, booter, faults, crashes, mishaps>>

\* ... the booter takes its place and remains blessed, ...
RenameOld ==
    /\ At("renameOld")
    /\ \/ /\ Goto("createBooter") /\ Fine
          /\ old' = [old EXCEPT ![Here] = booter[Here]]
          /\ booter' = [booter EXCEPT ![Here] = Absent]
          /\ blessed' = [blessed EXCEPT ![Here] = IF @ = "booter" THEN "old" ELSE @]
          /\ DirtyAs("booter", {"old"})
       \/ /\ Bootfail("failed", up.changestate) /\ booter[Here] # Absent /\ Fault
          /\ UNCHANGED <<boot, dirty>>
    /\ UNCHANGED <<volume, kernel, crashes, mishaps>>

\* ... and the new booter is copied.
CreateBooter ==
    /\ At("createBooter")
    /\ \/ /\ Goto("fillBooter") /\ Fine
          /\ booter' = [booter EXCEPT ![Here] = Partial]
          /\ dirty' = [dirty EXCEPT ![Here] = @ \cup {"booter"}]
       \/ /\ \E err \in CopyErrors : Bootfail(err, up.changestate)
          /\ Fault
          /\ UNCHANGED <<booter, dirty>>
    /\ UNCHANGED <<volume, kernel, old, blessed, crashes, mishaps>>

FillBooter ==
    /\ At("fillBooter")
    /\ \/ /\ booter' = [booter EXCEPT ![Here] = src["booter"]]
          /\ up' = [up EXCEPT !.changestate = "copiedBooters", !.pc = "syncBooters"]
          /\ Fine
          /\ UNCHANGED mishaps
       \/ /\ \E err \in CopyErrors : Bootfail(err, up.changestate)
          /\ Fault
          /\ IF old[Here] = Absent THEN Because("cutShort") ELSE UNCHANGED mishaps
          /\ UNCHANGED booter
    /\ UNCHANGED <<volume, kernel, old, blessed, dirty, crashes>>

\* activateBooters(): F_FULLFSYNC, then bless.
\* Mutant: F_FULLFSYNC is left out.
SyncNothing ==
    /\ At("syncBooters")
    /\ up' = [up EXCEPT !.changestate = "activatingEFIBooter", !.pc = "bless"]
    /\ UNCHANGED <<volume, kernel, boot, dirty, faults, crashes, mishaps>>
SyncBooters ==
    /\ At("syncBooters")
    /\ \/ /\ up' = [up EXCEPT !.changestate = "activatingEFIBooter", !.pc = "bless"]
          /\ Synced
          /\ Fine
       \/ Bootfail("failed", up.changestate) /\ Fault /\ UNCHANGED dirty
    /\ UNCHANGED <<volume, kernel, boot, crashes, mishaps>>

Bless ==
    /\ At("bless")
    /\ \/ /\ SetBlessing("booter")
          /\ up' = [up EXCEPT !.changestate = "activatedBooters",
                       !.pc = IF up.doRPS THEN "renameRPS" ELSE "activateMisc"]
          /\ Fine
       \/ Bootfail("failed", up.changestate) /\ Fault /\ UNCHANGED blessed
    /\ UNCHANGED <<volume, kernel, booter, old, dirty, crashes, mishaps>>

\* activateRPS(): the new directory leap-frogs the current one, if that still
\* exists, and everything is flushed.
RenameRPS ==
    /\ At("renameRPS")
    /\ LET cur == Current(Here)
       IN \/ /\ Goto("syncRPS") /\ Fine
             /\ IF cur = up.dstdir THEN UNCHANGED <<rps, dirty>>
                ELSE /\ rps' = [rps EXCEPT ![Here][After[cur]] = rps[Here][Before[cur]],
                                           ![Here][Before[cur]] = Absent]
                     /\ DirtyAs(Before[cur], {After[cur]})
          \/ /\ Bootfail("failed", up.changestate) /\ cur # up.dstdir /\ Fault
             /\ UNCHANGED <<rps, dirty>>
    /\ UNCHANGED <<volume, pre, tainted, boot, crashes, mishaps>>

SyncRPS ==
    /\ At("syncRPS")
    /\ \/ Goto("activateMisc") /\ Fine /\ Synced
       \/ Bootfail("failed", up.changestate) /\ Fault /\ UNCHANGED dirty
    /\ UNCHANGED <<volume, kernel, boot, crashes, mishaps>>

\* activateMisc() renames the .new files and returns the label.
Shown(p) == [p EXCEPT !.label = @ \/ p.labelNew, !.labelNew = FALSE]
Renamed(p) == IF p.miscNew = Absent THEN p
              ELSE [p EXCEPT !.misc = p.miscNew, !.miscNew = Absent]

\* What a new kernel, a new booter, or both put right.
Repaired ==
    (IF up.doRPS THEN KernelLost \cup {"kernelWentBack"} ELSE {})
    \cup (IF up.doBooters THEN BooterLost \cup {"recoveryKept", "revertedLate", "changedUnderCopy"}
          ELSE {})
    \cup (IF up.doRPS /\ up.doBooters THEN {"forced", "optional"} ELSE {})

ActivateMisc ==
    /\ At("activateMisc")
    /\ \/ /\ Fine                                  \* the helper is updated
          /\ pre' = [pre EXCEPT ![Here] =
                Shown(IF up.doMisc THEN Renamed(@) ELSE @)]
          /\ tainted' = tainted \ {Here}
          /\ up' = [up EXCEPT !.changestate = "nothingSerious", !.pc = "nukeOld",
                              !.updated = @ \cup {Here}, !.result = "ok"]
          /\ mishaps' = [mishaps EXCEPT ![Here] = @ \ Repaired]
       \/ /\ Fault                                 \* a rename or the label fails
          /\ \E p \in {Shown(pre[Here]), Shown(Renamed(pre[Here]))} :
                pre' = [pre EXCEPT ![Here] = IF up.doMisc THEN p ELSE Shown(@)]
          /\ up.doMisc \/ pre'[Here].label
          /\ Bootfail("failed", up.changestate)
          /\ UNCHANGED <<tainted, mishaps>>
    /\ UNCHANGED <<volume, rps, boot, dirty, crashes>>

(* revertState() *)

\* activateBooters() of the old booter, if there is one; if that fails, the rest
\* goes on.
Rebless ==
    /\ At("rebless")
    /\ Goto("unlinkNew")
    /\ \/ /\ old[Here] # Absent /\ Fine
          /\ Synced
          /\ SetBlessing("old")
          /\ IF up.doRPS THEN Because("revertedLate") ELSE UNCHANGED mishaps
       \/ /\ old[Here] # Absent /\ Fault
          /\ Synced \/ UNCHANGED dirty
          /\ Because("notReblessed")
          /\ UNCHANGED blessed
       \/ /\ old[Here] = Absent
          /\ (Fine /\ Synced) \/ (Fault /\ UNCHANGED dirty)
          /\ UNCHANGED <<blessed, mishaps>>
    /\ UNCHANGED <<volume, kernel, booter, old, crashes>>

\* The new booter goes only where there is an old one.
UnlinkNew ==
    /\ At("unlinkNew")
    /\ IF old[Here] = Absent
       THEN Goto("revertLabel") /\ UNCHANGED <<boot, dirty>>
       ELSE /\ Goto("restoreOld")
            /\ booter' = [booter EXCEPT ![Here] = Absent]
            /\ blessed' = [blessed EXCEPT ![Here] = IF @ = "booter" THEN "nothing" ELSE @]
            /\ DirtyAs("booter", {})
            /\ UNCHANGED old
    /\ UNCHANGED <<volume, kernel, faults, crashes, mishaps>>

RestoreOld ==
    /\ At("restoreOld")
    /\ Goto("revertLabel")
    /\ \/ /\ Fine
          /\ booter' = [booter EXCEPT ![Here] = old[Here]]
          /\ old' = [old EXCEPT ![Here] = Absent]
          /\ blessed' = [blessed EXCEPT ![Here] = IF @ = "old" THEN "booter" ELSE @]
          /\ DirtyAs("old", {"booter"})
          /\ UNCHANGED mishaps
       \/ Fault /\ Because("notRestored") /\ UNCHANGED <<boot, dirty>>
    /\ UNCHANGED <<volume, kernel, crashes>>

RevertLabel ==
    /\ At("revertLabel")
    /\ Goto("nukeOld")
    /\ pre' = [pre EXCEPT ![Here] = Shown(@)]
    /\ UNCHANGED <<volume, rps, tainted, boot, dirty, faults, crashes, mishaps>>

(* nukeFallbacks() and the end of the loop *)

NukeOld ==
    /\ At("nukeOld")
    /\ Goto(IF up.doRPS THEN "nukeRPS" ELSE "unmount")
    /\ \/ up.doBooters /\ RemoveOld /\ Fine
       \/ up.doBooters /\ old[Here] # Absent /\ Fault /\ UNCHANGED <<old, blessed, dirty>>
       \/ ~up.doBooters /\ Fine /\ UNCHANGED <<old, blessed, dirty>>
    /\ UNCHANGED <<volume, kernel, booter, crashes, mishaps>>

NukeRPS ==
    /\ At("nukeRPS")
    /\ LET d == IF Present(Here) = Dirs THEN "P" ELSE Before[Current(Here)]
       IN \/ Emptying(d) /\ Fine
          \/ /\ Emptied(d) /\ Fine
             /\ IF Present(Here) = Dirs THEN UNCHANGED up ELSE Goto("unmount")
          \/ EraseFails(d) /\ Goto("unmount") /\ UNCHANGED dirty
    /\ UNCHANGED <<volume, pre, tainted, boot, crashes, mishaps>>

\* A helper left with the Recovery OS blessed may have no whole kernel, or the
\* one before the one that was erased.
LeftBare(h) ==
    IF blessed[h] # "recovery" THEN {}
    ELSE {"recoveryKept"}
         \cup (IF Whole(Kernel(h)) THEN {} ELSE {"noKernel"})
         \cup (IF Kernel(h) < stamps["rps"] THEN {"kernelWentBack"} ELSE {})

\* unmountBoot() brings the helper's data to its disk; on to the next helper.
Unmount ==
    /\ At("unmount")
    /\ up' = [up EXCEPT !.pc = "mount", !.bootIdx = @ + 1,
                        !.changestate = "nothingSerious", !.dstdir = "none"]
    /\ Synced
    /\ mishaps' = [mishaps EXCEPT ![Here] = @ \cup LeftBare(Here)]
    /\ UNCHANGED <<volume, kernel, boot, faults, crashes>>

(***************************************************************************)
(* The end of updateBootHelpers() and what checkUpdateCachesAndBoots()     *)
(* makes of it: a second pass with a smaller kernel cache if the root      *)
(* volume's helpers were too small, or the stamps, or nothing.             *)
(***************************************************************************)
AllDone == At("mount") /\ Here = NumBoots + 1
\* Mutant: the result is that of the last helper.
ResultOfLast == up.result
Result == IF up.updated = Boots \/ "optional" \in up.opts \/ up.result # "ok"
          THEN up.result ELSE "failed"

RetrySmaller ==
    /\ AllDone
    /\ Result = "ENOSPC" /\ RootVolume /\ ~up.retried
    /\ RebuildCaches
    /\ up' = [up EXCEPT !.bootIdx = 1, !.updated = {}, !.result = "ok",
                        !.retried = TRUE]
    /\ UNCHANGED <<kernel, boot, dirty, faults, crashes, mishaps>>

GiveUp ==
    /\ AllDone
    /\ Result # "ok"
    /\ up' = Idle
    /\ UNCHANGED <<volume, kernel, boot, dirty, faults, crashes, mishaps>>

BeginStamps ==
    /\ AllDone
    /\ Result = "ok"
    /\ Goto("stampRPS")
    /\ mishaps' = [h \in Boots |-> IF h \in up.updated THEN mishaps[h]
                                  ELSE mishaps[h] \cup (up.opts \cap {"optional"})]
    /\ UNCHANGED <<volume, kernel, boot, dirty, faults, crashes>>

\* updateStamps(): each stamp is unlinked, then made with the time captured by
\* needUpdates(); a failure leaves it missing and the others are still written.
Stamped == [stampRPS |-> "rps", stampBooter |-> "booter", stampMisc |-> "misc"]
WriteStamp ==
    /\ up.pc \in DOMAIN Stamped
    /\ LET k == Stamped[up.pc]
       IN  \/ stamps' = [stamps EXCEPT ![k] = up.tstamps[k]] /\ Fine
           \/ stamps' = [stamps EXCEPT ![k] = 0] /\ Fault
    /\ CASE At("stampRPS")    -> Goto("stampBooter")
         [] At("stampBooter") -> Goto("stampMisc")
         [] At("stampMisc")   -> up' = Idle
    /\ UNCHANGED <<src, releases, clock, kernel, boot, dirty, crashes, mishaps>>

-----------------------------------------------------------------------------
(* The environment. *)

\* Kexts or the system are installed, with no regard for kextcache.
Change(kinds) ==
    /\ kinds \in Changes
    /\ Bump(kinds)
    /\ UNCHANGED <<kernel, boot, dirty, up, faults, crashes, mishaps>>

\* A booter still blessed under its .old name is in the way of the next run;
\* part of a booter would be the old one then.
Interrupted == [h \in Boots |-> mishaps[h] \cup LeftBare(h)
                    \cup (IF blessed[h] = "old" THEN {"interrupted"} ELSE {})
                    \cup (IF booter'[h] = Partial /\ blessed[h] # "booter"
                          THEN {"cutShort"} ELSE {})]

\* kextcache is killed.
Crash ==
    /\ crashes < MaxCrashes /\ crashes' = crashes + 1
    /\ ~At("idle")
    /\ up' = Idle
    /\ UNCHANGED boot
    /\ mishaps' = Interrupted
    /\ UNCHANGED <<volume, kernel, dirty, faults>>

\* The machine loses power: the data of some files not flushed is lost.
PowerLoss ==
    /\ crashes < MaxCrashes /\ crashes' = crashes + 1
    /\ up' = Idle
    /\ \E h \in Boots : \E lost \in SUBSET dirty[h] :
          /\ lost # {}
          /\ rps' = [rps EXCEPT ![h] =
                [d \in Dirs |-> IF d \in lost THEN Partial ELSE @[d]]]
          /\ booter' = [booter EXCEPT ![h] = IF "booter" \in lost THEN Partial ELSE @]
          /\ old' = [old EXCEPT ![h] = IF "old" \in lost THEN Partial ELSE @]
          /\ mishaps' = [Interrupted EXCEPT ![h] = @ \cup
                IF Current(h) \in lost THEN {"unflushed"} ELSE {}]
    /\ dirty' = [h \in Boots |-> {}]
    /\ UNCHANGED <<volume, pre, tainted, blessed, faults>>

Kextcache ==
    \/ Mount
    \/ EraseThird \/ PickRPS \/ BlessRecovery \/ EraseCur \/ EraseDst
    \/ MakeRPS \/ CopyRPS \/ CopyMisc \/ Label
    \/ UnlinkOld \/ RenameOld \/ CreateBooter \/ FillBooter
    \/ SyncBooters \/ Bless \/ RenameRPS \/ SyncRPS \/ ActivateMisc
    \/ Rebless \/ UnlinkNew \/ RestoreOld \/ RevertLabel
    \/ NukeOld \/ NukeRPS \/ Unmount
    \/ RetrySmaller \/ GiveUp \/ BeginStamps \/ WriteStamp

Next ==
    \/ \E o \in Options, rebuild \in BOOLEAN : Start(o, rebuild)
    \/ Kextcache
    \/ \E kinds \in Changes : Change(kinds)
    \/ Crash
    \/ PowerLoss

Spec == Init /\ [][Next]_vars

\* kextcache takes its next step, and someone runs it while it has work to do:
\* kextd on the next notification, shutdown(8) at the latest.
FairSpec ==
    /\ Spec
    /\ WF_vars(Kextcache)
    /\ WF_vars(\E o \in Options : Start(o, FALSE))

-----------------------------------------------------------------------------
(* Properties *)

TypeOK ==
    /\ clock \in Versions
    /\ src \in [Kinds -> Versions]
    /\ stamps \in [Kinds -> Versions \cup {0}]
    /\ releases \subseteq Versions
    /\ rps \in [Boots -> [Dirs -> Content]]
    /\ booter \in [Boots -> Content] /\ old \in [Boots -> Content]
    /\ blessed \in [Boots -> {"booter", "old", "recovery", "nothing"}]
    /\ pre \in [Boots -> [misc : Content, miscNew : Content,
                          label : BOOLEAN, labelNew : BOOLEAN]]
    /\ tainted \subseteq Boots
    /\ dirty \in [Boots -> SUBSET (Dirs \cup {"booter", "old"})]
    /\ up \in [pc : Phases, bootIdx : 0..(NumBoots + 1), opts : Options \cup {{}},
               doRPS : BOOLEAN, doBooters : BOOLEAN, doMisc : BOOLEAN,
               changestate : ChangeStates, dstdir : Dirs \cup {"none"},
               tstamps : [Kinds -> Versions \cup {0}],
               result : {"ok", "failed", "ENOSPC"}, updated : SUBSET Boots,
               retried : BOOLEAN]
    /\ faults \in 0..MaxFaults /\ crashes \in 0..MaxCrashes
    /\ mishaps \in [Boots -> SUBSET {"interrupted", "cutShort", "notRestored", "notReblessed",
          "recoveryNotBlessed", "recoveryKept", "partlyErased", "noKernel", "unflushed",
          "kernelWentBack", "forced", "optional", "revertedLate", "changedUnderCopy"}]

Spared(h, causes) == mishaps[h] \cap causes = {}

\* At every step of an update, whatever fails and wherever it is cut off, a
\* helper that met none of those can be booted from (updateBootHelpers()).
AlwaysBootable ==
    \A h \in Boots : Spared(h, BooterLost \cup KernelLost) => Bootable(h)

\* When the stamps call the volume up to date, every helper boots the volume's
\* kernel and booter, unless its booter or kernel was lost or the kernel before
\* came back, in an update that the stamps had not asked for here
\* (checkBootContents() of an earlier helper had), it was left out under
\* -Installer, its Recovery OS stayed blessed or -f erased its kernel while the
\* stamps said so (needUpdates(), updateStamps()).
Serves(h) == /\ blessed[h] # "recovery"
             /\ Kernel(h) >= src["rps"]
             /\ BlessedBooter(h) >= src["booter"]
Settled(h) == \/ Serves(h)
              \/ ~Spared(h, BooterLost \cup KernelLost
                             \cup {"kernelWentBack", "recoveryKept", "forced", "optional"})
StampsHonest == stamps = src => \A h \in Boots : Settled(h)

\* A booter is never blessed with data still unflushed (activateBooters(), and
\* revertState() through it).
BlessedIsFlushed ==
    \A h \in Boots : blessed[h] \notin dirty[h]

\* While a helper without a Recovery OS shows its label, the booter blessed is
\* in its place and whole: "no label -> hint of indeterminate state" (moveLabels(),
\* nukeBRLabels()).  revertState() brings the label back last.
LabelMeansSettled ==
    \A h \in Boots \ Recovery :
        pre[h].label => \/ blessed[h] = "booter" /\ Whole(booter[h])
                        \/ Here = h /\ up.result # "ok"
                        \/ ~Spared(h, BooterLost)

\* A kernel is never booted by the booter of an earlier release, unless the new
\* kernel was kept as the new booter was taken back, the system was updated
\* after needUpdates() had looked (the order of activateBooters() and
\* activateRPS()), or the helper was left out under -Installer: the stamps then
\* say that its booter is done and a later run gives it the kernel alone.
BooterSupportsKernel ==
    \A h \in Boots :
        /\ Bootable(h) /\ blessed[h] # "recovery"
        /\ Spared(h, KernelLost \cup {"revertedLate", "changedUnderCopy", "optional"})
        => Supports(BlessedBooter(h), Kernel(h))

\* An update never leaves all three directories, wherever it is cut off
\* (FindRPSDir() cannot tell which is current then).
NeverThree == \A h \in Boots : FirstDirs[h] # Dirs => Present(h) # Dirs

\* What an update that is cut off leaves can be told apart by the next one: the
\* booter, the label and the directories say how far it had come.
HelpersInOrder == TypeOK /\ BlessedIsFlushed /\ LabelMeansSettled /\ NeverThree

\* Once a helper boots a kernel it never again boots an earlier one, through the
\* leap-frog of directories, crashes, reversions and all later updates
\* (activateRPS(), FindRPSDir()), unless it has met what loses a kernel, its
\* Recovery OS was left blessed while its current directory was erased and the
\* one before found again (eraseRPSIfRecoveryBlessed()), or it was left out under
\* -Installer: the last two until a whole update.
BootsKernel(h) == blessed[h] # "recovery" /\ Whole(Kernel(h))
KernelAged == KernelLost \cup {"kernelWentBack", "optional"}
NeverBefore(h, n) ==
    BootsKernel(h) /\ Spared(h, KernelAged \cup {"recoveryKept"}) => Kernel(h) >= n
KernelAdvances ==
    \A h \in Boots, n \in Versions \ {1} :
        [](BootsKernel(h) /\ Kernel(h) = n => []NeverBefore(h, n))

\* Once failures and changes cease, the helpers get the volume's last files and
\* the stamps say so.
Converges == <>[](stamps = src /\ \A h \in Boots : Settled(h))
=============================================================================
