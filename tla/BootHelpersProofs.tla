------------------------- MODULE BootHelpersProofs -------------------------
(***************************************************************************)
(* Proofs about BootHelpers: whatever fails and wherever an update is cut  *)
(* off, the helpers are left in order and can be booted from, and the      *)
(* kernel a helper boots never goes back.                                  *)
(*                                                                         *)
(* The invariant says of each helper what the stage kextcache has reached  *)
(* on it implies: of its directories, of its booter, of its kernel and of  *)
(* its label.  A step disturbs one helper, and for that one what it leaves *)
(* is what the next stage asks for.                                        *)
(***************************************************************************)
EXTENDS BootHelpers, TLAPS

(* The stage of an update on helper h, "out" if kextcache is not at it. *)
Working == {"findRPS", "recovery", "eraseCur", "eraseDst", "mkdir",
            "copyRPS", "copyMisc", "label", "unlinkOld", "renameOld", "createBooter",
            "fillBooter", "syncBooters", "bless", "renameRPS", "syncRPS",
            "activateMisc", "rebless", "unlinkNew", "restoreOld", "revertLabel",
            "nukeOld", "nukeRPS", "unmount"}
Stage(h) == IF Here = h /\ up.pc \in Working THEN up.pc ELSE "out"

Copying == {"recovery", "eraseCur", "eraseDst", "mkdir", "copyRPS"}
Aside == {"createBooter", "fillBooter", "syncBooters", "bless"}
Replacing == {"unlinkOld", "renameOld"} \cup Aside
Copied == {"copyMisc", "label", "renameRPS"} \cup Replacing
Activating == {"renameRPS", "syncRPS", "activateMisc"}
Reverting == {"rebless", "unlinkNew", "restoreOld"}
Clearing == {"nukeOld", "nukeRPS", "unmount"}

\* FindRPSDir() of the directories f of a helper.
PresentIn(f) == {d \in Dirs : f[d] # Absent}
CurrentIn(f) == IF PresentIn(f) \in {{}, Dirs} THEN "R"
                ELSE CHOOSE d \in PresentIn(f) : After[d] \notin PresentIn(f)
KernelOf(f) == f[CurrentIn(f)]

(***************************************************************************)
(* The types, part by part.                                                *)
(***************************************************************************)
Blessings == {"booter", "old", "recovery", "nothing"}
Files == Dirs \cup {"booter", "old"}
Pre == [misc : Content, miscNew : Content, label : BOOLEAN, labelNew : BOOLEAN]
Mishaps == {"interrupted", "cutShort", "notRestored", "notReblessed",
            "recoveryNotBlessed", "recoveryKept", "partlyErased", "noKernel", "unflushed",
            "kernelWentBack",
            "forced", "optional", "revertedLate", "changedUnderCopy"}
Updates == [pc : Phases, bootIdx : 0..(NumBoots + 1), opts : Options \cup {{}},
            doRPS : BOOLEAN, doBooters : BOOLEAN, doMisc : BOOLEAN,
            changestate : ChangeStates, dstdir : Dirs \cup {"none"},
            tstamps : [Kinds -> Versions \cup {0}],
            result : {"ok", "failed", "ENOSPC"}, updated : SUBSET Boots,
            retried : BOOLEAN]

VolumeTyped ==
    /\ clock \in Versions
    /\ src \in [Kinds -> Versions]
    /\ stamps \in [Kinds -> Versions \cup {0}]
    /\ releases \subseteq Versions
KernelTyped ==
    /\ rps \in [Boots -> [Dirs -> Content]]
    /\ pre \in [Boots -> Pre]
    /\ tainted \subseteq Boots
BootTyped ==
    /\ booter \in [Boots -> Content] /\ old \in [Boots -> Content]
    /\ blessed \in [Boots -> Blessings]
RestTyped ==
    /\ dirty \in [Boots -> SUBSET Files]
    /\ faults \in 0..MaxFaults /\ crashes \in 0..MaxCrashes
    /\ mishaps \in [Boots -> SUBSET Mishaps]
Typed == VolumeTyped /\ KernelTyped /\ BootTyped /\ RestTyped /\ up \in Updates

(***************************************************************************)
(* What a stage implies, wherever its helper is.                           *)
(***************************************************************************)
StageKept ==
    /\ up.pc \in Working => Here \in Boots
    /\ up.pc \in {"mount", "findRPS", "copyMisc", "label"} \cup Copying =>
          up.changestate = "nothingSerious"
    /\ up.pc = "unlinkOld" => up.changestate \in {"noLabel", "nothingSerious"}
    /\ up.pc \in {"renameOld", "createBooter", "fillBooter"} =>
          up.changestate = "copyingEFIBooter"
    /\ up.pc = "syncBooters" => up.changestate = "copiedBooters"
    /\ up.pc = "bless" => up.changestate = "activatingEFIBooter"
    /\ up.pc \in Activating =>
          up.changestate \in IF up.doBooters THEN {"activatedBooters"}
                             ELSE {"noLabel", "nothingSerious"}
    /\ up.pc \in Reverting => up.result # "ok"
    /\ up.pc \in Replacing => up.doBooters
    /\ up.pc \in Copying \cup {"renameRPS", "syncRPS", "nukeRPS"} => up.doRPS
    /\ up.pc \in Copying => up.dstdir \in Dirs
    /\ up.pc \in Copied /\ up.doRPS => up.dstdir \in Dirs

\* The directories: the one written to is before the current one and the one
\* before it is not there; what is written is no older than the others.
DirsKept(h) ==
    /\ \A d \in Dirs : d \in dirty[h] => rps[h][d] # Absent
    /\ \A d \in Dirs : rps[h][d] <= src["rps"]
    /\ FirstDirs[h] # Dirs => \E d \in Dirs : rps[h][d] = Absent
    /\ Stage(h) = "recovery" => h \in Recovery
    /\ Stage(h) \in Copying => rps[h][Before[up.dstdir]] = Absent
    /\ Stage(h) = "mkdir" => rps[h][up.dstdir] = Absent
    /\ Stage(h) = "copyRPS" => rps[h][up.dstdir] = Partial
    /\ Stage(h) \in Copied /\ up.doRPS =>
          /\ rps[h][Before[up.dstdir]] = Absent
          /\ Whole(rps[h][up.dstdir])
          /\ \A d \in Dirs : rps[h][d] <= rps[h][up.dstdir]
    /\ Stage(h) \in {"syncRPS", "activateMisc"} /\ up.doRPS => Whole(KernelOf(rps[h]))

\* The booter, in place or set aside.
Steady(h) == /\ booter[h] # Partial
             /\ \/ blessed[h] = "recovery"
                \/ blessed[h] = "booter" /\ booter[h] # Absent
BooterKept(h) ==
    /\ Stage(h) \in Aside =>
          /\ old[h] # Partial
          /\ blessed[h] = "recovery" \/ (blessed[h] = "old" /\ old[h] # Absent)
    /\ Stage(h) = "unlinkNew" =>
          /\ old[h] # Partial
          /\ old[h] = Absent => Steady(h)
          /\ old[h] # Absent => blessed[h] \in {"old", "recovery"}
    /\ Stage(h) = "restoreOld" =>
          old[h] \notin {Absent, Partial} /\ blessed[h] \in {"old", "recovery"}
    /\ Stage(h) \notin Aside \cup {"unlinkNew", "restoreOld"} => Steady(h)
    /\ Stage(h) = "rebless" \/ (Stage(h) \in Activating /\ up.doBooters) => old[h] # Partial

BootersKept(h) ==
    /\ blessed[h] = "recovery" => h \in Recovery
    /\ blessed[h] \notin dirty[h]
    /\ Stage(h) = "renameOld" => old[h] = Absent /\ blessed[h] # "old"
    /\ Stage(h) \in {"createBooter", "restoreOld"} =>
          booter[h] = Absent /\ blessed[h] # "booter"
    /\ Stage(h) \in {"syncBooters", "bless"} => Whole(booter[h])
    /\ Stage(h) = "bless" => "booter" \notin dirty[h]
    /\ Stage(h) = "rebless" \/ (Stage(h) \in Activating /\ up.doBooters) =>
          blessed[h] = "booter" /\ Whole(booter[h])
    /\ Spared(h, BooterLost) => BooterKept(h)

\* The kernel: the current directory is whole and of version v or later, or goes
\* while the Recovery OS is blessed, which is noted when the helper is left.
Good(c, v) == Whole(c) /\ c >= v
Spare(h) == rps[h][After[up.dstdir]]
KernelThere(h, v) ==
    /\ Stage(h) = "recovery" => Good(Spare(h), v)
    /\ Stage(h) = "eraseCur" => blessed[h] = "recovery"
    /\ Stage(h) \in {"eraseDst", "mkdir", "copyRPS"} =>
          Good(Spare(h), v) \/ (Spare(h) = Absent /\ blessed[h] = "recovery")
    /\ Stage(h) \in Clearing => Good(KernelOf(rps[h]), v) \/ blessed[h] = "recovery"
    /\ Stage(h) \notin Copying \cup Clearing => Good(KernelOf(rps[h]), v)

\* The kernel is no older than the stamps but for what ages it.
KernelKept(h) ==
    /\ Spared(h, KernelLost) => KernelThere(h, 0)
    /\ Spared(h, KernelAged) => KernelThere(h, stamps["rps"])

\* The label is away while the booter is.
LabelKept(h) == Stage(h) \in Replacing => ~pre[h].label

(***************************************************************************)
(* Versions.  A release is a version of everything on the volume, and what *)
(* needUpdates() captures is no older than the stamps.                     *)
(***************************************************************************)
Stamping == {"stampRPS", "stampBooter", "stampMisc"}
Updating == Phases \ ({"idle"} \cup Stamping)

StampsKept ==
    /\ \A k \in Kinds : src[k] <= clock /\ stamps[k] <= src[k]
    /\ \A r \in releases, k \in Kinds : r <= src[k]
    /\ up.pc # "idle" =>
          /\ \A k \in Kinds : up.tstamps[k] <= src[k]
          /\ Supports(up.tstamps["booter"], up.tstamps["rps"])
    /\ up.pc \in Updating =>
          /\ \A k \in Kinds : stamps[k] <= up.tstamps[k]
          /\ ~up.doBooters => up.tstamps["booter"] = stamps["booter"]
          /\ ~up.doRPS => /\ up.tstamps["rps"] = stamps["rps"]
                          /\ \A h \in Boots, d \in Dirs : rps[h][d] <= up.tstamps["rps"]
          /\ "force" \notin up.opts => stamps # src
    /\ up.pc \in Stamping =>
          \A h \in Boots : h \in up.updated \/ "optional" \in mishaps[h]
    /\ up.updated # {} => up.pc # "idle"
    /\ \A h \in up.updated : h < Here \/ (h = Here /\ up.pc \in Clearing)

\* A booter no older than its stamp and of the release of the kernel's stamp.
Suits(b) == Whole(b) => b >= stamps["booter"] /\ Supports(b, stamps["rps"])
Renewed(b) == Whole(b) => b >= up.tstamps["booter"] /\ Supports(b, up.tstamps["rps"])

\* New files are no older than what needUpdates() captured, a new booter starts
\* every kernel of the helper, and a kernel copied alone needs no newer one.
NewKept(h) ==
    /\ Stage(h) \in Copied /\ up.doRPS => rps[h][up.dstdir] >= up.tstamps["rps"]
    /\ Stage(h) \in {"syncRPS", "activateMisc"} /\ up.doRPS => KernelOf(rps[h]) >= up.tstamps["rps"]
    /\ Stage(h) \in {"syncBooters", "bless", "rebless"} \/ (Stage(h) \in Activating /\ up.doBooters) =>
          /\ booter[h] >= up.tstamps["booter"]
          /\ \A d \in Dirs : Supports(booter[h], rps[h][d])
    /\ ~up.doBooters /\ up.doRPS /\ Spared(h, {"changedUnderCopy"}) =>
          /\ Stage(h) \in Copied => Supports(up.tstamps["booter"], rps[h][up.dstdir])
          /\ Stage(h) \in {"syncRPS", "activateMisc"} =>
                Supports(up.tstamps["booter"], KernelOf(rps[h]))

\* The booter is no older than the stamps, the one set aside too while it may be
\* needed, and a helper already updated has what the stamps are to say.
OldNeeded(h) == \/ blessed[h] = "old"
                \/ Stage(h) \in Aside \cup Reverting
                \/ Stage(h) \in Activating /\ up.doBooters
AgeKept(h) ==
    /\ Spared(h, {"optional"}) =>
          /\ Suits(booter[h])
          /\ OldNeeded(h) => Suits(old[h])
    /\ h \in up.updated =>
          /\ Spared(h, KernelAged) => Good(KernelOf(rps[h]), up.tstamps["rps"])
          /\ Spared(h, {"optional"}) =>
                Renewed(booter[h]) /\ (blessed[h] = "old" => Renewed(old[h]))

\* The booter that is blessed starts the kernel.
Starts(b, k) == Whole(b) /\ Whole(k) => Supports(b, k)
BooterAged == KernelLost \cup {"revertedLate", "changedUnderCopy", "optional"}
SupportKept(h) ==
    Spared(h, BooterAged) => /\ blessed[h] = "booter" => Starts(booter[h], KernelOf(rps[h]))
                             /\ blessed[h] = "old" => Starts(old[h], KernelOf(rps[h]))

\* A Recovery OS left blessed is noted, and one that -f has blessed at once.
RecoveryKept(h) ==
    blessed[h] = "recovery" =>
        /\ Stage(h) = "out" => ~Spared(h, {"recoveryKept"})
        /\ "force" \in up.opts => ~Spared(h, {"recoveryKept", "forced"})

HelperKept(h) == DirsKept(h) /\ BootersKept(h) /\ KernelKept(h) /\ LabelKept(h)
AgesKept(h) == NewKept(h) /\ AgeKept(h) /\ SupportKept(h) /\ RecoveryKept(h)

IInv == /\ Typed /\ StageKept /\ StampsKept
        /\ \A h \in Boots : HelperKept(h) /\ AgesKept(h)

(***************************************************************************)
(* The three directories.                                                  *)
(***************************************************************************)
LEMMA Cycle ==
    /\ After \in [Dirs -> Dirs] /\ Before \in [Dirs -> Dirs]
    /\ \A d \in Dirs : /\ Dirs = {d, After[d], Before[d]}
                       /\ After[d] # d /\ Before[d] # d /\ After[d] # Before[d]
                       /\ After[After[d]] = Before[d] /\ Before[Before[d]] = After[d]
                       /\ After[Before[d]] = d /\ Before[After[d]] = d
  BY DEF After, Before, Dirs

\* The kernel the booter takes is that of FindRPSDir()'s directory.
LEMMA KernelIs ==
    ASSUME NEW h
    PROVE  /\ Present(h) = PresentIn(rps[h]) /\ Current(h) = CurrentIn(rps[h])
           /\ Kernel(h) = KernelOf(rps[h])
  BY DEF Present, Current, Kernel, PresentIn, CurrentIn, KernelOf

\* The current directory is there if any is; with one or two of the three it is
\* the one whose successor is not there.
LEMMA CurrentIs ==
    ASSUME NEW f \in [Dirs -> Content]
    PROVE  /\ CurrentIn(f) \in Dirs
           /\ \A d \in Dirs : f[d] # Absent /\ f[After[d]] = Absent => CurrentIn(f) = d
           /\ (\A d \in Dirs : f[d] # Absent) => CurrentIn(f) = "R"
           /\ f[CurrentIn(f)] = Absent => \A d \in Dirs : f[d] = Absent
           /\ (\E d \in Dirs : f[d] = Absent) =>
                 f[CurrentIn(f)] = Absent \/ f[After[CurrentIn(f)]] = Absent
<1> DEFINE P == PresentIn(f)
<1>0. "R" \in Dirs /\ "P" \in Dirs /\ "S" \in Dirs
  BY DEF Dirs
<1>1. CASE P = {}
  <2>1. CurrentIn(f) = "R"
    BY <1>1 DEF CurrentIn
  <2>2. \A d \in Dirs : f[d] = Absent
    BY <1>1 DEF PresentIn
  <2> QED BY <2>1, <2>2, <1>0
<1>2. CASE P = Dirs
  <2>1. CurrentIn(f) = "R"
    BY <1>2 DEF CurrentIn
  <2>2. \A d \in Dirs : f[d] # Absent
    BY <1>2 DEF PresentIn
  <2> QED BY <2>1, <2>2, <1>0, Cycle
<1>3. CASE P \notin {{}, Dirs}
  <2>1. \E d \in P : After[d] \notin P
    BY <1>3, Cycle DEF PresentIn
  <2>2. CurrentIn(f) = CHOOSE d \in P : After[d] \notin P
    BY <1>3 DEF CurrentIn
  <2>3. CurrentIn(f) \in P /\ After[CurrentIn(f)] \notin P
    BY <2>1, <2>2
  <2>4. ASSUME NEW d \in P, NEW e \in P, After[d] \notin P, After[e] \notin P
        PROVE  d = e
    BY <2>4, Cycle DEF PresentIn
  <2>5. CurrentIn(f) \in Dirs /\ f[CurrentIn(f)] # Absent /\ f[After[CurrentIn(f)]] = Absent
    BY <2>3, Cycle DEF PresentIn
  <2>6. ASSUME NEW d \in Dirs, f[d] # Absent, f[After[d]] = Absent
        PROVE  CurrentIn(f) = d
    <3>1. d \in P /\ After[d] \notin P
      BY <2>6 DEF PresentIn
    <3> QED BY <3>1, <2>3, <2>4
  <2> QED BY <2>5, <2>6, Cycle
<1> QED BY <1>1, <1>2, <1>3

\* With the directory before d missing, d is current unless its successor is there.
LEMMA TwoDirs ==
    ASSUME NEW f \in [Dirs -> Content], NEW d \in Dirs, f[Before[d]] = Absent
    PROVE  KernelOf(f) = IF f[After[d]] = Absent THEN f[d] ELSE f[After[d]]
<1>1. After[d] \in Dirs /\ After[After[d]] = Before[d] /\ Dirs = {d, After[d], Before[d]}
  BY Cycle
<1>2. CASE f[After[d]] # Absent
  BY <1>1, <1>2, CurrentIs DEF KernelOf
<1>3. CASE f[After[d]] = Absent /\ f[d] # Absent
  BY <1>1, <1>3, CurrentIs DEF KernelOf
<1>4. CASE f[After[d]] = Absent /\ f[d] = Absent
  <2>1. f[CurrentIn(f)] = Absent
    BY <1>1, <1>4, CurrentIs
  <2> QED BY <2>1, <1>4 DEF KernelOf
<1> QED BY <1>2, <1>3, <1>4

(***************************************************************************)
(* Typing.                                                                 *)
(***************************************************************************)
LEMMA Typings == Typed => TypeOK
  BY DEF Typed, TypeOK, VolumeTyped, KernelTyped, BootTyped, RestTyped, Blessings,
         Files, Pre, Mishaps, Updates

\* Versions, Absent and Partial are different numbers.
LEMMA Numbers ==
    /\ Content \subseteq Int /\ Absent \in Content /\ Partial \in Content
    /\ \A c \in Content : Whole(c) <=> c \notin {Absent, Partial}
    /\ \A c \in Content : Whole(c) => c > 0
    /\ Versions \subseteq Content
  BY BootHelpersAssumption DEF Content, Absent, Partial, Versions, Whole


(***************************************************************************)
(* At first.                                                               *)
(***************************************************************************)
LEMMA InitTyped == Init => Typed
<1> SUFFICES ASSUME Init PROVE Typed
  OBVIOUS
<1>1. 1 \in Versions /\ Absent \in Content /\ 1 \in Content
  BY Numbers, BootHelpersAssumption DEF Versions
<1>2. VolumeTyped
  BY <1>1 DEF Init, VolumeTyped
<1>3. KernelTyped
  BY <1>1, BootHelpersAssumption DEF Init, KernelTyped, Pre
<1>4. BootTyped
  BY <1>1 DEF Init, BootTyped, Blessings
<1>5. RestTyped
  BY BootHelpersAssumption DEF Init, RestTyped
<1>6. up \in Updates
  BY BootHelpersAssumption DEF Init, Idle, Updates, Nothing, Phases, ChangeStates
<1> QED BY <1>2, <1>3, <1>4, <1>5, <1>6 DEF Typed

\* Between updates, with one kernel in each directory there is, all is in order.
LEMMA InitIInv == Init => IInv
<1> SUFFICES ASSUME Init PROVE IInv
  OBVIOUS
<1>1. Typed
  BY InitTyped
<1>2. StageKept
  BY DEF Init, Idle, StageKept, Working, Copying, Activating, Reverting, Replacing, Aside, Copied
<1>3. StampsKept
  BY DEF Init, Idle, StampsKept, Updating, Stamping, Kinds
<1>4. ASSUME NEW h \in Boots
      PROVE  HelperKept(h) /\ AgesKept(h)
  <2>1. Stage(h) = "out"
    BY DEF Init, Idle, Stage, Working
  <2>2. /\ rps[h] \in [Dirs -> Content] /\ FirstDirs[h] \subseteq Dirs /\ FirstDirs[h] # {}
        /\ \A d \in Dirs : rps[h][d] = IF d \in FirstDirs[h] THEN 1 ELSE Absent
        /\ booter[h] = 1 /\ old[h] = Absent /\ blessed[h] = "booter"
        /\ dirty[h] = {} /\ src["rps"] = 1 /\ stamps["rps"] = 1 /\ stamps["booter"] = 1
        /\ up.updated = {} /\ releases = {1} /\ 1 \in Versions /\ Whole(1)
    BY <1>1, BootHelpersAssumption DEF Init, Typed, KernelTyped, Idle, Kinds, Versions, Whole
  <2>3. KernelOf(rps[h]) = 1
    BY <2>2, CurrentIs DEF KernelOf, Absent
  <2>4. DirsKept(h)
    BY <2>1, <2>2 DEF DirsKept, Copying, Copied, Replacing, Aside, Absent
  <2>5. BootersKept(h)
    BY <2>1, <2>2 DEF BootersKept, BooterKept, Aside, Activating, Steady, Absent, Partial
  <2>6. KernelKept(h) /\ LabelKept(h)
    BY <2>1, <2>2, <2>3 DEF KernelKept, KernelThere, Good, LabelKept, Replacing, Aside, Copying,
                            Clearing
  <2>7. NewKept(h)
    BY <2>1 DEF NewKept, Copied, Replacing, Aside, Activating
  <2>8. AgeKept(h) /\ SupportKept(h) /\ RecoveryKept(h)
    BY <2>1, <2>2, <2>3 DEF AgeKept, OldNeeded, Suits, SupportKept, Starts, RecoveryKept, Supports,
                            Aside, Reverting, Activating, Whole, Absent, Versions
  <2> QED BY <2>4, <2>5, <2>6, <2>7, <2>8 DEF HelperKept, AgesKept
<1> QED BY <1>1, <1>2, <1>3, <1>4 DEF IInv

(***************************************************************************)
(* A step on one helper leaves the others and the volume alone.            *)
(***************************************************************************)
SameFlags ==
    /\ up'.bootIdx = up.bootIdx /\ up'.opts = up.opts /\ up'.tstamps = up.tstamps
    /\ up'.doRPS = up.doRPS /\ up'.doBooters = up.doBooters /\ up'.doMisc = up.doMisc
    /\ up'.dstdir = up.dstdir /\ up'.updated = up.updated

Elsewhere(h) ==
    /\ rps'[h] = rps[h] /\ pre'[h] = pre[h] /\ dirty'[h] = dirty[h]
    /\ booter'[h] = booter[h] /\ old'[h] = old[h] /\ blessed'[h] = blessed[h]
    /\ mishaps'[h] = mishaps[h]

Local ==
    /\ up.pc \in Working /\ up'.pc \in Working /\ up'.bootIdx = up.bootIdx
    /\ up'.opts = up.opts /\ up'.tstamps = up.tstamps
    /\ {up.doRPS, up'.doRPS, up.doBooters, up'.doBooters} \subseteq BOOLEAN
    /\ up.doRPS => up'.doRPS
    /\ up.doBooters => up'.doBooters
    /\ UNCHANGED volume
    /\ ~up'.doRPS => UNCHANGED rps
    /\ \A h \in Boots \ {Here} : Elsewhere(h)
    /\ \/ up'.updated = up.updated /\ Here \notin up.updated
       \/ up'.updated = up.updated \cup {Here} /\ up'.pc \in Clearing

\* A step to another stage leaves the flags of the update.
LEMMA Goes ==
    ASSUME up \in Updates, NEW x \in Phases, Goto(x)
    PROVE  up' \in Updates /\ SameFlags /\ up'.pc = x
           /\ up'.changestate = up.changestate /\ up'.result = up.result
  BY DEF Updates, Goto, SameFlags

\* bootfail leads to one of four steps.
LEMMA RevertFroms ==
    ASSUME NEW state \in ChangeStates
    PROVE  RevertFrom(state) \in {"rebless", "unlinkNew", "revertLabel", "nukeOld"}
  BY DEF RevertFrom, ChangeStates

\* What bootfail makes of the update.
LEMMA Bootfails ==
    ASSUME up \in Updates, NEW err \in {"failed", "ENOSPC"}, NEW state \in ChangeStates,
           Bootfail(err, state)
    PROVE  up' \in Updates /\ SameFlags /\ up'.pc = RevertFrom(state)
           /\ up'.changestate = state /\ up'.result = err
<1>1. RevertFrom(state) \in Phases
  BY RevertFroms DEF Phases
<1> QED BY <1>1 DEF Updates, Bootfail, SameFlags

\* At a helper at stage s.
LEMMA AtWork ==
    ASSUME IInv, NEW s \in Working, At(s), NEW b, b = Here
    PROVE  /\ Typed /\ StageKept /\ StampsKept /\ b \in Boots /\ b \in Int
           /\ up.pc = s /\ Stage(b) = s
           /\ up \in Updates /\ HelperKept(b) /\ AgesKept(b)
           /\ s \notin Clearing => b \notin up.updated
  BY BootHelpersAssumption DEF IInv, At, StageKept, StampsKept, Typed, Stage, Boots

(***************************************************************************)
(* A local step keeps the invariant if it does so where it happens.        *)
(***************************************************************************)
LEMMA ElsewhereKept ==
    ASSUME IInv, Local, NEW h \in Boots, h # Here
    PROVE  (HelperKept(h) /\ AgesKept(h))'
<1>1. Stage(h) = "out" /\ Stage(h)' = "out"
  BY DEF Local, Stage, Here
<1>2. /\ rps'[h] = rps[h] /\ pre'[h] = pre[h] /\ dirty'[h] = dirty[h]
      /\ booter'[h] = booter[h] /\ old'[h] = old[h] /\ blessed'[h] = blessed[h]
      /\ mishaps'[h] = mishaps[h]
  BY DEF Local, Elsewhere
<1>3. src' = src /\ stamps' = stamps /\ releases' = releases
  BY DEF Local, volume
<1>4. up'.opts = up.opts /\ up'.tstamps = up.tstamps /\ (h \in up'.updated => h \in up.updated)
  BY DEF Local
<1>5. HelperKept(h) /\ AgesKept(h)
  BY DEF IInv
<1>6. DirsKept(h)'
  BY <1>1, <1>2, <1>3, <1>5 DEF HelperKept, DirsKept, Copying, Copied, Replacing, Aside
<1>7. BootersKept(h)'
  BY <1>1, <1>2, <1>5 DEF HelperKept, BootersKept, BooterKept, Steady, Spared, Aside, Activating
<1>8. KernelKept(h)' /\ LabelKept(h)'
  BY <1>1, <1>2, <1>3, <1>5 DEF HelperKept, KernelKept, KernelThere, LabelKept, Spared, Copying,
                                Clearing, Replacing, Aside
<1>9. NewKept(h)'
  BY <1>1 DEF NewKept, Copied, Replacing, Aside, Activating
<1>10. AgeKept(h)'
  BY <1>1, <1>2, <1>3, <1>4, <1>5 DEF AgesKept, AgeKept, OldNeeded, Suits, Renewed, Supports,
                                      Spared, Aside, Reverting, Activating
<1>11. SupportKept(h)' /\ RecoveryKept(h)'
  BY <1>1, <1>2, <1>3, <1>4, <1>5 DEF AgesKept, SupportKept, RecoveryKept, Starts, Supports, Spared
<1> QED BY <1>6, <1>7, <1>8, <1>9, <1>10, <1>11 DEF HelperKept, AgesKept

\* A step on a helper leaves what is said of the stamps.
LEMMA StampsStay ==
    ASSUME IInv, Local
    PROVE  StampsKept'
<1>1. src' = src /\ stamps' = stamps /\ releases' = releases /\ clock' = clock
  BY DEF Local, volume
<1>2. StampsKept /\ Typed
  BY DEF IInv
<1>3. up.pc \in Updating /\ up'.pc \in Updating /\ up.pc # "idle" /\ up'.pc \notin Stamping
  BY DEF Local, Updating, Working, Phases, Stamping
<1>4. /\ up'.tstamps = up.tstamps /\ up'.opts = up.opts /\ Here' = Here
      /\ ~up'.doBooters => ~up.doBooters
      /\ ~up'.doRPS => ~up.doRPS /\ rps' = rps
  BY DEF Local, Here
<1>5. ASSUME NEW h \in up'.updated
      PROVE  h < Here' \/ (h = Here' /\ up'.pc \in Clearing)
  BY <1>2, <1>4, <1>5 DEF Local, StampsKept
<1>6. \A k \in Kinds : src'[k] <= clock' /\ stamps'[k] <= src'[k]
  BY <1>1, <1>2 DEF StampsKept
<1>7. \A r \in releases', k \in Kinds : r <= src'[k]
  BY <1>1, <1>2 DEF StampsKept
<1>8. /\ \A k \in Kinds : up'.tstamps[k] <= src'[k]
      /\ Supports(up.tstamps["booter"], up.tstamps["rps"])'
  BY <1>1, <1>2, <1>3, <1>4 DEF StampsKept, Supports
<1>9. /\ \A k \in Kinds : stamps'[k] <= up'.tstamps[k]
      /\ ~up'.doBooters => up'.tstamps["booter"] = stamps'["booter"]
      /\ ~up'.doRPS => /\ up'.tstamps["rps"] = stamps'["rps"]
                       /\ \A h \in Boots, d \in Dirs : rps'[h][d] <= up'.tstamps["rps"]
      /\ "force" \notin up'.opts => stamps' # src'
  BY <1>1, <1>2, <1>3, <1>4 DEF StampsKept
<1>10. up'.pc # "idle"
  BY <1>3 DEF Updating
<1> QED BY <1>3, <1>5, <1>6, <1>7, <1>8, <1>9, <1>10 DEF StampsKept

\* It is enough to look at the helper the step is on.
LEMMA LocalKeeps ==
    ASSUME IInv, Local, Typed', StageKept',
           NEW b \in Boots, b = Here, HelperKept(b)', AgesKept(b)'
    PROVE  IInv'
<1>1. ASSUME NEW h \in Boots PROVE (HelperKept(h) /\ AgesKept(h))'
  <2>1. CASE h # Here
    BY <2>1, ElsewhereKept
  <2>2. CASE h = Here
    BY <2>2
  <2> QED BY <2>1, <2>2
<1>2. StampsKept'
  BY StampsStay
<1> QED BY <1>1, <1>2 DEF IInv

(***************************************************************************)
(* bootfail: a step that fails leaves the helper as it is, but for the     *)
(* label and what is noted, and goes where revertState() begins.           *)
(***************************************************************************)
Failing == {"mkdir", "copyRPS", "label", "renameOld", "createBooter", "fillBooter",
            "syncBooters", "bless", "renameRPS", "syncRPS", "activateMisc"}

\* Where revertState() begins, what its stage asks for holds already.
LEMMA FailsKeeps ==
    ASSUME IInv, NEW b \in Boots, b = Here, NEW s \in Failing, At(s), NEW err \in {"failed", "ENOSPC"},
           NEW state \in ChangeStates, Bootfail(err, state),
           state = up.changestate \/ (s = "label" /\ state = "noLabel"),
           Typed', UNCHANGED <<volume, rps, boot, dirty>>,
           \A h \in Boots \ {b} : pre'[h] = pre[h] /\ mishaps'[h] = mishaps[h],
           mishaps[b] \subseteq mishaps'[b],
           s = "fillBooter" /\ old[b] = Absent => "cutShort" \in mishaps'[b]
    PROVE  IInv'
<1> DEFINE t == RevertFrom(state)
<1>1. /\ Typed /\ StageKept /\ StampsKept /\ b \in Boots /\ b \in Int /\ up.pc = s
      /\ Stage(b) = s /\ HelperKept(b) /\ AgesKept(b) /\ b \notin up.updated
  BY AtWork DEF Failing, Working, Clearing
<1>2. /\ up' \in Updates /\ SameFlags /\ up'.pc = t /\ up'.changestate = state /\ up'.result = err
  BY <1>1, Bootfails DEF Typed
<1>3. /\ s \in {"mkdir", "copyRPS"} => t = "nukeOld"
      /\ s = "label" => t \in {"nukeOld", "revertLabel"}
      /\ s \in {"renameOld", "createBooter", "fillBooter", "syncBooters", "bless"} => t = "unlinkNew"
      /\ s \in Activating /\ up.doBooters => t = "rebless"
      /\ s \in Activating /\ ~up.doBooters => t \in {"nukeOld", "revertLabel"}
  BY <1>1 DEF StageKept, RevertFrom, Copying, Activating
<1>4. t \in {"nukeOld", "revertLabel", "unlinkNew", "rebless"} /\ s \in Failing
  BY <1>3 DEF Failing, Activating
<1>5. StageKept'
  BY <1>1, <1>2, <1>4 DEF StageKept, SameFlags, Here, Working, Copying, Copied, Activating, Reverting,
                    Replacing, Aside
<1>6. /\ rps'[b] = rps[b] /\ dirty'[b] = dirty[b]
      /\ booter'[b] = booter[b] /\ old'[b] = old[b] /\ blessed'[b] = blessed[b]
      /\ src' = src /\ stamps' = stamps /\ releases' = releases
  BY DEF boot, volume
<1>7. Local
  BY <1>1, <1>2, <1>4 DEF Local, Elsewhere, SameFlags, Working, Failing, boot, Updates, Typed
<1>8. Stage(b)' = t
  BY <1>1, <1>2, <1>4 DEF Stage, SameFlags, Here, Working
<1>9. \A causes : Spared(b, causes)' => Spared(b, causes)
  BY DEF Spared

<1>10. DirsKept(b)'
  BY <1>1, <1>4, <1>6, <1>8 DEF HelperKept, DirsKept, Copying, Copied, Replacing, Aside
<1>11. BootersKept(b)'
  <2>1. ASSUME Spared(b, BooterLost)'
        PROVE  BooterKept(b)'
    <3>1. BooterKept(b)
      BY <1>1, <1>9, <2>1 DEF HelperKept, BootersKept
    <3>2. s = "fillBooter" => old[b] # Absent
      BY <2>1 DEF Spared, BooterLost
    <3>3. CASE s \in {"mkdir", "copyRPS", "label"} \cup Activating
      BY <1>1, <1>3, <1>6, <1>8, <3>1, <3>3
         DEF BooterKept, Steady, Aside, Activating, HelperKept, BootersKept
    <3>4. CASE s \in {"renameOld"} \cup Aside
      <4>1. s = "renameOld" => old[b] = Absent
        BY <1>1 DEF HelperKept, BootersKept
      <4>2. s \in {"createBooter", "syncBooters", "bless"} => booter[b] # Partial
        BY <1>1, Numbers DEF HelperKept, BootersKept, Whole, Versions, Absent, Partial
      <4> QED BY <1>1, <1>3, <1>6, <1>8, <3>1, <3>2, <3>4, <4>1, <4>2
              DEF BooterKept, Steady, Aside, Activating, Absent, Partial
    <3> QED BY <3>3, <3>4 DEF Failing, Aside, Activating
  <2> QED BY <1>1, <1>2, <1>3, <1>4, <1>6, <1>8, <2>1
          DEF HelperKept, BootersKept, Aside, Activating, Failing
<1>12. KernelKept(b)' /\ LabelKept(b)'
  <2>1. ASSUME NEW v, KernelThere(b, v)
        PROVE  KernelThere(b, v)'
    <3>1. CASE s \in {"mkdir", "copyRPS"}
      <4>1. KernelOf(rps[b]) = IF Spare(b) = Absent THEN rps[b][up.dstdir] ELSE Spare(b)
        BY <1>1, <3>1, TwoDirs DEF StageKept, HelperKept, DirsKept, Copying, Spare, Typed, KernelTyped
      <4> QED BY <1>1, <1>3, <1>6, <1>8, <2>1, <3>1, <4>1, Numbers DEF KernelThere, Good, Clearing, Copying
    <3>2. CASE s \notin {"mkdir", "copyRPS"}
      BY <1>1, <1>3, <1>4, <1>6, <1>8, <2>1, <3>2 DEF KernelThere, Clearing, Copying, Failing
    <3> QED BY <3>1, <3>2
  <2> QED BY <1>1, <1>4, <1>6, <1>8, <1>9, <2>1
          DEF HelperKept, KernelKept, LabelKept, Replacing, Aside
<1>13. NewKept(b)'
  BY <1>1, <1>2, <1>3, <1>4, <1>6, <1>8
     DEF AgesKept, NewKept, Supports, SameFlags, Failing, Copied, Replacing, Aside, Activating
<1>14. AgeKept(b)'
  <2>1. OldNeeded(b)' => OldNeeded(b) \/ old[b] = Absent
    BY <1>1, <1>3, <1>4, <1>6, <1>8
       DEF OldNeeded, HelperKept, BootersKept, Failing, Aside, Reverting, Activating
  <2>2. ~Whole(Absent)
    BY Numbers
  <2>3. b \notin up'.updated
    BY <1>1, <1>2 DEF SameFlags
  <2> QED BY <1>1, <1>6, <1>9, <2>1, <2>2, <2>3 DEF AgesKept, AgeKept, Suits, Supports
<1>15. SupportKept(b)' /\ RecoveryKept(b)'
  BY <1>1, <1>2, <1>4, <1>6, <1>8, <1>9 DEF AgesKept, SupportKept, RecoveryKept, Starts, Supports, SameFlags, Spared
<1> QED BY <1>5, <1>7, <1>10, <1>11, <1>12, <1>13, <1>14, <1>15, LocalKeeps DEF HelperKept, AgesKept

(***************************************************************************)
(* A step that leaves the directories alone keeps what is known of them    *)
(* and of the kernel.                                                      *)
(***************************************************************************)
After1(s, t) ==
    \/ s \in Copied /\ t \in Copied \ {"renameRPS"}
    \/ s \in {"label", "bless"} /\ up.doRPS /\ t = "renameRPS"
    \/ s \in {"label", "bless"} /\ ~up.doRPS /\ t = "activateMisc"
    \/ s = "syncRPS" /\ t = "activateMisc"
    \/ s \notin Copying \cup Clearing /\ t \in Reverting \cup {"revertLabel"} \cup Clearing
    \/ s \in Clearing /\ t \in Clearing

\* A step that leaves the directories keeps what is said of them and the kernel.
LEMMA DirsStay ==
    ASSUME IInv, NEW b \in Boots, b = Here, NEW s \in Working, At(s), NEW t \in Working,
           SameFlags, up'.pc = t, After1(s, t), UNCHANGED <<volume, rps>>,
           \A d \in Dirs : d \in dirty'[b] => d \in dirty[b],
           \A causes : Spared(b, causes)' => Spared(b, causes),
           s \in Clearing /\ blessed[b] = "recovery" => blessed'[b] = "recovery"
    PROVE  DirsKept(b)' /\ KernelKept(b)' /\ Stage(b)' = t
<1>1. /\ Typed /\ StageKept /\ up.pc = s /\ Stage(b) = s /\ HelperKept(b)
  BY AtWork
<1>2. Stage(b)' = t
  BY DEF Stage, SameFlags, Here
<1>3. rps'[b] = rps[b] /\ src' = src /\ stamps' = stamps
  BY DEF volume
<1>4. up'.doRPS = up.doRPS /\ up'.dstdir = up.dstdir
  BY DEF SameFlags
<1>5. DirsKept(b)'
  BY <1>1, <1>2, <1>3, <1>4
     DEF HelperKept, DirsKept, After1, Copying, Copied, Replacing, Aside, Reverting, Clearing
<1>6. ASSUME NEW v, KernelThere(b, v)
      PROVE  KernelThere(b, v)'
  BY <1>1, <1>2, <1>3, <1>6
     DEF KernelThere, After1, Copying, Copied, Replacing, Aside, Reverting, Clearing
<1>7. KernelKept(b)'
  BY <1>1, <1>3, <1>6 DEF HelperKept, KernelKept
<1> QED BY <1>2, <1>5, <1>7

(***************************************************************************)
(* The types are kept.                                                     *)
(***************************************************************************)
Parts == /\ rps \in [Boots -> [Dirs -> Content]] /\ pre \in [Boots -> Pre]
         /\ tainted \subseteq Boots
         /\ booter \in [Boots -> Content] /\ old \in [Boots -> Content]
         /\ blessed \in [Boots -> Blessings] /\ dirty \in [Boots -> SUBSET Files]
         /\ mishaps \in [Boots -> SUBSET Mishaps]
         /\ faults \in 0..MaxFaults /\ crashes \in 0..MaxCrashes
         /\ VolumeTyped

\* The types, with the update's apart.
LEMMA PartsTyped == Typed <=> Parts /\ up \in Updates
  BY DEF Typed, KernelTyped, BootTyped, RestTyped, Parts

\* A change of the volume keeps its types.
LEMMA BumpTyped ==
    ASSUME VolumeTyped, NEW kinds, Bump(kinds)
    PROVE  VolumeTyped'
<1>1. clock' \in Versions
  BY BootHelpersAssumption DEF VolumeTyped, Bump, Versions
<1> QED BY <1>1, BootHelpersAssumption DEF VolumeTyped, Bump, Versions

\* So does none.
LEMMA SameVolume ==
    ASSUME VolumeTyped, UNCHANGED volume
    PROVE  VolumeTyped'
  BY DEF VolumeTyped, volume

\* The directories with one changed.
LEMMA DirChanged ==
    ASSUME NEW r \in [Boots -> [Dirs -> Content]], NEW h, NEW d \in Dirs, NEW c \in Content
    PROVE  [r EXCEPT ![h][d] = c] \in [Boots -> [Dirs -> Content]]
<1>1. ASSUME NEW g \in Boots PROVE [r EXCEPT ![h][d] = c][g] \in [Dirs -> Content]
  OBVIOUS
<1> QED BY <1>1

\* The pre-boot files after activateMisc() and moveLabels().
LEMMA ShownTyped ==
    ASSUME NEW p \in Pre
    PROVE  Shown(p) \in Pre /\ Renamed(p) \in Pre
<1>1. (p.label \/ p.labelNew) \in BOOLEAN
  OBVIOUS
<1>2. Shown(p) = [p EXCEPT !.label = p.label \/ p.labelNew, !.labelNew = FALSE]
  BY DEF Shown
<1>3. Shown(p) \in Pre
  BY <1>1, <1>2 DEF Pre
<1>4. Renamed(p) \in Pre
  BY Numbers DEF Renamed, Pre
<1> QED BY <1>3, <1>4

\* Every step of kextcache keeps the types.
LEMMA KextcacheTyped ==
    ASSUME IInv, Kextcache
    PROVE  Parts' /\ up' \in Updates
<1>1. Typed /\ StageKept /\ Parts /\ up \in Updates
  BY PartsTyped DEF IInv
<1>2. /\ src \in [Kinds -> Versions] /\ MaxFaults \in Nat /\ NumBoots \in Nat
      /\ up.changestate \in ChangeStates /\ up.opts \subseteq {"force", "expect", "optional"}
  BY <1>1, BootHelpersAssumption DEF Parts, VolumeTyped, Updates
<1>3. src["rps"] \in Content /\ src["booter"] \in Content /\ src["misc"] \in Content
      /\ Absent \in Content /\ Partial \in Content
  BY <1>2, Numbers DEF Kinds
<1>4. "failed" \in {"failed", "ENOSPC"} /\ CopyErrors \subseteq {"failed", "ENOSPC"}
  BY DEF CopyErrors
<1>5. Fault \/ Fine => faults' \in 0..MaxFaults
  BY <1>1, <1>2 DEF Fault, Fine, Parts
<1>6. \A why \in Mishaps : Because(why) => mishaps' \in [Boots -> SUBSET Mishaps]
  BY <1>1, ZenonT(60) DEF Because, Parts
<1>7. \A from \in Files, to \in SUBSET Files :
        DirtyAs(from, to) => dirty' \in [Boots -> SUBSET Files]
  BY <1>1 DEF DirtyAs, Parts
<1>8. Synced => dirty' \in [Boots -> SUBSET Files]
  BY <1>1 DEF Synced, Parts
<1>9. \A s \in Blessings : SetBlessing(s) => blessed' \in [Boots -> Blessings]
  BY <1>1 DEF SetBlessing, Parts
<1>10. ASSUME NEW d \in Dirs, NEW c \in Content, rps' = [rps EXCEPT ![Here][d] = c]
       PROVE  rps' \in [Boots -> [Dirs -> Content]]
  <2>1. rps \in [Boots -> [Dirs -> Content]]
    BY <1>1 DEF Parts
  <2>2. [rps EXCEPT ![Here][d] = c] \in [Boots -> [Dirs -> Content]]
    BY <2>1, DirChanged, Zenon
  <2> QED BY <1>10, <2>2
<1>11. UNCHANGED volume => VolumeTyped'
  BY <1>1, SameVolume DEF Parts
<1>12. \A x \in Phases : Goto(x) => up' \in Updates
  BY <1>1, Goes
<1>13. \A err \in {"failed", "ENOSPC"}, state \in ChangeStates :
         Bootfail(err, state) => up' \in Updates
  BY <1>1, Bootfails
<1>14. Dirs \subseteq Files /\ "booter" \in Files /\ "old" \in Files /\ {} \in SUBSET Files
       /\ "R" \in Dirs /\ "P" \in Dirs /\ "S" \in Dirs /\ "old" \in Blessings
       /\ "booter" \in Blessings /\ "recovery" \in Blessings
       /\ {"old"} \in SUBSET Files /\ {"booter"} \in SUBSET Files
       /\ \A d \in Dirs : {d} \in SUBSET Files
  BY DEF Files, Dirs, Blessings
<1>15. \A p \in Pre : Shown(p) \in Pre /\ Renamed(p) \in Pre
  BY ShownTyped
<1>16. \A d \in Dirs : Emptying(d) => /\ rps' \in [Boots -> [Dirs -> Content]] /\ up' \in Updates
                                      /\ dirty' \in [Boots -> SUBSET Files]
  BY <1>1, <1>3, <1>10 DEF Emptying, Parts
<1>17. \A d \in Dirs : Emptied(d) => /\ rps' \in [Boots -> [Dirs -> Content]]
                                     /\ dirty' \in [Boots -> SUBSET Files]
  BY <1>1, <1>3, <1>7, <1>10, <1>14 DEF Emptied, Parts
<1>18. \A d \in Dirs : EraseFails(d) => /\ rps' \in [Boots -> [Dirs -> Content]]
                                        /\ faults' \in 0..MaxFaults
  BY <1>1, <1>3, <1>5, <1>10 DEF EraseFails, Parts
<1>19. "partlyErased" \in Mishaps /\ "changedUnderCopy" \in Mishaps /\ "cutShort" \in Mishaps
       /\ "revertedLate" \in Mishaps /\ "notReblessed" \in Mishaps /\ "notRestored" \in Mishaps
  BY DEF Mishaps
<1>20. Current(Here) \in Dirs \/ Here \notin Boots
  BY <1>1, KernelIs, CurrentIs DEF Parts
<1>21. CASE Mount
  <2> DEFINE default == Here \notin tainted
             rpsDo == up.doRPS \/ ~default
             bootersDo == up.doBooters \/ ~default \/ booter[Here] = Absent
             miscDo == up.doMisc \/ ~default \/ pre[Here].misc = Absent \/ ~pre[Here].label
  <2>2. CheckContents = [up EXCEPT !.doRPS = rpsDo, !.doBooters = bootersDo, !.doMisc = miscDo]
    BY DEF CheckContents
  <2>3. rpsDo \in BOOLEAN /\ bootersDo \in BOOLEAN /\ miscDo \in BOOLEAN
    OBVIOUS
  <2> HIDE DEF rpsDo, bootersDo, miscDo
  <2>4. CheckContents \in Updates
    BY <1>1, <2>2, <2>3 DEF Updates
  <2>5. Here + 1 \in 0..(NumBoots + 1)
    BY <1>1, <1>2, <1>21 DEF Mount, Boots
  <2>6. [CheckContents EXCEPT !.pc = "findRPS"] \in Updates
    BY <2>4 DEF Updates, Phases
  <2>8. \A x \in 0..(NumBoots + 1) : [up EXCEPT !.result = "failed", !.bootIdx = x] \in Updates
    BY <1>1 DEF Updates
  <2>7. [up EXCEPT !.result = "failed", !.bootIdx = @ + 1] \in Updates
    BY <2>5, <2>8 DEF Here
  <2>1. up' \in Updates
    BY <1>21, <2>6, <2>7 DEF Mount
  <2> QED BY <1>1, <1>5, <1>11, <1>21, <2>1 DEF Mount, Parts, kernel, boot
<1>22. CASE EraseThird
  BY <1>1, <1>2, <1>4, <1>5, <1>11, <1>13, <1>14, <1>16, <1>17, <1>18, <1>22
     DEF EraseThird, Parts, boot
<1>23. CASE PickRPS
  <2>2. Before[Current(Here)] \in Dirs
    BY <1>1, <1>20, <1>23, Cycle DEF PickRPS, At, StageKept, Working
  <2>3. \A d \in Dirs, x \in Phases : [up EXCEPT !.dstdir = d, !.pc = x] \in Updates
    BY <1>1 DEF Updates
  <2>4. {"recovery", "eraseDst", "copyMisc"} \subseteq Phases
    BY DEF Phases
  <2>1. up' \in Updates
    BY <1>12, <1>23, <2>2, <2>3, <2>4, ZenonT(60) DEF PickRPS
  <2> QED BY <1>1, <1>11, <1>23, <2>1 DEF PickRPS, Parts, kernel, boot
<1>24. CASE BlessRecovery
  <2>1. up' \in Updates
    BY <1>1, <1>12, <1>24 DEF BlessRecovery, Phases
  <2>2. mishaps' \in [Boots -> SUBSET Mishaps]
    BY <1>1, <1>24, ZenonT(60) DEF BlessRecovery, Parts, Mishaps
  <2>3. /\ faults' \in 0..MaxFaults /\ blessed' \in [Boots -> Blessings]
        /\ dirty' \in [Boots -> SUBSET Files]
    BY <1>1, <1>5, <1>8, <1>9, <1>14, <1>24 DEF BlessRecovery, Parts
  <2> QED BY <1>1, <1>11, <1>24, <2>1, <2>2, <2>3 DEF BlessRecovery, Parts, kernel
<1>25. CASE EraseCur
  <2>1. After[up.dstdir] \in Dirs
    BY <1>1, <1>25, Cycle DEF EraseCur, At, StageKept, Copying
  <2>2. up' = [up EXCEPT !.doBooters = TRUE, !.pc = "eraseDst"] => up' \in Updates
    BY <1>1, ZenonT(60) DEF Updates, Phases
  <2> QED BY <1>1, <1>5, <1>6, <1>11, <1>14, <1>16, <1>17, <1>18, <1>19, <1>25, <2>1, <2>2
          DEF EraseCur, Parts, boot
<1>26. CASE EraseDst
  <2>1. up.dstdir \in Dirs /\ "mkdir" \in Phases
    BY <1>1, <1>26 DEF EraseDst, At, StageKept, Copying, Phases
  <2> QED BY <1>1, <1>2, <1>4, <1>5, <1>11, <1>12, <1>13, <1>14, <1>16, <1>17, <1>18, <1>26, <2>1
          DEF EraseDst, Parts, boot
<1>27. CASE MakeRPS
  <2>1. up.dstdir \in Dirs /\ "copyRPS" \in Phases
    BY <1>1, <1>27 DEF MakeRPS, At, StageKept, Copying, Phases
  <2>2. dirty' \in [Boots -> SUBSET Files]
    BY <1>1, <1>14, <1>27, <2>1 DEF MakeRPS, Parts
  <2> QED BY <1>1, <1>2, <1>3, <1>4, <1>5, <1>10, <1>11, <1>12, <1>13, <1>27, <2>1, <2>2
          DEF MakeRPS, Parts, boot
<1>28. CASE CopyRPS
  <2>1. up.dstdir \in Dirs /\ "copyMisc" \in Phases
    BY <1>1, <1>28 DEF CopyRPS, At, StageKept, Copying, Phases
  <2> QED BY <1>1, <1>2, <1>3, <1>4, <1>5, <1>6, <1>10, <1>11, <1>12, <1>13, <1>19, <1>28, <2>1
          DEF CopyRPS, Parts, boot
<1>29. CASE CopyMisc
  <2>3. \A p \in Pre : /\ \A c \in Content : [p EXCEPT !.miscNew = c] \in Pre
                      /\ [p EXCEPT !.labelNew = TRUE] \in Pre
    BY DEF Pre
  <2>4. Here \in Boots /\ pre[Here] \in Pre
    BY <1>1, <1>29 DEF CopyMisc, At, StageKept, Working, Parts
  <2>5. /\ [[pre[Here] EXCEPT !.miscNew = src["misc"]] EXCEPT !.labelNew = TRUE] \in Pre
        /\ \A c \in Content : [pre[Here] EXCEPT !.miscNew = c] \in Pre
    BY <1>3, <2>3, <2>4
  <2>1. pre' \in [Boots -> Pre]
    BY <1>1, <1>3, <1>29, <2>5 DEF CopyMisc, Parts
  <2>2. up' \in Updates
    BY <1>12, <1>29 DEF CopyMisc, Phases
  <2> QED BY <1>1, <1>5, <1>11, <1>29, <2>1, <2>2 DEF CopyMisc, Parts, boot
<1>30. CASE Label
  <2>3. Here \in Boots /\ pre[Here] \in Pre
    BY <1>1, <1>30 DEF Label, At, StageKept, Working, Parts
  <2> DEFINE away == pre[Here].labelNew \/ pre[Here].label
  <2>4. away \in BOOLEAN
    OBVIOUS
  <2>5. \/ pre' = pre
        \/ pre' = [pre EXCEPT ![Here].label = FALSE, ![Here].labelNew = away]
        \/ pre' = [pre EXCEPT ![Here].label = FALSE]
    BY <1>1, <1>30, <2>3 DEF Label, Parts
  <2> HIDE DEF away
  <2>6. [[pre[Here] EXCEPT !.label = FALSE] EXCEPT !.labelNew = away] \in Pre
        /\ [pre[Here] EXCEPT !.label = FALSE] \in Pre
    BY <2>3, <2>4 DEF Pre
  <2>1. pre' \in [Boots -> Pre]
    BY <1>1, <2>5, <2>6 DEF Parts
  <2>2. up' \in Updates
    <3>1. "noLabel" \in ChangeStates
      BY DEF ChangeStates
    <3>2. \A on \in Phases : up' = [up EXCEPT !.changestate = "noLabel", !.pc = on] => up' \in Updates
      BY <1>1, <3>1 DEF Updates
    <3>3. \A on \in Phases : Goto(on) => up' \in Updates
      BY <1>1, Goes DEF Parts
    <3> QED BY <1>2, <1>4, <1>13, <1>30, <3>1, <3>2, <3>3 DEF Label, Phases
  <2> QED BY <1>1, <1>5, <1>11, <1>30, <2>1, <2>2 DEF Label, Parts, boot
<1>31. CASE UnlinkOld
  <2>1. up' \in Updates
    BY <1>1, <1>31, ZenonT(60) DEF UnlinkOld, Updates, Phases, ChangeStates
  <2>2. old' \in [Boots -> Content] /\ blessed' \in [Boots -> Blessings]
    BY <1>1, <1>3, <1>31 DEF UnlinkOld, RemoveOld, Parts, Blessings
  <2> QED BY <1>1, <1>7, <1>11, <1>14, <1>31, <2>1, <2>2
          DEF UnlinkOld, RemoveOld, Parts, kernel
<1>32. CASE RenameOld
  <2>1. up' \in Updates
    BY <1>2, <1>4, <1>12, <1>13, <1>32 DEF RenameOld, Phases
  <2>3. Here \in Boots /\ booter[Here] \in Content
    BY <1>1, <1>32 DEF RenameOld, At, StageKept, Working, Parts
  <2>4. \/ UNCHANGED boot
        \/ /\ old' = [old EXCEPT ![Here] = booter[Here]]
           /\ booter' = [booter EXCEPT ![Here] = Absent]
           /\ blessed' = [blessed EXCEPT ![Here] = IF @ = "booter" THEN "old" ELSE @]
    BY <1>32 DEF RenameOld
  <2>2. old' \in [Boots -> Content] /\ booter' \in [Boots -> Content] /\ blessed' \in [Boots -> Blessings]
    BY <1>1, <1>3, <1>14, <2>3, <2>4, ZenonT(60) DEF boot, Parts
  <2> QED BY <1>1, <1>5, <1>7, <1>11, <1>14, <1>32, <2>1, <2>2 DEF RenameOld, Parts, kernel
<1>33. CASE CreateBooter
  <2>1. up' \in Updates
    BY <1>2, <1>4, <1>12, <1>13, <1>33 DEF CreateBooter, Phases
  <2>2. dirty' \in [Boots -> SUBSET Files] /\ booter' \in [Boots -> Content]
    <3>1. dirty' = dirty \/ dirty' = [dirty EXCEPT ![Here] = @ \cup {"booter"}]
      BY <1>33 DEF CreateBooter
    <3>2. booter' = booter \/ booter' = [booter EXCEPT ![Here] = Partial]
      BY <1>33 DEF CreateBooter
    <3> QED BY <1>1, <1>3, <1>14, <3>1, <3>2, SMTT(30) DEF Parts
  <2> QED BY <1>1, <1>5, <1>11, <1>33, <2>1, <2>2 DEF CreateBooter, Parts, kernel
<1>34. CASE FillBooter
  <2>1. up' \in Updates
    <3>1. up' = [up EXCEPT !.changestate = "copiedBooters", !.pc = "syncBooters"] => up' \in Updates
      BY <1>1, ZenonT(60) DEF Updates, Phases, ChangeStates
    <3> QED BY <1>2, <1>4, <1>13, <1>34, <3>1 DEF FillBooter
  <2>2. booter' \in [Boots -> Content] /\ mishaps' \in [Boots -> SUBSET Mishaps]
    BY <1>1, <1>3, <1>6, <1>19, <1>34 DEF FillBooter, Parts
  <2> QED BY <1>1, <1>5, <1>11, <1>34, <2>1, <2>2 DEF FillBooter, Parts, kernel
<1>35. CASE SyncBooters
  <2>1. up' = [up EXCEPT !.changestate = "activatingEFIBooter", !.pc = "bless"] => up' \in Updates
    BY <1>1, ZenonT(60) DEF Updates, Phases, ChangeStates
  <2> QED BY <1>1, <1>2, <1>4, <1>5, <1>8, <1>11, <1>13, <1>35, <2>1
          DEF SyncBooters, Parts, kernel, boot
<1>36. CASE Bless
  <2>1. \A on \in Phases : up' = [up EXCEPT !.changestate = "activatedBooters", !.pc = on] => up' \in Updates
    BY <1>1, ZenonT(60) DEF Updates, ChangeStates
  <2>2. up' \in Updates
    BY <1>2, <1>4, <1>13, <1>36, <2>1 DEF Bless, Phases
  <2> QED BY <1>1, <1>5, <1>9, <1>11, <1>14, <1>36, <2>2 DEF Bless, Parts, kernel
<1>37. CASE RenameRPS
  <2>1. up' \in Updates
    BY <1>2, <1>4, <1>12, <1>13, <1>37 DEF RenameRPS, Phases
  <2>2. Here \in Boots /\ Current(Here) \in Dirs
    BY <1>1, <1>20, <1>37 DEF RenameRPS, At, StageKept, Working
  <2>3. After[Current(Here)] \in Dirs /\ Before[Current(Here)] \in Dirs
    BY <2>2, Cycle
  <2>4. rps' \in [Boots -> [Dirs -> Content]]
    <3>1. ASSUME NEW d \in Dirs, NEW e \in Dirs
          PROVE  [[rps EXCEPT ![Here][d] = rps[Here][e]] EXCEPT ![Here][e] = Absent]
                    \in [Boots -> [Dirs -> Content]]
      <4>1. rps \in [Boots -> [Dirs -> Content]] /\ rps[Here][e] \in Content
        BY <1>1, <2>2 DEF Parts
      <4>2. [rps EXCEPT ![Here][d] = rps[Here][e]] \in [Boots -> [Dirs -> Content]]
        BY <4>1, DirChanged, Zenon
      <4> QED BY <1>3, <4>2, DirChanged, Zenon
    <3>2. rps \in [Boots -> [Dirs -> Content]]
      BY <1>1 DEF Parts
    <3>3. CASE Current(Here) = up.dstdir \/ UNCHANGED rps
      BY <1>37, <3>2, <3>3 DEF RenameRPS
    <3>4. CASE rps' = [rps EXCEPT ![Here][After[Current(Here)]] = rps[Here][Before[Current(Here)]],
                                  ![Here][Before[Current(Here)]] = Absent]
      BY <2>3, <3>1, <3>4
    <3> QED BY <1>37, <3>3, <3>4 DEF RenameRPS
  <2>5. dirty' \in [Boots -> SUBSET Files]
    BY <1>1, <1>7, <1>14, <1>37, <2>3 DEF RenameRPS, Parts
  <2> QED BY <1>1, <1>5, <1>11, <1>37, <2>1, <2>4, <2>5 DEF RenameRPS, Parts, boot
<1>38. CASE SyncRPS
  BY <1>1, <1>2, <1>4, <1>5, <1>8, <1>11, <1>12, <1>13, <1>38
     DEF SyncRPS, Parts, kernel, boot, Phases
<1>39. CASE ActivateMisc
  <2>1. Here \in Boots /\ pre[Here] \in Pre
    BY <1>1, <1>39 DEF ActivateMisc, At, StageKept, Working, Parts
  <2>2. pre' \in [Boots -> Pre]
    BY <1>1, <1>15, <1>39, <2>1 DEF ActivateMisc, Parts
  <2>3. up' = [up EXCEPT !.changestate = "nothingSerious", !.pc = "nukeOld",
                         !.updated = @ \cup {Here}, !.result = "ok"] => up' \in Updates
    <3>1. up.updated \cup {Here} \in SUBSET Boots
      BY <1>1, <2>1 DEF Updates
    <3>2. "nothingSerious" \in ChangeStates /\ "nukeOld" \in Phases
      BY DEF ChangeStates, Phases
    <3>3. \A x \in SUBSET Boots :
             [up EXCEPT !.changestate = "nothingSerious", !.pc = "nukeOld",
                        !.updated = x, !.result = "ok"] \in Updates
      BY <1>1, <3>2 DEF Updates
    <3> QED BY <3>1, <3>3
  <2>4. up' \in Updates
    BY <1>2, <1>4, <1>13, <1>39, <2>3 DEF ActivateMisc
  <2>5. mishaps' \in [Boots -> SUBSET Mishaps] /\ tainted' \subseteq Boots
    BY <1>1, <1>39 DEF ActivateMisc, Parts
  <2> QED BY <1>1, <1>5, <1>11, <1>39, <2>2, <2>4, <2>5 DEF ActivateMisc, Parts, boot
<1>40. CASE Rebless
  BY <1>1, <1>5, <1>6, <1>8, <1>9, <1>11, <1>12, <1>14, <1>19, <1>40
     DEF Rebless, Parts, kernel, Phases
<1>41. CASE UnlinkNew
  <2>1. booter' \in [Boots -> Content] /\ blessed' \in [Boots -> Blessings] /\ old' \in [Boots -> Content]
    BY <1>1, <1>3, <1>41 DEF UnlinkNew, Parts, Blessings, boot
  <2> QED BY <1>1, <1>7, <1>11, <1>12, <1>14, <1>41, <2>1 DEF UnlinkNew, Parts, kernel, Phases
<1>42. CASE RestoreOld
  <2>1. booter' \in [Boots -> Content] /\ blessed' \in [Boots -> Blessings] /\ old' \in [Boots -> Content]
    BY <1>1, <1>3, <1>42, ZenonT(60) DEF RestoreOld, Parts, Blessings, boot, At, StageKept, Working
  <2> QED BY <1>1, <1>5, <1>6, <1>7, <1>11, <1>12, <1>14, <1>19, <1>42, <2>1
          DEF RestoreOld, Parts, kernel, Phases
<1>43. CASE RevertLabel
  <2>1. pre' \in [Boots -> Pre]
    BY <1>1, <1>15, <1>43 DEF RevertLabel, Parts
  <2> QED BY <1>1, <1>11, <1>12, <1>43, <2>1 DEF RevertLabel, Parts, boot, Phases
<1>44. CASE NukeOld
  <2>1. old' \in [Boots -> Content] /\ blessed' \in [Boots -> Blessings]
    BY <1>1, <1>3, <1>44 DEF NukeOld, RemoveOld, Parts, Blessings
  <2>2. dirty' \in [Boots -> SUBSET Files]
    BY <1>1, <1>7, <1>14, <1>44 DEF NukeOld, RemoveOld, Parts
  <2>3. up' \in Updates
    BY <1>12, <1>44 DEF NukeOld, Phases
  <2> QED BY <1>1, <1>5, <1>11, <1>44, <2>1, <2>2, <2>3 DEF NukeOld, Parts, kernel
<1>45. CASE NukeRPS
  <2>1. Here \in Boots /\ Current(Here) \in Dirs
    BY <1>1, <1>20, <1>45 DEF NukeRPS, At, StageKept, Working
  <2> DEFINE d == IF Present(Here) = Dirs THEN "P" ELSE Before[Current(Here)]
  <2>2. d \in Dirs
    BY <2>1, <1>14, Cycle
  <2>3. "unmount" \in Phases
    BY DEF Phases
  <2>4. \/ Emptying(d) /\ Fine
        \/ Emptied(d) /\ Fine /\ (UNCHANGED up \/ Goto("unmount"))
        \/ EraseFails(d) /\ Goto("unmount") /\ UNCHANGED dirty
    BY <1>45 DEF NukeRPS
  <2> HIDE DEF d
  <2> QED BY <1>1, <1>5, <1>11, <1>12, <1>16, <1>17, <1>18, <1>45, <2>2, <2>3, <2>4
          DEF NukeRPS, Parts, boot
<1>46. CASE Unmount
  <2>1. up' \in Updates
    <3>1. Here + 1 \in 0..(NumBoots + 1)
      BY <1>1, <1>2, <1>46 DEF Unmount, At, StageKept, Working, Boots
    <3>2. "nothingSerious" \in ChangeStates /\ "mount" \in Phases
      BY DEF ChangeStates, Phases
    <3>3. \A x \in 0..(NumBoots + 1) :
             [up EXCEPT !.pc = "mount", !.bootIdx = x, !.changestate = "nothingSerious",
                        !.dstdir = "none"] \in Updates
      BY <1>1, <3>2 DEF Updates
    <3> QED BY <1>46, <3>1, <3>3 DEF Unmount, Here
  <2>2. mishaps' \in [Boots -> SUBSET Mishaps]
    BY <1>1, <1>46 DEF Unmount, LeftBare, Parts, Mishaps
  <2> QED BY <1>1, <1>8, <1>11, <1>46, <2>1, <2>2 DEF Unmount, Parts, kernel, boot
<1>47. CASE RetrySmaller
  <2>1. up' \in Updates
    <3>1. 1 \in 0..(NumBoots + 1) /\ {} \in SUBSET Boots
      BY <1>2
    <3> QED BY <1>1, <1>47, <3>1 DEF RetrySmaller, Updates
  <2>2. VolumeTyped'
    BY <1>1, <1>47, BumpTyped DEF RetrySmaller, RebuildCaches, Parts
  <2> QED BY <1>1, <1>47, <2>1, <2>2 DEF RetrySmaller, Parts, kernel, boot
<1>48. CASE GiveUp
  <2>1. up' \in Updates
    BY <1>2, <1>48 DEF GiveUp, Idle, Nothing, Updates, Phases, ChangeStates
  <2> QED BY <1>1, <1>11, <1>48, <2>1 DEF GiveUp, Parts, kernel, boot
<1>49. CASE BeginStamps
  <2>1. up' \in Updates
    BY <1>12, <1>49 DEF BeginStamps, Phases
  <2>2. mishaps' \in [Boots -> SUBSET Mishaps]
    BY <1>1, <1>49 DEF BeginStamps, Parts, Mishaps
  <2> QED BY <1>1, <1>11, <1>49, <2>1, <2>2 DEF BeginStamps, Parts, kernel, boot
<1>50. CASE WriteStamp
  <2>1. up' \in Updates
    <3>1. Idle \in Updates
      BY <1>2 DEF Idle, Nothing, Updates, Phases, ChangeStates
    <3> QED BY <1>12, <1>50, <3>1 DEF WriteStamp, Phases, Stamped, At
  <2>2. stamps' \in [Kinds -> Versions \cup {0}]
    BY <1>1, <1>50 DEF WriteStamp, Stamped, Kinds, Parts, VolumeTyped, Updates
  <2>3. VolumeTyped'
    BY <1>1, <1>50, <2>2 DEF WriteStamp, Parts, VolumeTyped
  <2> QED BY <1>1, <1>5, <1>50, <2>1, <2>3 DEF WriteStamp, Parts, kernel, boot
<1> QED BY <1>21, <1>22, <1>23, <1>24, <1>25, <1>26, <1>27, <1>28, <1>29, <1>30, <1>31, <1>32,
           <1>33, <1>34, <1>35, <1>36, <1>37, <1>38, <1>39, <1>40, <1>41, <1>42, <1>43, <1>44,
           <1>45, <1>46, <1>47, <1>48, <1>49, <1>50 DEF Kextcache

(***************************************************************************)
(* A step that leaves the booters and the directories alone, too, keeps    *)
(* what is known of the booters and of the versions.                       *)
(***************************************************************************)
Quiet(s, t) ==
    \/ s = "copyMisc" /\ t = "label"
    \/ s = "label" /\ t = "unlinkOld" /\ up.doBooters
    \/ s = "label" /\ t = "renameRPS" /\ up.doRPS /\ ~up.doBooters
    \/ s = "label" /\ t = "activateMisc" /\ ~up.doRPS /\ ~up.doBooters
    \/ s = "revertLabel" /\ t = "nukeOld"

\* A step that touches no more than the label of its helper.
LEMMA QuietKeeps ==
    ASSUME IInv, NEW b \in Boots, b = Here, NEW s \in Working, At(s), NEW t \in Working,
           SameFlags, up'.pc = t, Quiet(s, t), UNCHANGED <<volume, rps, boot, dirty, mishaps>>,
           s = "label" /\ t # "nukeOld" => up'.changestate \in {"noLabel", "nothingSerious"},
           s # "label" => up'.changestate = up.changestate,
           \A h \in Boots \ {b} : pre'[h] = pre[h],
           t = "unlinkOld" => ~pre'[b].label, Typed'
    PROVE  IInv'
<1>1. /\ Typed /\ StageKept /\ StampsKept /\ up.pc = s /\ Stage(b) = s /\ HelperKept(b) /\ AgesKept(b)
      /\ (s \notin Clearing => b \notin up.updated)
  BY AtWork
<1>2. Stage(b)' = t
  BY DEF Stage, SameFlags, Here
<1>3. s # t /\ {s, t} \subseteq {"copyMisc", "label", "unlinkOld", "renameRPS", "activateMisc",
                                 "revertLabel", "nukeOld"}
  BY DEF Quiet
<1>4. After1(s, t)
  BY DEF Quiet, After1, Copied, Replacing, Copying, Clearing, Reverting
<1>5. DirsKept(b)' /\ KernelKept(b)'
  BY <1>4, DirsStay DEF boot, Spared
<1>6. StageKept'
  BY <1>1, <1>3 DEF StageKept, SameFlags, Here, Quiet, Working, Copying, Copied, Activating,
                    Reverting, Replacing, Aside
<1>7. Local
  <2>1. Here \notin up.updated \/ (up.updated \cup {Here} = up.updated /\ t \in Clearing)
    BY <1>1 DEF Quiet, Clearing
  <2> QED BY <1>1, <2>1 DEF Local, Elsewhere, SameFlags, boot, Updates, Typed, Here
<1>8. /\ rps'[b] = rps[b] /\ dirty'[b] = dirty[b] /\ mishaps'[b] = mishaps[b]
      /\ booter'[b] = booter[b] /\ old'[b] = old[b] /\ blessed'[b] = blessed[b]
      /\ src' = src /\ stamps' = stamps /\ releases' = releases
  BY DEF boot, volume
<1>9. BootersKept(b)'
  BY <1>1, <1>2, <1>8 DEF HelperKept, BootersKept, BooterKept, Steady, Spared, Quiet, SameFlags,
                          Aside, Activating
<1>10. LabelKept(b)'
  BY <1>2 DEF LabelKept, Quiet, Replacing, Aside
<1>11. NewKept(b)'
  BY <1>1, <1>2, <1>8 DEF AgesKept, NewKept, Quiet, SameFlags, Supports, Spared, Copied, Replacing, Aside, Activating
<1>12. AgeKept(b)'
  BY <1>1, <1>2, <1>8 DEF AgesKept, AgeKept, OldNeeded, Suits, Renewed, Supports, Spared, Quiet,
                          SameFlags, Aside, Reverting, Activating
<1>13. SupportKept(b)' /\ RecoveryKept(b)'
  BY <1>1, <1>2, <1>8 DEF AgesKept, SupportKept, RecoveryKept, Starts, Supports, Spared, SameFlags, Working
<1> QED BY <1>5, <1>6, <1>7, <1>9, <1>10, <1>11, <1>12, <1>13, LocalKeeps DEF HelperKept, AgesKept

\* KextcacheTyped, as the invariant has it.
LEMMA StepTyped ==
    ASSUME IInv, Kextcache
    PROVE  Typed'
  BY KextcacheTyped DEF Typed, KernelTyped, BootTyped, RestTyped, Parts

\* ucopyMisc() fills files that are in nobody's way.
LEMMA CopyMiscKeeps ==
    ASSUME IInv, NEW b \in Boots, b = Here, CopyMisc
    PROVE  IInv'
<1>1. At("copyMisc") /\ "copyMisc" \in Working /\ "label" \in Working /\ "label" \in Phases
  BY DEF CopyMisc, Working, Phases
<1>2. Typed /\ up \in Updates
  BY DEF IInv, Typed
<1>3. SameFlags /\ up'.pc = "label" /\ up'.changestate = up.changestate
  BY <1>1, <1>2, Goes DEF CopyMisc
<1>4. \A h \in Boots \ {b} : pre'[h] = pre[h]
  BY <1>2 DEF CopyMisc, Typed, KernelTyped
<1>5. Typed'
  BY StepTyped DEF Kextcache
<1> QED BY <1>1, <1>3, <1>4, <1>5, QuietKeeps DEF CopyMisc, Quiet

\* revertState() brings the label back when the booter is in place.
LEMMA RevertLabelKeeps ==
    ASSUME IInv, NEW b \in Boots, b = Here, RevertLabel
    PROVE  IInv'
<1>1. At("revertLabel") /\ "revertLabel" \in Working /\ "nukeOld" \in Working /\ "nukeOld" \in Phases
  BY DEF RevertLabel, Working, Phases
<1>2. Typed /\ up \in Updates
  BY DEF IInv, Typed
<1>3. SameFlags /\ up'.pc = "nukeOld" /\ up'.changestate = up.changestate
  BY <1>1, <1>2, Goes DEF RevertLabel
<1>4. \A h \in Boots \ {b} : pre'[h] = pre[h]
  BY <1>2 DEF RevertLabel, Typed, KernelTyped
<1>5. Typed'
  BY StepTyped DEF Kextcache
<1> QED BY <1>1, <1>3, <1>4, <1>5, QuietKeeps DEF RevertLabel, Quiet

\* The label goes before the booter does.
LEMMA LabelKeeps ==
    ASSUME IInv, NEW b \in Boots, b = Here, Label
    PROVE  IInv'
<1> DEFINE on == IF up.doBooters THEN "unlinkOld" ELSE IF up.doRPS THEN "renameRPS" ELSE "activateMisc"
<1>1. At("label") /\ "label" \in Working /\ on \in Working /\ "noLabel" \in ChangeStates
      /\ "failed" \in {"failed", "ENOSPC"} /\ "label" \in Failing
  BY DEF Label, Working, ChangeStates, Failing
<1>2. Typed /\ up \in Updates /\ up.changestate \in ChangeStates
  BY DEF IInv, Typed, Updates
<1>3. \A h \in Boots \ {b} : pre'[h] = pre[h]
  BY <1>2 DEF Label, Typed, KernelTyped
<1>4. Typed'
  BY StepTyped DEF Kextcache
<1>5. UNCHANGED <<volume, rps, boot, dirty, mishaps>>
  BY DEF Label
<1>6. CASE /\ \/ up' = [up EXCEPT !.changestate = "noLabel", !.pc = on]
              \/ Goto(on)
           /\ \/ pre' = [pre EXCEPT ![Here].label = FALSE]
              \/ pre' = [pre EXCEPT ![Here].label = FALSE,
                                    ![Here].labelNew = @ \/ pre[Here].label]
  <2>1. SameFlags /\ up'.pc = on /\ up'.changestate \in {"noLabel", "nothingSerious"}
    <3>1. up.changestate = "nothingSerious"
      BY <1>1 DEF IInv, StageKept, At
    <3> QED BY <1>2, <1>6, <3>1 DEF SameFlags, Updates, Goto
  <2>2. pre'[b].label = FALSE
    BY <1>2, <1>6 DEF Typed, KernelTyped, Pre
  <2>3. Quiet("label", on)
    BY <1>2 DEF Quiet, Updates
  <2> QED BY <1>1, <1>3, <1>4, <1>5, <2>1, <2>2, <2>3, QuietKeeps
<1>7. CASE \E state \in {up.changestate, "noLabel"} : Bootfail("failed", state)
  BY <1>1, <1>2, <1>3, <1>4, <1>5, <1>7, FailsKeeps
<1> QED BY <1>6, <1>7 DEF Label

(***************************************************************************)
(* A step on the booters alone.                                            *)
(***************************************************************************)
LEMMA BooterStep ==
    ASSUME IInv, NEW b \in Boots, b = Here, NEW s \in Working, At(s), NEW t \in Working,
           SameFlags, up'.pc = t, After1(s, t), UNCHANGED <<volume, rps, pre>>,
           \A h \in Boots \ {b} : /\ booter'[h] = booter[h] /\ old'[h] = old[h]
                                  /\ blessed'[h] = blessed[h] /\ dirty'[h] = dirty[h]
                                  /\ mishaps'[h] = mishaps[h],
           \A d \in Dirs : d \in dirty'[b] => d \in dirty[b],
           mishaps[b] \subseteq mishaps'[b],
           blessed'[b] = "recovery" <=> blessed[b] = "recovery",
           t \in Replacing => s \in Replacing,
           Typed', StageKept', BootersKept(b)', NewKept(b)', AgeKept(b)', SupportKept(b)'
    PROVE  IInv'
<1>1. /\ Typed /\ up.pc = s /\ Stage(b) = s /\ HelperKept(b) /\ AgesKept(b)
      /\ (s \notin Clearing => b \notin up.updated)
  BY AtWork
<1>2. \A causes : Spared(b, causes)' => Spared(b, causes)
  BY DEF Spared
<1>3. DirsKept(b)' /\ KernelKept(b)' /\ Stage(b)' = t
  BY <1>2, DirsStay
<1>4. LabelKept(b)'
  BY <1>1, <1>3 DEF HelperKept, LabelKept
<1>5. RecoveryKept(b)'
  BY <1>1, <1>2, <1>3 DEF AgesKept, RecoveryKept, SameFlags, Working
<1>6. Local
  <2>1. Here \notin up.updated \/ (up.updated \cup {Here} = up.updated /\ t \in Clearing)
    BY <1>1 DEF After1, Clearing, Copied, Replacing, Aside
  <2> QED BY <1>1, <2>1 DEF Local, Elsewhere, SameFlags, Updates, Typed, Here
<1> QED BY <1>3, <1>4, <1>5, <1>6, LocalKeeps DEF HelperKept, AgesKept

\* The types of one helper.
LEMMA BlessedTyped ==
    ASSUME Typed, NEW h \in Boots
    PROVE  /\ blessed[h] \in {"booter", "old", "recovery", "nothing"}
           /\ dirty[h] \subseteq Files /\ "recovery" \notin Files /\ "nothing" \notin Files
           /\ booter[h] \in Content /\ old[h] \in Content /\ booter[h] \in Int /\ old[h] \in Int
           /\ rps[h] \in [Dirs -> Content] /\ KernelOf(rps[h]) \in Content
           /\ KernelOf(rps[h]) \in Int /\ CurrentIn(rps[h]) \in Dirs
           /\ "booter" \notin Dirs /\ "old" \notin Dirs
<1>1. CurrentIn(rps[h]) \in Dirs
  BY CurrentIs DEF Typed, KernelTyped
<1>2. /\ blessed[h] \in Blessings /\ dirty[h] \subseteq Files
      /\ booter[h] \in Content /\ old[h] \in Content /\ rps[h] \in [Dirs -> Content]
  BY DEF Typed, KernelTyped, BootTyped, RestTyped
<1>3. KernelOf(rps[h]) \in Content
  BY <1>1, <1>2 DEF KernelOf
<1>4. "recovery" \notin Files /\ "nothing" \notin Files /\ "booter" \notin Dirs /\ "old" \notin Dirs
  BY DEF Files, Dirs
<1> QED BY <1>1, <1>2, <1>3, <1>4, Numbers DEF Blessings

\* The .old booter that goes is not the blessed one.
LEMMA UnlinkOldKeeps ==
    ASSUME IInv, NEW b \in Boots, b = Here, UnlinkOld
    PROVE  IInv'
<1>1. At("unlinkOld") /\ "unlinkOld" \in Working /\ "renameOld" \in Working
  BY DEF UnlinkOld, Working
<1>2. /\ Typed /\ StageKept /\ StampsKept /\ b \in Boots /\ up.pc = "unlinkOld" /\ Stage(b) = "unlinkOld"
      /\ up \in Updates /\ HelperKept(b) /\ AgesKept(b) /\ b \notin up.updated
  BY <1>1, AtWork DEF Clearing
<1>3. SameFlags /\ up'.pc = "renameOld" /\ up'.changestate = "copyingEFIBooter"
  BY <1>2 DEF UnlinkOld, SameFlags, Updates
<1>4. Typed'
  BY StepTyped DEF Kextcache
<1>5. /\ \A h \in Boots \ {b} : /\ booter'[h] = booter[h] /\ old'[h] = old[h]
                                /\ blessed'[h] = blessed[h] /\ dirty'[h] = dirty[h]
                                /\ mishaps'[h] = mishaps[h]
      /\ booter'[b] = booter[b] /\ old'[b] = Absent /\ mishaps'[b] = mishaps[b]
      /\ blessed'[b] = IF blessed[b] = "old" THEN "nothing" ELSE blessed[b]
      /\ dirty'[b] = dirty[b] \ {"old"}
  BY <1>2 DEF UnlinkOld, RemoveOld, DirtyAs, Typed, BootTyped, RestTyped
<1>6. UNCHANGED <<volume, rps, pre>> /\ src' = src /\ stamps' = stamps /\ releases' = releases
  BY DEF UnlinkOld, volume, kernel
<1>7. Stage(b)' = "renameOld"
  BY <1>1, <1>3 DEF Stage, SameFlags, Here
<1>8. After1("unlinkOld", "renameOld")
  BY DEF After1, Copied, Replacing
<1>9. StageKept'
  BY <1>2, <1>3 DEF StageKept, SameFlags, Here, Working, Copying, Copied, Activating,
                    Reverting, Replacing, Aside
<1>10. BootersKept(b)'
  <2>1. Spared(b, BooterLost)' => Steady(b)
    BY <1>2, <1>5 DEF HelperKept, BootersKept, BooterKept, Spared, Aside
  <2> QED BY <1>2, <1>5, <1>7, <2>1, BlessedTyped
          DEF HelperKept, BootersKept, BooterKept, Steady, Aside, Activating
<1>11. NewKept(b)'
  BY <1>2, <1>3, <1>5, <1>6, <1>7
     DEF AgesKept, NewKept, SameFlags, Supports, Spared, Copied, Replacing, Aside, Activating
<1>12. AgeKept(b)' /\ SupportKept(b)'
  BY <1>2, <1>3, <1>5, <1>6, <1>7, Numbers
     DEF AgesKept, AgeKept, Suits, Renewed, SupportKept, Starts, SameFlags, Supports, Spared
<1> QED BY <1>1, <1>3, <1>4, <1>5, <1>6, <1>8, <1>9, <1>10, <1>11, <1>12, BooterStep, BlessedTyped
        DEF Replacing

\* The blessed booter is blessed still when it is renamed.
LEMMA RenameOldKeeps ==
    ASSUME IInv, NEW b \in Boots, b = Here, RenameOld
    PROVE  IInv'
<1>1. At("renameOld") /\ "renameOld" \in Working /\ "createBooter" \in Working /\ "createBooter" \in Phases
      /\ "renameOld" \in Failing /\ "failed" \in {"failed", "ENOSPC"}
  BY DEF RenameOld, Working, Phases, Failing
<1>2. /\ Typed /\ StageKept /\ StampsKept /\ b \in Boots /\ up.pc = "renameOld" /\ Stage(b) = "renameOld"
      /\ up \in Updates /\ HelperKept(b) /\ AgesKept(b) /\ b \notin up.updated
      /\ up.changestate \in ChangeStates
  BY <1>1, AtWork DEF Clearing, Updates
<1>3. Typed'
  BY StepTyped DEF Kextcache
<1>4. CASE Bootfail("failed", up.changestate) /\ UNCHANGED <<boot, dirty>>
  BY <1>1, <1>2, <1>3, <1>4, FailsKeeps DEF RenameOld, kernel
<1>5. CASE /\ Goto("createBooter")
           /\ old' = [old EXCEPT ![Here] = booter[Here]]
           /\ booter' = [booter EXCEPT ![Here] = Absent]
           /\ blessed' = [blessed EXCEPT ![Here] = IF @ = "booter" THEN "old" ELSE @]
           /\ DirtyAs("booter", {"old"})
  <2>1. SameFlags /\ up'.pc = "createBooter" /\ up'.changestate = up.changestate
    BY <1>1, <1>2, <1>5, Goes
  <2>2. /\ \A h \in Boots \ {b} : /\ booter'[h] = booter[h] /\ old'[h] = old[h]
                                  /\ blessed'[h] = blessed[h] /\ dirty'[h] = dirty[h]
                                  /\ mishaps'[h] = mishaps[h]
        /\ booter'[b] = Absent /\ old'[b] = booter[b] /\ mishaps'[b] = mishaps[b]
        /\ blessed'[b] = IF blessed[b] = "booter" THEN "old" ELSE blessed[b]
        /\ dirty'[b] = IF "booter" \in dirty[b] THEN (dirty[b] \ {"booter"}) \cup {"old"}
                       ELSE dirty[b] \ {"old"}
    BY <1>2, <1>5 DEF RenameOld, DirtyAs, Typed, BootTyped, RestTyped
  <2>3. UNCHANGED <<volume, rps, pre>> /\ src' = src /\ stamps' = stamps /\ releases' = releases
    BY DEF RenameOld, volume, kernel
  <2>4. Stage(b)' = "createBooter"
    BY <1>1, <2>1 DEF Stage, SameFlags, Here
  <2>5. After1("renameOld", "createBooter")
    BY DEF After1, Copied, Replacing, Aside
  <2>6. StageKept'
    BY <1>2, <2>1 DEF StageKept, SameFlags, Here, Working, Copying, Copied, Activating,
                      Reverting, Replacing, Aside
  <2>7. old[b] = Absent /\ blessed[b] # "old" /\ blessed[b] \notin dirty[b]
        /\ (blessed[b] = "recovery" => b \in Recovery)
    BY <1>2 DEF HelperKept, BootersKept
  <2>8. BootersKept(b)'
    <3>1. Spared(b, BooterLost)' => Steady(b)
      BY <1>2, <2>2 DEF HelperKept, BootersKept, BooterKept, Spared, Aside
    <3>2. Spared(b, BooterLost)' => BooterKept(b)'
      BY <2>2, <2>4, <2>7, <3>1, Numbers DEF BooterKept, Steady, Aside, Activating
    <3> QED BY <1>2, <2>2, <2>4, <2>7, <3>2, BlessedTyped DEF BootersKept, Activating, Aside
  <2>9. NewKept(b)'
    BY <1>2, <2>1, <2>2, <2>3, <2>4
       DEF AgesKept, NewKept, SameFlags, Supports, Spared, Copied, Replacing, Aside, Activating
  <2>10. AgeKept(b)' /\ SupportKept(b)'
    BY <1>2, <2>1, <2>2, <2>3, <2>4, <2>7, Numbers
       DEF AgesKept, AgeKept, Suits, Renewed, SupportKept, Starts, SameFlags, Supports, Spared
  <2> QED BY <1>1, <1>3, <2>1, <2>2, <2>3, <2>5, <2>6, <2>8, <2>9, <2>10, BooterStep, BlessedTyped, <1>2
          DEF Replacing
<1> QED BY <1>4, <1>5 DEF RenameOld

\* The new booter is not blessed while it is partial.
LEMMA CreateBooterKeeps ==
    ASSUME IInv, NEW b \in Boots, b = Here, CreateBooter
    PROVE  IInv'
<1>1. At("createBooter") /\ "createBooter" \in Working /\ "fillBooter" \in Working
      /\ "fillBooter" \in Phases /\ "createBooter" \in Failing /\ CopyErrors \subseteq {"failed", "ENOSPC"}
  BY DEF CreateBooter, Working, Phases, Failing, CopyErrors
<1>2. /\ Typed /\ StageKept /\ StampsKept /\ b \in Boots /\ up.pc = "createBooter"
      /\ Stage(b) = "createBooter" /\ up.changestate \in ChangeStates
      /\ up \in Updates /\ HelperKept(b) /\ AgesKept(b) /\ b \notin up.updated
  BY <1>1, AtWork DEF Clearing, Updates
<1>3. Typed'
  BY StepTyped DEF Kextcache
<1>4. CASE /\ \E err \in CopyErrors : Bootfail(err, up.changestate)
           /\ UNCHANGED <<booter, dirty>>
  BY <1>1, <1>2, <1>3, <1>4, FailsKeeps DEF CreateBooter, kernel, boot
<1>5. CASE /\ Goto("fillBooter")
           /\ booter' = [booter EXCEPT ![Here] = Partial]
           /\ dirty' = [dirty EXCEPT ![Here] = @ \cup {"booter"}]
  <2>1. SameFlags /\ up'.pc = "fillBooter" /\ up'.changestate = up.changestate
    BY <1>1, <1>2, <1>5, Goes
  <2>2. /\ \A h \in Boots \ {b} : /\ booter'[h] = booter[h] /\ old'[h] = old[h]
                                  /\ blessed'[h] = blessed[h] /\ dirty'[h] = dirty[h]
                                  /\ mishaps'[h] = mishaps[h]
        /\ booter'[b] = Partial /\ old'[b] = old[b] /\ mishaps'[b] = mishaps[b]
        /\ blessed'[b] = blessed[b] /\ dirty'[b] = dirty[b] \cup {"booter"}
    BY <1>2, <1>5 DEF CreateBooter, Typed, BootTyped, RestTyped
  <2>3. UNCHANGED <<volume, rps, pre>> /\ src' = src /\ stamps' = stamps /\ releases' = releases
    BY DEF CreateBooter, volume, kernel
  <2>4. Stage(b)' = "fillBooter"
    BY <1>1, <2>1 DEF Stage, SameFlags, Here
  <2>5. After1("createBooter", "fillBooter")
    BY DEF After1, Copied, Replacing, Aside
  <2>6. StageKept'
    BY <1>2, <2>1 DEF StageKept, SameFlags, Here, Working, Copying, Copied, Activating,
                      Reverting, Replacing, Aside
  <2>7. BootersKept(b)'
    BY <1>2, <2>2, <2>4 DEF HelperKept, BootersKept, BooterKept, Spared, Aside, Activating
  <2>8. NewKept(b)'
    BY <1>2, <2>1, <2>2, <2>3, <2>4
       DEF AgesKept, NewKept, SameFlags, Supports, Spared, Copied, Replacing, Aside, Activating
  <2>9. AgeKept(b)' /\ SupportKept(b)'
    <3>1. OldNeeded(b)
      BY <1>2 DEF OldNeeded, Aside
    <3>2. blessed[b] # "booter"
      BY <1>2 DEF HelperKept, BootersKept
    <3> QED BY <1>2, <2>1, <2>2, <2>3, <3>1, <3>2, Numbers
            DEF AgesKept, AgeKept, Suits, Renewed, SupportKept, Starts, SameFlags, Supports, Spared
  <2> QED BY <1>1, <1>2, <1>3, <2>1, <2>2, <2>3, <2>5, <2>6, <2>7, <2>8, <2>9, BooterStep, BlessedTyped
          DEF Replacing, Aside
<1> QED BY <1>4, <1>5 DEF CreateBooter

\* What is on the volume starts every kernel copied from it.
LEMMA NewestStarts ==
    ASSUME IInv, NEW b \in Boots
    PROVE  /\ src["booter"] \in Versions /\ src["booter"] \in Int /\ Whole(src["booter"])
           /\ src["booter"] >= stamps["booter"] /\ src["booter"] >= 0
           /\ up.pc # "idle" => src["booter"] >= up.tstamps["booter"]
           /\ \A k : Supports(src["booter"], k)
<1>1. StampsKept /\ VolumeTyped /\ up \in Updates
  BY DEF IInv, Typed
<1>2. src["booter"] \in Versions /\ "booter" \in Kinds
  BY <1>1 DEF VolumeTyped, Kinds
<1>3. src["booter"] \in Int /\ stamps["booter"] \in Int /\ up.tstamps["booter"] \in Int
  BY <1>1, <1>2, BootHelpersAssumption DEF VolumeTyped, Versions, Updates
<1> QED BY <1>1, <1>2, <1>3, BootHelpersAssumption DEF StampsKept, Whole, Supports, Versions

\* The new booter starts every kernel of the helper, being the newest.
LEMMA FillBooterKeeps ==
    ASSUME IInv, NEW b \in Boots, b = Here, FillBooter
    PROVE  IInv'
<1>1. At("fillBooter") /\ "fillBooter" \in Working /\ "syncBooters" \in Working
      /\ "syncBooters" \in Phases /\ "fillBooter" \in Failing /\ CopyErrors \subseteq {"failed", "ENOSPC"}
  BY DEF FillBooter, Working, Phases, Failing, CopyErrors
<1>2. /\ Typed /\ StageKept /\ StampsKept /\ b \in Boots /\ up.pc = "fillBooter"
      /\ Stage(b) = "fillBooter" /\ up.changestate \in ChangeStates
      /\ up \in Updates /\ HelperKept(b) /\ AgesKept(b) /\ b \notin up.updated
  BY <1>1, AtWork DEF Clearing, Updates
<1>3. Typed'
  BY StepTyped DEF Kextcache
<1>4. CASE /\ \E err \in CopyErrors : Bootfail(err, up.changestate)
           /\ IF old[Here] = Absent THEN Because("cutShort") ELSE UNCHANGED mishaps
           /\ UNCHANGED booter
  <2>1. /\ \A h \in Boots \ {b} : mishaps'[h] = mishaps[h]
        /\ mishaps[b] \subseteq mishaps'[b] /\ (old[b] = Absent => "cutShort" \in mishaps'[b])
    BY <1>2, <1>4 DEF Because, Typed, RestTyped
  <2>2. UNCHANGED <<volume, rps, boot, dirty, pre>>
    BY <1>4 DEF FillBooter, kernel, boot
  <2> QED BY <1>1, <1>2, <1>3, <1>4, <2>1, <2>2, FailsKeeps
<1>5. CASE /\ booter' = [booter EXCEPT ![Here] = src["booter"]]
           /\ up' = [up EXCEPT !.changestate = "copiedBooters", !.pc = "syncBooters"]
           /\ UNCHANGED mishaps
  <2>1. SameFlags /\ up'.pc = "syncBooters" /\ up'.changestate = "copiedBooters"
    BY <1>2, <1>5 DEF SameFlags, Updates
  <2>2. /\ \A h \in Boots \ {b} : /\ booter'[h] = booter[h] /\ old'[h] = old[h]
                                  /\ blessed'[h] = blessed[h] /\ dirty'[h] = dirty[h]
                                  /\ mishaps'[h] = mishaps[h]
        /\ booter'[b] = src["booter"] /\ old'[b] = old[b] /\ mishaps'[b] = mishaps[b]
        /\ blessed'[b] = blessed[b] /\ dirty'[b] = dirty[b]
    BY <1>2, <1>5 DEF FillBooter, Typed, BootTyped, RestTyped
  <2>3. UNCHANGED <<volume, rps, pre>> /\ src' = src /\ stamps' = stamps /\ releases' = releases
    BY DEF FillBooter, volume, kernel
  <2>4. Stage(b)' = "syncBooters"
    BY <1>1, <2>1 DEF Stage, SameFlags, Here
  <2>5. After1("fillBooter", "syncBooters")
    BY DEF After1, Copied, Replacing, Aside
  <2>6. StageKept'
    BY <1>2, <2>1 DEF StageKept, SameFlags, Here, Working, Copying, Copied, Activating,
                      Reverting, Replacing, Aside
  <2>7. /\ Whole(src["booter"]) /\ src["booter"] >= stamps["booter"]
        /\ src["booter"] >= up.tstamps["booter"] /\ \A k : Supports(src["booter"], k)
    BY <1>2, NewestStarts
  <2>8. BootersKept(b)'
    BY <1>2, <2>2, <2>4, <2>7 DEF HelperKept, BootersKept, BooterKept, Spared, Aside, Activating, Whole
  <2>9. NewKept(b)'
    BY <1>2, <2>1, <2>2, <2>3, <2>4, <2>7
       DEF AgesKept, NewKept, SameFlags, Supports, Spared, Copied, Replacing, Aside, Activating
  <2>10. AgeKept(b)' /\ SupportKept(b)'
    <3>1. OldNeeded(b)
      BY <1>2 DEF OldNeeded, Aside
    <3> QED BY <1>2, <2>1, <2>2, <2>3, <2>7, <3>1
            DEF AgesKept, AgeKept, Suits, Renewed, SupportKept, Starts, SameFlags, Supports, Spared, Whole
  <2> QED BY <1>1, <1>2, <1>3, <2>1, <2>2, <2>3, <2>5, <2>6, <2>8, <2>9, <2>10, BooterStep
          DEF Replacing, Aside
<1> QED BY <1>4, <1>5 DEF FillBooter

\* activateBooters() flushes the booter first.
LEMMA SyncBootersKeeps ==
    ASSUME IInv, NEW b \in Boots, b = Here, SyncBooters
    PROVE  IInv'
<1>1. At("syncBooters") /\ "syncBooters" \in Working /\ "bless" \in Working
      /\ "syncBooters" \in Failing /\ "failed" \in {"failed", "ENOSPC"}
  BY DEF SyncBooters, Working, Failing
<1>2. /\ Typed /\ StageKept /\ StampsKept /\ b \in Boots /\ up.pc = "syncBooters"
      /\ Stage(b) = "syncBooters" /\ up.changestate \in ChangeStates
      /\ up \in Updates /\ HelperKept(b) /\ AgesKept(b) /\ b \notin up.updated
  BY <1>1, AtWork DEF Clearing, Updates
<1>3. Typed'
  BY StepTyped DEF Kextcache
<1>4. CASE Bootfail("failed", up.changestate) /\ UNCHANGED dirty
  BY <1>1, <1>2, <1>3, <1>4, FailsKeeps DEF SyncBooters, kernel
<1>5. CASE /\ up' = [up EXCEPT !.changestate = "activatingEFIBooter", !.pc = "bless"]
           /\ Synced
  <2>1. SameFlags /\ up'.pc = "bless" /\ up'.changestate = "activatingEFIBooter"
    BY <1>2, <1>5 DEF SameFlags, Updates
  <2>2. /\ \A h \in Boots \ {b} : /\ booter'[h] = booter[h] /\ old'[h] = old[h]
                                  /\ blessed'[h] = blessed[h] /\ dirty'[h] = dirty[h]
                                  /\ mishaps'[h] = mishaps[h]
        /\ booter'[b] = booter[b] /\ old'[b] = old[b] /\ mishaps'[b] = mishaps[b]
        /\ blessed'[b] = blessed[b] /\ dirty'[b] = {}
    BY <1>2, <1>5 DEF SyncBooters, Synced, boot, Typed, BootTyped, RestTyped
  <2>3. UNCHANGED <<volume, rps, pre>> /\ src' = src /\ stamps' = stamps /\ releases' = releases
    BY DEF SyncBooters, volume, kernel
  <2>4. Stage(b)' = "bless"
    BY <1>1, <2>1 DEF Stage, SameFlags, Here
  <2>5. After1("syncBooters", "bless")
    BY DEF After1, Copied, Replacing, Aside
  <2>6. StageKept'
    BY <1>2, <2>1 DEF StageKept, SameFlags, Here, Working, Copying, Copied, Activating,
                      Reverting, Replacing, Aside
  <2>7. BootersKept(b)'
    BY <1>2, <2>2, <2>4 DEF HelperKept, BootersKept, BooterKept, Spared, Aside, Activating
  <2>8. NewKept(b)'
    BY <1>2, <2>1, <2>2, <2>3, <2>4
       DEF AgesKept, NewKept, SameFlags, Supports, Spared, Copied, Replacing, Aside, Activating
  <2>9. AgeKept(b)' /\ SupportKept(b)'
    <3>1. OldNeeded(b)
      BY <1>2 DEF OldNeeded, Aside
    <3> QED BY <1>2, <2>1, <2>2, <2>3, <3>1
            DEF AgesKept, AgeKept, Suits, Renewed, SupportKept, Starts, SameFlags, Supports, Spared
  <2> QED BY <1>1, <1>2, <1>3, <2>1, <2>2, <2>3, <2>5, <2>6, <2>7, <2>8, <2>9, BooterStep
          DEF Replacing, Aside
<1> QED BY <1>4, <1>5 DEF SyncBooters

\* The booter blessed is whole and flushed.
LEMMA BlessKeeps ==
    ASSUME IInv, NEW b \in Boots, b = Here, Bless
    PROVE  IInv'
<1> DEFINE t == IF up.doRPS THEN "renameRPS" ELSE "activateMisc"
<1>1. At("bless") /\ "bless" \in Working /\ t \in Working
      /\ "bless" \in Failing /\ "failed" \in {"failed", "ENOSPC"}
  BY DEF Bless, Working, Failing
<1>2. /\ Typed /\ StageKept /\ StampsKept /\ b \in Boots /\ up.pc = "bless"
      /\ Stage(b) = "bless" /\ up.changestate \in ChangeStates /\ up.doBooters
      /\ up \in Updates /\ HelperKept(b) /\ AgesKept(b) /\ b \notin up.updated
  BY <1>1, AtWork DEF Clearing, Updates, StageKept, Replacing, Aside
<1>3. Typed'
  BY StepTyped DEF Kextcache
<1>4. CASE Bootfail("failed", up.changestate) /\ UNCHANGED blessed
  BY <1>1, <1>2, <1>3, <1>4, FailsKeeps DEF Bless, kernel, boot
<1>5. CASE /\ SetBlessing("booter")
           /\ up' = [up EXCEPT !.changestate = "activatedBooters", !.pc = t]
  <2>1. SameFlags /\ up'.pc = t /\ up'.changestate = "activatedBooters"
    BY <1>2, <1>5 DEF SameFlags, Updates
  <2>2. /\ \A h \in Boots \ {b} : Elsewhere(h)
        /\ rps'[b] = rps[b] /\ pre'[b] = pre[b]
        /\ booter'[b] = booter[b] /\ old'[b] = old[b] /\ mishaps'[b] = mishaps[b]
        /\ blessed'[b] = "booter" /\ dirty'[b] = dirty[b]
    BY <1>2, <1>5 DEF Bless, SetBlessing, kernel, Elsewhere, Typed, BootTyped, RestTyped
  <2>3. UNCHANGED <<volume, rps, pre>> /\ src' = src /\ stamps' = stamps /\ releases' = releases
    BY DEF Bless, volume, kernel
  <2>4. Stage(b)' = t
    BY <1>1, <2>1 DEF Stage, SameFlags, Here
  <2>5. After1("bless", t)
    BY DEF After1
  <2>6. StageKept'
    BY <1>2, <2>1 DEF StageKept, SameFlags, Here, Working, Copying, Copied, Activating,
                      Reverting, Replacing, Aside
  <2>7. BootersKept(b)'
    <3>1. Whole(booter[b]) /\ "booter" \notin dirty[b]
          /\ (Spared(b, BooterLost) => old[b] # Partial)
      BY <1>2 DEF HelperKept, BootersKept, BooterKept, Aside
    <3>2. booter[b] # Partial /\ booter[b] # Absent
      BY <1>2, <3>1, Numbers, BlessedTyped
    <3> QED BY <1>2, <2>1, <2>2, <2>4, <3>1, <3>2
            DEF BootersKept, BooterKept, Steady, Spared, Aside, Activating, SameFlags
  <2>8. NewKept(b)'
    BY <1>2, <2>1, <2>2, <2>3, <2>4
       DEF AgesKept, NewKept, SameFlags, Supports, Spared, Copied, Replacing, Aside, Activating
  <2>9. AgeKept(b)' /\ SupportKept(b)' /\ RecoveryKept(b)'
    <3>1. OldNeeded(b)
      BY <1>2 DEF OldNeeded, Aside
    <3>2. Supports(booter[b], KernelOf(rps[b]))
      BY <1>2, BlessedTyped DEF AgesKept, NewKept, KernelOf
    <3> QED BY <1>2, <2>1, <2>2, <2>3, <3>1, <3>2
            DEF AgesKept, AgeKept, Suits, Renewed, SupportKept, RecoveryKept, Starts, SameFlags, Supports, Spared
  <2>10. DirsKept(b)' /\ KernelKept(b)'
    BY <1>1, <2>1, <2>2, <2>3, <2>5, DirsStay DEF Clearing, Spared
  <2>11. LabelKept(b)'
    BY <2>4 DEF LabelKept, Replacing, Aside
  <2>12. Local
    BY <1>1, <1>2, <2>1, <2>2, <2>3 DEF Local, SameFlags, Updates, At, Here
  <2> QED BY <1>3, <2>6, <2>7, <2>8, <2>9, <2>10, <2>11, <2>12, LocalKeeps DEF HelperKept, AgesKept
<1> QED BY <1>4, <1>5 DEF Bless

\* The new directory is current before it is flushed, and after.
LEMMA SyncRPSKeeps ==
    ASSUME IInv, NEW b \in Boots, b = Here, SyncRPS
    PROVE  IInv'
<1>1. At("syncRPS") /\ "syncRPS" \in Working /\ "activateMisc" \in Working
      /\ "activateMisc" \in Phases /\ "syncRPS" \in Failing /\ "failed" \in {"failed", "ENOSPC"}
  BY DEF SyncRPS, Working, Phases, Failing
<1>2. /\ Typed /\ StageKept /\ StampsKept /\ b \in Boots /\ up.pc = "syncRPS"
      /\ Stage(b) = "syncRPS" /\ up.changestate \in ChangeStates
      /\ up \in Updates /\ HelperKept(b) /\ AgesKept(b) /\ b \notin up.updated
  BY <1>1, AtWork DEF Clearing, Updates
<1>3. Typed'
  BY StepTyped DEF Kextcache
<1>4. CASE Bootfail("failed", up.changestate) /\ UNCHANGED dirty
  BY <1>1, <1>2, <1>3, <1>4, FailsKeeps DEF SyncRPS, kernel
<1>5. CASE Goto("activateMisc") /\ Synced
  <2>1. SameFlags /\ up'.pc = "activateMisc" /\ up'.changestate = up.changestate
    BY <1>1, <1>2, <1>5, Goes
  <2>2. /\ \A h \in Boots \ {b} : /\ booter'[h] = booter[h] /\ old'[h] = old[h]
                                  /\ blessed'[h] = blessed[h] /\ dirty'[h] = dirty[h]
                                  /\ mishaps'[h] = mishaps[h]
        /\ booter'[b] = booter[b] /\ old'[b] = old[b] /\ mishaps'[b] = mishaps[b]
        /\ blessed'[b] = blessed[b] /\ dirty'[b] = {} /\ rps'[b] = rps[b]
    BY <1>2, <1>5 DEF SyncRPS, Synced, kernel, boot, Typed, BootTyped, RestTyped
  <2>3. UNCHANGED <<volume, rps, pre>> /\ src' = src /\ stamps' = stamps /\ releases' = releases
    BY DEF SyncRPS, volume, kernel
  <2>4. Stage(b)' = "activateMisc"
    BY <1>1, <2>1 DEF Stage, SameFlags, Here
  <2>5. After1("syncRPS", "activateMisc")
    BY DEF After1
  <2>6. StageKept'
    BY <1>2, <2>1 DEF StageKept, SameFlags, Here, Working, Copying, Copied, Activating,
                      Reverting, Replacing, Aside
  <2>7. BootersKept(b)'
    BY <1>2, <2>1, <2>2, <2>4
       DEF HelperKept, BootersKept, BooterKept, Steady, Spared, Aside, Activating, SameFlags
  <2>8. NewKept(b)'
    BY <1>2, <2>1, <2>2, <2>3, <2>4
       DEF AgesKept, NewKept, SameFlags, Supports, Spared, Copied, Replacing, Aside, Activating
  <2>9. AgeKept(b)' /\ SupportKept(b)'
    <3>1. OldNeeded(b)' => OldNeeded(b)
      BY <1>2, <2>1, <2>2, <2>4 DEF OldNeeded, Aside, Reverting, Activating, SameFlags
    <3> QED BY <1>2, <2>1, <2>2, <2>3, <3>1
            DEF AgesKept, AgeKept, Suits, Renewed, SupportKept, Starts, SameFlags, Supports, Spared
  <2> QED BY <1>1, <1>2, <1>3, <2>1, <2>2, <2>3, <2>5, <2>6, <2>7, <2>8, <2>9, BooterStep
          DEF Replacing, Aside
<1> QED BY <1>4, <1>5 DEF SyncRPS

\* The old booter, taken back while the kernel stays, starts that kernel.
LEMMA OldStarts ==
    ASSUME IInv, NEW b \in Boots, b = Here, At("rebless"), ~up.doRPS, Spared(b, {"optional"})
    PROVE  Starts(old[b], KernelOf(rps[b]))
<1>1. "rebless" \in Working
  BY DEF Working
<1>2. Stage(b) = "rebless" /\ StampsKept /\ Typed /\ AgesKept(b) /\ up.pc \in Updating
  BY <1>1, AtWork DEF Updating, Working, Phases, Stamping
<1>3. Suits(old[b])
  BY <1>2 DEF AgesKept, AgeKept, OldNeeded, Reverting
<1>4. KernelOf(rps[b]) <= stamps["rps"]
  BY <1>2, BlessedTyped DEF StampsKept, KernelOf
<1>5. stamps["rps"] \in Int /\ KernelOf(rps[b]) \in Int /\ releases \subseteq Int
  BY <1>2, BlessedTyped, BootHelpersAssumption DEF Typed, VolumeTyped, Versions, Kinds
<1>6. ASSUME Whole(old[b]), NEW r \in releases, r <= KernelOf(rps[b])
      PROVE  r <= old[b]
  <2>1. r \in Int /\ r <= stamps["rps"]
    BY <1>4, <1>5, <1>6
  <2> QED BY <1>3, <1>6, <2>1 DEF Suits, Supports
<1> QED BY <1>6 DEF Starts, Supports

\* The old booter is blessed again: the new kernel may need the new one.
LEMMA ReblessKeeps ==
    ASSUME IInv, NEW b \in Boots, b = Here, Rebless
    PROVE  IInv'
<1>1. At("rebless") /\ "rebless" \in Working /\ "unlinkNew" \in Working /\ "unlinkNew" \in Phases
  BY DEF Rebless, Working, Phases
<1>2. /\ Typed /\ StageKept /\ StampsKept /\ b \in Boots /\ up.pc = "rebless"
      /\ Stage(b) = "rebless"
      /\ up \in Updates /\ HelperKept(b) /\ AgesKept(b) /\ b \notin up.updated
  BY <1>1, AtWork DEF Clearing, Updates
<1>3. Typed'
  BY StepTyped DEF Kextcache
<1>4. SameFlags /\ up'.pc = "unlinkNew" /\ up'.changestate = up.changestate /\ up'.result = up.result
  BY <1>1, <1>2, Goes DEF Rebless
<1>5. /\ \A h \in Boots \ {b} : /\ booter'[h] = booter[h] /\ old'[h] = old[h]
                                /\ blessed'[h] = blessed[h] /\ dirty'[h] = dirty[h]
                                /\ mishaps'[h] = mishaps[h]
      /\ booter'[b] = booter[b] /\ old'[b] = old[b] /\ mishaps[b] \subseteq mishaps'[b]
      /\ dirty'[b] \subseteq dirty[b]
      /\ \/ /\ old[b] # Absent /\ blessed'[b] = "old" /\ dirty'[b] = {}
            /\ up.doRPS => "revertedLate" \in mishaps'[b]
         \/ old[b] # Absent /\ blessed'[b] = blessed[b] /\ "notReblessed" \in mishaps'[b]
         \/ old[b] = Absent /\ blessed'[b] = blessed[b]
  BY <1>2 DEF Rebless, SetBlessing, Synced, Because, Typed, BootTyped, RestTyped
<1>6. UNCHANGED <<volume, rps, pre>> /\ src' = src /\ stamps' = stamps /\ releases' = releases
      /\ rps'[b] = rps[b]
  BY DEF Rebless, volume, kernel
<1>7. Stage(b)' = "unlinkNew"
  BY <1>1, <1>4 DEF Stage, SameFlags, Here
<1>8. After1("rebless", "unlinkNew")
  BY DEF After1, Copying, Clearing, Reverting
<1>9. StageKept'
  BY <1>2, <1>4 DEF StageKept, SameFlags, Here, Working, Copying, Copied, Activating,
                    Reverting, Replacing, Aside
<1>10. blessed[b] = "booter" /\ Whole(booter[b]) /\ blessed[b] \notin dirty[b]
  BY <1>2 DEF HelperKept, BootersKept
<1>11. \A causes : Spared(b, causes)' => Spared(b, causes)
  BY <1>5 DEF Spared
<1>12. BootersKept(b)'
  <2>1. Spared(b, BooterLost)' => BooterKept(b)'
    <3>1. Spared(b, BooterLost)' => old[b] # Partial /\ Steady(b) /\ "notReblessed" \notin mishaps'[b]
      BY <1>2, <1>11 DEF HelperKept, BootersKept, BooterKept, Spared, BooterLost, Aside
    <3> QED BY <1>5, <1>7, <1>10, <3>1 DEF BooterKept, Steady, Aside, Activating
  <2> QED BY <1>5, <1>7, <1>10, <2>1 DEF BootersKept, Activating, Aside
<1>13. NewKept(b)'
  BY <1>7 DEF NewKept, Copied, Replacing, Aside, Activating
<1>14. AgeKept(b)'
  <2>1. OldNeeded(b)
    BY <1>2 DEF OldNeeded, Reverting
  <2> QED BY <1>2, <1>4, <1>5, <1>6, <1>11, <2>1
          DEF AgesKept, AgeKept, Suits, SameFlags, Supports
<1>15. SupportKept(b)'
  <2>1. SUFFICES ASSUME Spared(b, BooterAged)'
                 PROVE  /\ blessed'[b] = "booter" => Starts(booter[b], KernelOf(rps[b]))'
                        /\ blessed'[b] = "old" => Starts(old[b], KernelOf(rps[b]))'
    BY DEF SupportKept
  <2>2. Spared(b, BooterAged) /\ Spared(b, {"optional"}) /\ "revertedLate" \notin mishaps'[b]
    BY <1>11, <2>1 DEF Spared, BooterAged
  <2>3. Starts(booter[b], KernelOf(rps[b]))
    BY <1>2, <1>10, <2>2 DEF AgesKept, SupportKept
  <2>4. ~up.doRPS => Starts(old[b], KernelOf(rps[b]))
    BY <1>1, <2>2, OldStarts
  <2> QED BY <1>5, <1>6, <1>10, <2>2, <2>3, <2>4 DEF Starts, Supports
<1> QED BY <1>1, <1>2, <1>3, <1>4, <1>5, <1>6, <1>8, <1>9, <1>10, <1>12, <1>13, <1>14, <1>15, BooterStep
        DEF Replacing, Aside

\* The new booter goes when the old one is blessed.
LEMMA UnlinkNewKeeps ==
    ASSUME IInv, NEW b \in Boots, b = Here, UnlinkNew
    PROVE  IInv'
<1> DEFINE t == IF old[b] = Absent THEN "revertLabel" ELSE "restoreOld"
<1>1. At("unlinkNew") /\ "unlinkNew" \in Working /\ t \in Working /\ t \in Phases
  BY DEF UnlinkNew, Working, Phases
<1>2. /\ Typed /\ StageKept /\ StampsKept /\ b \in Boots /\ up.pc = "unlinkNew"
      /\ Stage(b) = "unlinkNew"
      /\ up \in Updates /\ HelperKept(b) /\ AgesKept(b) /\ b \notin up.updated
  BY <1>1, AtWork DEF Clearing, Updates
<1>3. Typed'
  BY StepTyped DEF Kextcache
<1>4. SameFlags /\ up'.pc = t /\ up'.changestate = up.changestate /\ up'.result = up.result
  <2>1. Goto(t)
    BY DEF UnlinkNew
  <2> HIDE DEF t
  <2> QED BY <1>1, <1>2, <2>1, Goes
<1>5. /\ \A h \in Boots \ {b} : /\ booter'[h] = booter[h] /\ old'[h] = old[h]
                                /\ blessed'[h] = blessed[h] /\ dirty'[h] = dirty[h]
                                /\ mishaps'[h] = mishaps[h]
      /\ old'[b] = old[b] /\ mishaps'[b] = mishaps[b]
      /\ old[b] = Absent => booter'[b] = booter[b] /\ blessed'[b] = blessed[b] /\ dirty'[b] = dirty[b]
      /\ old[b] # Absent => /\ booter'[b] = Absent /\ dirty'[b] = dirty[b] \ {"booter"}
                            /\ blessed'[b] = IF blessed[b] = "booter" THEN "nothing" ELSE blessed[b]
  BY <1>2 DEF UnlinkNew, DirtyAs, boot, Typed, BootTyped, RestTyped
<1>6. UNCHANGED <<volume, rps, pre>> /\ src' = src /\ stamps' = stamps /\ releases' = releases
      /\ rps'[b] = rps[b]
  BY DEF UnlinkNew, volume, kernel
<1>7. Stage(b)' = t
  BY <1>1, <1>4 DEF Stage, SameFlags, Here
<1>8. After1("unlinkNew", t)
  BY DEF After1, Copying, Clearing, Reverting
<1>9. StageKept'
  BY <1>2, <1>4 DEF StageKept, SameFlags, Here, Working, Copying, Copied, Activating,
                    Reverting, Replacing, Aside
<1>10. BootersKept(b)'
  <2>1. Spared(b, BooterLost)' => BooterKept(b)'
    <3>1. Spared(b, BooterLost)' => /\ old[b] # Partial
                                    /\ old[b] = Absent => Steady(b)
                                    /\ old[b] # Absent => blessed[b] \in {"old", "recovery"}
      BY <1>2, <1>5 DEF HelperKept, BootersKept, BooterKept, Spared, Aside
    <3> QED BY <1>5, <1>7, <3>1 DEF BooterKept, Steady, Aside, Activating
  <2>2. (blessed[b] = "recovery" => b \in Recovery) /\ blessed[b] \notin dirty[b]
    BY <1>2 DEF HelperKept, BootersKept
  <2> QED BY <1>2, <1>5, <1>7, <2>1, <2>2, BlessedTyped DEF BootersKept, Activating, Aside
<1>11. NewKept(b)'
  BY <1>7 DEF NewKept, Copied, Replacing, Aside, Activating
<1>12. AgeKept(b)' /\ SupportKept(b)'
  <2>1. OldNeeded(b)
    BY <1>2 DEF OldNeeded, Reverting
  <2>2. \A causes : Spared(b, causes)' => Spared(b, causes)
    BY <1>5 DEF Spared
  <2> QED BY <1>2, <1>4, <1>5, <1>6, <2>1, <2>2, Numbers
          DEF AgesKept, AgeKept, SupportKept, Starts, Suits, SameFlags, Supports
<1> QED BY <1>1, <1>2, <1>3, <1>4, <1>5, <1>6, <1>8, <1>9, <1>10, <1>11, <1>12, BooterStep, BlessedTyped
        DEF Replacing, Aside

\* The old booter is back in its place, or that is noted.
LEMMA RestoreOldKeeps ==
    ASSUME IInv, NEW b \in Boots, b = Here, RestoreOld
    PROVE  IInv'
<1>1. At("restoreOld") /\ "restoreOld" \in Working /\ "revertLabel" \in Working /\ "revertLabel" \in Phases
  BY DEF RestoreOld, Working, Phases
<1>2. /\ Typed /\ StageKept /\ StampsKept /\ b \in Boots /\ up.pc = "restoreOld"
      /\ Stage(b) = "restoreOld"
      /\ up \in Updates /\ HelperKept(b) /\ AgesKept(b) /\ b \notin up.updated
  BY <1>1, AtWork DEF Clearing, Updates
<1>3. Typed'
  BY StepTyped DEF Kextcache
<1>4. SameFlags /\ up'.pc = "revertLabel" /\ up'.changestate = up.changestate /\ up'.result = up.result
  BY <1>1, <1>2, Goes DEF RestoreOld
<1>5. /\ \A h \in Boots \ {b} : /\ booter'[h] = booter[h] /\ old'[h] = old[h]
                                /\ blessed'[h] = blessed[h] /\ dirty'[h] = dirty[h]
                                /\ mishaps'[h] = mishaps[h]
      /\ mishaps[b] \subseteq mishaps'[b]
      /\ \/ /\ booter'[b] = old[b] /\ old'[b] = Absent
            /\ blessed'[b] = IF blessed[b] = "old" THEN "booter" ELSE blessed[b]
            /\ dirty'[b] = IF "old" \in dirty[b] THEN (dirty[b] \ {"old"}) \cup {"booter"}
                           ELSE dirty[b] \ {"booter"}
         \/ /\ booter'[b] = booter[b] /\ old'[b] = old[b] /\ blessed'[b] = blessed[b]
            /\ dirty'[b] = dirty[b] /\ "notRestored" \in mishaps'[b]
  BY <1>2, ZenonT(60) DEF RestoreOld, DirtyAs, Because, boot, Typed, BootTyped, RestTyped
<1>6. UNCHANGED <<volume, rps, pre>> /\ src' = src /\ stamps' = stamps /\ releases' = releases
      /\ rps'[b] = rps[b]
  BY DEF RestoreOld, volume, kernel
<1>7. Stage(b)' = "revertLabel"
  BY <1>1, <1>4 DEF Stage, SameFlags, Here
<1>8. After1("restoreOld", "revertLabel")
  BY DEF After1, Copying, Clearing, Reverting
<1>9. StageKept'
  BY <1>2, <1>4 DEF StageKept, SameFlags, Here, Working, Copying, Copied, Activating,
                    Reverting, Replacing, Aside
<1>10. \A causes : Spared(b, causes)' => Spared(b, causes)
  BY <1>5 DEF Spared
<1>11. (blessed[b] = "recovery" => b \in Recovery) /\ blessed[b] \notin dirty[b] /\ blessed[b] # "booter"
  BY <1>2 DEF HelperKept, BootersKept
<1>12. BootersKept(b)'
  <2>1. Spared(b, BooterLost)' => BooterKept(b)'
    <3>1. Spared(b, BooterLost)' => /\ old[b] \notin {Absent, Partial} /\ "notRestored" \notin mishaps'[b]
                                    /\ blessed[b] \in {"old", "recovery"}
      BY <1>2, <1>10 DEF HelperKept, BootersKept, BooterKept, Spared, BooterLost, Aside
    <3> QED BY <1>5, <1>7, <3>1 DEF BooterKept, Steady, Aside, Activating
  <2> QED BY <1>2, <1>5, <1>7, <1>11, <2>1, BlessedTyped DEF BootersKept, Activating, Aside
<1>13. NewKept(b)'
  BY <1>7 DEF NewKept, Copied, Replacing, Aside, Activating
<1>14. AgeKept(b)' /\ SupportKept(b)'
  <2>1. OldNeeded(b)
    BY <1>2 DEF OldNeeded, Reverting
  <2> QED BY <1>2, <1>4, <1>5, <1>6, <1>10, <1>11, <2>1, Numbers
          DEF AgesKept, AgeKept, SupportKept, Starts, Suits, SameFlags, Supports
<1> QED BY <1>1, <1>2, <1>3, <1>4, <1>5, <1>6, <1>8, <1>9, <1>12, <1>13, <1>14, BooterStep, BlessedTyped
        DEF Replacing, Aside

\* nukeFallbacks() removes a booter that is not blessed.
LEMMA NukeOldKeeps ==
    ASSUME IInv, NEW b \in Boots, b = Here, NukeOld
    PROVE  IInv'
<1> DEFINE t == IF up.doRPS THEN "nukeRPS" ELSE "unmount"
<1>1. At("nukeOld") /\ "nukeOld" \in Working /\ t \in Working /\ t \in Phases
  BY DEF NukeOld, Working, Phases
<1>2. /\ Typed /\ StageKept /\ StampsKept /\ b \in Boots /\ up.pc = "nukeOld"
      /\ Stage(b) = "nukeOld" /\ up \in Updates /\ HelperKept(b) /\ AgesKept(b)
  BY <1>1, AtWork
<1>3. Typed'
  BY StepTyped DEF Kextcache
<1>4. SameFlags /\ up'.pc = t /\ up'.changestate = up.changestate /\ up'.result = up.result
  <2>1. Goto(t)
    BY DEF NukeOld
  <2> HIDE DEF t
  <2> QED BY <1>1, <1>2, <2>1, Goes
<1>5. /\ \A h \in Boots \ {b} : /\ booter'[h] = booter[h] /\ old'[h] = old[h]
                                /\ blessed'[h] = blessed[h] /\ dirty'[h] = dirty[h]
                                /\ mishaps'[h] = mishaps[h]
      /\ booter'[b] = booter[b] /\ mishaps'[b] = mishaps[b] /\ dirty'[b] \subseteq dirty[b]
      /\ \/ old'[b] = old[b] /\ blessed'[b] = blessed[b]
         \/ old'[b] = Absent /\ blessed'[b] = IF blessed[b] = "old" THEN "nothing" ELSE blessed[b]
  BY <1>2 DEF NukeOld, RemoveOld, DirtyAs, boot, Typed, BootTyped, RestTyped
<1>6. UNCHANGED <<volume, rps, pre>> /\ src' = src /\ stamps' = stamps /\ releases' = releases
      /\ rps'[b] = rps[b]
  BY DEF NukeOld, volume, kernel
<1>7. Stage(b)' = t
  BY <1>1, <1>4 DEF Stage, SameFlags, Here
<1>8. After1("nukeOld", t)
  BY DEF After1, Clearing
<1>9. StageKept'
  BY <1>2, <1>4 DEF StageKept, SameFlags, Here, Working, Copying, Copied, Activating,
                    Reverting, Replacing, Aside
<1>10. \A causes : Spared(b, causes)' => Spared(b, causes)
  BY <1>5 DEF Spared
<1>11. BootersKept(b)'
  <2>1. Spared(b, BooterLost)' => BooterKept(b)'
    <3>1. Spared(b, BooterLost)' => Steady(b)
      BY <1>2, <1>10 DEF HelperKept, BootersKept, BooterKept, Aside
    <3> QED BY <1>5, <1>7, <3>1 DEF BooterKept, Steady, Aside, Activating
  <2>2. (blessed[b] = "recovery" => b \in Recovery) /\ blessed[b] \notin dirty[b]
    BY <1>2 DEF HelperKept, BootersKept
  <2> QED BY <1>2, <1>5, <1>7, <2>1, <2>2, BlessedTyped DEF BootersKept, Activating, Aside
<1>12. NewKept(b)'
  BY <1>7 DEF NewKept, Copied, Replacing, Aside, Activating
<1>13. AgeKept(b)' /\ SupportKept(b)'
  <2>1. OldNeeded(b)' => OldNeeded(b) \/ old'[b] = Absent
    BY <1>5, <1>7 DEF OldNeeded, Aside, Reverting, Activating
  <2> QED BY <1>2, <1>4, <1>5, <1>6, <1>10, <2>1, Numbers
          DEF AgesKept, AgeKept, SupportKept, Starts, Suits, Renewed, SameFlags, Supports
<1> QED BY <1>1, <1>2, <1>3, <1>4, <1>5, <1>6, <1>8, <1>9, <1>11, <1>12, <1>13, BooterStep, BlessedTyped
        DEF Replacing, Aside

(***************************************************************************)
(* activateMisc() ends the update of a helper: what it puts right is right.*)
(***************************************************************************)
\* The numbers of a helper and of the volume.
LEMMA Ints ==
    ASSUME Typed, NEW h \in Boots
    PROVE  /\ \A k \in Kinds : src[k] \in Int /\ stamps[k] \in Int /\ up.tstamps[k] \in Int
           /\ releases \subseteq Int /\ "rps" \in Kinds /\ "booter" \in Kinds
           /\ booter[h] \in Int /\ old[h] \in Int /\ KernelOf(rps[h]) \in Int
           /\ \A d \in Dirs : rps[h][d] \in Int
<1>1. /\ src \in [Kinds -> Versions] /\ stamps \in [Kinds -> Versions \cup {0}]
      /\ up.tstamps \in [Kinds -> Versions \cup {0}] /\ releases \subseteq Versions
  BY DEF Typed, VolumeTyped, Updates
<1>2. Versions \subseteq Int
  BY BootHelpersAssumption DEF Versions
<1>3. "rps" \in Kinds /\ "booter" \in Kinds
  BY DEF Kinds
<1>4. \A k \in Kinds : src[k] \in Int /\ stamps[k] \in Int /\ up.tstamps[k] \in Int
  <2>1. Versions \cup {0} \subseteq Int
    BY <1>2
  <2> QED BY <1>1, <2>1
<1>5. \A d \in Dirs : rps[h][d] \in Int
  BY BlessedTyped, Numbers
<1> QED BY <1>1, <1>2, <1>3, <1>4, <1>5, BlessedTyped

\* A later booter starts all an earlier one does, and an earlier kernel too.
LEMMA SupportsMore ==
    ASSUME NEW b \in Int, NEW c \in Int, NEW k \in Int, NEW l \in Int, releases \subseteq Int,
           Supports(b, k), b <= c, l <= k
    PROVE  Supports(c, l)
  BY DEF Supports

\* What activateMisc() takes off the list of mishaps has been put right.
LEMMA UpdatedRight ==
    ASSUME IInv, NEW b \in Boots, b = Here, At("activateMisc")
    PROVE  /\ LET left == mishaps[b] \ Repaired
                  spared(causes) == left \cap causes = {}
              IN  /\ spared(BooterLost) => Steady(b)
                  /\ spared(KernelLost) => Whole(KernelOf(rps[b]))
                  /\ spared(KernelAged) => Good(KernelOf(rps[b]), stamps["rps"])
                                           /\ Good(KernelOf(rps[b]), up.tstamps["rps"])
                  /\ spared({"optional"}) =>
                        /\ Suits(booter[b]) /\ Renewed(booter[b])
                        /\ blessed[b] = "old" => Suits(old[b]) /\ Renewed(old[b])
                  /\ spared(BooterAged) =>
                        /\ blessed[b] = "booter" => Starts(booter[b], KernelOf(rps[b]))
                        /\ blessed[b] = "old" => Starts(old[b], KernelOf(rps[b]))
                  /\ blessed[b] = "recovery" /\ "force" \in up.opts =>
                        ~spared({"recoveryKept", "forced"})
<1> DEFINE left == mishaps[b] \ Repaired
           spared(causes) == left \cap causes = {}
           K == KernelOf(rps[b])
<1>1. "activateMisc" \in Working /\ "activateMisc" \notin Clearing /\ "activateMisc" \in Updating
      /\ "activateMisc" # "idle"
  BY DEF Working, Clearing, Updating, Phases, Stamping
<1>2. /\ Typed /\ StageKept /\ StampsKept /\ up.pc = "activateMisc" /\ Stage(b) = "activateMisc"
      /\ HelperKept(b) /\ AgesKept(b) /\ up \in Updates
  BY <1>1, AtWork
<1>3. up.doRPS \in BOOLEAN /\ up.doBooters \in BOOLEAN
  BY <1>2 DEF Updates
<1>4. /\ K \in Int /\ booter[b] \in Int /\ old[b] \in Int /\ releases \subseteq Int
      /\ stamps["rps"] \in Int /\ stamps["booter"] \in Int
      /\ up.tstamps["rps"] \in Int /\ up.tstamps["booter"] \in Int
      /\ K \in Content /\ booter[b] \in Content
  BY <1>2, Ints, BlessedTyped
<1>5. /\ stamps["rps"] <= up.tstamps["rps"] /\ stamps["booter"] <= up.tstamps["booter"]
      /\ Supports(up.tstamps["booter"], up.tstamps["rps"])
      /\ ~up.doBooters => up.tstamps["booter"] = stamps["booter"]
      /\ ~up.doRPS => up.tstamps["rps"] = stamps["rps"]
  BY <1>1, <1>2 DEF StampsKept, Kinds
<1>6. up.doRPS => Whole(K) /\ K >= up.tstamps["rps"]
  BY <1>2 DEF HelperKept, DirsKept, AgesKept, NewKept
<1>7. up.doBooters => /\ blessed[b] = "booter" /\ Whole(booter[b])
                      /\ booter[b] >= up.tstamps["booter"] /\ Supports(booter[b], K)
  BY <1>2, BlessedTyped DEF HelperKept, BootersKept, AgesKept, NewKept, Activating, KernelOf
<1>8. /\ ~up.doRPS => \A causes \in {KernelLost, KernelAged} : spared(causes) => Spared(b, causes)
      /\ ~up.doBooters => \A causes \in {BooterLost, {"recoveryKept", "forced"}, {"changedUnderCopy"}} :
                             spared(causes) => Spared(b, causes)
      /\ ~(up.doRPS /\ up.doBooters) /\ spared({"optional"}) => Spared(b, {"optional"})
      /\ ~up.doRPS /\ ~up.doBooters /\ spared(BooterAged) => Spared(b, BooterAged)
      /\ spared(BooterAged) => spared({"changedUnderCopy"}) /\ spared({"optional"})
  BY DEF Spared, Repaired, BooterLost, KernelLost, KernelAged, BooterAged
<1> HIDE DEF left
<1>9. spared(BooterLost) => Steady(b)
  <2>1. CASE up.doBooters
    BY <1>4, <1>7, <2>1, Numbers DEF Steady
  <2>2. CASE ~up.doBooters
    BY <1>2, <1>8, <2>2 DEF HelperKept, BootersKept, BooterKept, Aside
  <2> QED BY <2>1, <2>2
<1>10. spared(KernelLost) => Whole(K)
  <2>1. CASE ~up.doRPS
    BY <1>2, <1>8, <2>1 DEF HelperKept, KernelKept, KernelThere, Good, Copying, Clearing
  <2> QED BY <1>6, <2>1
<1>11. spared(KernelAged) => Good(K, stamps["rps"]) /\ Good(K, up.tstamps["rps"])
  <2>1. CASE up.doRPS
    BY <1>4, <1>5, <1>6, <2>1 DEF Good
  <2>2. CASE ~up.doRPS
    BY <1>2, <1>5, <1>8, <2>2 DEF HelperKept, KernelKept, KernelThere, Copying, Clearing
  <2> QED BY <2>1, <2>2
<1>12. ASSUME NEW c \in {booter[b], old[b]}, Spared(b, {"optional"}), ~up.doBooters, Suits(c)
       PROVE  Renewed(c)
  <2>1. SUFFICES ASSUME Whole(c) PROVE c >= up.tstamps["booter"] /\ Supports(c, up.tstamps["rps"])
    BY DEF Renewed
  <2>2. c >= up.tstamps["booter"]
    BY <1>5, <1>12, <2>1 DEF Suits
  <2> QED BY <1>4, <1>5, <2>2, SupportsMore
<1>13. Spared(b, {"optional"}) => Suits(booter[b]) /\ (blessed[b] = "old" => Suits(old[b]))
  BY <1>2 DEF AgesKept, AgeKept, OldNeeded
<1>14. spared({"optional"}) => /\ Suits(booter[b]) /\ Renewed(booter[b])
                               /\ blessed[b] = "old" => Suits(old[b]) /\ Renewed(old[b])
  <2>1. CASE ~up.doBooters
    BY <1>8, <1>12, <1>13, <2>1
  <2>2. CASE up.doBooters /\ up.doRPS
    <3>1. up.tstamps["rps"] <= K /\ stamps["rps"] <= K
      BY <1>4, <1>5, <1>6, <2>2
    <3>2. Supports(booter[b], up.tstamps["rps"]) /\ Supports(booter[b], stamps["rps"])
      BY <1>4, <1>7, <2>2, <3>1, SupportsMore
    <3> QED BY <1>4, <1>5, <1>7, <2>2, <3>2 DEF Suits, Renewed
  <2>3. CASE up.doBooters /\ ~up.doRPS
    BY <1>5, <1>7, <1>8, <1>13, <2>3 DEF Suits, Renewed
  <2> QED BY <1>3, <2>1, <2>2, <2>3
<1>15. spared(BooterAged) => /\ blessed[b] = "booter" => Starts(booter[b], K)
                             /\ blessed[b] = "old" => Starts(old[b], K)
  <2>1. CASE up.doBooters
    BY <1>7, <2>1 DEF Starts
  <2>2. CASE ~up.doBooters /\ up.doRPS
    <3>1. SUFFICES ASSUME spared(BooterAged)
                   PROVE  /\ blessed[b] = "booter" => Starts(booter[b], K)
                          /\ blessed[b] = "old" => Starts(old[b], K)
      OBVIOUS
    <3>2. Supports(up.tstamps["booter"], K)
      BY <1>2, <1>8, <2>2, <3>1 DEF AgesKept, NewKept
    <3>3. Suits(booter[b]) /\ (blessed[b] = "old" => Suits(old[b]))
      BY <1>8, <1>13, <2>2, <3>1
    <3>4. ASSUME NEW c \in {booter[b], old[b]}, Suits(c), Whole(c)
          PROVE  Supports(c, K)
      <4>1. up.tstamps["booter"] <= c /\ c \in Int
        BY <1>4, <1>5, <2>2, <3>4 DEF Suits
      <4> QED BY <1>4, <3>2, <4>1, SupportsMore
    <3> QED BY <3>3, <3>4 DEF Starts
  <2>3. CASE ~up.doBooters /\ ~up.doRPS
    BY <1>2, <1>8, <2>3 DEF AgesKept, SupportKept
  <2> QED BY <1>3, <2>1, <2>2, <2>3
<1>16. blessed[b] = "recovery" /\ "force" \in up.opts => ~spared({"recoveryKept", "forced"})
  BY <1>2, <1>7, <1>8 DEF AgesKept, RecoveryKept
<1> QED BY <1>9, <1>10, <1>11, <1>14, <1>15, <1>16 DEF left

\* An updated helper has what the stamps are to say.
LEMMA ActivateMiscKeeps ==
    ASSUME IInv, NEW b \in Boots, b = Here, ActivateMisc
    PROVE  IInv'
<1>1. At("activateMisc") /\ "activateMisc" \in Working /\ "nukeOld" \in Working
      /\ "activateMisc" \in Failing /\ "failed" \in {"failed", "ENOSPC"}
  BY DEF ActivateMisc, Working, Failing
<1>2. /\ Typed /\ StageKept /\ StampsKept /\ b \in Boots /\ up.pc = "activateMisc"
      /\ Stage(b) = "activateMisc" /\ up.changestate \in ChangeStates
      /\ up \in Updates /\ HelperKept(b) /\ AgesKept(b) /\ b \notin up.updated
  BY <1>1, AtWork DEF Clearing, Updates
<1>3. Typed'
  BY StepTyped DEF Kextcache
<1>4. \A h \in Boots \ {b} : pre'[h] = pre[h]
  BY <1>2 DEF ActivateMisc, Typed, KernelTyped
<1>5. CASE Bootfail("failed", up.changestate) /\ UNCHANGED mishaps
  BY <1>1, <1>2, <1>3, <1>4, <1>5, FailsKeeps DEF ActivateMisc
<1>6. CASE /\ up' = [up EXCEPT !.changestate = "nothingSerious", !.pc = "nukeOld",
                               !.updated = @ \cup {Here}, !.result = "ok"]
           /\ mishaps' = [mishaps EXCEPT ![Here] = @ \ Repaired]
  <2>1. /\ up'.bootIdx = up.bootIdx /\ up'.opts = up.opts /\ up'.tstamps = up.tstamps
        /\ up'.doRPS = up.doRPS /\ up'.doBooters = up.doBooters /\ up'.doMisc = up.doMisc
        /\ up'.updated = up.updated \cup {Here}
        /\ up'.pc = "nukeOld" /\ up'.changestate = "nothingSerious"
    BY <1>2, <1>6 DEF Updates
  <2>2. /\ \A h \in Boots \ {b} : mishaps'[h] = mishaps[h]
        /\ mishaps'[b] = mishaps[b] \ Repaired
    BY <1>2, <1>6 DEF Typed, RestTyped
  <2>3. /\ UNCHANGED <<volume, rps, boot, dirty>> /\ src' = src /\ stamps' = stamps /\ releases' = releases
        /\ rps'[b] = rps[b] /\ dirty'[b] = dirty[b]
        /\ booter'[b] = booter[b] /\ old'[b] = old[b] /\ blessed'[b] = blessed[b]
    BY DEF ActivateMisc, volume, boot
  <2>4. Stage(b)' = "nukeOld"
    BY <1>1, <2>1 DEF Stage, Here
  <2>5. StageKept'
    BY <1>2, <2>1 DEF StageKept, Here, Working, Copying, Copied, Activating,
                      Reverting, Replacing, Aside
  <2>6. Local
    BY <1>1, <1>2, <1>4, <2>1, <2>2, <2>3
       DEF Local, Elsewhere, boot, Updates, Here, Clearing
  <2> DEFINE spared(causes) == (mishaps[b] \ Repaired) \cap causes = {}
  <2>7. \A causes : Spared(b, causes)' <=> spared(causes)
    BY <2>2 DEF Spared
  <2>8. /\ spared(BooterLost) => Steady(b)
        /\ spared(KernelLost) => Whole(KernelOf(rps[b]))
        /\ spared(KernelAged) => Good(KernelOf(rps[b]), stamps["rps"])
                                 /\ Good(KernelOf(rps[b]), up.tstamps["rps"])
        /\ spared({"optional"}) =>
              /\ Suits(booter[b]) /\ Renewed(booter[b])
              /\ blessed[b] = "old" => Suits(old[b]) /\ Renewed(old[b])
        /\ spared(BooterAged) =>
              /\ blessed[b] = "booter" => Starts(booter[b], KernelOf(rps[b]))
              /\ blessed[b] = "old" => Starts(old[b], KernelOf(rps[b]))
        /\ blessed[b] = "recovery" /\ "force" \in up.opts =>
              ~spared({"recoveryKept", "forced"})
    BY <1>1, UpdatedRight
  <2> HIDE DEF spared
  <2>9. DirsKept(b)'
    BY <1>2, <2>3, <2>4 DEF HelperKept, DirsKept, Copying, Copied, Replacing, Aside
  <2>10. BootersKept(b)'
    BY <1>2, <2>3, <2>4, <2>7, <2>8
       DEF HelperKept, BootersKept, BooterKept, Steady, Aside, Activating
  <2>11. KernelKept(b)' /\ LabelKept(b)'
    <3>1. Whole(KernelOf(rps[b])) => KernelOf(rps[b]) >= 0
      BY <1>2, BlessedTyped, Numbers
    <3> QED BY <2>3, <2>4, <2>7, <2>8, <3>1
            DEF KernelKept, KernelThere, Good, LabelKept, Copying, Clearing, Replacing, Aside
  <2>12. NewKept(b)'
    BY <2>4 DEF NewKept, Copied, Replacing, Aside, Activating
  <2>13. AgeKept(b)'
    <3>1. OldNeeded(b)' => blessed[b] = "old"
      BY <2>3, <2>4 DEF OldNeeded, Aside, Reverting, Activating
    <3> QED BY <2>1, <2>3, <2>7, <2>8, <3>1 DEF AgeKept, Suits, Renewed, Supports
  <2>14. SupportKept(b)' /\ RecoveryKept(b)'
    BY <2>1, <2>3, <2>4, <2>7, <2>8 DEF SupportKept, RecoveryKept, Starts, Supports
  <2> QED BY <1>3, <2>5, <2>6, <2>9, <2>10, <2>11, <2>12, <2>13, <2>14, LocalKeeps
          DEF HelperKept, AgesKept
<1> QED BY <1>5, <1>6 DEF ActivateMisc

(***************************************************************************)
(* A step on the directories leaves the booters as they are, but for the   *)
(* Recovery OS, which it may bless.                                        *)
(***************************************************************************)
LEMMA DirStep ==
    ASSUME IInv, NEW b \in Boots, b = Here, NEW s \in Working, At(s), NEW t \in Working,
           up'.pc = t, {s, t} \cap (Replacing \cup Reverting) = {}, s \in Clearing => t \in Clearing,
           up'.bootIdx = up.bootIdx, up'.opts = up.opts, up'.tstamps = up.tstamps,
           up'.doRPS = up.doRPS, up.doBooters => up'.doBooters,
           up'.doBooters # up.doBooters => s = "eraseCur",
           up'.updated = up.updated,
           t \in Activating => s \in Activating,
           ~up.doRPS => UNCHANGED rps,
           UNCHANGED <<volume, pre, booter, old>>,
           \A h \in Boots \ {b} : /\ rps'[h] = rps[h] /\ blessed'[h] = blessed[h]
                                  /\ dirty'[h] = dirty[h] /\ mishaps'[h] = mishaps[h],
           \/ blessed'[b] = blessed[b]
           \/ /\ blessed'[b] = "recovery" /\ b \in Recovery /\ s = "recovery"
              /\ "force" \in up.opts => "forced" \in mishaps'[b],
           \A f \in {"booter", "old"} : f \in dirty'[b] => f \in dirty[b],
           mishaps[b] \subseteq mishaps'[b],
           b \in up.updated => KernelOf(rps'[b]) = KernelOf(rps[b]),
           Typed', StageKept', DirsKept(b)', KernelKept(b)', NewKept(b)', SupportKept(b)'
    PROVE  IInv'
<1>1. /\ Typed /\ StageKept /\ up.pc = s /\ Stage(b) = s /\ HelperKept(b) /\ AgesKept(b)
      /\ up \in Updates /\ (s \notin Clearing => b \notin up.updated)
  BY AtWork
<1>2. \A causes : Spared(b, causes)' => Spared(b, causes)
  BY DEF Spared
<1>3. Stage(b)' = t
  BY DEF Stage, Here
<1>4. /\ booter'[b] = booter[b] /\ old'[b] = old[b] /\ pre'[b] = pre[b]
      /\ src' = src /\ stamps' = stamps /\ releases' = releases
  BY DEF volume
<1>5. s \notin Replacing \cup Reverting /\ t \notin Replacing \cup Reverting
      /\ Aside \subseteq Replacing
  BY DEF Replacing
<1>6. "recovery" \notin Activating /\ "eraseCur" \notin Activating /\ "out" \notin Working
  BY DEF Activating, Working
<1>7. LabelKept(b)'
  BY <1>3, <1>5 DEF LabelKept
<1>8. BootersKept(b)'
  <2>1. ASSUME Spared(b, BooterLost)'
        PROVE  Steady(b) /\ BooterKept(b)
    BY <1>1, <1>2, <1>5, <2>1 DEF HelperKept, BootersKept, BooterKept, Reverting
  <2>2. ASSUME Spared(b, BooterLost)'
        PROVE  BooterKept(b)'
    BY <1>1, <1>3, <1>4, <1>5, <1>6, <2>1, <2>2 DEF BooterKept, Steady, Reverting
  <2>3. /\ blessed[b] = "recovery" => b \in Recovery
        /\ blessed[b] \notin dirty[b]
        /\ Stage(b) \in Activating /\ up.doBooters => blessed[b] = "booter" /\ Whole(booter[b])
    BY <1>1 DEF HelperKept, BootersKept
  <2>4. blessed'[b] \notin dirty'[b]
    <3>1. dirty'[b] \subseteq Files
      BY DEF Typed, RestTyped
    <3>2. blessed[b] \in Dirs => FALSE
      BY <1>1, BlessedTyped DEF Dirs
    <3> QED BY <1>1, <2>3, <3>1, <3>2, BlessedTyped DEF Files
  <2> QED BY <1>1, <1>3, <1>4, <1>5, <1>6, <2>2, <2>3, <2>4
          DEF BootersKept, Replacing, Reverting, Aside
<1>9. AgeKept(b)'
  <2>1. OldNeeded(b)' => OldNeeded(b)
    BY <1>1, <1>3, <1>5, <1>6 DEF OldNeeded
  <2> QED BY <1>1, <1>2, <1>4, <2>1 DEF AgesKept, AgeKept, Suits, Renewed, Supports
<1>10. RecoveryKept(b)'
  BY <1>1, <1>2, <1>3, <1>6 DEF AgesKept, RecoveryKept, Spared
<1>11. Local
  <2>1. Here \notin up.updated \/ (up.updated \cup {Here} = up.updated /\ t \in Clearing)
    BY <1>1
  <2>2. \A h \in Boots \ {Here} : Elsewhere(h)
    BY DEF Elsewhere
  <2>3. {up.doRPS, up'.doRPS, up.doBooters, up'.doBooters} \subseteq BOOLEAN
    BY <1>1 DEF Typed, Updates
  <2>4. ~up'.doRPS => UNCHANGED rps
    OBVIOUS
  <2> QED BY <1>1, <2>1, <2>2, <2>3, <2>4 DEF Local
<1> QED BY <1>7, <1>8, <1>9, <1>10, <1>11, LocalKeeps DEF HelperKept, AgesKept

\* The kernel that stays, the booter starts as before.
LEMMA SupportStays ==
    ASSUME IInv, NEW b \in Boots,
           UNCHANGED <<releases, booter, old>>, mishaps[b] \subseteq mishaps'[b],
           blessed'[b] \in {blessed[b], "recovery"},
           \/ KernelOf(rps'[b]) = KernelOf(rps[b])
           \/ ~Whole(KernelOf(rps'[b]))
           \/ Spared(b, BooterAged)' => blessed'[b] = "recovery"
    PROVE  SupportKept(b)'
<1>1. AgesKept(b) /\ Typed
  BY DEF IInv
<1>2. Spared(b, BooterAged)' => Spared(b, BooterAged)
  BY DEF Spared
<1> QED BY <1>1, <1>2 DEF AgesKept, SupportKept, Starts, Supports

\* The directories erased are not the current one.
LEMMA OthersErased ==
    ASSUME NEW f \in [Dirs -> Content], NEW d \in Dirs, NEW c \in {Absent, Partial},
           \/ PresentIn(f) = Dirs /\ d = "P"
           \/ PresentIn(f) # Dirs /\ d = Before[CurrentIn(f)] /\ f[d] # Absent
    PROVE  KernelOf([f EXCEPT ![d] = c]) = KernelOf(f)
<1> DEFINE g == [f EXCEPT ![d] = c]
           r == CurrentIn(f)
<1>1. g \in [Dirs -> Content] /\ g[d] = c /\ \A e \in Dirs : e # d => g[e] = f[e]
  BY Numbers
<1>2. r \in Dirs
  BY CurrentIs
<1> HIDE DEF g
<1>3. CASE PresentIn(f) = Dirs /\ d = "P"
  <2>1. \A e \in Dirs : f[e] # Absent
    BY <1>3 DEF PresentIn
  <2>2. r = "R" /\ "R" \in Dirs /\ After["R"] = "P"
    BY <2>1, CurrentIs DEF Dirs, After
  <2>3. g["R"] = f["R"] /\ g["R"] # Absent
    BY <1>1, <1>3, <2>1, <2>2
  <2>4. CASE c = Absent
    BY <1>1, <1>3, <2>2, <2>3, <2>4, CurrentIs, ZenonT(60) DEF KernelOf, g
  <2>5. CASE c = Partial
    <3>1. \A e \in Dirs : g[e] # Absent
      BY <1>1, <2>1, <2>5 DEF Absent, Partial
    <3> QED BY <1>1, <2>2, <2>3, <3>1, CurrentIs DEF KernelOf, g
  <2> QED BY <2>4, <2>5
<1>4. CASE PresentIn(f) # Dirs /\ d = Before[r] /\ f[d] # Absent
  <2>1. \E e \in Dirs : f[e] = Absent
    BY <1>4 DEF PresentIn
  <2>2. f[r] # Absent
    BY <1>4, CurrentIs
  <2>3. f[After[r]] = Absent /\ After[r] \in Dirs /\ After[r] # d /\ r # d
    BY <1>2, <1>4, <2>1, <2>2, CurrentIs, Cycle
  <2>4. g[r] = f[r] /\ g[After[r]] = Absent
    BY <1>1, <1>2, <2>3
  <2>5. CurrentIn(g) = r
    BY <1>1, <1>2, <2>2, <2>4, CurrentIs
  <2> QED BY <2>4, <2>5 DEF KernelOf, g
<1> QED BY <1>3, <1>4

\* A helper with one directory changed.
LEMMA OneDir ==
    ASSUME Typed, NEW b \in Boots, NEW d \in Dirs, NEW c,
           rps'[b] = [rps[b] EXCEPT ![d] = c]
    PROVE  rps'[b][d] = c /\ \A e \in Dirs : e # d => rps'[b][e] = rps[b][e]
<1>1. rps[b] \in [Dirs -> Content]
  BY DEF Typed, KernelTyped
<1> QED BY <1>1

\* What sdeepunlink() of a directory leaves.
Erased(b, d, c) ==
    /\ rps'[b] = [rps[b] EXCEPT ![d] = c] /\ rps'[b][d] = c
    /\ \A e \in Dirs : e # d => rps'[b][e] = rps[b][e]
    /\ \A h \in Boots \ {b} : rps'[h] = rps[h] /\ dirty'[h] = dirty[h]
    /\ dirty'[b] \subseteq dirty[b] /\ (c = Absent => d \notin dirty'[b])
    /\ c = Partial => rps[b][d] # Absent

\* The three outcomes of a step of eraseRPS().
LEMMA Erases ==
    ASSUME Typed, NEW b \in Boots, b = Here, NEW d \in Dirs
    PROVE  /\ Emptying(d) => Erased(b, d, Partial) /\ UNCHANGED <<up, dirty>>
           /\ Emptied(d) => Erased(b, d, Absent)
           /\ EraseFails(d) /\ UNCHANGED dirty => Erased(b, d, Partial)
<1>0. Absent # Partial
  BY DEF Absent, Partial
<1>1. ASSUME Emptying(d) PROVE Erased(b, d, Partial) /\ UNCHANGED <<up, dirty>>
  <2>1. rps[b][d] # Absent /\ rps' = [rps EXCEPT ![b][d] = Partial] /\ UNCHANGED <<up, dirty>>
    BY <1>1, BlessedTyped, Numbers DEF Emptying
  <2>2. /\ rps'[b] = [rps[b] EXCEPT ![d] = Partial]
        /\ \A h \in Boots \ {b} : rps'[h] = rps[h]
    BY <2>1 DEF Typed, KernelTyped
  <2> QED BY <1>0, <2>1, <2>2, OneDir DEF Erased
<1>2. ASSUME Emptied(d) PROVE Erased(b, d, Absent)
  <2>1. rps' = [rps EXCEPT ![b][d] = Absent]
    BY <1>2 DEF Emptied
  <2>2. /\ dirty'[b] = dirty[b] \ {d}
        /\ \A h \in Boots \ {b} : dirty'[h] = dirty[h]
    BY <1>2 DEF Emptied, DirtyAs, Typed, RestTyped
  <2>3. /\ rps'[b] = [rps[b] EXCEPT ![d] = Absent]
        /\ \A h \in Boots \ {b} : rps'[h] = rps[h]
    BY <2>1 DEF Typed, KernelTyped
  <2> QED BY <1>0, <2>2, <2>3, OneDir DEF Erased
<1>3. ASSUME EraseFails(d), UNCHANGED dirty PROVE Erased(b, d, Partial)
  <2>1. rps[b][d] # Absent /\ rps' = [rps EXCEPT ![b][d] = Partial]
    BY <1>3 DEF EraseFails
  <2>2. /\ rps'[b] = [rps[b] EXCEPT ![d] = Partial]
        /\ \A h \in Boots \ {b} : rps'[h] = rps[h]
    BY <2>1 DEF Typed, KernelTyped
  <2> QED BY <1>0, <1>3, <2>1, <2>2, OneDir DEF Erased
<1> QED BY <1>1, <1>2, <1>3

\* What holds of the directories at every stage.
DirsAlways(h) ==
    /\ \A d \in Dirs : d \in dirty[h] => rps[h][d] # Absent
    /\ \A d \in Dirs : rps[h][d] <= src["rps"]
    /\ FirstDirs[h] # Dirs => \E d \in Dirs : rps[h][d] = Absent

\* Erasing makes no directory newer and adds none.
LEMMA ErasedKeeps ==
    ASSUME IInv, NEW b \in Boots, NEW d \in Dirs, NEW c \in {Absent, Partial}, Erased(b, d, c),
           UNCHANGED volume
    PROVE  DirsAlways(b)'
<1>1. DirsKept(b) /\ Typed
  BY DEF IInv, HelperKept
<1>2. src' = src /\ src["rps"] >= 0 /\ src["rps"] \in Int
  BY <1>1, BootHelpersAssumption DEF volume, Typed, VolumeTyped, Kinds, Versions
<1>3. \A e \in Dirs : e \in dirty'[b] => rps'[b][e] # Absent
  BY <1>1 DEF Erased, DirsKept, Absent, Partial
<1>4. \A e \in Dirs : rps'[b][e] <= src'["rps"]
  BY <1>1, <1>2 DEF Erased, DirsKept, Absent, Partial
<1>5. FirstDirs[b] # Dirs => \E e \in Dirs : rps'[b][e] = Absent
  BY <1>1 DEF Erased, DirsKept, Absent, Partial
<1> QED BY <1>3, <1>4, <1>5 DEF DirsAlways

\* Erasing another directory than the current one leaves the kernel.
LEMMA OtherErasedSame ==
    ASSUME NEW b \in Boots, rps[b] \in [Dirs -> Content], NEW d \in Dirs,
           NEW c \in {Absent, Partial}, Erased(b, d, c),
           \/ PresentIn(rps[b]) = Dirs /\ d = "P"
           \/ PresentIn(rps[b]) # Dirs /\ d = Before[CurrentIn(rps[b])]
    PROVE  KernelOf(rps'[b]) = KernelOf(rps[b])
<1>1. CASE rps[b][d] # Absent
  <2>1. KernelOf([rps[b] EXCEPT ![d] = c]) = KernelOf(rps[b])
    BY <1>1, OthersErased, Zenon
  <2> QED BY <2>1 DEF Erased
<1>2. CASE rps[b][d] = Absent
  <2>1. c = Absent
    BY <1>2 DEF Erased
  <2>2. rps'[b] = rps[b]
    BY <1>2, <2>1 DEF Erased
  <2> QED BY <2>2
<1> QED BY <1>1, <1>2

\* Erasing another directory than the current one, with all three there or
\* before the next update.
LEMMA OtherErasedKeeps ==
    ASSUME IInv, NEW b \in Boots, b = Here, NEW s \in {"findRPS", "nukeRPS"}, At(s),
           NEW t \in {"findRPS", "nukeOld", "nukeRPS", "unmount"}, up'.pc = t,
           s = "findRPS" <=> t \in {"findRPS", "nukeOld"},
           NEW d \in Dirs, NEW c \in {Absent, Partial}, Erased(b, d, c),
           \/ PresentIn(rps[b]) = Dirs /\ d = "P"
           \/ PresentIn(rps[b]) # Dirs /\ d = Before[CurrentIn(rps[b])],
           SameFlags, up.doRPS, UNCHANGED <<volume, pre, boot, mishaps>>, Typed', StageKept'
    PROVE  IInv'
<1>1. s \in Working /\ t \in Working /\ (s \in Clearing => t \in Clearing)
      /\ {s, t} \cap (Replacing \cup Reverting) = {} /\ t \notin Activating /\ s # "recovery"
      /\ {s, t} \cap (Copying \cup Copied \cup Activating) = {}
  BY DEF Working, Clearing, Replacing, Reverting, Aside, Activating, Copying, Copied
<1>2. /\ Typed /\ StageKept /\ up.pc = s /\ Stage(b) = s /\ HelperKept(b) /\ AgesKept(b)
      /\ rps[b] \in [Dirs -> Content]
  BY <1>1, AtWork, BlessedTyped
<1>3. KernelOf(rps'[b]) = KernelOf(rps[b])
  BY <1>2, OtherErasedSame
<1>4. Stage(b)' = t
  BY <1>1 DEF Stage, SameFlags, Here
<1>5. DirsKept(b)'
  BY <1>1, <1>4, ErasedKeeps DEF DirsAlways, DirsKept
<1>6. /\ blessed' = blessed /\ mishaps' = mishaps /\ stamps' = stamps /\ booter' = booter
      /\ old' = old /\ releases' = releases
  BY DEF boot, volume
<1>7. KernelKept(b)'
  BY <1>1, <1>2, <1>3, <1>4, <1>6 DEF HelperKept, KernelKept, KernelThere, Spared
<1>8. NewKept(b)'
  BY <1>1, <1>4 DEF NewKept, Copied, Replacing, Aside, Reverting
<1>9. SupportKept(b)'
  BY <1>3, <1>6, SupportStays
<1>10. up'.updated = up.updated /\ up'.doBooters = up.doBooters
  BY DEF SameFlags
<1> QED BY <1>1, <1>3, <1>5, <1>6, <1>7, <1>8, <1>9, <1>10, DirStep DEF SameFlags, Erased

\* Of three directories R is current and P goes.
LEMMA EraseThirdKeeps ==
    ASSUME IInv, NEW b \in Boots, b = Here, EraseThird
    PROVE  IInv'
<1>1. At("findRPS") /\ "findRPS" \in Working /\ "P" \in Dirs /\ up.doRPS
      /\ PresentIn(rps[b]) = Dirs
  BY KernelIs DEF EraseThird, Working, Dirs
<1>2. Typed /\ StageKept /\ up \in Updates /\ up.changestate \in ChangeStates /\ up.pc = "findRPS"
      /\ up.changestate = "nothingSerious"
  BY <1>1, AtWork DEF Updates, StageKept
<1>3. Typed'
  BY StepTyped DEF Kextcache
<1>4. UNCHANGED <<volume, pre, boot, mishaps>>
  BY DEF EraseThird
<1>5. \/ Erased(b, "P", Partial) /\ up' = up
      \/ Erased(b, "P", Absent) /\ up' = up
      \/ Erased(b, "P", Partial) /\ Bootfail("failed", up.changestate)
  BY <1>1, <1>2, Erases DEF EraseThird
<1>6. /\ SameFlags /\ StageKept'
      /\ up'.pc \in {"findRPS", "nukeOld"}
  <2>1. CASE up' = up
    BY <1>2, <2>1 DEF SameFlags, StageKept, Here
  <2>2. CASE Bootfail("failed", up.changestate)
    <3>1. SameFlags /\ up'.pc = "nukeOld" /\ up'.changestate = up.changestate
      BY <1>2, <2>2, Bootfails DEF RevertFrom
    <3> QED BY <1>1, <1>2, <3>1 DEF StageKept, SameFlags, Here, Working, Copying, Copied, Activating,
                               Reverting, Replacing, Aside
  <2> QED BY <1>5, <2>1, <2>2
<1> QED BY <1>1, <1>3, <1>4, <1>5, <1>6, OtherErasedKeeps

\* The directory before the current one goes.
LEMMA NukeRPSKeeps ==
    ASSUME IInv, NEW b \in Boots, b = Here, NukeRPS
    PROVE  IInv'
<1> DEFINE d == IF Present(Here) = Dirs THEN "P" ELSE Before[Current(Here)]
<1>1. At("nukeRPS") /\ "nukeRPS" \in Working /\ "P" \in Dirs /\ "unmount" \in Phases
      /\ "nukeRPS" \in Clearing
  BY DEF NukeRPS, Working, Dirs, Phases, Clearing
<1>2. Typed /\ StageKept /\ up \in Updates /\ up.pc = "nukeRPS" /\ Stage(b) = "nukeRPS"
      /\ StampsKept
  BY <1>1, AtWork
<1>3. Typed'
  BY StepTyped DEF Kextcache
<1>4. UNCHANGED <<volume, pre, boot, mishaps>>
  BY DEF NukeRPS
<1>5. d \in Dirs /\ (\/ PresentIn(rps[b]) = Dirs /\ d = "P"
                     \/ PresentIn(rps[b]) # Dirs /\ d = Before[CurrentIn(rps[b])])
  BY <1>1, <1>2, KernelIs, CurrentIs, BlessedTyped, Cycle
<1>6. \/ Emptying(d)
      \/ Emptied(d) /\ (UNCHANGED up \/ Goto("unmount"))
      \/ EraseFails(d) /\ Goto("unmount") /\ UNCHANGED dirty
  BY DEF NukeRPS
<1> HIDE DEF d
<1>7. \E c \in {Absent, Partial} : Erased(b, d, c) /\ (up' = up \/ Goto("unmount"))
  BY <1>2, <1>5, <1>6, Erases
<1>8. SameFlags /\ StageKept' /\ up'.pc \in {"nukeRPS", "unmount"}
  <2>1. CASE up' = up
    BY <1>2, <2>1 DEF SameFlags, StageKept, Here
  <2>2. CASE Goto("unmount")
    <3>1. SameFlags /\ up'.pc = "unmount" /\ up'.changestate = up.changestate
      BY <1>1, <1>2, <2>2, Goes
    <3> QED BY <1>1, <1>2, <3>1 DEF StageKept, SameFlags, Here, Working, Copying, Copied, Activating,
                               Reverting, Replacing, Aside
  <2> QED BY <1>7, <2>1, <2>2
<1>9. up.doRPS
  BY <1>2 DEF StageKept
<1> QED BY <1>1, <1>3, <1>4, <1>5, <1>7, <1>8, <1>9, OtherErasedKeeps

(***************************************************************************)
(* The directory to write to: the kernel is the one after it, or, with     *)
(* that erased, what is written.                                           *)
(***************************************************************************)
LEMMA Target ==
    ASSUME IInv, NEW b \in Boots, b = Here, NEW s \in Copying, At(s)
    PROVE  /\ up.dstdir \in Dirs /\ rps[b] \in [Dirs -> Content]
           /\ After[up.dstdir] \in Dirs /\ Before[up.dstdir] \in Dirs
           /\ Dirs = {up.dstdir, After[up.dstdir], Before[up.dstdir]}
           /\ After[up.dstdir] # up.dstdir /\ Before[up.dstdir] # up.dstdir
           /\ After[up.dstdir] # Before[up.dstdir]
           /\ rps[b][Before[up.dstdir]] = Absent /\ up.doRPS
           /\ KernelOf(rps[b]) = IF Spare(b) = Absent THEN rps[b][up.dstdir] ELSE Spare(b)
           /\ s \in Working /\ s \notin Clearing
           /\ Typed /\ StageKept /\ StampsKept /\ up.pc = s /\ Stage(b) = s
           /\ HelperKept(b) /\ AgesKept(b) /\ up \in Updates /\ up.changestate \in ChangeStates
           /\ up.changestate = "nothingSerious"
<1>1. s \in Working /\ s \notin Clearing
  BY DEF Working, Copying, Clearing
<1>2. /\ Typed /\ StageKept /\ StampsKept /\ up.pc = s /\ Stage(b) = s
      /\ HelperKept(b) /\ AgesKept(b) /\ up \in Updates /\ up.changestate \in ChangeStates
  BY <1>1, AtWork DEF Updates
<1>3. up.dstdir \in Dirs /\ up.doRPS /\ up.changestate = "nothingSerious"
  BY <1>2 DEF StageKept
<1>4. rps[b][Before[up.dstdir]] = Absent
  BY <1>2 DEF HelperKept, DirsKept
<1>5. rps[b] \in [Dirs -> Content]
  BY <1>2, BlessedTyped
<1>6. KernelOf(rps[b]) = IF Spare(b) = Absent THEN rps[b][up.dstdir] ELSE Spare(b)
  BY <1>3, <1>4, <1>5, TwoDirs DEF Spare
<1> QED BY <1>1, <1>2, <1>3, <1>4, <1>5, <1>6, Cycle

\* Emptying and making that directory does not touch the kernel.
LEMMA TargetStep ==
    ASSUME IInv, NEW b \in Boots, b = Here, NEW s \in {"eraseDst", "mkdir", "copyRPS"}, At(s),
           NEW t \in {"eraseDst", "mkdir", "copyRPS", "nukeOld"}, up'.pc = t, SameFlags,
           UNCHANGED <<volume, pre, boot>>,
           \A h \in Boots \ {b} : rps'[h] = rps[h] /\ dirty'[h] = dirty[h] /\ mishaps'[h] = mishaps[h],
           \A e \in Dirs : e # up.dstdir => rps'[b][e] = rps[b][e],
           ~Whole(rps'[b][up.dstdir]),
           \A f \in {"booter", "old"} : f \in dirty'[b] => f \in dirty[b],
           mishaps[b] \subseteq mishaps'[b],
           Typed', StageKept', DirsAlways(b)',
           t = "mkdir" => rps'[b][up.dstdir] = Absent,
           t = "copyRPS" => rps'[b][up.dstdir] = Partial
    PROVE  IInv'
<1>1. s \in Copying /\ t \in Working /\ {s, t} \cap (Replacing \cup Reverting) = {}
      /\ t \notin Copied \cup Activating \cup Reverting \cup Replacing
      /\ (t # "nukeOld" => t \in Copying /\ t \notin Clearing) /\ s # "recovery" /\ s # "eraseCur"
      /\ "nukeOld" \in Clearing /\ "nukeOld" \notin Copying
  BY DEF Copying, Working, Copied, Activating, Reverting, Replacing, Clearing, Aside
<1>2. /\ up.dstdir \in Dirs /\ rps[b] \in [Dirs -> Content]
      /\ After[up.dstdir] \in Dirs /\ Before[up.dstdir] \in Dirs
      /\ After[up.dstdir] # up.dstdir /\ Before[up.dstdir] # up.dstdir
      /\ rps[b][Before[up.dstdir]] = Absent /\ up.doRPS
      /\ KernelOf(rps[b]) = IF Spare(b) = Absent THEN rps[b][up.dstdir] ELSE Spare(b)
      /\ s \in Working /\ s \notin Clearing
      /\ Typed /\ StageKept /\ up.pc = s /\ Stage(b) = s /\ HelperKept(b) /\ AgesKept(b)
  BY <1>1, Target
<1>3. rps'[b] \in [Dirs -> Content]
  BY DEF Typed, KernelTyped
<1>4. rps'[b][Before[up.dstdir]] = Absent /\ up'.dstdir = up.dstdir
      /\ Spare(b)' = rps'[b][After[up.dstdir]] /\ Spare(b)' = Spare(b)
  BY <1>2 DEF SameFlags, Spare
<1>5. KernelOf(rps'[b]) = IF Spare(b) = Absent THEN rps'[b][up.dstdir] ELSE Spare(b)
  <2>1. KernelOf(rps'[b]) = IF rps'[b][After[up.dstdir]] = Absent THEN rps'[b][up.dstdir]
                            ELSE rps'[b][After[up.dstdir]]
    BY <1>2, <1>3, <1>4, TwoDirs
  <2>2. rps'[b][After[up.dstdir]] = Spare(b)
    BY <1>4
  <2> QED BY <2>1, <2>2
<1>6. Stage(b)' = t
  BY <1>1 DEF Stage, SameFlags, Here
<1>7. DirsKept(b)'
  BY <1>1, <1>4, <1>6 DEF DirsKept, DirsAlways
<1>8. /\ blessed' = blessed /\ stamps' = stamps /\ booter' = booter /\ old' = old /\ releases' = releases
  BY DEF boot, volume
<1>9. \A causes : Spared(b, causes)' => Spared(b, causes)
  BY DEF Spared
<1>10. ASSUME NEW v, KernelThere(b, v)
       PROVE  KernelThere(b, v)'
  <2>1. Good(Spare(b), v) \/ (Spare(b) = Absent /\ blessed[b] = "recovery")
    BY <1>1, <1>2, <1>10 DEF KernelThere
  <2>2. Good(Spare(b), v) => Spare(b) # Absent
    BY Numbers DEF Good
  <2>3. CASE t = "nukeOld"
    BY <1>1, <1>5, <1>6, <1>8, <2>1, <2>2, <2>3 DEF KernelThere
  <2>4. CASE t # "nukeOld"
    BY <1>1, <1>4, <1>6, <1>8, <2>1, <2>4 DEF KernelThere
  <2> QED BY <2>3, <2>4
<1>11. KernelKept(b)'
  BY <1>2, <1>8, <1>9, <1>10 DEF HelperKept, KernelKept
<1>12. NewKept(b)'
  BY <1>1, <1>6 DEF NewKept, Copied, Replacing, Aside, Reverting, Activating
<1>13. SupportKept(b)'
  <2>1. KernelOf(rps'[b]) = KernelOf(rps[b]) \/ ~Whole(KernelOf(rps'[b]))
    BY <1>2, <1>5
  <2> QED BY <1>8, <2>1, SupportStays
<1>14. /\ up'.updated = up.updated /\ up'.doBooters = up.doBooters
       /\ b \notin up.updated
  BY <1>1, <1>2, AtWork DEF SameFlags
<1> QED BY <1>1, <1>2, <1>7, <1>8, <1>11, <1>12, <1>13, <1>14, DirStep DEF SameFlags

\* ucopyRPS() empties the directory before the current one.
LEMMA EraseDstKeeps ==
    ASSUME IInv, NEW b \in Boots, b = Here, EraseDst
    PROVE  IInv'
<1>1. At("eraseDst") /\ "eraseDst" \in Copying /\ "mkdir" \in Phases
  BY DEF EraseDst, Copying, Phases
<1>2. /\ up.dstdir \in Dirs /\ Typed /\ StageKept /\ up \in Updates /\ up.changestate \in ChangeStates
      /\ up.changestate = "nothingSerious" /\ up.pc = "eraseDst"
  BY <1>1, Target
<1>3. Typed'
  BY StepTyped DEF Kextcache
<1>4. UNCHANGED <<volume, pre, boot, mishaps>>
  BY DEF EraseDst
<1>5. \/ Erased(b, up.dstdir, Partial) /\ up' = up
      \/ Erased(b, up.dstdir, Absent) /\ Goto("mkdir")
      \/ Erased(b, up.dstdir, Partial) /\ Bootfail("failed", up.changestate)
  BY <1>2, Erases DEF EraseDst
<1>6. \E t \in {"eraseDst", "mkdir", "nukeOld"} :
         /\ SameFlags /\ up'.pc = t /\ up'.changestate = up.changestate
         /\ t = "mkdir" => Erased(b, up.dstdir, Absent)
  <2>1. CASE up' = up
    BY <1>2, <2>1 DEF SameFlags
  <2>2. CASE Erased(b, up.dstdir, Absent) /\ Goto("mkdir")
    BY <1>1, <1>2, <2>2, Goes
  <2>3. CASE Bootfail("failed", up.changestate)
    <3>1. SameFlags /\ up'.pc = "nukeOld" /\ up'.changestate = up.changestate
      BY <1>2, <2>3, Bootfails DEF RevertFrom
    <3> QED BY <3>1
  <2> QED BY <1>5, <2>1, <2>2, <2>3
<1>7. StageKept'
  BY <1>1, <1>2, <1>6 DEF StageKept, SameFlags, Here, Working, Copying, Copied, Activating,
                     Reverting, Replacing, Aside
<1>8. PICK c \in {Absent, Partial} : Erased(b, up.dstdir, c)
  BY <1>5
<1>9. ~Whole(rps'[b][up.dstdir])
  BY <1>8, Numbers DEF Erased
<1>10. DirsAlways(b)'
  BY <1>2, <1>4, <1>8, ErasedKeeps
<1> QED BY <1>1, <1>3, <1>4, <1>6, <1>7, <1>8, <1>9, <1>10, TargetStep DEF Erased

\* The directory is made, and is partial.
LEMMA MakeRPSKeeps ==
    ASSUME IInv, NEW b \in Boots, b = Here, MakeRPS
    PROVE  IInv'
<1>1. At("mkdir") /\ "mkdir" \in Copying /\ "copyRPS" \in Phases /\ "mkdir" \in Failing
      /\ "failed" \in {"failed", "ENOSPC"} /\ "copyRPS" \in {"eraseDst", "mkdir", "copyRPS", "nukeOld"}
  BY DEF MakeRPS, Copying, Phases, Failing
<1>2. /\ up.dstdir \in Dirs /\ Typed /\ StageKept /\ up \in Updates /\ up.changestate \in ChangeStates
      /\ up.changestate = "nothingSerious" /\ up.pc = "mkdir" /\ Stage(b) = "mkdir" /\ HelperKept(b)
      /\ rps[b][Before[up.dstdir]] = Absent /\ Before[up.dstdir] \in Dirs
      /\ Before[up.dstdir] # up.dstdir
  BY <1>1, Target
<1>3. Typed'
  BY StepTyped DEF Kextcache
<1>4. UNCHANGED <<volume, pre, boot, mishaps>>
  BY DEF MakeRPS
<1>5. CASE Bootfail("failed", up.changestate) /\ UNCHANGED <<rps, dirty>>
  BY <1>1, <1>2, <1>3, <1>4, <1>5, FailsKeeps
<1>6. CASE /\ Goto("copyRPS")
           /\ rps' = [rps EXCEPT ![Here][up.dstdir] = Partial]
           /\ dirty' = [dirty EXCEPT ![Here] = @ \cup {up.dstdir}]
  <2>1. SameFlags /\ up'.pc = "copyRPS" /\ up'.changestate = up.changestate
    BY <1>1, <1>2, <1>6, Goes
  <2>2. /\ rps'[b] = [rps[b] EXCEPT ![up.dstdir] = Partial]
        /\ \A h \in Boots \ {b} : rps'[h] = rps[h] /\ dirty'[h] = dirty[h]
        /\ dirty'[b] = dirty[b] \cup {up.dstdir}
    BY <1>2, <1>6 DEF Typed, KernelTyped, RestTyped
  <2>3. rps'[b][up.dstdir] = Partial /\ \A e \in Dirs : e # up.dstdir => rps'[b][e] = rps[b][e]
    BY <1>2, <2>2, OneDir, SMTT(30)
  <2>4. ~Whole(Partial) /\ Partial # Absent /\ "booter" \notin Dirs /\ "old" \notin Dirs
    BY Numbers DEF Absent, Partial, Dirs
  <2>5. StageKept'
    BY <1>2, <2>1 DEF StageKept, SameFlags, Here, Working, Copying, Copied, Activating,
                      Reverting, Replacing, Aside
  <2>6. src["rps"] >= 0 /\ src["rps"] \in Int /\ src' = src
    BY <1>2, <1>4, BootHelpersAssumption DEF Typed, VolumeTyped, Kinds, Versions, volume
  <2>7. DirsAlways(b)'
    BY <1>2, <2>2, <2>3, <2>4, <2>6 DEF HelperKept, DirsKept, DirsAlways, Partial
  <2> QED BY <1>1, <1>2, <1>3, <1>4, <2>1, <2>2, <2>3, <2>4, <2>5, <2>7, TargetStep, ZenonT(60)
<1> QED BY <1>5, <1>6 DEF MakeRPS

\* The directory before the current one is the one to write to.
LEMMA PickRPSKeeps ==
    ASSUME IInv, NEW b \in Boots, b = Here, PickRPS
    PROVE  IInv'
<1>1. At("findRPS") /\ "findRPS" \in Working /\ "findRPS" \notin Clearing
  BY DEF PickRPS, Working, Clearing
<1>2. /\ Typed /\ StageKept /\ up \in Updates /\ up.pc = "findRPS" /\ Stage(b) = "findRPS"
      /\ HelperKept(b) /\ AgesKept(b) /\ rps[b] \in [Dirs -> Content] /\ b \notin up.updated
      /\ up.changestate = "nothingSerious"
  BY <1>1, AtWork, BlessedTyped DEF StageKept
<1>3. Typed'
  BY StepTyped DEF Kextcache
<1>4. /\ UNCHANGED <<volume, rps, pre, booter, old>> /\ blessed' = blessed /\ dirty' = dirty
      /\ mishaps' = mishaps /\ rps'[b] = rps[b] /\ src' = src /\ stamps' = stamps /\ releases' = releases
  BY DEF PickRPS, kernel, boot, volume
<1> DEFINE cur == CurrentIn(rps[b])
<1>5. cur \in Dirs /\ Before[cur] \in Dirs /\ After[Before[cur]] = cur /\ Before[Before[cur]] = After[cur]
      /\ After[cur] \in Dirs
  BY <1>2, CurrentIs, Cycle
<1>6. \E t \in {"recovery", "eraseDst", "copyMisc"} :
         /\ up'.pc = t /\ up'.bootIdx = up.bootIdx /\ up'.opts = up.opts /\ up'.tstamps = up.tstamps
         /\ up'.doRPS = up.doRPS /\ up'.doBooters = up.doBooters /\ up'.updated = up.updated
         /\ up'.changestate = up.changestate
         /\ up.doRPS <=> t # "copyMisc"
         /\ t = "recovery" => b \in Recovery
         /\ up.doRPS => up'.dstdir = Before[cur]
  <2>1. CASE up.doRPS
    <3>1. Current(Here) = cur
      BY KernelIs
    <3>2. up' = [up EXCEPT !.dstdir = Before[cur],
                           !.pc = IF Here \in Recovery THEN "recovery" ELSE "eraseDst"]
      BY <2>1, <3>1 DEF PickRPS
    <3> HIDE DEF cur
    <3>3. /\ up'.pc = IF Here \in Recovery THEN "recovery" ELSE "eraseDst"
          /\ up'.bootIdx = up.bootIdx /\ up'.opts = up.opts /\ up'.tstamps = up.tstamps
          /\ up'.doRPS = up.doRPS /\ up'.doBooters = up.doBooters /\ up'.updated = up.updated
          /\ up'.changestate = up.changestate /\ up'.dstdir = Before[cur]
      BY <1>2, <3>2 DEF Updates
    <3> QED BY <2>1, <3>3
  <2>2. CASE ~up.doRPS
    BY <1>2, <2>2 DEF PickRPS, Goto, Updates
  <2> QED BY <1>2, <2>1, <2>2 DEF Updates
<1>7. PICK t \in {"recovery", "eraseDst", "copyMisc"} :
         /\ up'.pc = t /\ up'.bootIdx = up.bootIdx /\ up'.opts = up.opts /\ up'.tstamps = up.tstamps
         /\ up'.doRPS = up.doRPS /\ up'.doBooters = up.doBooters /\ up'.updated = up.updated
         /\ up'.changestate = up.changestate
         /\ up.doRPS <=> t # "copyMisc"
         /\ t = "recovery" => b \in Recovery
         /\ up.doRPS => up'.dstdir = Before[cur]
  BY <1>6
<1>8. t \in Working /\ t \notin Replacing \cup Reverting \cup Activating \cup Clearing
      /\ "findRPS" \notin Replacing \cup Reverting \cup Activating \cup Copying
      /\ (t \in Copying <=> t # "copyMisc") /\ (t \in Copied <=> t = "copyMisc")
  BY DEF Working, Replacing, Reverting, Activating, Clearing, Copying, Copied, Aside
<1>9. Stage(b)' = t
  BY <1>7, <1>8 DEF Stage, Here
<1>10. StageKept'
  BY <1>2, <1>5, <1>7, <1>8 DEF StageKept, Here, Aside
<1>11. up.doRPS => rps[b][After[cur]] = Absent
  <2>1. up.doRPS => PresentIn(rps[b]) # Dirs
    BY KernelIs DEF PickRPS
  <2>2. up.doRPS => \E e \in Dirs : rps[b][e] = Absent
    BY <2>1 DEF PresentIn
  <2> QED BY <1>2, <1>5, <2>2, CurrentIs
<1> HIDE DEF cur
<1>12. DirsKept(b)'
  BY <1>2, <1>4, <1>5, <1>7, <1>8, <1>9, <1>11 DEF HelperKept, DirsKept
<1>13. KernelKept(b)'
  <2>1. up.doRPS => Spare(b)' = KernelOf(rps[b])
    BY <1>4, <1>5, <1>7 DEF Spare, KernelOf, cur
  <2>2. ASSUME NEW v, KernelThere(b, v)
        PROVE  KernelThere(b, v)'
    BY <1>2, <1>4, <1>7, <1>8, <1>9, <2>1, <2>2 DEF KernelThere, Clearing
  <2> QED BY <1>2, <1>4, <2>2 DEF HelperKept, KernelKept, Spared
<1>14. NewKept(b)'
  BY <1>7, <1>8, <1>9 DEF NewKept, Aside, Replacing, Reverting
<1>15. SupportKept(b)'
  BY <1>4, SupportStays
<1> QED BY <1>1, <1>2, <1>3, <1>4, <1>7, <1>8, <1>10, <1>12, <1>13, <1>14, <1>15, DirStep

\* The Recovery OS is blessed, or not and that is noted.
LEMMA BlessRecoveryKeeps ==
    ASSUME IInv, NEW b \in Boots, b = Here, BlessRecovery
    PROVE  IInv'
<1>1. At("recovery") /\ "recovery" \in Copying /\ "eraseCur" \in Phases /\ "eraseDst" \in Phases
  BY DEF BlessRecovery, Copying, Phases
<1>2. /\ up.dstdir \in Dirs /\ Typed /\ StageKept /\ up \in Updates /\ up.doRPS
      /\ up.changestate = "nothingSerious" /\ up.pc = "recovery" /\ Stage(b) = "recovery"
      /\ HelperKept(b) /\ AgesKept(b) /\ "recovery" \in Working /\ "recovery" \notin Clearing
  BY <1>1, Target
<1>3. Typed'
  BY StepTyped DEF Kextcache
<1>4. /\ UNCHANGED <<volume, rps, pre, booter, old>> /\ rps'[b] = rps[b] /\ src' = src
      /\ stamps' = stamps /\ releases' = releases
  BY DEF BlessRecovery, kernel, volume
<1>5. \E t \in {"eraseCur", "eraseDst"} : Goto(t)
  BY DEF BlessRecovery
<1>6. PICK t \in {"eraseCur", "eraseDst"} : Goto(t)
  BY <1>5
<1>7. SameFlags /\ up'.pc = t /\ up'.changestate = up.changestate
  BY <1>1, <1>2, <1>6, Goes
<1>8. /\ \A h \in Boots \ {b} : /\ blessed'[h] = blessed[h] /\ dirty'[h] = dirty[h]
                                /\ mishaps'[h] = mishaps[h]
      /\ blessed'[b] \in {blessed[b], "recovery"} /\ dirty'[b] \subseteq dirty[b]
      /\ mishaps[b] \subseteq mishaps'[b]
      /\ "force" \in up.opts => "forced" \in mishaps'[b]
      /\ t = "eraseCur" => blessed'[b] = "recovery" \/ "recoveryNotBlessed" \in mishaps'[b]
  <2>1. PICK set \in BOOLEAN, sync \in BOOLEAN :
          /\ IF set THEN SetBlessing("recovery") ELSE UNCHANGED blessed
          /\ IF sync THEN Synced ELSE UNCHANGED dirty
          /\ Goto(IF sync THEN "eraseCur" ELSE "eraseDst")
          /\ mishaps' = [mishaps EXCEPT ![Here] = @
                \cup (IF sync /\ ~set THEN {"recoveryNotBlessed"} ELSE {})
                \cup (IF "force" \in up.opts THEN {"forced"} ELSE {})]
    BY DEF BlessRecovery
  <2>2. t = "eraseCur" => sync
    <3>1. Goto("eraseDst") => up'.pc = "eraseDst"
      BY <1>1, <1>2, Goes
    <3> QED BY <1>7, <2>1, <3>1
  <2>3. /\ \A h \in Boots \ {b} : blessed'[h] = blessed[h]
        /\ blessed'[b] = IF set THEN "recovery" ELSE blessed[b]
    BY <1>2, <2>1 DEF SetBlessing, Typed, BootTyped
  <2>4. /\ \A h \in Boots \ {b} : dirty'[h] = dirty[h]
        /\ dirty'[b] \subseteq dirty[b]
    BY <1>2, <2>1 DEF Synced, Typed, RestTyped
  <2>5. /\ \A h \in Boots \ {b} : mishaps'[h] = mishaps[h]
        /\ mishaps[b] \subseteq mishaps'[b]
        /\ "force" \in up.opts => "forced" \in mishaps'[b]
        /\ sync /\ ~set => "recoveryNotBlessed" \in mishaps'[b]
    BY <1>2, <2>1 DEF Typed, RestTyped
  <2> QED BY <2>2, <2>3, <2>4, <2>5
<1>9. t \in Working /\ t \in Copying /\ t \notin Replacing \cup Reverting \cup Activating \cup Clearing \cup Copied
      /\ "recovery" \notin Replacing \cup Reverting \cup Activating
  BY DEF Working, Replacing, Reverting, Activating, Clearing, Copying, Copied, Aside
<1>10. Stage(b)' = t
  BY <1>7, <1>9 DEF Stage, SameFlags, Here
<1>11. StageKept'
  BY <1>2, <1>7, <1>9 DEF StageKept, SameFlags, Here, Aside
<1>12. b \in Recovery
  BY <1>2 DEF HelperKept, DirsKept
<1>13. DirsKept(b)'
  BY <1>1, <1>2, <1>4, <1>7, <1>8, <1>9, <1>10 DEF HelperKept, DirsKept, SameFlags
<1>14. KernelKept(b)'
  <2>1. Spare(b)' = Spare(b)
    BY <1>4, <1>7 DEF Spare, SameFlags
  <2>2. ASSUME NEW v, KernelThere(b, v), Spared(b, KernelLost)'
        PROVE  KernelThere(b, v)'
    <3>1. t = "eraseCur" => blessed'[b] = "recovery"
      BY <1>8, <2>2 DEF Spared, KernelLost
    <3> QED BY <1>2, <1>9, <1>10, <2>1, <2>2, <3>1 DEF KernelThere
  <2>3. /\ Spared(b, KernelLost)' => Spared(b, KernelLost)
        /\ Spared(b, KernelAged)' => Spared(b, KernelAged) /\ Spared(b, KernelLost)'
    BY <1>8 DEF Spared, KernelAged
  <2> QED BY <1>2, <1>4, <2>2, <2>3 DEF HelperKept, KernelKept
<1>15. NewKept(b)'
  BY <1>7, <1>9, <1>10 DEF NewKept, Aside, Replacing, Reverting
<1>16. SupportKept(b)'
  BY <1>4, <1>8, SupportStays
<1>17. b \notin up.updated /\ "recovery" # "eraseCur"
  BY <1>1, <1>2, AtWork
<1> QED BY <1>1, <1>2, <1>3, <1>4, <1>7, <1>8, <1>9, <1>11, <1>12, <1>13, <1>14, <1>15, <1>16, <1>17, DirStep
        DEF SameFlags

\* The current directory goes while the Recovery OS is blessed.
LEMMA EraseCurKeeps ==
    ASSUME IInv, NEW b \in Boots, b = Here, EraseCur
    PROVE  IInv'
<1> DEFINE d == After[up.dstdir]
<1>1. At("eraseCur") /\ "eraseCur" \in Copying /\ "eraseDst" \in Phases
  BY DEF EraseCur, Copying, Phases
<1>2. /\ up.dstdir \in Dirs /\ Typed /\ StageKept /\ up \in Updates /\ up.doRPS
      /\ up.changestate = "nothingSerious" /\ up.pc = "eraseCur" /\ Stage(b) = "eraseCur"
      /\ HelperKept(b) /\ AgesKept(b) /\ "eraseCur" \in Working /\ "eraseCur" \notin Clearing
      /\ d \in Dirs /\ Before[up.dstdir] \in Dirs /\ Before[up.dstdir] # d
      /\ rps[b][Before[up.dstdir]] = Absent
  BY <1>1, Target
<1>3. Typed'
  BY StepTyped DEF Kextcache
<1>4. /\ UNCHANGED <<volume, pre, booter, old>> /\ blessed' = blessed
      /\ stamps' = stamps /\ releases' = releases
  BY DEF EraseCur, boot, volume
<1>5. \/ Emptying(d) /\ UNCHANGED mishaps
      \/ Emptied(d) /\ UNCHANGED mishaps /\ up' = [up EXCEPT !.doBooters = TRUE, !.pc = "eraseDst"]
      \/ EraseFails(d) /\ UNCHANGED dirty /\ Because("partlyErased")
         /\ up' = [up EXCEPT !.doBooters = TRUE, !.pc = "eraseDst"]
  BY DEF EraseCur
<1>6. /\ \A h \in Boots \ {b} : mishaps'[h] = mishaps[h]
      /\ mishaps[b] \subseteq mishaps'[b]
      /\ Because("partlyErased") => "partlyErased" \in mishaps'[b]
  <2>1. mishaps' = mishaps \/ Because("partlyErased")
    BY <1>5
  <2> QED BY <1>2, <2>1 DEF Because, Typed, RestTyped
<1>7. \E t \in {"eraseCur", "eraseDst"}, c \in {Absent, Partial} :
         /\ Erased(b, d, c) /\ up'.pc = t /\ up'.bootIdx = up.bootIdx /\ up'.opts = up.opts
         /\ up'.tstamps = up.tstamps /\ up'.doRPS = up.doRPS /\ up'.updated = up.updated
         /\ up'.changestate = up.changestate /\ up'.dstdir = up.dstdir
         /\ up.doBooters => up'.doBooters
         /\ t = "eraseDst" => c = Absent \/ "partlyErased" \in mishaps'[b]
  <2> HIDE DEF d
  <2>1. CASE Emptying(d)
    BY <1>2, <2>1, Erases
  <2>2. CASE up' = [up EXCEPT !.doBooters = TRUE, !.pc = "eraseDst"]
    <3>1. /\ up'.pc = "eraseDst" /\ up'.bootIdx = up.bootIdx /\ up'.opts = up.opts
          /\ up'.tstamps = up.tstamps /\ up'.doRPS = up.doRPS /\ up'.updated = up.updated
          /\ up'.changestate = up.changestate /\ up'.dstdir = up.dstdir
          /\ up.doBooters => up'.doBooters
      BY <1>2, <2>2 DEF Updates
    <3>2. \/ Erased(b, d, Absent)
          \/ Erased(b, d, Partial) /\ "partlyErased" \in mishaps'[b]
          \/ Emptying(d)
      BY <1>2, <1>5, <1>6, Erases
    <3> QED BY <2>1, <3>1, <3>2
  <2> QED BY <1>5, <2>1, <2>2
<1>8. PICK t \in {"eraseCur", "eraseDst"}, c \in {Absent, Partial} :
         /\ Erased(b, d, c) /\ up'.pc = t /\ up'.bootIdx = up.bootIdx /\ up'.opts = up.opts
         /\ up'.tstamps = up.tstamps /\ up'.doRPS = up.doRPS /\ up'.updated = up.updated
         /\ up'.changestate = up.changestate /\ up'.dstdir = up.dstdir
         /\ up.doBooters => up'.doBooters
         /\ t = "eraseDst" => c = Absent \/ "partlyErased" \in mishaps'[b]
  BY <1>7
<1>9. t \in Working /\ t \in Copying /\ t \notin Replacing \cup Reverting \cup Activating \cup Clearing \cup Copied
      /\ "eraseCur" \notin Replacing \cup Reverting \cup Activating
  BY DEF Working, Replacing, Reverting, Activating, Clearing, Copying, Copied, Aside
<1>10. Stage(b)' = t
  BY <1>8, <1>9 DEF Stage, Here
<1>11. StageKept'
  BY <1>2, <1>8, <1>9 DEF StageKept, Here, Aside
<1>12. DirsKept(b)'
  <2>1. DirsAlways(b)'
    BY <1>2, <1>4, <1>8, ErasedKeeps
  <2> QED BY <1>2, <1>8, <1>9, <1>10, <2>1 DEF DirsAlways, DirsKept, Erased
<1>13. \A causes : Spared(b, causes)' => Spared(b, causes)
  BY <1>6 DEF Spared
<1>14. KernelKept(b)'
  <2>1. Spare(b)' = c
    BY <1>8 DEF Spare, Erased
  <2>2. ASSUME NEW v, KernelThere(b, v), Spared(b, KernelLost)'
        PROVE  KernelThere(b, v)'
    <3>1. t = "eraseDst" => c = Absent
      BY <1>8, <2>2 DEF Spared, KernelLost
    <3> QED BY <1>2, <1>4, <1>9, <1>10, <2>1, <2>2, <3>1 DEF KernelThere
  <2>3. Spared(b, KernelAged)' => Spared(b, KernelLost)'
    BY DEF Spared, KernelAged
  <2> QED BY <1>2, <1>4, <1>13, <2>2, <2>3 DEF HelperKept, KernelKept
<1>15. NewKept(b)'
  BY <1>8, <1>9, <1>10 DEF NewKept, Aside, Replacing, Reverting
<1>16. SupportKept(b)'
  <2>1. Spared(b, BooterAged)' => Spared(b, KernelLost)
    BY <1>13 DEF Spared, BooterAged
  <2>2. Spared(b, KernelLost) => blessed[b] = "recovery"
    BY <1>2 DEF HelperKept, KernelKept, KernelThere
  <2> QED BY <1>4, <1>6, <2>1, <2>2, SupportStays
<1>17. b \notin up.updated
  BY <1>1, <1>2, AtWork
<1> QED BY <1>1, <1>2, <1>3, <1>4, <1>6, <1>8, <1>9, <1>11, <1>12, <1>14, <1>15, <1>16, <1>17, DirStep
        DEF Erased

\* What is copied is no older than the other directories and what was captured.
LEMMA CopyRPSKeeps ==
    ASSUME IInv, NEW b \in Boots, b = Here, CopyRPS
    PROVE  IInv'
<1>1. At("copyRPS") /\ "copyRPS" \in Copying /\ "copyMisc" \in Phases /\ "copyRPS" \in Failing
  BY DEF CopyRPS, Copying, Phases, Failing
<1>2. /\ up.dstdir \in Dirs /\ rps[b] \in [Dirs -> Content]
      /\ After[up.dstdir] \in Dirs /\ Before[up.dstdir] \in Dirs
      /\ Dirs = {up.dstdir, After[up.dstdir], Before[up.dstdir]}
      /\ After[up.dstdir] # up.dstdir /\ Before[up.dstdir] # up.dstdir
      /\ After[up.dstdir] # Before[up.dstdir]
      /\ rps[b][Before[up.dstdir]] = Absent /\ up.doRPS
      /\ KernelOf(rps[b]) = IF Spare(b) = Absent THEN rps[b][up.dstdir] ELSE Spare(b)
      /\ Typed /\ StageKept /\ StampsKept /\ up.pc = "copyRPS" /\ Stage(b) = "copyRPS"
      /\ HelperKept(b) /\ AgesKept(b) /\ up \in Updates /\ up.changestate \in ChangeStates
      /\ up.changestate = "nothingSerious"
  BY <1>1, Target
<1>3. Typed'
  BY StepTyped DEF Kextcache
<1>4. UNCHANGED <<volume, pre, boot, dirty>>
  BY DEF CopyRPS
<1>5. CASE /\ \E err \in {"failed", "ENOSPC"} : Bootfail(err, up.changestate)
           /\ UNCHANGED <<rps, mishaps>>
  BY <1>1, <1>2, <1>3, <1>4, <1>5, FailsKeeps
<1>6. CASE /\ Goto("copyMisc")
           /\ rps' = [rps EXCEPT ![Here][up.dstdir] = src["rps"]]
           /\ IF ~up.doBooters /\ ~Supports(up.tstamps["booter"], src["rps"])
              THEN Because("changedUnderCopy") ELSE UNCHANGED mishaps
  <2> DEFINE new == src["rps"]
  <2>1. SameFlags /\ up'.pc = "copyMisc" /\ up'.changestate = up.changestate
    BY <1>1, <1>2, <1>6, Goes
  <2>2. /\ rps'[b] = [rps[b] EXCEPT ![up.dstdir] = new]
        /\ \A h \in Boots \ {b} : rps'[h] = rps[h]
    BY <1>2, <1>6 DEF Typed, KernelTyped
  <2>3. rps'[b][up.dstdir] = new /\ \A e \in Dirs : e # up.dstdir => rps'[b][e] = rps[b][e]
    BY <1>2, <2>2, OneDir
  <2>4. /\ \A h \in Boots \ {b} : mishaps'[h] = mishaps[h]
        /\ mishaps[b] \subseteq mishaps'[b]
        /\ ~up.doBooters /\ ~Supports(up.tstamps["booter"], new) => "changedUnderCopy" \in mishaps'[b]
    <3>1. mishaps' = mishaps \/ Because("changedUnderCopy")
      BY <1>6
    <3>2. Because("changedUnderCopy") =>
            /\ \A h \in Boots \ {b} : mishaps'[h] = mishaps[h]
            /\ mishaps'[b] = mishaps[b] \cup {"changedUnderCopy"}
      BY <1>2 DEF Because, Typed, RestTyped
    <3> QED BY <1>6, <3>1, <3>2
  <2>5. Whole(new) /\ new \in Int /\ new >= 0 /\ new # Absent
    BY <1>2, Numbers DEF Typed, VolumeTyped, Kinds, Versions, Whole
  <2>6. StageKept'
    BY <1>2, <2>1 DEF StageKept, SameFlags, Here, Working, Copying, Copied, Activating,
                      Reverting, Replacing, Aside
  <2>7. "copyRPS" \in Working /\ "copyMisc" \in Working
        /\ "copyMisc" \notin Copying \cup Activating \cup Clearing \cup Replacing \cup Reverting
        /\ "copyRPS" \notin Clearing \cup Replacing \cup Reverting
        /\ "copyMisc" \in Copied
    BY DEF Working, Copying, Activating, Clearing, Replacing, Reverting, Aside, Copied
  <2>8. Stage(b)' = "copyMisc"
    BY <2>1, <2>7 DEF Stage, SameFlags, Here
  <2>9. /\ blessed' = blessed /\ stamps' = stamps /\ booter' = booter /\ old' = old
        /\ releases' = releases /\ src' = src
    BY <1>4 DEF boot, volume
  <2>10. rps'[b] \in [Dirs -> Content] /\ rps'[b][Before[up.dstdir]] = Absent
         /\ rps'[b][After[up.dstdir]] = Spare(b)
    BY <1>2, <2>3, <1>3 DEF Typed, KernelTyped, Spare
  <2>11. KernelOf(rps'[b]) = IF Spare(b) = Absent THEN new ELSE Spare(b)
    BY <1>2, <2>3, <2>10, TwoDirs
  <2>12. DirsKept(b)'
    <3>1. \A e \in Dirs : rps'[b][e] <= new
      BY <1>2, <2>3, <2>5 DEF HelperKept, DirsKept
    <3>2. \A e \in Dirs : e \in dirty'[b] => rps'[b][e] # Absent
      BY <1>2, <1>4, <2>3, <2>5 DEF HelperKept, DirsKept
    <3>3. FirstDirs[b] # Dirs => \E e \in Dirs : rps'[b][e] = Absent
      BY <1>2, <2>10
    <3> QED BY <1>2, <2>1, <2>3, <2>5, <2>7, <2>8, <2>9, <2>10, <3>1, <3>2, <3>3
            DEF DirsKept, SameFlags, Activating
  <2>13. \A causes : Spared(b, causes)' => Spared(b, causes)
    BY <2>4 DEF Spared
  <2>14. stamps["rps"] <= new
    BY <1>2 DEF StampsKept, Kinds
  <2>15. KernelKept(b)'
    <3>1. ASSUME NEW v \in {0, stamps["rps"]}, KernelThere(b, v)
          PROVE  KernelThere(b, v)'
      <4>1. Good(Spare(b), v) \/ Spare(b) = Absent
        BY <1>2, <3>1 DEF KernelThere
      <4>2. Good(Spare(b), v) => Spare(b) # Absent
        BY Numbers DEF Good
      <4>3. Good(new, v)
        BY <2>5, <2>14, <3>1 DEF Good
      <4> QED BY <2>7, <2>8, <2>11, <4>1, <4>2, <4>3 DEF KernelThere, Copying
    <3> QED BY <1>2, <2>9, <2>13, <3>1 DEF HelperKept, KernelKept
  <2>16. NewKept(b)'
    <3>1. up.tstamps["rps"] <= new
      BY <1>2 DEF StampsKept, Kinds
    <3>2. "copyMisc" \notin {"syncRPS", "activateMisc", "syncBooters", "bless", "rebless"}
      OBVIOUS
    <3>3. new >= up.tstamps["rps"]
      BY <1>2, <2>5, <3>1, Ints
    <3> QED BY <2>1, <2>3, <2>4, <2>7, <2>8, <2>9, <3>2, <3>3
            DEF NewKept, SameFlags, Spared, Supports
  <2>17. SupportKept(b)'
    <3>1. Spare(b) # Absent => KernelOf(rps'[b]) = KernelOf(rps[b])
      BY <1>2, <2>11
    <3>2. Spare(b) = Absent /\ Spared(b, KernelLost) => blessed[b] = "recovery"
      BY <1>2, Numbers DEF HelperKept, KernelKept, KernelThere, Good
    <3>3. Spared(b, BooterAged)' => Spared(b, KernelLost)
      BY <2>13 DEF Spared, BooterAged
    <3> QED BY <2>4, <2>9, <3>1, <3>2, <3>3, SupportStays
  <2>18. b \notin up.updated
    BY <1>1, AtWork, <2>7
  <2>19. \A h \in Boots \ {b} : /\ rps'[h] = rps[h] /\ blessed'[h] = blessed[h]
                                /\ dirty'[h] = dirty[h] /\ mishaps'[h] = mishaps[h]
    BY <1>4, <2>2, <2>4, <2>9
  <2> QED BY <1>1, <1>2, <1>3, <1>4, <2>1, <2>4, <2>6, <2>7, <2>9, <2>12, <2>15, <2>16, <2>17,
             <2>18, <2>19, DirStep DEF SameFlags
<1> QED BY <1>5, <1>6 DEF CopyRPS

\* activateRPS() makes what was copied the current directory.
LEMMA Leapfrog ==
    ASSUME NEW f \in [Dirs -> Content], NEW d \in Dirs, f[Before[d]] = Absent, Whole(f[d])
    PROVE  /\ f[After[d]] = Absent => CurrentIn(f) = d
           /\ f[After[d]] # Absent => /\ CurrentIn(f) = After[d]
                                      /\ After[CurrentIn(f)] = Before[d]
                                      /\ Before[CurrentIn(f)] = d
           /\ CurrentIn(f) = d => f[After[d]] = Absent
           /\ \A g \in [Dirs -> Content] : g[Before[d]] = f[d] /\ g[d] = Absent
                                           => KernelOf(g) = f[d]
<1>1. /\ After[d] \in Dirs /\ Before[d] \in Dirs /\ After[After[d]] = Before[d]
      /\ Before[After[d]] = d /\ After[Before[d]] = d /\ After[d] # d
  BY Cycle
<1>2. f[d] # Absent
  BY Numbers
<1>3. f[After[d]] = Absent => CurrentIn(f) = d
  BY <1>1, <1>2, CurrentIs
<1>4. f[After[d]] # Absent => CurrentIn(f) = After[d]
  BY <1>1, CurrentIs
<1>5. ASSUME NEW g \in [Dirs -> Content], g[Before[d]] = f[d], g[d] = Absent
      PROVE  KernelOf(g) = f[d]
  <2>1. CurrentIn(g) = Before[d]
    BY <1>1, <1>2, <1>5, CurrentIs
  <2> QED BY <1>5, <2>1 DEF KernelOf
<1> QED BY <1>1, <1>3, <1>4, <1>5

\* No kernel needs no booter.
LEMMA NoKernelSupported ==
    ASSUME VolumeTyped, NEW c
    PROVE  Supports(c, Absent)
  BY BootHelpersAssumption DEF VolumeTyped, Supports, Absent, Versions

\* What activateRPS() does to the directories.
LEMMA Renames ==
    ASSUME IInv, NEW b \in Boots, b = Here, At("renameRPS"),
           rps' \in [Boots -> [Dirs -> Content]],
           \/ Current(b) = up.dstdir /\ UNCHANGED <<rps, dirty>>
           \/ /\ Current(b) # up.dstdir
              /\ rps' = [rps EXCEPT ![b][After[Current(b)]] = rps[b][Before[Current(b)]],
                                    ![b][Before[Current(b)]] = Absent]
              /\ DirtyAs(Before[Current(b)], {After[Current(b)]})
    PROVE  LET dst == up.dstdir
               new == rps[b][dst]
           IN  /\ KernelOf(rps'[b]) = new
               /\ \A e \in Dirs : rps[b][e] <= new
               /\ \A e \in Dirs : rps'[b][e] \in {new, Absent, rps[b][After[dst]]}
               /\ rps'[b][dst] = Absent \/ rps'[b] = rps[b]
               /\ \A h \in Boots \ {b} : rps'[h] = rps[h] /\ dirty'[h] = dirty[h]
               /\ \A e \in Dirs : e \in dirty'[b] => rps'[b][e] # Absent
               /\ \A f \in {"booter", "old"} : f \in dirty'[b] => f \in dirty[b]
<1> DEFINE dst == up.dstdir
           new == rps[b][dst]
<1>1. "renameRPS" \in Working /\ "renameRPS" \in Activating \cap Copied
  BY DEF Working, Activating, Copied
<1>3. /\ Typed /\ StageKept /\ up.pc = "renameRPS" /\ Stage(b) = "renameRPS" /\ HelperKept(b)
      /\ rps[b] \in [Dirs -> Content]
  BY <1>1, AtWork, BlessedTyped
<1>4. rps'[b] \in [Dirs -> Content]
  OBVIOUS
<1>6. up.doRPS /\ dst \in Dirs
  BY <1>1, <1>3 DEF StageKept
<1>7. /\ rps[b][Before[dst]] = Absent /\ Whole(new) /\ \A e \in Dirs : rps[b][e] <= new
  BY <1>1, <1>3, <1>6 DEF HelperKept, DirsKept
<1>8. /\ After[dst] \in Dirs /\ Before[dst] \in Dirs /\ After[dst] # dst /\ Before[dst] # dst
      /\ After[dst] # Before[dst] /\ Dirs = {dst, After[dst], Before[dst]}
  BY <1>6, Cycle
<1>9. SUFFICES /\ KernelOf(rps'[b]) = new
               /\ \A e \in Dirs : rps[b][e] <= new
               /\ \A e \in Dirs : rps'[b][e] \in {new, Absent, rps[b][After[dst]]}
               /\ rps'[b][dst] = Absent \/ rps'[b] = rps[b]
               /\ \A h \in Boots \ {b} : rps'[h] = rps[h] /\ dirty'[h] = dirty[h]
               /\ \A e \in Dirs : e \in dirty'[b] => rps'[b][e] # Absent
               /\ \A f \in {"booter", "old"} : f \in dirty'[b] => f \in dirty[b]
  OBVIOUS
<1> HIDE DEF dst
<1>10. CASE Current(b) = dst /\ UNCHANGED <<rps, dirty>>
  <2>1. rps[b][After[dst]] = Absent /\ CurrentIn(rps[b]) = dst
    BY <1>3, <1>6, <1>7, <1>10, Leapfrog, KernelIs
  <2>2. \A e \in Dirs : e \in dirty[b] => rps[b][e] # Absent
    BY <1>3 DEF HelperKept, DirsKept
  <2>3. \A e \in Dirs : rps[b][e] \in {new, Absent, rps[b][After[dst]]}
    BY <1>7, <1>8
  <2> QED BY <1>7, <1>10, <2>1, <2>2, <2>3 DEF KernelOf
<1>11. CASE /\ Current(b) # dst
           /\ rps' = [rps EXCEPT ![b][After[Current(b)]] = rps[b][Before[Current(b)]],
                                 ![b][Before[Current(b)]] = Absent]
           /\ DirtyAs(Before[Current(b)], {After[Current(b)]})
  <2>1. /\ rps[b][After[dst]] # Absent
        /\ After[Current(b)] = Before[dst] /\ Before[Current(b)] = dst
    BY <1>3, <1>6, <1>7, <1>11, Leapfrog, KernelIs
  <2>2. /\ rps' = [rps EXCEPT ![b][Before[dst]] = new, ![b][dst] = Absent]
        /\ DirtyAs(dst, {Before[dst]})
    BY <1>11, <2>1
  <2> DEFINE f == [rps[b] EXCEPT ![Before[dst]] = new, ![dst] = Absent]
  <2>3. rps'[b] = f /\ \A h \in Boots \ {b} : rps'[h] = rps[h]
    BY <1>3, <1>8, <2>2 DEF Typed, KernelTyped
  <2>4. f[Before[dst]] = new /\ f[dst] = Absent /\ f[After[dst]] = rps[b][After[dst]]
    BY <1>3, <1>6, <1>8
  <2> HIDE DEF f
  <2>5. KernelOf(rps'[b]) = new
    BY <1>3, <1>4, <1>6, <1>7, <2>3, <2>4, Leapfrog
  <2>6. \A e \in Dirs : rps'[b][e] \in {new, Absent, rps[b][After[dst]]}
    BY <1>8, <2>3, <2>4
  <2>7. /\ \A h \in Boots \ {b} : dirty'[h] = dirty[h]
        /\ dirty'[b] = IF dst \in dirty[b] THEN (dirty[b] \ {dst}) \cup {Before[dst]}
                       ELSE dirty[b] \ {Before[dst]}
    BY <1>3, <2>2 DEF DirtyAs, Typed, RestTyped
  <2>8. \A g \in {"booter", "old"} : g \in dirty'[b] => g \in dirty[b]
    <3>1. "booter" \notin Dirs /\ "old" \notin Dirs
      BY DEF Dirs
    <3> QED BY <1>8, <2>7, <3>1
  <2>9. \A e \in Dirs : e \in dirty'[b] => rps'[b][e] # Absent
    <3>1. new # Absent
      BY <1>3, <1>6, <1>7, Numbers
    <3>2. dst \notin dirty'[b]
      BY <1>8, <2>7
    <3> QED BY <1>8, <2>1, <2>3, <2>4, <3>1, <3>2
  <2> QED BY <1>7, <2>3, <2>4, <2>5, <2>6, <2>7, <2>8, <2>9
<1> QED BY <1>10, <1>11 DEF dst

\* The new directory becomes current, and the booter there starts it.
LEMMA RenameRPSKeeps ==
    ASSUME IInv, NEW b \in Boots, b = Here, RenameRPS
    PROVE  IInv'
<1> DEFINE dst == up.dstdir
           new == rps[b][dst]
<1>1. At("renameRPS") /\ "renameRPS" \in Working /\ "syncRPS" \in Phases /\ "renameRPS" \in Failing
      /\ "failed" \in {"failed", "ENOSPC"} /\ "syncRPS" \in Working /\ "renameRPS" \in Updating
      /\ "renameRPS" # "idle"
  BY DEF RenameRPS, Working, Phases, Failing, Updating, Stamping
<1>2. "renameRPS" \in Activating \cap Copied /\ "syncRPS" \in Activating
      /\ "renameRPS" \notin Copying \cup Clearing \cup Replacing \cup Reverting
      /\ "syncRPS" \notin Copying \cup Copied \cup Clearing \cup Replacing \cup Reverting
  BY DEF Activating, Copied, Copying, Clearing, Replacing, Reverting, Aside
<1>3. /\ Typed /\ StageKept /\ StampsKept /\ up.pc = "renameRPS" /\ Stage(b) = "renameRPS"
      /\ up \in Updates /\ HelperKept(b) /\ AgesKept(b) /\ b \notin up.updated
      /\ up.changestate \in ChangeStates /\ rps[b] \in [Dirs -> Content]
  BY <1>1, <1>2, AtWork, BlessedTyped DEF Updates
<1>4. Typed'
  BY StepTyped DEF Kextcache
<1>5. UNCHANGED <<volume, pre, boot, mishaps>>
  BY DEF RenameRPS
<1>6. up.doRPS /\ dst \in Dirs
  BY <1>2, <1>3 DEF StageKept
<1>7. /\ rps[b][Before[dst]] = Absent /\ Whole(new) /\ \A e \in Dirs : rps[b][e] <= new
  BY <1>2, <1>3, <1>6 DEF HelperKept, DirsKept
<1>8. /\ After[dst] \in Dirs /\ Before[dst] \in Dirs /\ After[dst] # dst /\ Before[dst] # dst
      /\ After[dst] # Before[dst] /\ Dirs = {dst, After[dst], Before[dst]}
  BY <1>6, Cycle
<1>9. CASE Bootfail("failed", up.changestate) /\ UNCHANGED <<rps, dirty>>
  BY <1>1, <1>3, <1>4, <1>5, <1>9, FailsKeeps
<1>10. CASE /\ Goto("syncRPS")
            /\ \/ Current(b) = dst /\ UNCHANGED <<rps, dirty>>
               \/ /\ Current(b) # dst
                  /\ rps' = [rps EXCEPT ![b][After[Current(b)]] = rps[b][Before[Current(b)]],
                                        ![b][Before[Current(b)]] = Absent]
                  /\ DirtyAs(Before[Current(b)], {After[Current(b)]})
  <2>1. SameFlags /\ up'.pc = "syncRPS" /\ up'.changestate = up.changestate
    BY <1>1, <1>3, <1>10, Goes
  <2>2. /\ KernelOf(rps'[b]) = new
        /\ \A e \in Dirs : rps'[b][e] \in {new, Absent, rps[b][After[dst]]}
        /\ rps'[b][dst] = Absent \/ rps'[b] = rps[b]
        /\ \A h \in Boots \ {b} : rps'[h] = rps[h] /\ dirty'[h] = dirty[h]
        /\ \A e \in Dirs : e \in dirty'[b] => rps'[b][e] # Absent
        /\ \A f \in {"booter", "old"} : f \in dirty'[b] => f \in dirty[b]
    <3>1. rps' \in [Boots -> [Dirs -> Content]]
      BY <1>4 DEF Typed, KernelTyped
    <3> QED BY <1>1, <1>10, <3>1, Renames
  <2>3. Stage(b)' = "syncRPS"
    BY <1>1, <2>1 DEF Stage, SameFlags, Here
  <2>4. StageKept'
    BY <1>3, <2>1 DEF StageKept, SameFlags, Here, Working, Copying, Copied, Activating,
                      Reverting, Replacing, Aside
  <2>5. /\ blessed' = blessed /\ stamps' = stamps /\ booter' = booter /\ old' = old
        /\ releases' = releases /\ src' = src /\ mishaps' = mishaps
    BY <1>5 DEF boot, volume
  <2>6. new \in Int /\ new >= 0 /\ src["rps"] \in Int /\ src["rps"] >= 0 /\ new <= src["rps"]
        /\ rps[b][After[dst]] <= src["rps"]
    <3>1. new \in Content /\ new \in Int
      BY <1>3, <1>6, Numbers
    <3>2. src["rps"] \in Int /\ src["rps"] >= 0
      BY <1>3, BootHelpersAssumption DEF Typed, VolumeTyped, Kinds, Versions
    <3>3. new <= src["rps"] /\ rps[b][After[dst]] <= src["rps"]
      BY <1>3, <1>6, <1>8 DEF HelperKept, DirsKept
    <3> QED BY <1>7, <3>1, <3>2, <3>3, Numbers
  <2>7. DirsKept(b)'
    <3>1. \A e \in Dirs : rps'[b][e] <= src["rps"]
      BY <2>2, <2>6 DEF Absent
    <3>2. FirstDirs[b] # Dirs => \E e \in Dirs : rps'[b][e] = Absent
      BY <1>6, <1>7, <1>8, <2>2
    <3> QED BY <1>2, <1>7, <2>2, <2>3, <2>5, <3>1, <3>2 DEF DirsKept
  <2>8. /\ new >= up.tstamps["rps"] /\ new >= stamps["rps"]
    <3>1. new >= up.tstamps["rps"]
      BY <1>2, <1>3, <1>6 DEF AgesKept, NewKept
    <3>2. stamps["rps"] <= up.tstamps["rps"]
      BY <1>1, <1>3 DEF StampsKept, Kinds
    <3> QED BY <1>3, <2>6, <3>1, <3>2, Ints
  <2>9. KernelKept(b)'
    BY <1>2, <1>7, <2>2, <2>3, <2>5, <2>6, <2>8 DEF KernelKept, KernelThere, Good, Spared
  <2>10. up.doBooters => /\ booter[b] >= up.tstamps["booter"]
                         /\ \A e \in Dirs : Supports(booter[b], rps[b][e])
                         /\ blessed[b] = "booter"
    BY <1>2, <1>3 DEF AgesKept, NewKept, HelperKept, BootersKept
  <2>11. ~up.doBooters /\ Spared(b, {"changedUnderCopy"}) => Supports(up.tstamps["booter"], new)
    BY <1>2, <1>3, <1>6 DEF AgesKept, NewKept
  <2>12. NewKept(b)'
    <3>1. up.doBooters => \A e \in Dirs : Supports(booter[b], rps'[b][e])
      BY <1>3, <1>6, <1>8, <2>2, <2>10, NoKernelSupported DEF Typed
    <3> QED BY <1>2, <2>1, <2>2, <2>3, <2>5, <2>8, <2>10, <2>11, <3>1
            DEF NewKept, SameFlags, Spared, Supports
  <2>13. SupportKept(b)'
    <3>1. SUFFICES ASSUME Spared(b, BooterAged)
                   PROVE  /\ blessed[b] = "booter" => Starts(booter[b], new)
                          /\ blessed[b] = "old" => Starts(old[b], new)
      BY <2>2, <2>5 DEF SupportKept, Starts, Supports, Spared
    <3>2. CASE up.doBooters
      BY <1>6, <2>10, <3>2 DEF Starts
    <3>3. CASE ~up.doBooters
      <4>1. Spared(b, {"changedUnderCopy"}) /\ Spared(b, {"optional"})
        BY <3>1 DEF Spared, BooterAged
      <4>2. Suits(booter[b]) /\ (blessed[b] = "old" => Suits(old[b]))
        BY <1>3, <4>1 DEF AgesKept, AgeKept, OldNeeded
      <4>3. up.tstamps["booter"] = stamps["booter"]
        BY <1>1, <1>3, <3>3 DEF StampsKept
      <4>4. ASSUME NEW c \in {booter[b], old[b]}, Suits(c), Whole(c)
            PROVE  Supports(c, new)
        <5>1. up.tstamps["booter"] <= c /\ c \in Int /\ up.tstamps["booter"] \in Int
              /\ releases \subseteq Int
          BY <1>3, <4>3, <4>4, Ints DEF Suits
        <5> QED BY <2>6, <2>11, <3>3, <4>1, <5>1, SupportsMore
      <4> QED BY <4>2, <4>4 DEF Starts
    <3> QED BY <3>2, <3>3
  <2> QED BY <1>1, <1>2, <1>3, <1>4, <1>5, <1>6, <2>1, <2>2, <2>4, <2>5, <2>7, <2>9, <2>12, <2>13,
             DirStep DEF SameFlags
<1> QED BY <1>9, <1>10 DEF RenameRPS

(***************************************************************************)
(* The volume changes: what a helper holds is older than what is new, so   *)
(* that a booter starts what it started.                                   *)
(***************************************************************************)
VolumeAges ==
    /\ stamps' = stamps /\ \A k \in Kinds : src[k] <= src'[k]
    /\ releases \subseteq releases' /\ \A r \in releases' : r \in releases \/ r > clock

\* A later release takes no kernel from a booter.
LEMMA SupportsStill ==
    ASSUME Typed, VolumeTyped', VolumeAges, NEW c, NEW k \in Int, k <= clock, Supports(c, k)
    PROVE  Supports(c, k)'
<1>1. clock \in Int /\ releases' \subseteq Int
  BY BootHelpersAssumption DEF Typed, VolumeTyped, Versions
<1> QED BY <1>1 DEF VolumeAges, Supports

\* A step that leaves the volume leaves its versions.
LEMMA SameAges ==
    ASSUME Typed, UNCHANGED volume
    PROVE  VolumeAges /\ VolumeTyped' /\ \A k \in Kinds : src[k] \in Int
<1>1. \A k \in Kinds : src[k] \in Int
  BY BootHelpersAssumption DEF Typed, VolumeTyped, Versions
<1> QED BY <1>1, SameVolume DEF volume, VolumeAges, Typed

\* A change makes what changes newer than all there was.
LEMMA BumpAges ==
    ASSUME Typed, StampsKept, NEW kinds \in SUBSET Kinds, Bump(kinds)
    PROVE  /\ VolumeAges /\ VolumeTyped'
           /\ \A k \in Kinds : src'[k] <= clock' /\ stamps'[k] <= src'[k]
           /\ \A r \in releases', k \in Kinds : r <= src'[k]
           /\ stamps # src => stamps' # src'
<1>1. VolumeTyped'
  BY BumpTyped DEF Typed
<1>2. /\ clock \in Int /\ clock' = clock + 1 /\ stamps' = stamps
      /\ src' = [k \in Kinds |-> IF k \in kinds THEN clock + 1 ELSE src[k]]
      /\ releases' = releases \/ (kinds = Kinds /\ releases' = releases \cup {clock + 1})
      /\ \A k \in Kinds : src[k] \in Int /\ stamps[k] \in Int
      /\ src \in [Kinds -> Versions] /\ stamps \in [Kinds -> Versions \cup {0}]
      /\ releases \subseteq Int
  BY BootHelpersAssumption DEF Bump, Typed, VolumeTyped, Versions
<1>3. \A k \in Kinds : src[k] <= clock /\ stamps[k] <= src[k] /\ \A r \in releases : r <= src[k]
  BY DEF StampsKept
<1>4. \A k \in Kinds : /\ src[k] <= src'[k] /\ src'[k] <= clock' /\ stamps'[k] <= src'[k]
                       /\ src'[k] \in Int /\ (k \in kinds => src'[k] = clock + 1)
                       /\ (k \notin kinds => src'[k] = src[k])
  BY <1>2, <1>3
<1>5. VolumeAges
  BY <1>2, <1>4 DEF VolumeAges
<1>6. ASSUME NEW r \in releases', NEW k \in Kinds
      PROVE  r <= src'[k]
  <2>1. CASE r \in releases
    <3>1. r \in Int /\ r <= src[k] /\ src[k] <= src'[k] /\ src[k] \in Int /\ src'[k] \in Int
      BY <1>2, <1>3, <1>4, <2>1
    <3> QED BY <3>1
  <2>2. CASE r \notin releases
    BY <1>2, <1>4, <1>6, <2>2
  <2> QED BY <2>1, <2>2
<1>7. stamps # src => stamps' # src'
  <2>1. CASE kinds = {}
    <3>1. src' = src
      BY <1>1, <1>2, <1>4, <2>1 DEF VolumeTyped
    <3> QED BY <1>2, <3>1
  <2>2. CASE kinds # {}
    <3>1. PICK k \in kinds : TRUE
      BY <2>2
    <3>2. k \in Kinds /\ src'[k] = clock + 1 /\ stamps'[k] = stamps[k]
      BY <1>2, <1>4, <3>1
    <3>3. stamps'[k] # src'[k]
      BY <1>2, <1>3, <3>2
    <3> QED BY <3>3
  <2> QED BY <2>1, <2>2
<1> QED BY <1>1, <1>4, <1>5, <1>6, <1>7

\* What is anywhere is no newer than the volume.
LEMMA NoneNewer ==
    ASSUME IInv, NEW h \in Boots
    PROVE  /\ clock \in Int /\ KernelOf(rps[h]) <= clock
           /\ \A d \in Dirs : rps[h][d] <= clock
           /\ \A k \in Kinds : stamps[k] <= clock
           /\ up.pc # "idle" => \A k \in Kinds : up.tstamps[k] <= clock
<1>1. Typed /\ StampsKept /\ DirsKept(h) /\ "rps" \in Kinds
  BY DEF IInv, HelperKept, Kinds
<1>2. clock \in Int /\ \A k \in Kinds : src[k] \in Int /\ stamps[k] \in Int /\ up.tstamps[k] \in Int
  BY <1>1, Ints, BootHelpersAssumption DEF Typed, VolumeTyped, Versions
<1>3. \A k \in Kinds : src[k] <= clock /\ stamps[k] <= src[k]
  BY <1>1 DEF StampsKept
<1>4. \A d \in Dirs : rps[h][d] \in Int /\ rps[h][d] <= src["rps"]
  BY <1>1, Ints DEF DirsKept
<1>5. \A d \in Dirs : rps[h][d] <= clock
  BY <1>1, <1>2, <1>3, <1>4
<1>6. CurrentIn(rps[h]) \in Dirs
  BY <1>1, BlessedTyped
<1>7. up.pc # "idle" => \A k \in Kinds : up.tstamps[k] <= src[k]
  BY <1>1 DEF StampsKept
<1> QED BY <1>2, <1>3, <1>5, <1>6, <1>7 DEF KernelOf

\* A helper that kextcache is not at, and comes to at most, stays as it is.
LEMMA Resting ==
    ASSUME IInv, VolumeTyped', VolumeAges, NEW h \in Boots,
           Stage(h) = "out", Stage(h)' \in {"out", "findRPS"},
           rps'[h] = rps[h], booter'[h] = booter[h], old'[h] = old[h], blessed'[h] = blessed[h],
           dirty'[h] = dirty[h], mishaps[h] \subseteq mishaps'[h],
           h \in up'.updated => h \in up.updated /\ up'.tstamps = up.tstamps
    PROVE  (HelperKept(h) /\ AgesKept(h))'
<1>1. HelperKept(h) /\ AgesKept(h) /\ Typed /\ StampsKept
  BY DEF IInv
<1>2. \A causes : Spared(h, causes)' => Spared(h, causes)
  BY DEF Spared
<1>3. stamps' = stamps
  BY DEF VolumeAges
<1>4. {"out", "findRPS"} \cap (Copying \cup Copied \cup Replacing \cup Aside \cup Activating
                               \cup Reverting \cup Clearing) = {}
  BY DEF Copying, Copied, Replacing, Aside, Activating, Reverting, Clearing
<1>5. DirsKept(h)'
  <2>1. src["rps"] <= src'["rps"] /\ src["rps"] \in Int /\ src'["rps"] \in Int
    BY <1>1, Ints, BootHelpersAssumption DEF VolumeAges, Kinds, VolumeTyped, Versions
  <2>2. \A d \in Dirs : rps[h][d] <= src'["rps"]
    BY <1>1, <2>1, Ints DEF HelperKept, DirsKept
  <2> QED BY <1>1, <1>4, <2>2 DEF HelperKept, DirsKept
<1>6. BootersKept(h)'
  BY <1>1, <1>2, <1>4 DEF HelperKept, BootersKept, BooterKept, Steady, Reverting, Aside
<1>7. KernelKept(h)' /\ LabelKept(h)'
  BY <1>1, <1>2, <1>3, <1>4 DEF HelperKept, KernelKept, KernelThere, LabelKept
<1>8. NewKept(h)'
  BY <1>4 DEF NewKept, Aside, Reverting
<1>9. "rps" \in Kinds /\ "booter" \in Kinds /\ KernelOf(rps[h]) \in Int /\ stamps["rps"] \in Int
      /\ up.tstamps["rps"] \in Int /\ KernelOf(rps[h]) <= clock /\ stamps["rps"] <= clock
      /\ (h \in up.updated => up.tstamps["rps"] <= clock)
  BY <1>1, Ints, NoneNewer DEF StampsKept
<1>10. ASSUME NEW c, NEW k \in Int, k <= clock, Supports(c, k)
       PROVE  Supports(c, k)'
  BY <1>1, <1>10, SupportsStill
<1>11. AgeKept(h)'
  <2>1. \A c : Suits(c) => Suits(c)'
    BY <1>3, <1>9, <1>10 DEF Suits, Whole
  <2>2. h \in up'.updated => \A c : Renewed(c) => Renewed(c)'
    BY <1>9, <1>10 DEF Renewed, Whole
  <2>3. OldNeeded(h)' => OldNeeded(h)
    BY <1>4 DEF OldNeeded
  <2> QED BY <1>1, <1>2, <2>1, <2>2, <2>3 DEF AgesKept, AgeKept
<1>12. SupportKept(h)'
  BY <1>1, <1>2, <1>9, <1>10 DEF AgesKept, SupportKept, Starts, Whole
<1>13. RecoveryKept(h)'
  BY <1>1, <1>2 DEF AgesKept, RecoveryKept, Spared
<1> QED BY <1>5, <1>6, <1>7, <1>8, <1>11, <1>12, <1>13 DEF HelperKept, AgesKept

(***************************************************************************)
(* The steps of kextcache between helpers.                                 *)
(***************************************************************************)
\* Between helpers kextcache is at none.
LEMMA AtNone ==
    ASSUME up.pc \notin Working, NEW h
    PROVE  Stage(h) = "out"
  BY DEF Stage

\* checkBootContents() may add to what is to be done, never take away.
LEMMA MountKeeps ==
    ASSUME IInv, Mount
    PROVE  IInv'
<1>1. /\ Typed /\ StageKept /\ StampsKept /\ up.pc = "mount" /\ Here \in Boots /\ up \in Updates
      /\ "mount" \notin Working /\ "findRPS" \in Working /\ Here \in Int
  BY BootHelpersAssumption DEF IInv, Mount, At, Typed, Working, Boots
<1>2. Typed'
  BY StepTyped DEF Kextcache
<1>3. UNCHANGED <<volume, kernel, boot, dirty, mishaps>>
  BY DEF Mount
<1>4. /\ rps' = rps /\ src' = src /\ stamps' = stamps /\ releases' = releases /\ clock' = clock
      /\ VolumeAges /\ VolumeTyped'
  BY <1>1, <1>3, SameAges DEF kernel, volume
<1>5. /\ up'.opts = up.opts /\ up'.tstamps = up.tstamps /\ up'.updated = up.updated
      /\ up'.changestate = up.changestate
      /\ up.doRPS => up'.doRPS
      /\ up.doBooters => up'.doBooters
      /\ \/ up'.pc = "findRPS" /\ up'.bootIdx = up.bootIdx
         \/ up'.pc = "mount" /\ up'.bootIdx = up.bootIdx + 1
  <2> DEFINE default == Here \notin tainted
             rpsDo == up.doRPS \/ ~default
             bootersDo == up.doBooters \/ ~default \/ booter[Here] = Absent
             miscDo == up.doMisc \/ ~default \/ pre[Here].misc = Absent \/ ~pre[Here].label
  <2>1. CheckContents = [up EXCEPT !.doRPS = rpsDo, !.doBooters = bootersDo, !.doMisc = miscDo]
    BY DEF CheckContents
  <2>2. (up.doRPS => rpsDo) /\ (up.doBooters => bootersDo)
    OBVIOUS
  <2> HIDE DEF rpsDo, bootersDo, miscDo
  <2>3. CASE up' = [CheckContents EXCEPT !.pc = "findRPS"]
    <3>1. /\ up'.opts = up.opts /\ up'.tstamps = up.tstamps /\ up'.updated = up.updated
          /\ up'.changestate = up.changestate /\ up'.doRPS = rpsDo /\ up'.doBooters = bootersDo
          /\ up'.pc = "findRPS" /\ up'.bootIdx = up.bootIdx
      BY <1>1, <2>1, <2>3 DEF Updates
    <3> QED BY <2>2, <3>1
  <2>4. CASE up' = [up EXCEPT !.result = "failed", !.bootIdx = @ + 1]
    BY <1>1, <2>4 DEF Updates
  <2> QED BY <2>3, <2>4 DEF Mount
<1>6. up'.pc \in {"mount", "findRPS"} /\ up.pc # "idle" /\ up'.pc # "idle"
      /\ up.pc \in Updating /\ up'.pc \in Updating /\ up'.pc \notin Stamping
      /\ up.pc \notin Clearing
  BY <1>1, <1>5 DEF Updating, Phases, Stamping, Clearing
<1>7. StageKept'
  BY <1>1, <1>5, <1>6 DEF StageKept, Here, Working, Copying, Copied, Activating, Reverting,
                          Replacing, Aside
<1>8. StampsKept'
  <2>1. \A h \in up'.updated : h < Here'
    <3>1. \A h \in up.updated : h < Here /\ h \in Int
      BY <1>1, <1>6, BootHelpersAssumption DEF StampsKept, Updates, Boots
    <3> QED BY <1>1, <1>5, <3>1 DEF Here
  <2>2. ~up'.doRPS => ~up.doRPS
    BY <1>5
  <2>3. ~up'.doBooters => ~up.doBooters
    BY <1>5
  <2>4. /\ \A k \in Kinds : src'[k] <= clock' /\ stamps'[k] <= src'[k]
        /\ \A r \in releases', k \in Kinds : r <= src'[k]
    BY <1>1, <1>4 DEF StampsKept
  <2>5. /\ \A k \in Kinds : up'.tstamps[k] <= src'[k]
        /\ Supports(up.tstamps["booter"], up.tstamps["rps"])'
    BY <1>1, <1>4, <1>5, <1>6 DEF StampsKept, Supports
  <2>6. /\ \A k \in Kinds : stamps'[k] <= up'.tstamps[k]
        /\ ~up'.doBooters => up'.tstamps["booter"] = stamps'["booter"]
        /\ ~up'.doRPS => /\ up'.tstamps["rps"] = stamps'["rps"]
                         /\ \A h \in Boots, d \in Dirs : rps'[h][d] <= up'.tstamps["rps"]
        /\ "force" \notin up'.opts => stamps' # src'
    BY <1>1, <1>4, <1>5, <1>6, <2>2, <2>3 DEF StampsKept
  <2> QED BY <1>6, <2>1, <2>4, <2>5, <2>6 DEF StampsKept
<1>9. ASSUME NEW h \in Boots PROVE (HelperKept(h) /\ AgesKept(h))'
  <2>1. Stage(h) = "out" /\ Stage(h)' \in {"out", "findRPS"}
    BY <1>1, <1>5 DEF Stage
  <2> QED BY <1>3, <1>4, <1>5, <2>1, Resting DEF kernel, boot
<1> QED BY <1>2, <1>7, <1>8, <1>9 DEF IInv

\* Without stamps nothing is claimed.
LEMMA GiveUpKeeps ==
    ASSUME IInv, GiveUp
    PROVE  IInv'
<1>1. Typed /\ StampsKept /\ up.pc = "mount" /\ up' = Idle /\ up'.pc = "idle" /\ up'.updated = {}
  BY DEF IInv, GiveUp, AllDone, At, Idle
<1>2. Typed'
  BY StepTyped DEF Kextcache
<1>3. UNCHANGED <<volume, kernel, boot, dirty, mishaps>>
  BY DEF GiveUp
<1>4. VolumeAges /\ VolumeTyped'
  BY <1>1, <1>3, SameAges
<1>5. StageKept'
  BY <1>1 DEF StageKept, Working, Copying, Copied, Activating, Reverting, Replacing, Aside
<1>6. StampsKept'
  BY <1>1, <1>3 DEF StampsKept, volume, Updating, Stamping
<1>7. ASSUME NEW h \in Boots PROVE (HelperKept(h) /\ AgesKept(h))'
  <2>1. Stage(h) = "out" /\ Stage(h)' = "out"
    BY <1>1 DEF Stage, Working
  <2> QED BY <1>1, <1>3, <1>4, <2>1, Resting DEF kernel, boot
<1> QED BY <1>2, <1>5, <1>6, <1>7 DEF IInv

\* The second pass begins with no helper updated.
LEMMA RetrySmallerKeeps ==
    ASSUME IInv, RetrySmaller
    PROVE  IInv'
<1>1. /\ Typed /\ StageKept /\ StampsKept /\ up.pc = "mount" /\ up \in Updates
      /\ Bump({"rps"}) /\ {"rps"} \in SUBSET Kinds
  BY DEF IInv, RetrySmaller, AllDone, At, RebuildCaches, Kinds, Typed
<1>2. Typed'
  BY StepTyped DEF Kextcache
<1>3. UNCHANGED <<kernel, boot, dirty, mishaps>>
  BY DEF RetrySmaller
<1>4. /\ VolumeAges /\ VolumeTyped'
      /\ \A k \in Kinds : src'[k] <= clock' /\ stamps'[k] <= src'[k]
      /\ \A r \in releases', k \in Kinds : r <= src'[k]
      /\ stamps # src => stamps' # src'
  BY <1>1, BumpAges
<1>5. /\ up'.pc = "mount" /\ up'.updated = {} /\ up'.changestate = up.changestate
      /\ up'.opts = up.opts /\ up'.tstamps = up.tstamps
      /\ up'.doRPS = up.doRPS /\ up'.doBooters = up.doBooters
  BY <1>1 DEF RetrySmaller, Updates
<1>6. "mount" \in Updating /\ "mount" \notin Stamping /\ "mount" # "idle" /\ "mount" \notin Working
  BY DEF Updating, Phases, Stamping, Working
<1>7. StageKept'
  BY <1>1, <1>5 DEF StageKept, Working, Copying, Copied, Activating, Reverting, Replacing, Aside
<1>8. StampsKept'
  <2>1. stamps' = stamps /\ rps' = rps
    BY <1>3, <1>4 DEF VolumeAges, kernel
  <2>2. \A k \in Kinds : up.tstamps[k] <= src'[k]
    <3>1. ASSUME NEW k \in Kinds PROVE up.tstamps[k] <= src'[k]
      <4>1. up.tstamps[k] <= src[k] /\ src[k] <= src'[k]
        BY <1>1, <1>4, <1>6, <3>1 DEF StampsKept, VolumeAges
      <4>2. up.tstamps[k] \in Int /\ src[k] \in Int /\ src'[k] \in Int
        BY <1>1, <1>4, BootHelpersAssumption DEF Typed, VolumeTyped, Updates, Versions
      <4> QED BY <4>1, <4>2
    <3> QED BY <3>1
  <2>3. Supports(up.tstamps["booter"], up.tstamps["rps"])'
    <3>1. /\ up.tstamps["rps"] \in Int /\ up.tstamps["rps"] <= clock
          /\ Supports(up.tstamps["booter"], up.tstamps["rps"])
      <4>1. /\ up.tstamps["rps"] <= src["rps"] /\ src["rps"] <= clock
            /\ Supports(up.tstamps["booter"], up.tstamps["rps"])
        BY <1>1, <1>6 DEF StampsKept, Kinds
      <4>2. up.tstamps["rps"] \in Int /\ src["rps"] \in Int /\ clock \in Int
        BY <1>1, BootHelpersAssumption DEF Typed, VolumeTyped, Updates, Versions, Kinds
      <4> QED BY <4>1, <4>2
    <3>2. clock \in Int /\ releases' \subseteq Int
      BY <1>1, <1>4, BootHelpersAssumption DEF Typed, VolumeTyped, Versions
    <3> QED BY <1>4, <1>5, <3>1, <3>2 DEF VolumeAges, Supports
  <2>4. /\ \A k \in Kinds : stamps[k] <= up.tstamps[k]
        /\ ~up.doBooters => up.tstamps["booter"] = stamps["booter"]
        /\ ~up.doRPS => /\ up.tstamps["rps"] = stamps["rps"]
                        /\ \A h \in Boots, d \in Dirs : rps[h][d] <= up.tstamps["rps"]
        /\ "force" \notin up.opts => stamps # src
    BY <1>1, <1>6 DEF StampsKept
  <2> QED BY <1>4, <1>5, <1>6, <2>1, <2>2, <2>3, <2>4 DEF StampsKept
<1>9. ASSUME NEW h \in Boots PROVE (HelperKept(h) /\ AgesKept(h))'
  <2>1. Stage(h) = "out" /\ Stage(h)' = "out"
    BY <1>1, <1>5 DEF Stage, Working
  <2> QED BY <1>3, <1>4, <1>5, <2>1, Resting DEF kernel, boot
<1> QED BY <1>2, <1>7, <1>8, <1>9 DEF IInv

\* The stamps follow when each helper was updated, or left out under -Installer.
LEMMA BeginStampsKeeps ==
    ASSUME IInv, BeginStamps
    PROVE  IInv'
<1>1. /\ Typed /\ StageKept /\ StampsKept /\ up.pc = "mount" /\ up \in Updates
      /\ "stampRPS" \in Phases /\ Result = "ok" /\ Goto("stampRPS")
  BY DEF IInv, BeginStamps, AllDone, At, Typed, Phases
<1>2. Typed'
  BY StepTyped DEF Kextcache
<1>3. UNCHANGED <<volume, kernel, boot, dirty>>
  BY DEF BeginStamps
<1>4. VolumeAges /\ VolumeTyped' /\ src' = src /\ stamps' = stamps /\ releases' = releases /\ clock' = clock
  BY <1>1, <1>3, SameAges DEF volume
<1>5. SameFlags /\ up'.pc = "stampRPS"
  BY <1>1, Goes
<1>6. StageKept'
  BY <1>5 DEF StageKept, Working, Copying, Copied, Activating, Reverting, Replacing, Aside
<1>7. \A h \in Boots : /\ mishaps[h] \subseteq mishaps'[h]
                       /\ h \in up.updated \/ "optional" \in mishaps'[h]
  <2>1. up.updated = Boots \/ "optional" \in up.opts
    BY <1>1 DEF Result
  <2> QED BY <1>1, <2>1 DEF BeginStamps, Typed, RestTyped
<1>8. "mount" \in Updating /\ "mount" # "idle" /\ "stampRPS" \notin Updating /\ "stampRPS" \in Stamping
      /\ "mount" \notin Clearing
  BY DEF Updating, Phases, Stamping, Clearing
<1>9. StampsKept'
  BY <1>1, <1>4, <1>5, <1>7, <1>8 DEF StampsKept, SameFlags, Here, Supports
<1>10. ASSUME NEW h \in Boots PROVE (HelperKept(h) /\ AgesKept(h))'
  <2>1. Stage(h) = "out" /\ Stage(h)' = "out"
    BY <1>1, <1>5 DEF Stage, Working
  <2> QED BY <1>3, <1>4, <1>5, <1>7, <2>1, Resting DEF kernel, boot, SameFlags
<1> QED BY <1>2, <1>6, <1>9, <1>10 DEF IInv

(***************************************************************************)
(* kextcache leaves a helper: unmounted, or where a crash or a loss of     *)
(* power cuts it off.                                                      *)
(***************************************************************************)
\* Where the Recovery OS is not blessed, the current directory holds the kernel.
LEMMA KernelNow ==
    ASSUME IInv, NEW h \in Boots, NEW v, KernelThere(h, v), blessed[h] # "recovery"
    PROVE  Good(KernelOf(rps[h]), v)
<1>1. CASE Stage(h) \in Copying
  <2>1. Here = h /\ up.pc \in Copying /\ At(up.pc)
    BY <1>1 DEF Stage, Copying, At
  <2>2. KernelOf(rps[h]) = IF Spare(h) = Absent THEN rps[h][up.dstdir] ELSE Spare(h)
    BY <2>1, Target
  <2>3. Good(Spare(h), v) /\ ~Whole(Absent)
    BY <1>1, Numbers DEF KernelThere, Copying
  <2> QED BY <2>2, <2>3 DEF Good
<1>2. CASE Stage(h) \notin Copying
  BY <1>2 DEF KernelThere
<1> QED BY <1>1, <1>2

\* A helper that kextcache leaves, at the end or cut off.
LEMMA Leaves ==
    ASSUME IInv, NEW h \in Boots, Typed', Stage(h)' = "out", UNCHANGED volume,
           blessed'[h] = blessed[h], booter'[h] \in {booter[h], Partial},
           old'[h] \in {old[h], Partial},
           \A d \in Dirs : /\ rps'[h][d] \in {rps[h][d], Partial}
                           /\ rps'[h][d] = Absent <=> rps[h][d] = Absent,
           KernelOf(rps'[h]) = KernelOf(rps[h]) \/ "unflushed" \in mishaps'[h],
           dirty'[h] \subseteq dirty[h],
           mishaps[h] \cup LeftBare(h) \subseteq mishaps'[h],
           Spared(h, BooterLost)' => Steady(h)',
           h \in up'.updated => h \in up.updated /\ up'.tstamps = up.tstamps
    PROVE  (HelperKept(h) /\ AgesKept(h))'
<1>1. HelperKept(h) /\ AgesKept(h) /\ Typed /\ StampsKept /\ StageKept
  BY DEF IInv
<1>2. \A causes : Spared(h, causes)' => Spared(h, causes)
  BY DEF Spared
<1>3. stamps' = stamps /\ src' = src /\ releases' = releases
  BY DEF volume
<1>4. "out" \notin Copying \cup Copied \cup Replacing \cup Aside \cup Activating
                   \cup Reverting \cup Clearing
  BY DEF Copying, Copied, Replacing, Aside, Activating, Reverting, Clearing
<1>5. ~Whole(Partial) /\ ~Whole(Absent) /\ Partial <= src["rps"]
  BY <1>1, Numbers, BootHelpersAssumption DEF Typed, VolumeTyped, Kinds, Versions, Partial
<1>6. DirsKept(h)'
  <2>1. \A d \in Dirs : d \in dirty'[h] => rps'[h][d] # Absent
    BY <1>1 DEF HelperKept, DirsKept
  <2>2. \A d \in Dirs : rps'[h][d] <= src["rps"]
    BY <1>1, <1>5 DEF HelperKept, DirsKept
  <2>3. FirstDirs[h] # Dirs => \E d \in Dirs : rps'[h][d] = Absent
    BY <1>1 DEF HelperKept, DirsKept
  <2> QED BY <1>3, <1>4, <2>1, <2>2, <2>3 DEF DirsKept
<1>7. BootersKept(h)'
  <2>1. (blessed'[h] = "recovery" => h \in Recovery) /\ blessed'[h] \notin dirty'[h]
    BY <1>1 DEF HelperKept, BootersKept
  <2>2. BooterKept(h)' <=> Steady(h)'
    BY <1>4 DEF BooterKept, Reverting, Aside
  <2> QED BY <1>4, <2>1, <2>2 DEF BootersKept, Reverting, Aside
<1>8. ASSUME NEW v \in {0, stamps["rps"]}, KernelThere(h, v), blessed[h] # "recovery"
      PROVE  Good(KernelOf(rps[h]), v)
  BY <1>8, KernelNow
<1>9. Kernel(h) = KernelOf(rps[h])
  BY KernelIs
<1>10. KernelOf(rps[h]) \in Int /\ stamps["rps"] \in Int
       /\ (Whole(KernelOf(rps[h])) => KernelOf(rps[h]) >= 0)
  BY <1>1, Ints, BlessedTyped, Numbers
<1>11. KernelKept(h)'
  <2>1. ASSUME NEW v \in {0, stamps["rps"]}, KernelThere(h, v), Spared(h, KernelLost)',
               v = stamps["rps"] => v = 0 \/ Spared(h, {"kernelWentBack"})'
        PROVE  Good(KernelOf(rps'[h]), v)
    <3>1. KernelOf(rps'[h]) = KernelOf(rps[h])
      BY <2>1 DEF Spared, KernelLost
    <3>2. CASE blessed[h] # "recovery"
      BY <1>8, <2>1, <3>1, <3>2
    <3>3. CASE blessed[h] = "recovery"
      <4>1. Whole(KernelOf(rps[h]))
        BY <1>9, <2>1, <3>3 DEF LeftBare, Spared, KernelLost
      <4>2. v # 0 => ~(KernelOf(rps[h]) < stamps["rps"])
        BY <1>9, <2>1, <3>3 DEF LeftBare, Spared
      <4> QED BY <1>10, <2>1, <3>1, <4>1, <4>2 DEF Good
    <3> QED BY <3>2, <3>3
  <2>2. /\ Spared(h, KernelAged)' => Spared(h, KernelLost)' /\ Spared(h, {"kernelWentBack"})'
    BY DEF Spared, KernelAged
  <2>3. ASSUME NEW v
        PROVE  KernelThere(h, v)' <=> Good(KernelOf(rps'[h]), v)
    BY <1>4 DEF KernelThere, Copying, Good
  <2>4. Spared(h, KernelLost)' => KernelThere(h, 0) /\ Spared(h, KernelLost)
    BY <1>1, <1>2 DEF HelperKept, KernelKept
  <2>5. Spared(h, KernelAged)' => KernelThere(h, stamps["rps"])
    BY <1>1, <1>2 DEF HelperKept, KernelKept
  <2>6. Spared(h, KernelLost)' => Good(KernelOf(rps'[h]), 0)
    <3>1. CASE stamps["rps"] = 0
      BY <2>1, <2>4, <3>1
    <3>2. CASE stamps["rps"] # 0
      BY <2>1, <2>4, <3>2
    <3> QED BY <3>1, <3>2
  <2>7. Spared(h, KernelAged)' => Good(KernelOf(rps'[h]), stamps["rps"])
    BY <2>1, <2>2, <2>5
  <2> QED BY <1>3, <2>3, <2>6, <2>7 DEF KernelKept
<1>12. LabelKept(h)' /\ NewKept(h)'
  BY <1>4 DEF LabelKept, NewKept, Aside, Reverting
<1>13. AgeKept(h)'
  <2>1. OldNeeded(h)' => blessed[h] = "old" /\ OldNeeded(h)
    BY <1>4 DEF OldNeeded
  <2>2. Spared(h, KernelAged)' => KernelOf(rps'[h]) = KernelOf(rps[h])
    BY DEF Spared, KernelAged, KernelLost
  <2> QED BY <1>1, <1>2, <1>3, <1>5, <2>1, <2>2
          DEF AgesKept, AgeKept, Suits, Renewed, Supports, Good
<1>14. SupportKept(h)'
  <2>1. Spared(h, BooterAged)' => KernelOf(rps'[h]) = KernelOf(rps[h])
    BY DEF Spared, BooterAged, KernelLost
  <2> QED BY <1>1, <1>2, <1>3, <1>5, <2>1 DEF AgesKept, SupportKept, Starts, Supports
<1>15. RecoveryKept(h)'
  BY DEF RecoveryKept, Spared, LeftBare
<1> QED BY <1>6, <1>7, <1>11, <1>12, <1>13, <1>14, <1>15 DEF HelperKept, AgesKept

\* unmountBoot() flushes; a Recovery OS left blessed is noted.
LEMMA UnmountKeeps ==
    ASSUME IInv, NEW b \in Boots, b = Here, Unmount
    PROVE  IInv'
<1>1. At("unmount") /\ "unmount" \in Working /\ "mount" \notin Working /\ "unmount" \in Updating
      /\ "mount" \in Updating /\ "mount" \notin Stamping /\ "mount" # "idle" /\ "unmount" # "idle"
  BY DEF Unmount, Working, Updating, Stamping, Phases
<1>2. /\ Typed /\ StageKept /\ StampsKept /\ up.pc = "unmount" /\ Stage(b) = "unmount"
      /\ up \in Updates /\ HelperKept(b) /\ b \in Int
  BY <1>1, AtWork
<1>3. Typed'
  BY StepTyped DEF Kextcache
<1>4. UNCHANGED <<volume, kernel, boot>>
  BY DEF Unmount
<1>5. VolumeAges /\ VolumeTyped' /\ src' = src /\ stamps' = stamps /\ releases' = releases
      /\ clock' = clock /\ rps' = rps
  BY <1>2, <1>4, SameAges DEF volume, kernel
<1>6. /\ up'.pc = "mount" /\ up'.bootIdx = b + 1 /\ up'.changestate = "nothingSerious"
      /\ up'.opts = up.opts /\ up'.tstamps = up.tstamps /\ up'.updated = up.updated
      /\ up'.doRPS = up.doRPS /\ up'.doBooters = up.doBooters
  BY <1>2 DEF Unmount, Updates, Here
<1>7. StageKept'
  BY <1>6 DEF StageKept, Working, Copying, Copied, Activating, Reverting, Replacing, Aside
<1>8. StampsKept'
  <2>1. \A h \in up'.updated : h < Here'
    <3>1. \A h \in up.updated : h <= b /\ h \in Int
      BY <1>2, BootHelpersAssumption DEF StampsKept, Updates, Boots
    <3> QED BY <1>2, <1>6, <3>1 DEF Here
  <2> QED BY <1>1, <1>2, <1>5, <1>6, <2>1 DEF StampsKept, Supports
<1>9. ASSUME NEW h \in Boots PROVE (HelperKept(h) /\ AgesKept(h))'
  <2>1. Stage(h)' = "out"
    BY <1>1, <1>6 DEF Stage
  <2>2. CASE h # b
    <3>1. Stage(h) = "out"
      BY <2>2 DEF Stage
    <3>2. dirty'[h] = dirty[h] /\ mishaps'[h] = mishaps[h]
      BY <1>2, <2>2 DEF Unmount, Synced, Typed, RestTyped
    <3> QED BY <1>4, <1>5, <1>6, <2>1, <3>1, <3>2, Resting DEF kernel, boot
  <2>3. CASE h = b
    <3>1. dirty'[h] = {} /\ mishaps'[h] = mishaps[h] \cup LeftBare(h)
      BY <1>2, <2>3 DEF Unmount, Synced, Typed, RestTyped
    <3>2. /\ rps' = rps /\ blessed'[h] = blessed[h] /\ booter'[h] = booter[h] /\ old'[h] = old[h]
      BY <1>4 DEF kernel, boot
    <3>3. Spared(h, BooterLost)' => Steady(h)'
      <4>1. Spared(h, BooterLost)' => Spared(h, BooterLost)
        BY <3>1 DEF Spared
      <4>2. Spared(h, BooterLost) => Steady(h)
        BY <1>2, <2>3 DEF HelperKept, BootersKept, BooterKept, Aside
      <4> QED BY <3>2, <4>1, <4>2 DEF Steady
    <3> QED BY <1>3, <1>4, <1>6, <2>1, <3>1, <3>2, <3>3, Leaves
  <2> QED BY <2>2, <2>3
<1> QED BY <1>3, <1>7, <1>8, <1>9 DEF IInv

\* Where it is cut off, a booter that is not lost is in its place.
LEMMA Interrupts ==
    ASSUME IInv, NEW h \in Boots, mishaps[h] \subseteq mishaps'[h], blessed'[h] = blessed[h],
           booter'[h] \in {booter[h], Partial},
           blessed[h] = "booter" => booter'[h] = booter[h],
           blessed[h] = "old" => "interrupted" \in mishaps'[h],
           booter'[h] = Partial /\ blessed[h] # "booter" => "cutShort" \in mishaps'[h],
           Spared(h, BooterLost)'
    PROVE  Steady(h)'
<1>1. BooterKept(h) /\ blessed[h] # "old" /\ (blessed[h] # "booter" => booter'[h] # Partial)
  BY DEF IInv, HelperKept, BootersKept, Spared, BooterLost
<1>2. CASE Stage(h) \in Aside \cup {"unlinkNew", "restoreOld"} /\ blessed[h] = "recovery"
  BY <1>1, <1>2 DEF Steady
<1>3. CASE ~(Stage(h) \in Aside \cup {"unlinkNew", "restoreOld"} /\ blessed[h] = "recovery")
  <2>1. Steady(h)
    BY <1>1, <1>3 DEF BooterKept, Aside
  <2> QED BY <1>1, <2>1 DEF Steady
<1> QED BY <1>2, <1>3

\* What is noted where an update is cut off.
LEMMA InterruptedIs ==
    ASSUME IInv, NEW h \in Boots
    PROVE  /\ mishaps[h] \cup LeftBare(h) \subseteq Interrupted[h]
           /\ blessed[h] = "old" => "interrupted" \in Interrupted[h]
           /\ booter'[h] = Partial /\ blessed[h] # "booter" => "cutShort" \in Interrupted[h]
           /\ Interrupted[h] \subseteq Mishaps
<1>1. mishaps[h] \subseteq Mishaps
  BY DEF IInv, Typed, RestTyped
<1> QED BY <1>1 DEF Interrupted, LeftBare, Mishaps

\* An idle kextcache captures nothing and has updated nothing.
LEMMA IdleKept ==
    ASSUME IInv, up' = Idle, UNCHANGED volume
    PROVE  StageKept' /\ StampsKept' /\ up' \in Updates /\ \A h : Stage(h)' = "out"
<1>1. up'.pc = "idle" /\ up'.updated = {}
  BY DEF Idle
<1>2. StageKept'
  BY <1>1 DEF StageKept, Working, Copying, Copied, Activating, Reverting, Replacing, Aside
<1>3. StampsKept'
  BY <1>1 DEF IInv, StampsKept, volume, Updating, Stamping
<1>4. up' \in Updates
  BY BootHelpersAssumption DEF Idle, Updates, Nothing, Phases, ChangeStates
<1> QED BY <1>1, <1>2, <1>3, <1>4 DEF Stage, Working

\* kextcache killed at any step.
LEMMA CrashKeeps ==
    ASSUME IInv, Crash
    PROVE  IInv'
<1>1. /\ Typed /\ up' = Idle /\ mishaps' = Interrupted /\ UNCHANGED <<volume, kernel, boot, dirty, faults>>
      /\ crashes < MaxCrashes /\ crashes' = crashes + 1 /\ up'.updated = {}
  BY DEF IInv, Crash, Idle
<1>2. StageKept' /\ StampsKept' /\ up' \in Updates /\ \A h : Stage(h)' = "out"
  BY <1>1, IdleKept
<1>3. \A h \in Boots : Interrupted[h] \subseteq Mishaps
  BY InterruptedIs
<1>4. mishaps' \in [Boots -> SUBSET Mishaps]
  <2>1. DOMAIN Interrupted = Boots /\ Interrupted = [h \in Boots |-> Interrupted[h]]
    BY DEF Interrupted
  <2> QED BY <1>1, <1>3, <2>1
<1>5. Typed'
  <2>1. crashes' \in 0..MaxCrashes
    BY <1>1, BootHelpersAssumption DEF Typed, RestTyped
  <2> QED BY <1>1, <1>2, <1>4, <2>1, SameVolume DEF Typed, KernelTyped, BootTyped, RestTyped, kernel, boot
<1>6. ASSUME NEW h \in Boots PROVE (HelperKept(h) /\ AgesKept(h))'
  <2>1. /\ rps' = rps /\ blessed'[h] = blessed[h] /\ booter'[h] = booter[h] /\ old'[h] = old[h]
        /\ dirty'[h] = dirty[h]
    BY <1>1 DEF kernel, boot
  <2>2. /\ mishaps[h] \cup LeftBare(h) \subseteq mishaps'[h]
        /\ blessed[h] = "old" => "interrupted" \in mishaps'[h]
        /\ booter'[h] = Partial /\ blessed[h] # "booter" => "cutShort" \in mishaps'[h]
    BY <1>1, InterruptedIs
  <2>3. Spared(h, BooterLost)' => Steady(h)'
    BY <2>1, <2>2, Interrupts
  <2> QED BY <1>1, <1>2, <1>5, <2>1, <2>2, <2>3, Leaves
<1> QED BY <1>2, <1>5, <1>6 DEF IInv

\* What a loss of power makes of the directories f of a helper.
LEMMA DirsLost ==
    ASSUME NEW f \in [Dirs -> Content], NEW lost, \A d \in Dirs : d \in lost => f[d] # Absent
    PROVE  LET g == [d \in Dirs |-> IF d \in lost THEN Partial ELSE f[d]]
           IN  /\ g \in [Dirs -> Content]
               /\ \A d \in Dirs : /\ g[d] \in {f[d], Partial}
                                  /\ g[d] = Absent <=> f[d] = Absent
               /\ CurrentIn(g) = CurrentIn(f)
               /\ CurrentIn(f) \notin lost => KernelOf(g) = KernelOf(f)
<1> DEFINE g == [d \in Dirs |-> IF d \in lost THEN Partial ELSE f[d]]
<1>1. g \in [Dirs -> Content] /\ \A d \in Dirs : /\ g[d] \in {f[d], Partial}
                                                 /\ g[d] = Absent <=> f[d] = Absent
  BY Numbers DEF Absent, Partial
<1>2. PresentIn(g) = PresentIn(f)
  BY <1>1 DEF PresentIn
<1>3. CurrentIn(g) = CurrentIn(f)
  <2> DEFINE C(P) == IF P \in {{}, Dirs} THEN "R" ELSE CHOOSE d \in P : After[d] \notin P
  <2>1. CurrentIn(g) = C(PresentIn(g)) /\ CurrentIn(f) = C(PresentIn(f))
    BY Zenon DEF CurrentIn
  <2> HIDE DEF C
  <2> QED BY <1>2, <2>1
<1>4. CurrentIn(f) \notin lost => KernelOf(g) = KernelOf(f)
  BY <1>3, CurrentIs DEF KernelOf
<1> QED BY <1>1, <1>3, <1>4

\* The machine stopped at any step: what is not flushed is not blessed.
LEMMA PowerLossKeeps ==
    ASSUME IInv, PowerLoss
    PROVE  IInv'
<1>1. /\ Typed /\ up' = Idle /\ UNCHANGED <<volume, pre, tainted, blessed, faults>>
      /\ crashes < MaxCrashes /\ crashes' = crashes + 1 /\ up'.updated = {}
      /\ dirty' = [h \in Boots |-> {}]
  BY DEF IInv, PowerLoss, Idle
<1>2. StageKept' /\ StampsKept' /\ up' \in Updates /\ \A h : Stage(h)' = "out"
  BY <1>1, IdleKept
<1>0. PICK h \in Boots : \E lost \in SUBSET dirty[h] :
          /\ rps' = [rps EXCEPT ![h] = [d \in Dirs |-> IF d \in lost THEN Partial ELSE @[d]]]
          /\ booter' = [booter EXCEPT ![h] = IF "booter" \in lost THEN Partial ELSE @]
          /\ old' = [old EXCEPT ![h] = IF "old" \in lost THEN Partial ELSE @]
          /\ mishaps' = [Interrupted EXCEPT ![h] = @ \cup
                IF Current(h) \in lost THEN {"unflushed"} ELSE {}]
  BY DEF PowerLoss
<1>3. PICK lost \in SUBSET dirty[h] :
          /\ rps' = [rps EXCEPT ![h] = [d \in Dirs |-> IF d \in lost THEN Partial ELSE @[d]]]
          /\ booter' = [booter EXCEPT ![h] = IF "booter" \in lost THEN Partial ELSE @]
          /\ old' = [old EXCEPT ![h] = IF "old" \in lost THEN Partial ELSE @]
          /\ mishaps' = [Interrupted EXCEPT ![h] = @ \cup
                IF Current(h) \in lost THEN {"unflushed"} ELSE {}]
  BY <1>0
<1> DEFINE g == [d \in Dirs |-> IF d \in lost THEN Partial ELSE rps[h][d]]
<1>4. /\ rps[h] \in [Dirs -> Content]
      /\ \A d \in Dirs : d \in lost => rps[h][d] # Absent
      /\ blessed[h] \notin lost
  <2>1. HelperKept(h)
    BY DEF IInv
  <2> QED BY <1>1, <2>1, BlessedTyped DEF HelperKept, DirsKept, BootersKept
<1>5. /\ g \in [Dirs -> Content]
      /\ \A d \in Dirs : /\ g[d] \in {rps[h][d], Partial}
                         /\ g[d] = Absent <=> rps[h][d] = Absent
      /\ Current(h) \notin lost => KernelOf(g) = KernelOf(rps[h])
  BY <1>4, DirsLost, KernelIs
<1> HIDE DEF g
<1>6. /\ rps'[h] = g /\ \A e \in Boots \ {h} : rps'[e] = rps[e]
      /\ rps' \in [Boots -> [Dirs -> Content]]
  <2>1. rps \in [Boots -> [Dirs -> Content]]
    BY <1>1 DEF Typed, KernelTyped
  <2>2. rps' = [rps EXCEPT ![h] = g]
    BY <1>3, <2>1 DEF g
  <2> QED BY <1>5, <2>1, <2>2
<1>7. /\ booter'[h] = (IF "booter" \in lost THEN Partial ELSE booter[h])
      /\ old'[h] = (IF "old" \in lost THEN Partial ELSE old[h])
      /\ \A e \in Boots \ {h} : booter'[e] = booter[e] /\ old'[e] = old[e]
      /\ booter' \in [Boots -> Content] /\ old' \in [Boots -> Content]
  BY <1>1, <1>3, Numbers DEF Typed, BootTyped
<1>8. /\ mishaps' \in [Boots -> SUBSET Mishaps]
      /\ mishaps'[h] = Interrupted[h] \cup (IF Current(h) \in lost THEN {"unflushed"} ELSE {})
      /\ \A e \in Boots \ {h} : mishaps'[e] = Interrupted[e]
  <2>1. Interrupted \in [Boots -> SUBSET Mishaps]
    <3>1. DOMAIN Interrupted = Boots /\ Interrupted = [e \in Boots |-> Interrupted[e]]
      BY DEF Interrupted
    <3> QED BY <3>1, InterruptedIs
  <2>2. {"unflushed"} \subseteq Mishaps
    BY DEF Mishaps
  <2> DEFINE more == IF Current(h) \in lost THEN {"unflushed"} ELSE {}
  <2>3. more \in SUBSET Mishaps
    BY <2>2
  <2>4. mishaps' = [Interrupted EXCEPT ![h] = @ \cup more]
    BY <1>3
  <2> HIDE DEF more
  <2>5. mishaps' \in [Boots -> SUBSET Mishaps] /\ mishaps'[h] = Interrupted[h] \cup more
        /\ \A e \in Boots \ {h} : mishaps'[e] = Interrupted[e]
    BY <2>1, <2>3, <2>4
  <2> QED BY <2>5 DEF more
<1>9. Typed'
  <2>1. crashes' \in 0..MaxCrashes
    BY <1>1, BootHelpersAssumption DEF Typed, RestTyped
  <2>2. dirty' \in [Boots -> SUBSET Files]
    BY <1>1
  <2> QED BY <1>1, <1>2, <1>6, <1>7, <1>8, <2>1, <2>2, SameVolume
          DEF Typed, KernelTyped, BootTyped, RestTyped
<1>10. ASSUME NEW e \in Boots PROVE (HelperKept(e) /\ AgesKept(e))'
  <2>1. /\ blessed'[e] = blessed[e] /\ dirty'[e] = {}
        /\ booter'[e] \in {booter[e], Partial} /\ old'[e] \in {old[e], Partial}
        /\ blessed[e] = "booter" => booter'[e] = booter[e]
    BY <1>1, <1>4, <1>7
  <2>2. /\ \A d \in Dirs : /\ rps'[e][d] \in {rps[e][d], Partial}
                           /\ rps'[e][d] = Absent <=> rps[e][d] = Absent
        /\ KernelOf(rps'[e]) = KernelOf(rps[e]) \/ "unflushed" \in mishaps'[e]
    BY <1>5, <1>6, <1>8
  <2>3. /\ mishaps[e] \cup LeftBare(e) \subseteq mishaps'[e]
        /\ blessed[e] = "old" => "interrupted" \in mishaps'[e]
        /\ booter'[e] = Partial /\ blessed[e] # "booter" => "cutShort" \in mishaps'[e]
    BY <1>8, InterruptedIs
  <2>4. Spared(e, BooterLost)' => Steady(e)'
    BY <2>1, <2>3, Interrupts
  <2> QED BY <1>1, <1>2, <1>9, <2>1, <2>2, <2>3, <2>4, Leaves
<1> QED BY <1>2, <1>9, <1>10 DEF IInv

(***************************************************************************)
(* kextcache begins, the volume changes, and the stamps are written.       *)
(***************************************************************************)
LEMMA StartKeeps ==
    ASSUME IInv, NEW o \in Options, NEW rebuild \in BOOLEAN, Start(o, rebuild)
    PROVE  IInv'
<1> DEFINE stale == {k \in Kinds : OutOfDate(k)'}
           do == IF "force" \in o THEN Kinds ELSE stale
<1>1. /\ Typed /\ StampsKept /\ up.pc = "idle" /\ {"rps"} \in SUBSET Kinds
      /\ UNCHANGED <<kernel, boot, dirty, faults, crashes, mishaps>>
      /\ Bump({"rps"}) \/ UNCHANGED volume
  BY DEF IInv, Start, At, RebuildCaches, Kinds
<1>2. do # {} /\ up' = [Idle EXCEPT !.pc = "mount", !.bootIdx = 1, !.opts = o,
                             !.doRPS = "rps" \in do, !.doBooters = "booter" \in do,
                             !.doMisc = "misc" \in do, !.tstamps = src']
  BY DEF Start
<1>3. /\ VolumeAges /\ VolumeTyped'
      /\ \A k \in Kinds : src'[k] <= clock' /\ stamps'[k] <= src'[k]
      /\ \A r \in releases', k \in Kinds : r <= src'[k]
  <2>1. CASE Bump({"rps"})
    BY <1>1, <2>1, BumpAges
  <2>2. CASE UNCHANGED volume
    BY <1>1, <2>2, SameAges DEF volume, StampsKept
  <2> QED BY <1>1, <2>1, <2>2
<1>4. /\ up'.pc = "mount" /\ up'.updated = {} /\ up'.changestate = "nothingSerious"
      /\ up'.opts = o /\ up'.tstamps = src'
      /\ up'.doRPS = ("rps" \in do) /\ up'.doBooters = ("booter" \in do)
  BY <1>2 DEF Idle
<1>5. /\ src' \in [Kinds -> Versions] /\ stamps' \in [Kinds -> Versions \cup {0}]
      /\ \A k \in Kinds : src'[k] \in Int
      /\ "rps" \in Kinds /\ "booter" \in Kinds
  BY <1>3, BootHelpersAssumption DEF VolumeTyped, Versions, Kinds
<1>6. up' \in Updates
  <2> DEFINE r == "rps" \in do
             b == "booter" \in do
             m == "misc" \in do
  <2>1. r \in BOOLEAN /\ b \in BOOLEAN /\ m \in BOOLEAN
    OBVIOUS
  <2>2. up' = [Idle EXCEPT !.pc = "mount", !.bootIdx = 1, !.opts = o, !.doRPS = r,
                           !.doBooters = b, !.doMisc = m, !.tstamps = src']
    BY <1>2
  <2> HIDE DEF r, b, m
  <2>3. src' \in [Kinds -> Versions \cup {0}] /\ 1 \in 0..(NumBoots + 1)
    BY <1>5, BootHelpersAssumption
  <2>4. Idle \in Updates
    BY BootHelpersAssumption DEF Idle, Updates, Phases, ChangeStates, Nothing
  <2>5. "mount" \in Phases /\ o \in Options \cup {{}}
    BY DEF Phases
  <2> QED BY <2>1, <2>2, <2>3, <2>4, <2>5, ZenonT(60) DEF Updates
<1>7. Typed'
  BY <1>1, <1>3, <1>6 DEF Typed, KernelTyped, BootTyped, RestTyped, kernel, boot
<1>8. StageKept'
  BY <1>4 DEF StageKept, Working, Copying, Copied, Activating, Reverting, Replacing, Aside
<1>9. stale = {k \in Kinds : stamps'[k] # src'[k]}
  BY DEF OutOfDate
<1> HIDE DEF stale
<1>10. StampsKept'
  <2>1. ~up'.doBooters => src'["booter"] = stamps'["booter"]
    BY <1>4, <1>5, <1>9
  <2>2. ~up'.doRPS => src'["rps"] = stamps'["rps"]
    BY <1>4, <1>5, <1>9
  <2>3. "force" \notin up'.opts => stamps' # src'
    BY <1>2, <1>4, <1>9
  <2>4. \A h \in Boots, d \in Dirs : rps'[h][d] <= src'["rps"]
    <3>1. ASSUME NEW h \in Boots, NEW d \in Dirs PROVE rps[h][d] <= src'["rps"]
      <4>1. rps[h][d] <= src["rps"] /\ src["rps"] <= src'["rps"]
        BY <1>3, <1>5 DEF IInv, HelperKept, DirsKept, VolumeAges
      <4>2. rps[h][d] \in Int /\ src["rps"] \in Int
        BY <1>1, Ints
      <4> QED BY <1>5, <4>1, <4>2
    <3> QED BY <1>1, <3>1 DEF kernel
  <2>5. Supports(up.tstamps["booter"], up.tstamps["rps"])'
    BY <1>3, <1>4, <1>5 DEF Supports
  <2>6. \A k \in Kinds : up'.tstamps[k] <= src'[k]
    BY <1>4, <1>5
  <2>7. "mount" # "idle" /\ "mount" \notin Stamping
    BY DEF Stamping
  <2> QED BY <1>3, <1>4, <1>5, <2>1, <2>2, <2>3, <2>4, <2>5, <2>6, <2>7 DEF StampsKept
<1>11. ASSUME NEW h \in Boots PROVE (HelperKept(h) /\ AgesKept(h))'
  <2>1. Stage(h) = "out" /\ Stage(h)' = "out"
    BY <1>1, <1>4 DEF Stage, Working
  <2> QED BY <1>1, <1>3, <1>4, <2>1, Resting DEF kernel, boot
<1> QED BY <1>7, <1>8, <1>10, <1>11 DEF IInv

\* The volume may change at any time: what was captured stays behind.
LEMMA ChangeKeeps ==
    ASSUME IInv, NEW kinds \in Changes, Change(kinds)
    PROVE  IInv'
<1>1. /\ Typed /\ StageKept /\ StampsKept /\ Bump(kinds) /\ kinds \in SUBSET Kinds /\ up' = up
      /\ UNCHANGED <<kernel, boot, dirty, faults, crashes, mishaps>>
  BY BootHelpersAssumption DEF IInv, Change
<1>2. /\ VolumeAges /\ VolumeTyped'
      /\ \A k \in Kinds : src'[k] <= clock' /\ stamps'[k] <= src'[k]
      /\ \A r \in releases', k \in Kinds : r <= src'[k]
      /\ stamps # src => stamps' # src'
  BY <1>1, BumpAges
<1>3. Typed'
  BY <1>1, <1>2 DEF Typed, KernelTyped, BootTyped, RestTyped, kernel, boot
<1>4. StageKept'
  BY <1>1 DEF StageKept, Here
<1>5. /\ \A k \in Kinds : /\ src[k] \in Int /\ src'[k] \in Int /\ stamps[k] \in Int
                          /\ up.tstamps[k] \in Int /\ src[k] <= clock /\ src[k] <= src'[k]
      /\ clock \in Int /\ "rps" \in Kinds /\ "booter" \in Kinds /\ stamps' = stamps
      /\ \A k \in Kinds : stamps[k] <= clock
      /\ up.pc # "idle" => \A k \in Kinds : up.tstamps[k] <= src[k] /\ up.tstamps[k] <= clock
  <2>1. \A k \in Kinds : /\ src[k] \in Int /\ src'[k] \in Int /\ stamps[k] \in Int
                         /\ up.tstamps[k] \in Int
    BY <1>1, <1>2, BootHelpersAssumption DEF Typed, VolumeTyped, Versions, Updates
  <2>2. clock \in Int
    BY <1>1, BootHelpersAssumption DEF Typed, VolumeTyped, Versions
  <2>3. \A k \in Kinds : src[k] <= clock /\ stamps[k] <= src[k]
    BY <1>1 DEF StampsKept
  <2>4. up.pc # "idle" => \A k \in Kinds : up.tstamps[k] <= src[k]
    BY <1>1 DEF StampsKept
  <2> QED BY <1>2, <2>1, <2>2, <2>3, <2>4 DEF VolumeAges, Kinds
<1>6. ASSUME NEW c, NEW k \in Int, k <= clock, Supports(c, k)
      PROVE  Supports(c, k)'
  BY <1>1, <1>2, <1>6, SupportsStill
<1>7. StampsKept'
  <2>1. up.pc # "idle" => /\ \A k \in Kinds : up.tstamps[k] <= src'[k]
                          /\ Supports(up.tstamps["booter"], up.tstamps["rps"])'
    <3>1. SUFFICES ASSUME up.pc # "idle"
                   PROVE  /\ \A k \in Kinds : up.tstamps[k] <= src'[k]
                          /\ Supports(up.tstamps["booter"], up.tstamps["rps"])'
      OBVIOUS
    <3>2. \A k \in Kinds : up.tstamps[k] <= src'[k]
      BY <1>5, <3>1
    <3>3. Supports(up.tstamps["booter"], up.tstamps["rps"])
      BY <1>1, <3>1 DEF StampsKept
    <3>4. clock \in Int /\ releases' \subseteq Int
      BY <1>5, <1>2, BootHelpersAssumption DEF VolumeTyped, Versions
    <3>5. Supports(up.tstamps["booter"], up.tstamps["rps"])'
      BY <1>1, <1>2, <1>5, <3>1, <3>3, <3>4 DEF Supports, VolumeAges
    <3> QED BY <3>2, <3>5
  <2>2. rps' = rps
    BY <1>1 DEF kernel
  <2> QED BY <1>1, <1>2, <1>5, <2>1, <2>2 DEF StampsKept, Here
<1>8. ASSUME NEW h \in Boots PROVE (HelperKept(h) /\ AgesKept(h))'
  <2>1. HelperKept(h) /\ AgesKept(h)
    BY DEF IInv
  <2>2. /\ Stage(h)' = Stage(h) /\ rps' = rps /\ pre' = pre /\ booter' = booter /\ old' = old
        /\ blessed' = blessed /\ dirty' = dirty /\ mishaps' = mishaps /\ up' = up
    BY <1>1 DEF Stage, Here, kernel, boot
  <2>3. /\ \A causes : Spared(h, causes)' <=> Spared(h, causes)
        /\ Spare(h)' = Spare(h)
    BY <2>2 DEF Spared, Spare
  <2>4. KernelOf(rps[h]) \in Int /\ KernelOf(rps[h]) <= clock
        /\ \A d \in Dirs : rps[h][d] \in Int /\ rps[h][d] <= clock /\ rps[h][d] <= src["rps"]
    BY <1>1, <2>1, Ints, NoneNewer DEF HelperKept, DirsKept
  <2>5. DirsKept(h)'
    <3>1. \A d \in Dirs : rps[h][d] <= src'["rps"]
      BY <1>5, <2>4
    <3> QED BY <2>1, <2>2, <3>1 DEF HelperKept, DirsKept
  <2>6. BootersKept(h)'
    BY <2>1, <2>2, <2>3 DEF HelperKept, BootersKept, BooterKept, Steady
  <2>7. KernelKept(h)' /\ LabelKept(h)'
    BY <1>5, <2>1, <2>2, <2>3 DEF HelperKept, KernelKept, KernelThere, LabelKept
  <2>8. NewKept(h)'
    <3>1. up.dstdir \in Dirs \/ ~(Stage(h) \in Copied /\ up.doRPS)
      BY <1>1 DEF StageKept, Stage, Copied, Replacing, Aside
    <3>2. \A d \in Dirs : Supports(booter[h], rps[h][d]) => Supports(booter[h], rps[h][d])'
      BY <1>6, <2>2, <2>4
    <3>3. \A d \in Dirs : Supports(up.tstamps["booter"], rps[h][d])
                             => Supports(up.tstamps["booter"], rps[h][d])'
      BY <1>6, <2>2, <2>4
    <3>4. Supports(up.tstamps["booter"], KernelOf(rps[h]))
             => Supports(up.tstamps["booter"], KernelOf(rps[h]))'
      BY <1>6, <2>2, <2>4
    <3> QED BY <2>1, <2>2, <2>3, <3>1, <3>2, <3>3, <3>4 DEF AgesKept, NewKept
  <2>9. h \in up.updated => up.tstamps["rps"] <= clock
    BY <1>1, <1>5 DEF StampsKept
  <2>10. AgeKept(h)'
    <3>1. \A c : Suits(c) => Suits(c)'
      BY <1>5, <1>6 DEF Suits, Whole
    <3>2. h \in up.updated => \A c : Renewed(c) => Renewed(c)'
      BY <1>5, <1>6, <2>2, <2>9 DEF Renewed, Whole
    <3>3. OldNeeded(h)' <=> OldNeeded(h)
      BY <2>2 DEF OldNeeded
    <3> QED BY <2>1, <2>2, <2>3, <3>1, <3>2, <3>3 DEF AgesKept, AgeKept
  <2>11. SupportKept(h)' /\ RecoveryKept(h)'
    BY <1>6, <2>1, <2>2, <2>3, <2>4 DEF AgesKept, SupportKept, Starts, Whole, RecoveryKept
  <2> QED BY <2>5, <2>6, <2>7, <2>8, <2>10, <2>11 DEF HelperKept, AgesKept
<1> QED BY <1>3, <1>4, <1>7, <1>8 DEF IInv

\* A helper has what its stamp comes to say, or was left out under -Installer.
LEMMA WriteStampKeeps ==
    ASSUME IInv, WriteStamp
    PROVE  IInv'
<1>1. Typed /\ StageKept /\ StampsKept /\ up.pc \in Stamping /\ up \in Updates
  BY DEF IInv, Typed, WriteStamp, Stamped, Stamping
<1>2. Typed'
  BY StepTyped DEF Kextcache
<1>3. UNCHANGED <<src, releases, clock, kernel, boot, dirty, crashes, mishaps>>
  BY DEF WriteStamp
<1>4. \E k \in Kinds : stamps' \in {[stamps EXCEPT ![k] = up.tstamps[k]], [stamps EXCEPT ![k] = 0]}
  BY <1>1 DEF WriteStamp, Stamped, Stamping, Kinds
<1>5. /\ stamps \in [Kinds -> Versions \cup {0}] /\ "rps" \in Kinds /\ "booter" \in Kinds
      /\ \A k \in Kinds : stamps[k] \in Int /\ up.tstamps[k] \in Int /\ src[k] \in Int /\ src[k] >= 0
  BY <1>1, BootHelpersAssumption DEF Typed, VolumeTyped, Kinds, Versions, Updates
<1>6. \A k \in Kinds : stamps'[k] \in {stamps[k], up.tstamps[k], 0}
  BY <1>4, <1>5
<1>7. /\ up'.pc \in {"stampBooter", "stampMisc"}
      /\ up'.updated = up.updated /\ up'.tstamps = up.tstamps /\ up'.opts = up.opts
      /\ up'.bootIdx = up.bootIdx
      \/ up' = Idle
  <2>1. "stampBooter" \in Phases /\ "stampMisc" \in Phases
    BY DEF Phases
  <2>2. CASE Goto("stampBooter")
    BY <1>1, <2>1, <2>2, Goes DEF SameFlags
  <2>3. CASE Goto("stampMisc")
    BY <1>1, <2>1, <2>3, Goes DEF SameFlags
  <2> QED BY <1>1, <2>2, <2>3 DEF WriteStamp, At, Stamping
<1>8. /\ up.pc # "idle" /\ up.pc \notin Working /\ up.pc \notin Clearing
      /\ up'.pc \in {"stampBooter", "stampMisc", "idle"}
      /\ up'.pc = "idle" => up'.updated = {}
      /\ up'.pc # "idle" => /\ up'.updated = up.updated /\ up'.tstamps = up.tstamps
                            /\ up'.opts = up.opts /\ up'.bootIdx = up.bootIdx
      /\ up'.opts \subseteq up.opts
  BY <1>1, <1>7 DEF Stamping, Working, Clearing, Idle
<1>9. StageKept'
  BY <1>8 DEF StageKept, Working, Copying, Copied, Activating, Reverting, Replacing, Aside
<1>10. StampsKept'
  <2>1. up'.pc \notin Updating
    BY <1>8 DEF Updating, Stamping
  <2>2. \A k \in Kinds : src[k] <= clock /\ stamps'[k] <= src[k]
    <3>1. \A k \in Kinds : src[k] <= clock /\ stamps[k] <= src[k] /\ up.tstamps[k] <= src[k]
      BY <1>1, <1>8 DEF StampsKept
    <3> QED BY <1>5, <1>6, <3>1
  <2>3. /\ \A r \in releases, k \in Kinds : r <= src[k]
        /\ \A k \in Kinds : up.tstamps[k] <= src[k]
        /\ Supports(up.tstamps["booter"], up.tstamps["rps"])
        /\ \A h \in Boots : h \in up.updated \/ "optional" \in mishaps[h]
        /\ \A h \in up.updated : h < Here
    BY <1>1, <1>8 DEF StampsKept
  <2>4. src' = src /\ releases' = releases /\ clock' = clock /\ mishaps' = mishaps
    BY <1>3
  <2>5. CASE up'.pc = "idle"
    BY <1>8, <2>1, <2>2, <2>3, <2>4, <2>5 DEF StampsKept, Stamping
  <2>6. CASE up'.pc # "idle"
    <3>1. up'.updated = up.updated /\ up'.tstamps = up.tstamps /\ Here' = Here
      BY <1>8, <2>6 DEF Here
    <3> QED BY <2>1, <2>2, <2>3, <2>4, <2>6, <3>1 DEF StampsKept, Supports
  <2> QED BY <2>5, <2>6
<1>11. ASSUME NEW h \in Boots PROVE (HelperKept(h) /\ AgesKept(h))'
  <2>1. HelperKept(h) /\ AgesKept(h) /\ (h \in up.updated \/ ~Spared(h, {"optional"}))
    BY <1>1 DEF IInv, StampsKept, Spared
  <2>2. Stage(h) = "out" /\ Stage(h)' = "out"
    BY <1>8 DEF Stage, Working
  <2>3. /\ rps' = rps /\ pre' = pre /\ booter' = booter /\ old' = old /\ src' = src
        /\ blessed' = blessed /\ dirty' = dirty /\ mishaps' = mishaps /\ releases' = releases
    BY <1>3 DEF kernel, boot
  <2>4. \A causes : Spared(h, causes)' <=> Spared(h, causes)
    BY <2>3 DEF Spared
  <2>5. "out" \notin Copying \cup Copied \cup Replacing \cup Aside \cup Activating
                     \cup Reverting \cup Clearing
    BY DEF Copying, Copied, Replacing, Aside, Activating, Reverting, Clearing
  <2>6. DirsKept(h)' /\ BootersKept(h)'
    BY <2>1, <2>2, <2>3, <2>4, <2>5 DEF HelperKept, DirsKept, BootersKept, BooterKept, Steady, Reverting, Aside
  <2>7. KernelKept(h)' /\ LabelKept(h)'
    <3>1. \A v : KernelThere(h, v) <=> Good(KernelOf(rps[h]), v)
      BY <2>2, <2>5 DEF KernelThere, Copying
    <3>2. \A v : KernelThere(h, v)' <=> Good(KernelOf(rps[h]), v)
      BY <2>2, <2>3, <2>5 DEF KernelThere, Copying, Good
    <3>3. Spared(h, KernelAged) => Spared(h, {"optional"}) /\ Spared(h, KernelLost)
      BY DEF Spared, KernelAged
    <3>4. /\ Spared(h, KernelLost) => Good(KernelOf(rps[h]), 0)
          /\ Spared(h, KernelAged) => Good(KernelOf(rps[h]), stamps["rps"])
          /\ Spared(h, KernelAged) => Good(KernelOf(rps[h]), up.tstamps["rps"])
      BY <2>1, <3>1, <3>3 DEF HelperKept, KernelKept, AgesKept, AgeKept
    <3>5. Spared(h, KernelAged) => Good(KernelOf(rps[h]), stamps'["rps"])
      BY <1>5, <1>6, <3>3, <3>4
    <3> QED BY <2>2, <2>4, <2>5, <3>2, <3>4, <3>5 DEF KernelKept, LabelKept
  <2>8. NewKept(h)'
    BY <2>2, <2>5 DEF NewKept, Aside, Reverting
  <2>9. AgeKept(h)'
    <3>1. ASSUME NEW c \in {booter[h], old[h]}, Suits(c), Renewed(c), Whole(c)
          PROVE  c >= stamps'["booter"] /\ \A r \in releases : r <= stamps'["rps"] => r <= c
      <4>1. c \in Int /\ c > 0 /\ releases \subseteq Int /\ \A r \in releases : r > 0
        BY <1>1, <3>1, BlessedTyped, Numbers, BootHelpersAssumption
           DEF Typed, VolumeTyped, Versions
      <4>2. /\ c >= stamps["booter"] /\ \A r \in releases : r <= stamps["rps"] => r <= c
            /\ c >= up.tstamps["booter"] /\ \A r \in releases : r <= up.tstamps["rps"] => r <= c
        BY <3>1 DEF Suits, Renewed, Supports
      <4>3. c >= stamps'["booter"]
        BY <1>5, <1>6, <4>1, <4>2
      <4>4. \A r \in releases : r <= stamps'["rps"] => r <= c
        BY <1>5, <1>6, <4>1, <4>2
      <4> QED BY <4>3, <4>4
    <3>2. ASSUME NEW c \in {booter[h], old[h]}, Suits(c), Renewed(c)
          PROVE  Suits(c)'
      BY <2>3, <3>1, <3>2 DEF Suits, Supports, Whole
    <3>3. Spared(h, {"optional"}) => /\ Suits(booter[h]) /\ Renewed(booter[h])
                                     /\ blessed[h] = "old" => Suits(old[h]) /\ Renewed(old[h])
      BY <2>1 DEF AgesKept, AgeKept, OldNeeded
    <3>4. OldNeeded(h)' <=> blessed[h] = "old"
      BY <2>2, <2>3, <2>5 DEF OldNeeded
    <3>5. Spared(h, {"optional"})' => Suits(booter[h])' /\ (blessed[h] = "old" => Suits(old[h])')
      <4>1. Spared(h, {"optional"})' => Spared(h, {"optional"})
        BY <2>4
      <4>2. Suits(booter[h]) /\ Renewed(booter[h]) => Suits(booter[h])'
        BY <2>3, <3>1 DEF Suits, Supports, Whole
      <4>3. Suits(old[h]) /\ Renewed(old[h]) => Suits(old[h])'
        BY <2>3, <3>1 DEF Suits, Supports, Whole
      <4> QED BY <2>3, <3>3, <4>1, <4>2, <4>3
    <3>6. h \in up'.updated => h \in up.updated /\ up'.tstamps = up.tstamps
      BY <1>8
    <3>7. h \in up'.updated => /\ Spared(h, KernelAged) => Good(KernelOf(rps[h]), up.tstamps["rps"])
                               /\ Spared(h, {"optional"}) =>
                                     Renewed(booter[h]) /\ (blessed[h] = "old" => Renewed(old[h]))
      BY <2>1, <3>6 DEF AgesKept, AgeKept
    <3> QED BY <2>3, <2>4, <3>4, <3>5, <3>6, <3>7 DEF AgeKept, Suits, Renewed, Supports
  <2>10. SupportKept(h)' /\ RecoveryKept(h)'
    BY <1>8, <2>1, <2>2, <2>3, <2>4 DEF AgesKept, SupportKept, Starts, Supports, RecoveryKept
  <2> QED BY <2>6, <2>7, <2>8, <2>9, <2>10 DEF HelperKept, AgesKept
<1> QED BY <1>2, <1>9, <1>10, <1>11 DEF IInv

(***************************************************************************)
(* The invariant.                                                          *)
(***************************************************************************)
LEMMA HereWorks ==
    ASSUME IInv, NEW s \in Working, At(s)
    PROVE  Here \in Boots
  BY DEF IInv, StageKept, At

\* All steps of kextcache.
LEMMA KextcacheIInv ==
    ASSUME IInv, Kextcache
    PROVE  IInv'
<1>1. CASE Mount \/ RetrySmaller \/ GiveUp \/ BeginStamps \/ WriteStamp
  BY <1>1, MountKeeps, RetrySmallerKeeps, GiveUpKeeps, BeginStampsKeeps, WriteStampKeeps
<1>2. CASE ~(Mount \/ RetrySmaller \/ GiveUp \/ BeginStamps \/ WriteStamp)
  <2>1. \E s \in Working : At(s)
    BY <1>2 DEF Kextcache, Working, EraseThird, PickRPS, BlessRecovery, EraseCur, EraseDst, MakeRPS,
                CopyRPS, CopyMisc, Label, UnlinkOld, RenameOld, CreateBooter, FillBooter,
                SyncBooters, Bless, RenameRPS, SyncRPS, ActivateMisc, Rebless, UnlinkNew,
                RestoreOld, RevertLabel, NukeOld, NukeRPS, Unmount
  <2>2. Here \in Boots
    BY <2>1, HereWorks
  <2>3. CASE EraseThird \/ PickRPS \/ BlessRecovery \/ EraseCur \/ EraseDst \/ MakeRPS \/ CopyRPS
    BY <2>2, <2>3, EraseThirdKeeps, PickRPSKeeps, BlessRecoveryKeeps, EraseCurKeeps,
       EraseDstKeeps, MakeRPSKeeps, CopyRPSKeeps
  <2>4. CASE CopyMisc \/ Label \/ UnlinkOld \/ RenameOld \/ CreateBooter \/ FillBooter \/ SyncBooters
    BY <2>2, <2>4, CopyMiscKeeps, LabelKeeps, UnlinkOldKeeps, RenameOldKeeps, CreateBooterKeeps,
       FillBooterKeeps, SyncBootersKeeps
  <2>5. CASE Bless \/ RenameRPS \/ SyncRPS \/ ActivateMisc
    BY <2>2, <2>5, BlessKeeps, RenameRPSKeeps, SyncRPSKeeps, ActivateMiscKeeps
  <2>6. CASE Rebless \/ UnlinkNew \/ RestoreOld \/ RevertLabel \/ NukeOld \/ NukeRPS \/ Unmount
    BY <2>2, <2>6, ReblessKeeps, UnlinkNewKeeps, RestoreOldKeeps, RevertLabelKeeps, NukeOldKeeps,
       NukeRPSKeeps, UnmountKeeps
  <2> QED BY <1>2, <2>3, <2>4, <2>5, <2>6 DEF Kextcache
<1> QED BY <1>1, <1>2

\* Nothing changes.
LEMMA StutterIInv ==
    ASSUME IInv, UNCHANGED vars
    PROVE  IInv'
<1>1. /\ up' = up /\ rps' = rps /\ pre' = pre /\ tainted' = tainted /\ booter' = booter /\ old' = old
      /\ blessed' = blessed /\ dirty' = dirty /\ mishaps' = mishaps /\ src' = src
      /\ stamps' = stamps /\ releases' = releases /\ clock' = clock /\ faults' = faults
      /\ crashes' = crashes
  BY DEF vars, volume, kernel, boot
<1>2. Typed' /\ StageKept' /\ StampsKept'
  BY <1>1 DEF IInv, Typed, VolumeTyped, KernelTyped, BootTyped, RestTyped, StageKept, StampsKept,
              Here, Supports
<1>3. ASSUME NEW h \in Boots PROVE (HelperKept(h) /\ AgesKept(h))'
  <2>1. Stage(h)' = Stage(h) /\ HelperKept(h) /\ AgesKept(h)
    BY <1>1 DEF Stage, Here, IInv
  <2>2. (\A causes : Spared(h, causes)' <=> Spared(h, causes)) /\ Spare(h)' = Spare(h)
    BY <1>1 DEF Spared, Spare
  <2>3. HelperKept(h)'
    BY <1>1, <2>1, <2>2 DEF HelperKept, DirsKept, BootersKept, BooterKept, Steady, KernelKept,
                            KernelThere, LabelKept
  <2>4. NewKept(h)'
    BY <1>1, <2>1, <2>2 DEF AgesKept, NewKept, Supports
  <2>5. AgeKept(h)' /\ SupportKept(h)' /\ RecoveryKept(h)'
    BY <1>1, <2>1, <2>2 DEF AgesKept, AgeKept, OldNeeded, Suits, Renewed, SupportKept, Starts,
                            RecoveryKept, Supports
  <2> QED BY <2>3, <2>4, <2>5 DEF AgesKept
<1> QED BY <1>2, <1>3 DEF IInv

\* The invariant is inductive.
LEMMA NextIInv == IInv /\ [Next]_vars => IInv'
  BY KextcacheIInv, StutterIInv, StartKeeps, ChangeKeeps, CrashKeeps, PowerLossKeeps DEF Next

\* It holds of every run.
LEMMA Inductive == Spec => []IInv
<1>1. Init => IInv
  BY InitIInv
<1>2. IInv /\ [Next]_vars => IInv'
  BY NextIInv
<1> QED BY <1>1, <1>2, PTL DEF Spec

(***************************************************************************)
(* What the invariant says of a helper.                                    *)
(***************************************************************************)
\* The booter that is blessed is whole, and in its place while the label shows.
LEMMA BlessedWhole ==
    ASSUME IInv, NEW h \in Boots, Spared(h, BooterLost), blessed[h] # "recovery"
    PROVE  /\ blessed[h] \in {"booter", "old"} /\ Whole(BlessedBooter(h))
           /\ \/ blessed[h] = "booter" /\ Whole(booter[h])
              \/ Stage(h) \in Aside \cup {"unlinkNew", "restoreOld"}
<1>1. BooterKept(h) /\ Typed
  BY DEF IInv, HelperKept, BootersKept
<1>2. booter[h] \in Content /\ old[h] \in Content
  BY <1>1, BlessedTyped
<1>3. Steady(h) => blessed[h] = "booter" /\ Whole(booter[h])
  BY <1>2, Numbers DEF Steady
<1>4. ~Steady(h) => blessed[h] = "old" /\ Whole(old[h])
                    /\ Stage(h) \in Aside \cup {"unlinkNew", "restoreOld"}
  BY <1>1, <1>2, Numbers DEF BooterKept
<1> QED BY <1>3, <1>4 DEF BlessedBooter

\* What the invariant says of the helpers' order.
LEMMA InOrder == IInv => HelpersInOrder
<1> SUFFICES ASSUME IInv PROVE HelpersInOrder
  OBVIOUS
<1>1. TypeOK
  BY Typings DEF IInv
<1>2. BlessedIsFlushed
  BY DEF IInv, HelperKept, BootersKept, BlessedIsFlushed
<1>3. LabelMeansSettled
  <2>1. SUFFICES ASSUME NEW h \in Boots \ Recovery, pre[h].label, Spared(h, BooterLost),
                        ~(Here = h /\ up.result # "ok")
                 PROVE  blessed[h] = "booter" /\ Whole(booter[h])
    BY DEF LabelMeansSettled
  <2>2. blessed[h] # "recovery" /\ Stage(h) \notin Replacing /\ StageKept
    BY <2>1 DEF IInv, HelperKept, BootersKept, LabelKept
  <2>3. Stage(h) \notin Reverting
    BY <2>1, <2>2 DEF Stage, StageKept, Reverting
  <2> QED BY <2>1, <2>2, <2>3, BlessedWhole DEF Replacing, Reverting
<1>4. NeverThree
  <2>1. SUFFICES ASSUME NEW h \in Boots, FirstDirs[h] # Dirs PROVE Present(h) # Dirs
    BY DEF NeverThree
  <2>2. \E d \in Dirs : rps[h][d] = Absent
    BY <2>1 DEF IInv, HelperKept, DirsKept
  <2> QED BY <2>2 DEF Present
<1> QED BY <1>1, <1>2, <1>3, <1>4 DEF HelpersInOrder

\* What it says of booting: BooterKept and KernelKept.
LEMMA StillBootable == IInv => AlwaysBootable
<1> SUFFICES ASSUME IInv, NEW h \in Boots, Spared(h, BooterLost \cup KernelLost),
                    blessed[h] # "recovery"
             PROVE  Whole(BlessedBooter(h)) /\ Whole(Kernel(h))
  BY DEF AlwaysBootable, Bootable
<1>1. Spared(h, BooterLost) /\ Spared(h, KernelLost)
  BY DEF Spared
<1>2. KernelThere(h, 0)
  BY <1>1 DEF IInv, HelperKept, KernelKept
<1>3. Whole(KernelOf(rps[h]))
  BY <1>2, KernelNow DEF Good
<1> QED BY <1>1, <1>3, BlessedWhole, KernelIs

\* With stamps of the volume's files, what is no older than the stamps is the volume's.
LEMMA Honest == IInv => StampsHonest
<1> SUFFICES ASSUME IInv, stamps = src, NEW h \in Boots,
                    Spared(h, BooterLost \cup KernelLost
                               \cup {"kernelWentBack", "recoveryKept", "forced", "optional"})
             PROVE  Serves(h)
  BY DEF StampsHonest, Settled
<1>1. /\ Spared(h, BooterLost) /\ Spared(h, KernelAged) /\ Spared(h, {"optional"})
      /\ Spared(h, {"recoveryKept"}) /\ Spared(h, {"recoveryKept", "forced"})
  BY DEF Spared, KernelAged
<1>2. HelperKept(h) /\ AgesKept(h) /\ StampsKept
  BY DEF IInv
<1>3. blessed[h] # "recovery"
  <2>1. Stage(h) # "out" => up.pc \in Updating
    BY DEF Stage, Working, Updating, Stamping, Phases
  <2>2. Stage(h) # "out" => "force" \in up.opts
    BY <1>2, <2>1 DEF StampsKept
  <2> QED BY <1>1, <1>2, <2>2 DEF AgesKept, RecoveryKept
<1>4. Kernel(h) >= src["rps"]
  <2>1. KernelThere(h, stamps["rps"])
    BY <1>1, <1>2 DEF HelperKept, KernelKept
  <2>2. Good(KernelOf(rps[h]), stamps["rps"])
    BY <1>3, <2>1, KernelNow
  <2> QED BY <2>2, KernelIs DEF Good
<1>5. BlessedBooter(h) >= src["booter"]
  <2>1. blessed[h] \in {"booter", "old"} /\ Whole(BlessedBooter(h))
    BY <1>1, <1>3, BlessedWhole
  <2>2. Suits(booter[h]) /\ (blessed[h] = "old" => Suits(old[h]))
    BY <1>1, <1>2 DEF AgesKept, AgeKept, OldNeeded
  <2> QED BY <2>1, <2>2 DEF Suits, BlessedBooter
<1> QED BY <1>3, <1>4, <1>5 DEF Serves

\* What it says of the booter and the kernel together: SupportKept.
LEMMA Supported == IInv => BooterSupportsKernel
<1> SUFFICES ASSUME IInv, NEW h \in Boots, Bootable(h), blessed[h] # "recovery",
                    Spared(h, KernelLost \cup {"revertedLate", "changedUnderCopy", "optional"})
             PROVE  Supports(BlessedBooter(h), Kernel(h))
  BY DEF BooterSupportsKernel
<1>1. Spared(h, BooterAged)
  BY DEF BooterAged
<1>2. Whole(BlessedBooter(h)) /\ Whole(Kernel(h)) /\ blessed[h] \in Blessings
  BY BlessedTyped DEF Bootable, IInv, Blessings
<1>3. blessed[h] \in {"booter", "old"}
  <2>1. ~Whole(Absent)
    BY Numbers
  <2> QED BY <1>2, <2>1 DEF BlessedBooter, Blessings
<1>4. /\ blessed[h] = "booter" => Starts(booter[h], KernelOf(rps[h]))
      /\ blessed[h] = "old" => Starts(old[h], KernelOf(rps[h]))
  BY <1>1 DEF IInv, AgesKept, SupportKept
<1> QED BY <1>2, <1>3, <1>4, KernelIs DEF Starts, BlessedBooter

(***************************************************************************)
(* The kernel a helper boots never goes back.                              *)
(***************************************************************************)
Advances(h) == Whole(KernelOf(rps[h])) /\ Whole(KernelOf(rps'[h]))
                  => KernelOf(rps'[h]) >= KernelOf(rps[h])

\* What is emptied and filled before it is current, and what is erased while it
\* is current, is not whole before or after.
LEMMA CopyingAdvances ==
    ASSUME IInv, NEW b \in Boots, b = Here, NEW s \in Copying, At(s),
           rps'[b] \in [Dirs -> Content], rps'[b][Before[up.dstdir]] = rps[b][Before[up.dstdir]],
           \/ /\ rps'[b][After[up.dstdir]] = rps[b][After[up.dstdir]]
              /\ ~Whole(rps[b][up.dstdir]) \/ ~Whole(rps'[b][up.dstdir])
           \/ /\ rps'[b][up.dstdir] = rps[b][up.dstdir]
              /\ \/ rps'[b][After[up.dstdir]] = Partial
                 \/ rps'[b][After[up.dstdir]] = Absent /\ ~Whole(rps[b][After[up.dstdir]])
    PROVE  Advances(b)
<1>1. /\ up.dstdir \in Dirs /\ rps[b][Before[up.dstdir]] = Absent /\ Typed
      /\ KernelOf(rps[b]) = IF Spare(b) = Absent THEN rps[b][up.dstdir] ELSE Spare(b)
  BY Target
<1>2. KernelOf(rps'[b]) = IF rps'[b][After[up.dstdir]] = Absent THEN rps'[b][up.dstdir]
                          ELSE rps'[b][After[up.dstdir]]
  BY <1>1, TwoDirs
<1>3. ~Whole(Absent) /\ ~Whole(Partial) /\ KernelOf(rps[b]) \in Int /\ Absent # Partial
  BY <1>1, Numbers, BlessedTyped DEF Absent, Partial
<1> QED BY <1>1, <1>2, <1>3 DEF Advances, Spare

\* Directories that stay keep their kernel.
LEMMA SameAdvances ==
    ASSUME Typed, NEW h \in Boots, rps'[h] = rps[h]
    PROVE  Advances(h)
  BY BlessedTyped DEF Advances

\* Erasing leaves the current kernel, or none that is whole.
LEMMA ErasingAdvances ==
    ASSUME IInv, Typed', NEW h \in Boots, EraseThird \/ EraseCur \/ EraseDst \/ NukeRPS
    PROVE  Advances(h)
<1> DEFINE b == Here
           third == IF Present(b) = Dirs THEN "P" ELSE Before[Current(b)]
<1>1. Typed /\ b \in Boots
  <2>1. \E s \in Working : At(s)
    BY DEF EraseThird, EraseCur, EraseDst, NukeRPS, Working
  <2> QED BY <2>1, HereWorks DEF IInv
<1>2. rps[b] \in [Dirs -> Content] /\ rps'[b] \in [Dirs -> Content]
  BY <1>1 DEF Typed, KernelTyped
<1>3. ASSUME NEW d \in Dirs, Emptying(d) \/ Emptied(d) \/ (EraseFails(d) /\ UNCHANGED dirty)
      PROVE  \E c \in {Absent, Partial} : /\ Erased(b, d, c)
                                          /\ c = Absent => ~Whole(rps[b][d])
  <2>1. Emptied(d) => ~Whole(rps[b][d])
    BY DEF Emptied
  <2> QED BY <1>1, <1>3, <2>1, Erases DEF Absent, Partial
<1>4. \A d \in Dirs : \A c : Erased(b, d, c) => \A e \in Boots \ {b} : rps'[e] = rps[e]
  BY DEF Erased
<1>5. CASE EraseThird \/ NukeRPS
  <2>1. EraseThird => third = "P"
    BY DEF EraseThird
  <2>2. third \in Dirs
    <3>1. "P" \in Dirs
      BY DEF Dirs
    <3> QED BY <1>1, <1>2, <3>1, KernelIs, CurrentIs, Cycle
  <2>3. Emptying(third) \/ Emptied(third) \/ (EraseFails(third) /\ UNCHANGED dirty)
    BY <1>5, <2>1 DEF EraseThird, NukeRPS
  <2>4. \/ PresentIn(rps[b]) = Dirs /\ third = "P"
        \/ PresentIn(rps[b]) # Dirs /\ third = Before[CurrentIn(rps[b])]
    BY <1>1, KernelIs
  <2> HIDE DEF third
  <2>5. PICK c \in {Absent, Partial} : Erased(b, third, c)
    BY <1>3, <2>2, <2>3
  <2>6. KernelOf(rps'[b]) = KernelOf(rps[b])
    BY <1>1, <1>2, <2>2, <2>4, <2>5, OtherErasedSame
  <2>7. Advances(b)
    BY <1>1, <2>6, BlessedTyped DEF Advances
  <2> QED BY <1>1, <1>4, <2>2, <2>5, <2>7, SameAdvances
<1>6. CASE EraseCur \/ EraseDst
  <2>1. PICK s \in {"eraseCur", "eraseDst"} :
          /\ At(s) /\ s \in Copying
          /\ s = "eraseCur" => EraseCur
          /\ s = "eraseDst" => EraseDst
    BY <1>6 DEF EraseCur, EraseDst, Copying
  <2>2. /\ up.dstdir \in Dirs /\ After[up.dstdir] \in Dirs /\ Before[up.dstdir] \in Dirs
        /\ After[up.dstdir] # up.dstdir /\ Before[up.dstdir] # up.dstdir
        /\ After[up.dstdir] # Before[up.dstdir]
    BY <1>1, <2>1, Target
  <2> DEFINE d == IF s = "eraseCur" THEN After[up.dstdir] ELSE up.dstdir
  <2>3. d \in Dirs /\ (Emptying(d) \/ Emptied(d) \/ (EraseFails(d) /\ UNCHANGED dirty))
    BY <2>1, <2>2 DEF EraseCur, EraseDst
  <2>4. d = IF s = "eraseCur" THEN After[up.dstdir] ELSE up.dstdir
    OBVIOUS
  <2> HIDE DEF d
  <2>5. PICK c \in {Absent, Partial} : /\ Erased(b, d, c)
                                       /\ c = Absent => ~Whole(rps[b][d])
    BY <1>3, <2>3
  <2>6. rps'[b][d] = c /\ \A e \in Dirs : e # d => rps'[b][e] = rps[b][e]
    BY <2>5 DEF Erased
  <2>7. ~Whole(c)
    BY <2>5, Numbers
  <2>8. Advances(b)
    <3>1. CASE s = "eraseCur"
      BY <1>1, <1>2, <2>1, <2>2, <2>4, <2>5, <2>6, <3>1, CopyingAdvances
    <3>2. CASE s = "eraseDst"
      BY <1>1, <1>2, <2>1, <2>2, <2>4, <2>6, <2>7, <3>2, CopyingAdvances
    <3> QED BY <2>1, <3>1, <3>2
  <2> QED BY <1>1, <1>4, <2>3, <2>5, <2>8, SameAdvances
<1> QED BY <1>5, <1>6

\* Making and filling a directory that is not current.
LEMMA FillingAdvances ==
    ASSUME IInv, Typed', NEW h \in Boots, MakeRPS \/ CopyRPS
    PROVE  Advances(h)
<1> DEFINE b == Here
<1>1. Typed /\ b \in Boots
  <2>1. \E s \in Working : At(s)
    BY DEF MakeRPS, CopyRPS, Working
  <2> QED BY <2>1, HereWorks DEF IInv
<1>2. PICK s \in {"mkdir", "copyRPS"} :
        /\ At(s) /\ s \in Copying
        /\ s = "mkdir" => MakeRPS
        /\ s = "copyRPS" => CopyRPS
  BY DEF MakeRPS, CopyRPS, Copying
<1>3. /\ up.dstdir \in Dirs /\ After[up.dstdir] \in Dirs /\ Before[up.dstdir] \in Dirs
      /\ After[up.dstdir] # up.dstdir /\ Before[up.dstdir] # up.dstdir
      /\ HelperKept(b) /\ Stage(b) = s
  BY <1>1, <1>2, Target
<1>4. ~Whole(rps[b][up.dstdir])
  BY <1>2, <1>3, Numbers DEF HelperKept, DirsKept
<1>5. CASE rps' = rps
  BY <1>1, <1>5, SameAdvances
<1>6. CASE \E c : rps' = [rps EXCEPT ![b][up.dstdir] = c]
  <2>1. PICK c : rps' = [rps EXCEPT ![b][up.dstdir] = c]
    BY <1>6
  <2>2. rps'[b] = [rps[b] EXCEPT ![up.dstdir] = c] /\ \A e \in Boots \ {b} : rps'[e] = rps[e]
    BY <1>1, <2>1 DEF Typed, KernelTyped
  <2>3. \A e \in Dirs : e # up.dstdir => rps'[b][e] = rps[b][e]
    BY <1>1, <1>3, <2>2, OneDir
  <2>4. rps'[b] \in [Dirs -> Content]
    BY <1>1 DEF Typed, KernelTyped
  <2>5. Advances(b)
    BY <1>1, <1>2, <1>3, <1>4, <2>3, <2>4, CopyingAdvances
  <2> QED BY <1>1, <2>2, <2>5, SameAdvances
<1> QED BY <1>5, <1>6 DEF MakeRPS, CopyRPS

\* The directory renamed is the newest.
LEMMA RenamingAdvances ==
    ASSUME IInv, Typed', NEW h \in Boots, RenameRPS
    PROVE  Advances(h)
<1>1. Typed /\ Here \in Boots /\ At("renameRPS")
  BY HereWorks DEF IInv, RenameRPS, Working
<1>2. CASE UNCHANGED <<rps, dirty>>
  BY <1>1, <1>2, SameAdvances
<1>3. CASE /\ Current(Here) # up.dstdir
           /\ rps' = [rps EXCEPT ![Here][After[Current(Here)]] = rps[Here][Before[Current(Here)]],
                                 ![Here][Before[Current(Here)]] = Absent]
           /\ DirtyAs(Before[Current(Here)], {After[Current(Here)]})
  <2>1. rps' \in [Boots -> [Dirs -> Content]]
    BY DEF Typed, KernelTyped
  <2>2. /\ KernelOf(rps'[Here]) = rps[Here][up.dstdir]
        /\ \A e \in Dirs : rps[Here][e] <= rps[Here][up.dstdir]
        /\ \A e \in Boots \ {Here} : rps'[e] = rps[e]
    BY <1>1, <1>3, <2>1, Renames
  <2>3. CurrentIn(rps[Here]) \in Dirs
    BY <1>1, BlessedTyped
  <2>4. KernelOf(rps[Here]) <= KernelOf(rps'[Here])
    BY <2>2, <2>3 DEF KernelOf
  <2>5. KernelOf(rps[Here]) \in Int /\ KernelOf(rps'[Here]) \in Int
    <3>1. rps'[Here] \in [Dirs -> Content]
      BY <1>1, <2>1
    <3> QED BY <1>1, <3>1, BlessedTyped, CurrentIs, Numbers DEF KernelOf
  <2>6. Advances(Here)
    BY <2>4, <2>5 DEF Advances
  <2> QED BY <1>1, <2>2, <2>6, SameAdvances
<1> QED BY <1>2, <1>3 DEF RenameRPS

\* A loss of power leaves the current directory or makes it partial.
LEMMA LosingAdvances ==
    ASSUME IInv, NEW h \in Boots, PowerLoss
    PROVE  Advances(h)
<1>1. Typed
  BY DEF IInv
<1>2. PICK g \in Boots : \E lost \in SUBSET dirty[g] :
          rps' = [rps EXCEPT ![g] = [d \in Dirs |-> IF d \in lost THEN Partial ELSE @[d]]]
  BY DEF PowerLoss
<1>3. PICK lost \in SUBSET dirty[g] :
          rps' = [rps EXCEPT ![g] = [d \in Dirs |-> IF d \in lost THEN Partial ELSE @[d]]]
  BY <1>2
<1> DEFINE f == [d \in Dirs |-> IF d \in lost THEN Partial ELSE rps[g][d]]
<1>4. rps'[g] = f /\ \A e \in Boots \ {g} : rps'[e] = rps[e]
  BY <1>1, <1>3 DEF Typed, KernelTyped
<1>5. rps[g] \in [Dirs -> Content] /\ \A d \in Dirs : d \in lost => rps[g][d] # Absent
  BY <1>1, BlessedTyped DEF IInv, HelperKept, DirsKept
<1>6. CurrentIn(f) = CurrentIn(rps[g]) /\ CurrentIn(rps[g]) \in Dirs
  BY <1>1, <1>5, DirsLost, BlessedTyped
<1>7. KernelOf(f) = KernelOf(rps[g]) \/ KernelOf(f) = Partial
  <2>1. \A d \in Dirs : f[d] = rps[g][d] \/ f[d] = Partial
    OBVIOUS
  <2> HIDE DEF f
  <2> QED BY <1>6, <2>1 DEF KernelOf
<1> HIDE DEF f
<1>8. Advances(g)
  BY <1>1, <1>4, <1>7, BlessedTyped, Numbers DEF Advances
<1> QED BY <1>1, <1>4, <1>8, SameAdvances

\* No step takes the kernel back.
LEMMA StepAdvances ==
    ASSUME IInv, [Next]_vars, NEW h \in Boots
    PROVE  Whole(Kernel(h)) /\ Whole(Kernel(h)') => Kernel(h)' >= Kernel(h)
<1>1. Typed /\ Typed'
  BY NextIInv DEF IInv
<1>2. Advances(h)
  <2>1. CASE rps' = rps
    BY <1>1, <2>1, SameAdvances
  <2>2. CASE rps' # rps
    <3>1. \/ EraseThird \/ EraseCur \/ EraseDst \/ NukeRPS \/ MakeRPS \/ CopyRPS \/ RenameRPS
          \/ PowerLoss
      BY <2>2 DEF Next, Kextcache, vars, kernel, Mount, PickRPS, BlessRecovery, CopyMisc, Label,
                  UnlinkOld, RenameOld, CreateBooter, FillBooter, SyncBooters, Bless, SyncRPS,
                  ActivateMisc, Rebless, UnlinkNew, RestoreOld, RevertLabel, NukeOld, Unmount,
                  RetrySmaller, GiveUp, BeginStamps, WriteStamp, Start, Change, Crash
    <3> QED BY <1>1, <3>1, ErasingAdvances, FillingAdvances, RenamingAdvances, LosingAdvances
  <2> QED BY <2>1, <2>2
<1>3. Kernel(h) = KernelOf(rps[h]) /\ Kernel(h)' = KernelOf(rps'[h])
  BY DEF Kernel, KernelOf, Current, CurrentIn, Present, PresentIn
<1> QED BY <1>2, <1>3 DEF Advances

(***************************************************************************)
(* What stays so once a helper has booted kernel n.  While its Recovery OS *)
(* is blessed and its current directory erased, nothing is said of the     *)
(* kernel; what is copied is no older than n, since the volume's is not.   *)
(***************************************************************************)
Ages == KernelAged \cup {"recoveryKept"}
Expected(h) ==
    /\ Stage(h) # "eraseCur"
    /\ Stage(h) \in {"eraseDst", "mkdir", "copyRPS"} => Spare(h) # Absent
    /\ Stage(h) \in Clearing => blessed[h] # "recovery"
Later(h, n) ==
    /\ n <= src["rps"]
    /\ up.pc \in Updating /\ ~up.doRPS => n <= up.tstamps["rps"]
    /\ Stage(h) \in Copied /\ up.doRPS => rps[h][up.dstdir] >= n
    /\ Stage(h) \in {"syncRPS", "activateMisc"} /\ up.doRPS => KernelOf(rps[h]) >= n
    /\ Spared(h, Ages) /\ Expected(h) => KernelOf(rps[h]) >= n

\* The kernel expected is there.
LEMMA ExpectedThere ==
    ASSUME IInv, NEW h \in Boots, Spared(h, KernelLost)
    PROVE  /\ Expected(h) => Whole(KernelOf(rps[h]))
           /\ ~Expected(h) => blessed[h] = "recovery" /\ Stage(h) # "out"
<1>1. KernelThere(h, 0)
  BY DEF IInv, HelperKept, KernelKept
<1>2. ~Whole(Absent)
  BY Numbers
<1>3. Stage(h) \in Copying => KernelOf(rps[h]) = IF Spare(h) = Absent THEN rps[h][up.dstdir] ELSE Spare(h)
  BY Target DEF Stage, At, Copying
<1>4. Expected(h) => Whole(KernelOf(rps[h]))
  BY <1>1, <1>2, <1>3 DEF Expected, KernelThere, Good, Copying
<1>5. ~Expected(h) => blessed[h] = "recovery" /\ Stage(h) # "out"
  BY <1>1, <1>2 DEF Expected, KernelThere, Good, Clearing
<1> QED BY <1>4, <1>5

\* The kernel booted is no newer than the volume's, nor than what was copied.
LEMMA BootsFirst ==
    ASSUME IInv, NEW h \in Boots, NEW n \in Versions, BootsKernel(h), Kernel(h) = n
    PROVE  Later(h, n)
<1>1. Typed /\ StampsKept /\ DirsKept(h)
  BY DEF IInv, HelperKept
<1>2. rps[h] \in [Dirs -> Content] /\ KernelOf(rps[h]) = n /\ n \in Int
  BY <1>1, BlessedTyped, KernelIs, Numbers
<1>3. CurrentIn(rps[h]) \in Dirs /\ rps[h][CurrentIn(rps[h])] = n
  BY <1>2, CurrentIs DEF KernelOf
<1>4. n <= src["rps"]
  BY <1>1, <1>3 DEF DirsKept
<1>5. up.pc \in Updating /\ ~up.doRPS => n <= up.tstamps["rps"]
  BY <1>1, <1>3 DEF StampsKept
<1>6. Stage(h) \in Copied /\ up.doRPS => rps[h][up.dstdir] >= n
  <2>1. ASSUME Stage(h) \in Copied, up.doRPS
        PROVE  rps[h][up.dstdir] >= n
    <3>1. n <= rps[h][up.dstdir] /\ Whole(rps[h][up.dstdir])
      BY <1>1, <1>3, <2>1 DEF DirsKept
    <3> QED BY <1>2, <3>1, Numbers DEF Whole
  <2> QED BY <2>1
<1> QED BY <1>2, <1>4, <1>5, <1>6 DEF Later

\* A kernel booted is expected.
LEMMA LaterBoots ==
    ASSUME IInv, NEW h \in Boots, NEW n \in Versions, Later(h, n)
    PROVE  NeverBefore(h, n)
<1> SUFFICES ASSUME BootsKernel(h), Spared(h, Ages)
             PROVE  Kernel(h) >= n
  BY DEF NeverBefore, Ages
<1>1. Spared(h, KernelLost)
  BY DEF Spared, Ages, KernelAged
<1>2. Expected(h)
  BY <1>1, ExpectedThere DEF BootsKernel
<1> QED BY <1>2, KernelIs DEF Later

\* The volume's kernel never goes back.
LEMMA SourceGrows ==
    ASSUME IInv, [Next]_vars
    PROVE  src["rps"] \in Int /\ src'["rps"] \in Int /\ src["rps"] <= src'["rps"]
<1>1. Typed /\ Typed' /\ StampsKept /\ "rps" \in Kinds
  BY NextIInv DEF IInv, Kinds
<1>2. src["rps"] \in Int /\ src'["rps"] \in Int /\ clock \in Int
  BY <1>1 DEF Typed, VolumeTyped, Versions
<1>3. src["rps"] <= clock
  BY <1>1 DEF StampsKept
<1>4. src' = src \/ \E kinds : Bump(kinds)
  BY DEF Next, Kextcache, vars, volume, Start, Change, Crash, PowerLoss, RebuildCaches, Mount,
         EraseThird, PickRPS, BlessRecovery, EraseCur, EraseDst, MakeRPS, CopyRPS, CopyMisc, Label,
         UnlinkOld, RenameOld, CreateBooter, FillBooter, SyncBooters, Bless, RenameRPS, SyncRPS,
         ActivateMisc, Rebless, UnlinkNew, RestoreOld, RevertLabel, NukeOld, NukeRPS, Unmount,
         RetrySmaller, GiveUp, BeginStamps, WriteStamp
<1>5. (\E kinds : Bump(kinds)) => src'["rps"] \in {src["rps"], clock + 1}
  BY <1>1 DEF Bump
<1> QED BY <1>2, <1>3, <1>4, <1>5

\* Where bootfail leads.
LEMMA Bails ==
    ASSUME up \in Updates, NEW err, NEW state, Bootfail(err, state)
    PROVE  up'.pc \in {"rebless", "unlinkNew", "revertLabel", "nukeOld"} /\ SameFlags
<1>1. RevertFrom(state) \in {"rebless", "unlinkNew", "revertLabel", "nukeOld"}
  BY DEF RevertFrom
<1> QED BY <1>1 DEF Bootfail, Updates, SameFlags

\* What an update is to do is settled for the kernel at its start, or more is.
LEMMA FlagsStay ==
    ASSUME IInv, [Next]_vars, up'.pc \in Updating
    PROVE  \/ up'.tstamps["rps"] = src'["rps"]
           \/ /\ up.pc \in Updating /\ up'.tstamps = up.tstamps
              /\ up.doRPS => up'.doRPS
<1>1. up \in Updates
  BY DEF IInv, Typed
<1>2. CASE \E o \in Options, rebuild \in BOOLEAN : Start(o, rebuild)
  BY <1>2 DEF Start, Idle
<1>3. CASE (\E kinds \in Changes : Change(kinds)) \/ UNCHANGED vars
  BY <1>3 DEF Change, vars
<1>4. CASE Crash \/ PowerLoss \/ GiveUp \/ BeginStamps \/ WriteStamp
  <2>1. up'.pc \in {"idle"} \cup Stamping
    <3>1. CASE Crash \/ PowerLoss \/ GiveUp
      BY <3>1 DEF Crash, PowerLoss, GiveUp, Idle
    <3>2. CASE BeginStamps
      BY <1>1, <3>2 DEF BeginStamps, Goto, Updates, Stamping
    <3>3. CASE WriteStamp
      <4>1. Goto("stampBooter") \/ Goto("stampMisc") \/ up' = Idle
        BY <3>3 DEF WriteStamp, At, Stamped
      <4> QED BY <1>1, <4>1 DEF Goto, Updates, Stamping, Idle
    <3> QED BY <1>4, <3>1, <3>2, <3>3
  <2> QED BY <2>1 DEF Updating
<1>5. CASE Mount \/ RetrySmaller
  BY <1>1, <1>5 DEF Mount, RetrySmaller, AllDone, At, CheckContents, Updates, Updating, Stamping
<1>6. CASE EraseThird \/ PickRPS \/ BlessRecovery \/ EraseCur \/ EraseDst \/ MakeRPS \/ CopyRPS
           \/ CopyMisc \/ Label
  <2>1. up.pc \in Updating
    BY <1>6 DEF EraseThird, PickRPS, BlessRecovery, EraseCur, EraseDst, MakeRPS, CopyRPS, CopyMisc,
                Label, At, Updating, Stamping, Phases
  <2>2. up'.tstamps = up.tstamps /\ up'.doRPS = up.doRPS
    BY <1>1, <1>6, Bails DEF EraseThird, PickRPS, BlessRecovery, EraseCur, EraseDst, MakeRPS, CopyRPS,
                 CopyMisc, Label, Goto, Updates, SameFlags, Emptying, Emptied
  <2> QED BY <2>1, <2>2
<1>7. CASE UnlinkOld \/ RenameOld \/ CreateBooter \/ FillBooter \/ SyncBooters \/ Bless \/ RenameRPS
           \/ SyncRPS \/ ActivateMisc
  <2>1. up.pc \in Updating
    BY <1>7 DEF UnlinkOld, RenameOld, CreateBooter, FillBooter, SyncBooters, Bless, RenameRPS,
                SyncRPS, ActivateMisc, At, Updating, Stamping, Phases
  <2>2. up'.tstamps = up.tstamps /\ up'.doRPS = up.doRPS
    BY <1>1, <1>7, Bails DEF UnlinkOld, RenameOld, CreateBooter, FillBooter, SyncBooters, Bless,
                 RenameRPS, SyncRPS, ActivateMisc, Goto, Updates, SameFlags
  <2> QED BY <2>1, <2>2
<1>8. CASE Rebless \/ UnlinkNew \/ RestoreOld \/ RevertLabel \/ NukeOld \/ NukeRPS \/ Unmount
  <2>1. up.pc \in Updating
    BY <1>8 DEF Rebless, UnlinkNew, RestoreOld, RevertLabel, NukeOld, NukeRPS, Unmount, At, Updating,
                Stamping, Phases
  <2>2. up'.tstamps = up.tstamps /\ up'.doRPS = up.doRPS
    BY <1>1, <1>8 DEF Rebless, UnlinkNew, RestoreOld, RevertLabel, NukeOld, NukeRPS, Unmount, Goto,
                      Updates, Emptying, Emptied
  <2> QED BY <2>1, <2>2
<1> QED BY <1>2, <1>3, <1>4, <1>5, <1>6, <1>7, <1>8 DEF Next, Kextcache

\* What leads to the stages after the copy: the copy itself, or one of them.
LEMMA CopiedFrom ==
    ASSUME IInv, [Next]_vars, NEW h \in Boots,
           Stage(h)' \in Copied \cup {"syncRPS", "activateMisc"}, up'.doRPS
    PROVE  /\ Here = h /\ up.doRPS /\ up'.dstdir = up.dstdir
           /\ \/ CopyRPS /\ Stage(h) = "copyRPS" /\ Stage(h)' = "copyMisc"
              \/ /\ Stage(h) \in Copied /\ rps' = rps
                 /\ Stage(h)' \in Copied
              \/ RenameRPS /\ Stage(h) = "renameRPS" /\ Stage(h)' = "syncRPS"
              \/ /\ Stage(h) \in {"syncRPS", "activateMisc"} /\ rps' = rps
                 /\ Stage(h)' \in {"syncRPS", "activateMisc"}
<1> DEFINE Front == Copied \cup {"syncRPS", "activateMisc"}
           Back == {"rebless", "unlinkNew", "revertLabel", "nukeOld"}
<1>1. up \in Updates /\ StageKept
  BY DEF IInv, Typed
<1>2. Here' = h /\ up'.pc \in Front /\ Stage(h)' = up'.pc /\ "out" \notin Front
  BY DEF Stage, Here, Copied, Replacing, Aside
<1>3. Front \cap (Back \cup {"idle", "mount", "findRPS", "recovery", "eraseCur", "eraseDst", "mkdir",
                            "copyRPS", "stampRPS", "stampBooter", "stampMisc", "restoreOld", "nukeRPS",
                            "unmount"}) = {}
  BY DEF Copied, Replacing, Aside
<1>4. \A err, state : ~Bootfail(err, state)
  BY <1>1, <1>2, <1>3, Bails
<1>5. \A x : Goto(x) => /\ up'.pc = x /\ up'.doRPS = up.doRPS /\ up'.dstdir = up.dstdir
                        /\ up'.bootIdx = up.bootIdx
  BY <1>1 DEF Goto, Updates
<1>6. CASE (\E kinds \in Changes : Change(kinds)) \/ UNCHANGED vars
  <2>1. up' = up /\ rps' = rps
    BY <1>6 DEF Change, vars, kernel
  <2>2. Stage(h) = Stage(h)' /\ Here = h
    BY <1>2, <2>1 DEF Stage, Here
  <2> QED BY <2>1, <2>2
<1>7. CASE Crash \/ PowerLoss \/ GiveUp \/ \E o \in Options, rebuild \in BOOLEAN : Start(o, rebuild)
  <2>1. up'.pc \in {"idle", "mount"}
    <3>1. CASE Crash \/ PowerLoss \/ GiveUp
      BY <3>1 DEF Crash, PowerLoss, GiveUp, Idle
    <3>2. CASE \E o \in Options, rebuild \in BOOLEAN : Start(o, rebuild)
      BY <3>2 DEF Start, Idle
    <3> QED BY <1>7, <3>1, <3>2
  <2> QED BY <1>2, <1>3, <2>1
<1>8. CASE BeginStamps \/ WriteStamp
  <2>1. Goto("stampRPS") \/ Goto("stampBooter") \/ Goto("stampMisc") \/ up' = Idle
    BY <1>8 DEF BeginStamps, WriteStamp, At, Stamped
  <2>2. up'.pc \in {"stampRPS", "stampBooter", "stampMisc", "idle"}
    BY <1>1, <2>1 DEF Goto, Updates, Idle
  <2> QED BY <1>2, <1>3, <2>2
<1>9. CASE Mount \/ RetrySmaller \/ Unmount \/ EraseThird
  <2>1. up'.pc \in {"mount", "findRPS"}
    BY <1>1, <1>4, <1>9 DEF Mount, RetrySmaller, Unmount, EraseThird, AllDone, At, CheckContents,
                            Updates, Emptying
  <2> QED BY <1>2, <1>3, <2>1
<1>10. CASE PickRPS
  <2>1. up.doRPS => up'.pc \in {"recovery", "eraseDst"}
    BY <1>1, <1>10 DEF PickRPS, Updates
  <2>2. ~up.doRPS => Goto("copyMisc")
    BY <1>10 DEF PickRPS
  <2> QED BY <1>2, <1>3, <1>5, <2>1, <2>2
<1>11. CASE BlessRecovery \/ EraseCur \/ EraseDst \/ MakeRPS \/ Rebless \/ UnlinkNew \/ RestoreOld
            \/ RevertLabel \/ NukeOld \/ NukeRPS
  <2>1. up'.pc \in Back \cup {"eraseCur", "eraseDst", "mkdir", "copyRPS", "restoreOld", "nukeRPS",
                              "unmount"}
    <3>1. CASE BlessRecovery \/ Rebless \/ UnlinkNew \/ RestoreOld \/ RevertLabel \/ NukeOld
      BY <1>5, <3>1 DEF BlessRecovery, Rebless, UnlinkNew, RestoreOld, RevertLabel, NukeOld
    <3>2. CASE EraseCur \/ EraseDst \/ MakeRPS \/ NukeRPS
      BY <1>1, <1>4, <1>5, <3>2 DEF EraseCur, EraseDst, MakeRPS, NukeRPS, Emptying, At, Updates
    <3> QED BY <1>11, <3>1, <3>2
  <2> QED BY <1>2, <1>3, <2>1
<1>12. CASE CopyRPS
  <2>1. Goto("copyMisc") /\ At("copyRPS")
    BY <1>4, <1>12 DEF CopyRPS
  <2>2. Here = h /\ Stage(h) = "copyRPS"
    BY <1>2, <1>5, <2>1 DEF Here, Stage, At, Working
  <2> QED BY <1>2, <1>5, <1>12, <2>1, <2>2
<1>13. CASE CopyMisc \/ Label \/ UnlinkOld \/ RenameOld \/ CreateBooter \/ FillBooter \/ SyncBooters
            \/ Bless
  <2>1. up.pc \in Copied /\ rps' = rps
    BY <1>13 DEF CopyMisc, Label, UnlinkOld, RenameOld, CreateBooter, FillBooter, SyncBooters, Bless,
                 At, Copied, Replacing, Aside, kernel
  <2>2. up'.doRPS = up.doRPS /\ up'.dstdir = up.dstdir /\ up'.bootIdx = up.bootIdx
    BY <1>1, <1>4, <1>5, <1>13 DEF CopyMisc, Label, UnlinkOld, RenameOld, CreateBooter, FillBooter,
                            SyncBooters, Bless, Updates
  <2>3. up'.pc \in Copied
    BY <1>1, <1>2, <1>4, <1>5, <1>13, <2>2
       DEF CopyMisc, Label, UnlinkOld, RenameOld, CreateBooter, FillBooter, SyncBooters, Bless,
           Updates, Copied, Replacing, Aside
  <2>4. Here = h /\ Stage(h) = up.pc
    BY <1>2, <2>1, <2>2 DEF Here, Stage, Copied, Replacing, Aside, Working
  <2> QED BY <1>2, <2>1, <2>2, <2>3, <2>4
<1>14. CASE RenameRPS
  <2>1. Goto("syncRPS") /\ At("renameRPS")
    BY <1>4, <1>14 DEF RenameRPS
  <2>2. Here = h /\ Stage(h) = "renameRPS"
    BY <1>2, <1>5, <2>1 DEF Here, Stage, At, Working
  <2> QED BY <1>2, <1>5, <1>14, <2>1, <2>2
<1>15. CASE SyncRPS
  <2>1. Goto("activateMisc") /\ At("syncRPS") /\ rps' = rps
    BY <1>4, <1>15 DEF SyncRPS, kernel
  <2>2. Here = h /\ Stage(h) = "syncRPS"
    BY <1>2, <1>5, <2>1 DEF Here, Stage, At, Working
  <2> QED BY <1>2, <1>5, <2>1, <2>2
<1>16. CASE ActivateMisc
  <2>1. up'.pc = "nukeOld"
    BY <1>1, <1>4, <1>16 DEF ActivateMisc, Updates
  <2> QED BY <1>2, <1>3, <2>1
<1> QED BY <1>6, <1>7, <1>8, <1>9, <1>10, <1>11, <1>12, <1>13, <1>14, <1>15, <1>16 DEF Next, Kextcache

\* Only a whole update makes a helper spared again.
LEMMA SparedAnew ==
    ASSUME IInv, [Next]_vars, NEW h \in Boots, Spared(h, Ages)', ~Spared(h, Ages)
    PROVE  /\ Here = h /\ At("activateMisc") /\ rps' = rps
           /\ mishaps'[h] = mishaps[h] \ Repaired
<1>1. Typed
  BY DEF IInv
<1>2. ~(mishaps[h] \subseteq mishaps'[h])
  BY DEF Spared
<1>3. \A why : ~Because(why)
  BY <1>1, <1>2 DEF Because, Typed, RestTyped
<1>4. mishaps' # mishaps
  BY <1>2
<1>5. ~Crash /\ ~PowerLoss
  <2>1. mishaps[h] \subseteq Interrupted[h]
    BY InterruptedIs
  <2>2. ~Crash
    BY <1>2, <2>1 DEF Crash
  <2>3. ~PowerLoss
    <3>1. ASSUME PowerLoss PROVE FALSE
      <4>1. PICK g \in Boots : \E more : mishaps' = [Interrupted EXCEPT ![g] = @ \cup more]
        BY <3>1 DEF PowerLoss
      <4>2. PICK more : mishaps' = [Interrupted EXCEPT ![g] = @ \cup more]
        BY <4>1
      <4>3. Interrupted = [e \in Boots |-> Interrupted[e]]
        BY DEF Interrupted
      <4>4. Interrupted[h] \subseteq mishaps'[h]
        BY <4>2, <4>3
      <4> QED BY <1>2, <2>1, <4>4
    <3> QED BY <3>1
  <2> QED BY <2>2, <2>3
<1>6. ~Unmount /\ ~BlessRecovery /\ ~BeginStamps
  <2>1. ~Unmount
    BY <1>1, <1>2 DEF Unmount, Typed, RestTyped
  <2>2. ~BlessRecovery
    BY <1>1, <1>2 DEF BlessRecovery, Typed, RestTyped
  <2>3. ~BeginStamps
    BY <1>1, <1>2 DEF BeginStamps, Typed, RestTyped
  <2> QED BY <2>1, <2>2, <2>3
<1>7. ActivateMisc
  BY <1>3, <1>4, <1>5, <1>6
     DEF Next, Kextcache, vars, Start, Change, Mount, EraseThird, PickRPS, EraseCur, EraseDst, MakeRPS,
         CopyRPS, CopyMisc, Label, UnlinkOld, RenameOld, CreateBooter, FillBooter, SyncBooters, Bless,
         RenameRPS, SyncRPS, Rebless, UnlinkNew, RestoreOld, RevertLabel, NukeOld, NukeRPS,
         RetrySmaller, GiveUp, WriteStamp
<1>8. mishaps' = [mishaps EXCEPT ![Here] = @ \ Repaired] /\ At("activateMisc") /\ rps' = rps
  BY <1>4, <1>7 DEF ActivateMisc
<1>9. Here = h
  BY <1>1, <1>2, <1>8 DEF Typed, RestTyped
<1> QED BY <1>1, <1>8, <1>9 DEF Typed, RestTyped

\* A kernel not expected comes to be expected by the copy of a new one alone.
LEMMA ExpectedAnew ==
    ASSUME IInv, [Next]_vars, NEW h \in Boots, Spared(h, Ages)', Spared(h, Ages), ~Expected(h), Expected(h)'
    PROVE  CopyRPS /\ Stage(h) = "copyRPS" /\ Spare(h) = Absent /\ Stage(h)' = "copyMisc"
<1> DEFINE Emptying3 == {"eraseDst", "mkdir", "copyRPS"}
<1>1. Typed /\ StageKept /\ up \in Updates /\ up.changestate \in ChangeStates
  BY DEF IInv, Typed, Updates
<1>2. blessed[h] = "recovery"
  <2>1. Spared(h, KernelLost)
    BY DEF Spared, Ages, KernelAged
  <2> QED BY <2>1, ExpectedThere
<1>3. /\ \/ Stage(h) = "eraseCur"
         \/ Stage(h) \in Emptying3 /\ Spare(h) = Absent
         \/ Stage(h) \in Clearing
  BY DEF Expected
<1>4. Here = h /\ up.pc = Stage(h) /\ up.pc \in {"eraseCur"} \cup Emptying3 \cup Clearing
  BY <1>3 DEF Stage, Clearing
<1>5. "recoveryKept" \notin mishaps'[h]
  BY DEF Spared, Ages
<1>6. "recoveryKept" \in LeftBare(h)
  BY <1>2 DEF LeftBare
<1>7. ~UNCHANGED <<up, rps, blessed>>
  BY DEF Expected, Stage, Here, Spare
<1>8. ~((\E kinds \in Changes : Change(kinds)) \/ UNCHANGED vars)
  BY <1>7 DEF Change, vars, kernel, boot
<1>9. ~Crash
  BY <1>5, <1>6, InterruptedIs DEF Crash
<1>10. ~PowerLoss
  <2>1. ASSUME PowerLoss PROVE FALSE
    <3>1. \E g \in Boots : \E more : mishaps' = [Interrupted EXCEPT ![g] = @ \cup more]
      BY <2>1 DEF PowerLoss
    <3>2. PICK g \in Boots : \E more : mishaps' = [Interrupted EXCEPT ![g] = @ \cup more]
      BY <3>1
    <3>3. Interrupted = [e \in Boots |-> Interrupted[e]]
      BY DEF Interrupted
    <3>4. Interrupted[h] \subseteq mishaps'[h]
      BY <3>2, <3>3
    <3> QED BY <1>5, <1>6, <3>4, InterruptedIs
  <2> QED BY <2>1
<1>11. ~Unmount
  BY <1>1, <1>4, <1>5, <1>6 DEF Unmount, Typed, RestTyped
<1>12. ~\E s \in Clearing : /\ up'.pc = s /\ up'.bootIdx = up.bootIdx /\ blessed'[h] = "recovery"
  <2>1. ASSUME NEW s \in Clearing, up'.pc = s, up'.bootIdx = up.bootIdx, blessed'[h] = "recovery"
        PROVE  FALSE
    <3>1. Stage(h)' = s
      BY <1>4, <2>1 DEF Stage, Here, Clearing, Working
    <3> QED BY <2>1, <3>1 DEF Expected
  <2> QED BY <2>1
<1>13. ~\E s \in Emptying3 : /\ up'.pc = s /\ up'.bootIdx = up.bootIdx /\ up'.dstdir = up.dstdir
                             /\ rps'[h][After[up.dstdir]] = Absent
  <2>1. ASSUME NEW s \in Emptying3, up'.pc = s, up'.bootIdx = up.bootIdx, up'.dstdir = up.dstdir,
               rps'[h][After[up.dstdir]] = Absent
        PROVE  FALSE
    <3>1. Stage(h)' = s /\ Spare(h)' = Absent
      BY <1>4, <2>1 DEF Stage, Here, Working, Spare
    <3> QED BY <2>1, <3>1 DEF Expected
  <2> QED BY <2>1
<1>14. \A x : Goto(x) => up'.pc = x /\ up'.bootIdx = up.bootIdx /\ up'.dstdir = up.dstdir
  BY <1>1 DEF Goto, Updates
<1>15. ~NukeOld
  <2>1. ASSUME NukeOld PROVE FALSE
    <3>1. up'.pc \in {"nukeRPS", "unmount"} /\ up'.bootIdx = up.bootIdx
      BY <1>1, <2>1 DEF NukeOld, Goto, Updates
    <3>2. blessed'[h] = "recovery"
      BY <1>1, <1>2, <2>1 DEF NukeOld, RemoveOld, Typed, BootTyped
    <3> QED BY <1>12, <3>1, <3>2 DEF Clearing
  <2> QED BY <2>1
<1>16. ~NukeRPS
  <2>1. ASSUME NukeRPS PROVE FALSE
    <3>1. up'.pc \in {"nukeRPS", "unmount"} /\ up'.bootIdx = up.bootIdx
      BY <1>1, <2>1 DEF NukeRPS, Goto, Updates, Emptying, At
    <3>2. blessed'[h] = "recovery"
      BY <1>2, <2>1 DEF NukeRPS, boot
    <3> QED BY <1>12, <3>1, <3>2 DEF Clearing
  <2> QED BY <2>1
<1>17. ~EraseCur
  <2>1. ASSUME EraseCur PROVE FALSE
    <3> DEFINE d == After[up.dstdir]
    <3>1. d \in Dirs /\ Here \in Boots
      BY <1>4, <2>1, Target DEF EraseCur, Copying
    <3>2. ~Emptying(d)
      BY <1>4, <2>1 DEF EraseCur, Emptying, At, Expected, Stage, Here
    <3>3. ~Because("partlyErased")
      BY <1>1, <1>4 DEF Because, Typed, RestTyped, Spared, Ages, KernelAged, KernelLost
    <3>4. Emptied(d) /\ up' = [up EXCEPT !.doBooters = TRUE, !.pc = "eraseDst"]
      BY <2>1, <3>2, <3>3 DEF EraseCur
    <3>5. Erased(h, d, Absent)
      BY <1>1, <1>4, <3>1, <3>4, Erases
    <3>6. up'.pc = "eraseDst" /\ up'.bootIdx = up.bootIdx /\ up'.dstdir = up.dstdir
      BY <1>1, <3>4 DEF Updates
    <3> QED BY <1>13, <3>5, <3>6 DEF Erased
  <2> QED BY <2>1
<1>18. ASSUME EraseDst \/ MakeRPS PROVE FALSE
  <2>1. /\ up.dstdir \in Dirs /\ After[up.dstdir] \in Dirs /\ After[up.dstdir] # up.dstdir
        /\ up.changestate = "nothingSerious" /\ Spare(h) = Absent
    <3>1. At("eraseDst") \/ At("mkdir")
      BY <1>18 DEF EraseDst, MakeRPS
    <3>2. Stage(h) \notin {"eraseCur"} \cup Clearing
      BY <1>4, <3>1 DEF At, Clearing
    <3> QED BY <1>3, <1>4, <3>1, <3>2, Target DEF Copying
  <2>2. rps'[h][After[up.dstdir]] = Absent
    <3>1. CASE EraseDst
      <4>1. \E c \in {Absent, Partial} : Erased(h, up.dstdir, c)
        BY <1>1, <1>4, <2>1, <3>1, Erases DEF EraseDst
      <4> QED BY <2>1, <4>1 DEF Erased, Spare
    <3>2. CASE MakeRPS
      <4>1. rps' = rps \/ rps' = [rps EXCEPT ![Here][up.dstdir] = Partial]
        BY <3>2 DEF MakeRPS
      <4>2. rps' = rps \/ rps'[h] = [rps[h] EXCEPT ![up.dstdir] = Partial]
        BY <1>1, <1>4, <4>1 DEF Typed, KernelTyped
      <4> QED BY <1>1, <2>1, <4>2, OneDir DEF Spare
    <3> QED BY <1>18, <3>1, <3>2
  <2>3. CASE Bootfail("failed", up.changestate)
    <3>1. up'.pc = "nukeOld" /\ up'.bootIdx = up.bootIdx
      BY <1>1, <2>1, <2>3 DEF Bootfail, RevertFrom, Updates
    <3>2. blessed'[h] = "recovery"
      BY <1>2, <1>18 DEF EraseDst, MakeRPS, boot
    <3> QED BY <1>12, <3>1, <3>2 DEF Clearing
  <2>4. CASE Emptying(up.dstdir) /\ EraseDst
    <3>1. up' = up /\ up.pc = "eraseDst"
      BY <2>4 DEF Emptying, EraseDst, At
    <3> QED BY <1>13, <2>2, <3>1
  <2>5. CASE Goto("mkdir") \/ Goto("copyRPS")
    BY <1>13, <1>14, <2>2, <2>5
  <2> QED BY <1>18, <2>3, <2>4, <2>5 DEF EraseDst, MakeRPS
<1>19. ~(Mount \/ RetrySmaller \/ GiveUp \/ BeginStamps \/ WriteStamp
         \/ \E o \in Options, rebuild \in BOOLEAN : Start(o, rebuild))
  BY <1>4 DEF Mount, RetrySmaller, GiveUp, BeginStamps, WriteStamp, Start, AllDone, At, Stamped, Clearing
<1>20. CopyRPS
  BY <1>4, <1>8, <1>9, <1>10, <1>11, <1>15, <1>16, <1>17, <1>18, <1>19
     DEF Next, Kextcache, EraseThird, PickRPS, BlessRecovery, CopyMisc, Label, UnlinkOld, RenameOld,
         CreateBooter, FillBooter, SyncBooters, Bless, RenameRPS, SyncRPS, ActivateMisc, Rebless,
         UnlinkNew, RestoreOld, RevertLabel, At, Clearing
<1>21. Stage(h) = "copyRPS" /\ Spare(h) = Absent
  BY <1>3, <1>4, <1>20 DEF CopyRPS, At, Clearing
<1>22. ~\E err : Bootfail(err, up.changestate)
  <2>1. ASSUME NEW err, Bootfail(err, up.changestate) PROVE FALSE
    <3>1. up.changestate = "nothingSerious"
      BY <1>1, <1>4, <1>21 DEF StageKept, Copying
    <3>2. up'.pc = "nukeOld" /\ up'.bootIdx = up.bootIdx
      BY <1>1, <2>1, <3>1 DEF Bootfail, RevertFrom, Updates
    <3>3. blessed'[h] = "recovery"
      BY <1>2, <1>20 DEF CopyRPS, boot
    <3> QED BY <1>12, <3>2, <3>3 DEF Clearing
  <2> QED BY <2>1
<1>23. Stage(h)' = "copyMisc"
  BY <1>4, <1>14, <1>20, <1>22 DEF CopyRPS, Stage, Here, Working
<1> QED BY <1>20, <1>21, <1>23

\* All of it stays.
LEMMA LaterStays ==
    ASSUME IInv, [Next]_vars, NEW h \in Boots, NEW n \in Versions, Later(h, n)
    PROVE  Later(h, n)'
<1> DEFINE k == KernelOf(rps[h])
           k1 == KernelOf(rps'[h])
<1>1. Typed /\ Typed' /\ n \in Int /\ IInv'
  BY NextIInv, Numbers DEF IInv
<1>2. src["rps"] \in Int /\ src'["rps"] \in Int /\ src["rps"] <= src'["rps"] /\ n <= src'["rps"]
  BY <1>1, SourceGrows DEF Later
<1>3. /\ k \in Int /\ k1 \in Int /\ rps[h] \in [Dirs -> Content] /\ rps'[h] \in [Dirs -> Content]
  <2>1. rps[h] \in [Dirs -> Content] /\ rps'[h] \in [Dirs -> Content] /\ Content \subseteq Int
    BY <1>1, BlessedTyped, Numbers DEF Typed, KernelTyped
  <2>2. CurrentIn(rps[h]) \in Dirs /\ CurrentIn(rps'[h]) \in Dirs
    BY <2>1, CurrentIs
  <2> QED BY <2>1, <2>2 DEF KernelOf
<1>4. up'.pc \in Updating /\ ~up'.doRPS => n <= up'.tstamps["rps"]
  BY <1>1, <1>2, FlagsStay DEF Later
<1>5. ASSUME Stage(h)' \in Copied, up'.doRPS
      PROVE  rps'[h][up'.dstdir] >= n
  <2>1. CASE CopyRPS /\ Stage(h) = "copyRPS" /\ Stage(h)' = "copyMisc"
    <3>1. Here = h /\ up.dstdir \in Dirs /\ up'.dstdir = up.dstdir
      <4>1. Here = h /\ At("copyRPS")
        BY <2>1 DEF Stage, At
      <4> QED BY <1>5, <4>1, CopiedFrom, Target DEF Copying
    <3>2. ~\E err : Bootfail(err, up.changestate)
      <4>1. ASSUME NEW err, Bootfail(err, up.changestate) PROVE FALSE
        <5>1. up'.pc # "copyMisc"
          BY <1>1, <4>1, Bails DEF Typed
        <5> QED BY <2>1, <5>1 DEF Stage
      <4> QED BY <4>1
    <3>3. rps' = [rps EXCEPT ![h][up.dstdir] = src["rps"]]
      BY <2>1, <3>1, <3>2 DEF CopyRPS
    <3>4. rps'[h][up.dstdir] = src["rps"]
      BY <1>1, <3>1, <3>3 DEF Typed, KernelTyped
    <3> QED BY <1>1, <1>2, <3>1, <3>4 DEF Later
  <2>2. CASE Stage(h) \in Copied /\ rps' = rps
    <3>1. up.doRPS /\ up'.dstdir = up.dstdir
      BY <1>5, CopiedFrom
    <3> QED BY <2>2, <3>1 DEF Later
  <2> QED BY <1>5, <2>1, <2>2, CopiedFrom DEF Copied, Replacing, Aside
<1>6. ASSUME Stage(h)' \in {"syncRPS", "activateMisc"}, up'.doRPS
      PROVE  k1 >= n
  <2>1. CASE RenameRPS /\ Stage(h) = "renameRPS"
    <3>1. Here = h /\ At("renameRPS") /\ up.doRPS /\ "renameRPS" \in Copied
      BY <1>6, <2>1, CopiedFrom DEF RenameRPS, Copied
    <3>2. ~Bootfail("failed", up.changestate)
      BY <1>1, <1>6, Bails DEF Stage, Typed
    <3>3. k1 = rps[h][up.dstdir]
      <4>1. rps' \in [Boots -> [Dirs -> Content]]
        BY <1>1 DEF Typed, KernelTyped
      <4>2. \/ Current(h) = up.dstdir /\ UNCHANGED <<rps, dirty>>
            \/ /\ Current(h) # up.dstdir
               /\ rps' = [rps EXCEPT ![h][After[Current(h)]] = rps[h][Before[Current(h)]],
                                     ![h][Before[Current(h)]] = Absent]
               /\ DirtyAs(Before[Current(h)], {After[Current(h)]})
        BY <2>1, <3>1, <3>2 DEF RenameRPS
      <4> QED BY <3>1, <4>1, <4>2, Renames
    <3> QED BY <2>1, <3>1, <3>3 DEF Later
  <2>2. CASE Stage(h) \in {"syncRPS", "activateMisc"} /\ rps' = rps
    <3>1. up.doRPS
      BY <1>6, CopiedFrom
    <3> QED BY <2>2, <3>1 DEF Later
  <2> QED BY <1>6, <2>1, <2>2, CopiedFrom DEF Copied, Replacing, Aside
<1>7. ASSUME Spared(h, Ages)', Expected(h)'
      PROVE  k1 >= n
  <2>1. Whole(k1)
    <3>1. Spared(h, KernelLost)'
      BY <1>7 DEF Spared, Ages, KernelAged
    <3>2. IInv' /\ Spared(h, KernelLost)' /\ Expected(h)' => Whole(KernelOf(rps[h]))'
      BY ExpectedThere, PTL
    <3> QED BY <1>1, <1>7, <3>1, <3>2
  <2>2. CASE Spared(h, Ages) /\ Expected(h)
    <3>1. Spared(h, KernelLost)
      BY <2>2 DEF Spared, Ages, KernelAged
    <3>2. Whole(k)
      BY <2>2, <3>1, ExpectedThere
    <3>3. k1 >= k
      BY <2>1, <3>2, StepAdvances, KernelIs DEF Kernel, KernelOf, Current, CurrentIn, Present, PresentIn
    <3> QED BY <1>1, <1>3, <2>2, <3>3 DEF Later
  <2>3. CASE ~Spared(h, Ages)
    <3>1. Here = h /\ At("activateMisc") /\ rps' = rps /\ mishaps'[h] = mishaps[h] \ Repaired
      BY <1>7, <2>3, SparedAnew
    <3>2. Stage(h) = "activateMisc" /\ StampsKept
      BY <3>1 DEF Stage, At, Working, IInv
    <3>3. CASE up.doRPS
      BY <3>1, <3>2, <3>3 DEF Later
    <3>4. CASE ~up.doRPS
      <4>1. Spared(h, KernelAged)
        BY <1>7, <3>1, <3>4 DEF Spared, Ages, KernelAged, KernelLost, Repaired, BooterLost
      <4>2. KernelThere(h, stamps["rps"])
        BY <4>1 DEF IInv, HelperKept, KernelKept
      <4>3. Good(k, stamps["rps"])
        BY <3>2, <4>2 DEF KernelThere, Copying, Clearing
      <4>4. up.pc \in Updating
        BY <3>1 DEF At, Updating, Phases, Stamping
      <4>5. n <= up.tstamps["rps"] /\ up.tstamps["rps"] = stamps["rps"]
        BY <3>2, <3>4, <4>4 DEF Later, StampsKept
      <4>6. stamps["rps"] \in Int
        BY <1>1 DEF Typed, VolumeTyped, Versions, Kinds
      <4> QED BY <1>1, <1>3, <3>1, <4>3, <4>5, <4>6 DEF Good
    <3> QED BY <3>3, <3>4
  <2>4. CASE Spared(h, Ages) /\ ~Expected(h)
    <3>1. CopyRPS /\ Stage(h) = "copyRPS" /\ Spare(h) = Absent /\ Stage(h)' = "copyMisc"
      BY <1>7, <2>4, ExpectedAnew
    <3>2. Here = h /\ At("copyRPS")
      BY <3>1 DEF Stage, At
    <3>3. /\ up.doRPS /\ up.dstdir \in Dirs /\ rps[h][Before[up.dstdir]] = Absent
          /\ After[up.dstdir] # up.dstdir /\ After[up.dstdir] # Before[up.dstdir]
          /\ Before[up.dstdir] # up.dstdir /\ After[up.dstdir] \in Dirs /\ Before[up.dstdir] \in Dirs
      BY <3>2, Target DEF Copying
    <3>4. Goto("copyMisc")
      <4>1. ASSUME NEW err, Bootfail(err, up.changestate) PROVE FALSE
        <5>1. up'.pc # "copyMisc"
          BY <1>1, <4>1, Bails DEF Typed
        <5> QED BY <3>1, <5>1 DEF Stage
      <4> QED BY <3>1, <4>1 DEF CopyRPS
    <3>5. up'.doRPS /\ up'.dstdir = up.dstdir
      BY <1>1, <3>3, <3>4 DEF Goto, Updates, Typed
    <3>6. rps'[h][up.dstdir] >= n
      BY <1>5, <3>1, <3>5 DEF Copied
    <3>7. rps'[h] = [rps[h] EXCEPT ![up.dstdir] = src["rps"]]
      <4>1. ~\E err : Bootfail(err, up.changestate)
        <5>1. up'.pc = "copyMisc"
          BY <1>1, <3>4 DEF Goto, Updates, Typed
        <5> QED BY <1>1, <5>1, Bails DEF Typed
      <4>2. rps' = [rps EXCEPT ![h][up.dstdir] = src["rps"]]
        BY <3>1, <3>2, <4>1 DEF CopyRPS
      <4> QED BY <1>1, <4>2 DEF Typed, KernelTyped
    <3>8. rps'[h][After[up.dstdir]] = Absent /\ rps'[h][Before[up.dstdir]] = Absent
      BY <1>1, <3>1, <3>3, <3>7, OneDir DEF Spare
    <3>9. k1 = rps'[h][up.dstdir]
      BY <1>3, <3>3, <3>8, TwoDirs
    <3> QED BY <3>6, <3>9
  <2> QED BY <2>2, <2>3, <2>4
<1> QED BY <1>2, <1>4, <1>5, <1>6, <1>7 DEF Later

-----------------------------------------------------------------------------
(***************************************************************************)
(* What is proved of every run, for any number of helpers, any failures    *)
(* and any number of crashes.                                              *)
(***************************************************************************)

\* Wherever an update is cut off (updateBootHelpers()), the helpers can be told
\* apart by the next one: no unflushed booter is blessed (activateBooters()),
\* a label is shown only over a whole booter in its place (moveLabels(),
\* nukeBRLabels(), revertState()) and the three directories are never all
\* there (ucopyRPS(), activateRPS()).
THEOREM HelpersStayInOrder == Spec => []HelpersInOrder
<1>1. IInv => HelpersInOrder
  BY InOrder
<1> QED BY <1>1, Inductive, PTL

\* Whatever fails in an update, and at whatever step of it kextcache or the
\* machine stops, a helper spared the mishaps of BooterLost and KernelLost has
\* a whole booter blessed and a whole kernel for it, or its Recovery OS blessed.
THEOREM StaysBootable == Spec => []AlwaysBootable
<1>1. IInv => AlwaysBootable
  BY StillBootable
<1> QED BY <1>1, Inductive, PTL

\* updateStamps() tells the truth of the helpers: when the stamps have the
\* times of the volume's files, each helper boots these files or met one of
\* the mishaps Settled names.
THEOREM StampsStayHonest == Spec => []StampsHonest
<1>1. IInv => StampsHonest
  BY Honest
<1> QED BY <1>1, Inductive, PTL

\* The order of activateBooters() and activateRPS(): no helper boots a kernel
\* with the booter of an earlier release, but for the three cases the property
\* names and a kernel that was lost.
THEOREM BooterStaysAhead == Spec => []BooterSupportsKernel
<1>1. IInv => BooterSupportsKernel
  BY Supported
<1> QED BY <1>1, Inductive, PTL

\* However long kextcache goes on, a helper that has booted a kernel never boots
\* an earlier one while it is spared what the property names: the new directory
\* leap-frogs the current one (activateRPS()), the one before is what is erased
\* (ucopyRPS(), nukeFallbacks()), and what is copied is the volume's latest.
THEOREM KernelsAdvance == Spec => KernelAdvances
<1>1. ASSUME NEW h \in Boots, NEW n \in Versions
      PROVE  Spec => [](BootsKernel(h) /\ Kernel(h) = n => []NeverBefore(h, n))
  <2>1. IInv /\ BootsKernel(h) /\ Kernel(h) = n => Later(h, n)
    BY BootsFirst
  <2>2. IInv /\ Later(h, n) /\ [Next]_vars => Later(h, n)'
    BY LaterStays
  <2>3. IInv /\ Later(h, n) => NeverBefore(h, n)
    BY LaterBoots
  <2> QED BY <2>1, <2>2, <2>3, Inductive, PTL DEF Spec
<1> QED BY <1>1 DEF KernelAdvances

=============================================================================
