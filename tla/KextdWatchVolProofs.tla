------------------------ MODULE KextdWatchVolProofs ------------------------
(***************************************************************************)
(* Proofs about KextdWatchVol, for every number of volumes and clients and *)
(* every value of the other constants.                                     *)
(***************************************************************************)
EXTENDS KextdWatchVol, SequenceTheorems, WellFoundedInduction, TLAPS

(***************************************************************************)
(* What a check of one volume yields, and what it never touches.           *)
(***************************************************************************)
CheckResult == [w : WatchedVol, stale : SUBSET CacheKinds,
                forked : BOOLEAN, launched : BOOLEAN]
KeepsLock(r, w) == /\ r \in CheckResult
                   /\ r.w.lock = w.lock
                   /\ r.w.waiters = w.waiters
                   /\ r.w.origMntFlags = w.origMntFlags

\* Unchecked only wraps a watchedVol.
LEMMA UncheckedKeeps ==
    ASSUME NEW w \in WatchedVol, NEW st \in SUBSET CacheKinds
    PROVE  KeepsLock(Unchecked(w, st), w)
  BY DEF KeepsLock, Unchecked, CheckResult

\* Launching a kextcache changes counters only.
LEMMA LaunchRebuildKeeps ==
    ASSUME NEW r \in CheckResult, NEW ok \in BOOLEAN
    PROVE  KeepsLock(LaunchRebuild(r, ok), r.w)
<1>1. r.w \in WatchedVol /\ r.w.updtattempts + 1 \in Nat /\ Bump(r.w.updterrs) \in Nat
  BY WatchVolAssumption DEF CheckResult, WatchedVol, Bump
<1>2. CASE ok
  <2>1. [r.w EXCEPT !.updtattempts = @ + 1] \in WatchedVol
    BY <1>1 DEF WatchedVol
  <2>2. LaunchRebuild(r, ok) = [r EXCEPT !.w = [r.w EXCEPT !.updtattempts = @ + 1],
                                         !.forked = TRUE, !.launched = TRUE]
    BY <1>2 DEF LaunchRebuild
  <2> QED
    BY <1>1, <2>1, <2>2 DEF KeepsLock, CheckResult, WatchedVol
<1>3. CASE ~ok
  <2>1. [r.w EXCEPT !.updterrs = Bump(@)] \in WatchedVol
    BY <1>1 DEF WatchedVol
  <2>2. LaunchRebuild(r, ok) = [r EXCEPT !.w = [r.w EXCEPT !.updterrs = Bump(@)],
                                         !.launched = FALSE]
    BY <1>3 DEF LaunchRebuild
  <2> QED
    BY <1>1, <2>1, <2>2 DEF KeepsLock, CheckResult, WatchedVol
<1> QED
  BY <1>2, <1>3

LEMMA ErrorCounted ==
    ASSUME NEW w \in WatchedVol
    PROVE  [w EXCEPT !.updterrs = Bump(@)] \in WatchedVol
<1>1. Bump(w.updterrs) \in Nat
  BY WatchVolAssumption DEF WatchedVol, Bump
<1> QED
  BY <1>1 DEF WatchedVol

LEMMA RebuildIfStaleKeeps ==
    ASSUME NEW w \in WatchedVol, NEW st \in SUBSET CacheKinds, NEW ok \in BOOLEAN
    PROVE  KeepsLock(RebuildIfStale(w, st, ok), w)
<1> DEFINE r == Unchecked(CancelDelayer(w), st)
<1>1. KeepsLock(r, w)
  BY DEF KeepsLock, Unchecked, CancelDelayer, CheckResult, WatchedVol
<1>2. KeepsLock(LaunchRebuild(r, ok), r.w)
  BY <1>1, LaunchRebuildKeeps DEF KeepsLock
<1>3. RebuildIfStale(w, st, ok) \in {r, LaunchRebuild(r, ok)}
  BY DEF RebuildIfStale
<1> QED
  BY <1>1, <1>2, <1>3 DEF KeepsLock

LEMMA CheckBootsKeeps ==
    ASSUME NEW w \in WatchedVol, NEW st \in SUBSET CacheKinds,
           NEW boots \in BOOLEAN, NEW ok \in BOOLEAN
    PROVE  KeepsLock(CheckBootsSetNvram(w, st, boots, ok), w)
<1>1. CASE boots /\ ~w.isBootRoot
  <2>1. [w EXCEPT !.isBootRoot = TRUE] \in WatchedVol
    BY DEF WatchedVol
  <2>2. KeepsLock(RebuildIfStale([w EXCEPT !.isBootRoot = TRUE], st, ok), w)
    BY <2>1, RebuildIfStaleKeeps DEF KeepsLock, WatchedVol
  <2> QED
    BY <1>1, <2>2 DEF CheckBootsSetNvram
<1>2. CASE ~boots /\ w.isBootRoot
  <2>1. KeepsLock(Unchecked([w EXCEPT !.isBootRoot = FALSE], st \cup {"boot"}), w)
    BY DEF KeepsLock, Unchecked, CheckResult, WatchedVol, CacheKinds
  <2> QED
    BY <1>2, <2>1 DEF CheckBootsSetNvram
<1>3. CASE boots = w.isBootRoot
  BY <1>3, UncheckedKeeps DEF CheckBootsSetNvram
<1> QED
  BY <1>1, <1>2, <1>3 DEF WatchedVol

\* A pair of fork outcomes.
Outcome == BOOLEAN \X BOOLEAN

LEMMA CheckRebuildKeeps ==
    ASSUME NEW w \in WatchedVol, NEW st \in SUBSET CacheKinds,
           NEW boots \in BOOLEAN, NEW o \in Outcome
    PROVE  KeepsLock(CheckRebuild(w, st, boots, o), w)
<1> DEFINE r == Unchecked(CancelDelayer(w), st)
           b == CheckBootsSetNvram(r.w, st, boots, o[1])
<1>1. o[1] \in BOOLEAN /\ o[2] \in BOOLEAN
  BY DEF Outcome
<1>2. KeepsLock(r, w)
  BY DEF KeepsLock, Unchecked, CancelDelayer, CheckResult, WatchedVol
<1>3. KeepsLock(b, w)
  <2>1. r.w \in WatchedVol
    BY <1>2 DEF KeepsLock, CheckResult
  <2> HIDE DEF r
  <2>2. KeepsLock(b, r.w)
    BY <1>1, <2>1, CheckBootsKeeps
  <2> QED
    BY <1>2, <2>2 DEF KeepsLock
<1>4. KeepsLock(LaunchRebuild(r, o[2]), w)
  BY <1>1, <1>2, LaunchRebuildKeeps DEF KeepsLock
<1>5. KeepsLock(LaunchRebuild(b, o[2]), w)
  BY <1>1, <1>3, LaunchRebuildKeeps DEF KeepsLock
<1>6. KeepsLock([b EXCEPT !.launched = FALSE], w)
  BY <1>3 DEF KeepsLock, CheckResult
<1>7. CheckRebuild(w, st, boots, o) \in
        {r, LaunchRebuild(r, o[2]), LaunchRebuild(b, o[2]),
         [b EXCEPT !.launched = FALSE]}
  <2>1. CASE StopTrying(w)
    BY <2>1, Zenon DEF CheckRebuild
  <2>2. CASE ~StopTrying(w) /\ KextCacheStale(st)
    BY <2>2, Zenon DEF CheckRebuild
  <2>3. CASE ~StopTrying(w) /\ ~KextCacheStale(st)
    <3>1. CheckRebuild(w, st, boots, o) =
            IF b.w.isBootRoot /\ "boot" \in b.stale THEN LaunchRebuild(b, o[2])
                                                    ELSE [b EXCEPT !.launched = FALSE]
      BY <2>3, Zenon DEF CheckRebuild
    <3> HIDE DEF r, b
    <3> QED
      BY <3>1
  <2> QED
    BY <2>1, <2>2, <2>3
<1> HIDE DEF r, b
<1> QED
  BY <1>2, <1>4, <1>5, <1>6, <1>7

LEMMA CheckVolBusyKeeps ==
    ASSUME NEW w \in WatchedVol, NEW st \in SUBSET CacheKinds,
           NEW boots \in BOOLEAN, NEW o \in Outcome
    PROVE  KeepsLock(CheckVolBusy(w, st, boots, o), w)
  BY CheckRebuildKeeps, UncheckedKeeps DEF CheckVolBusy

\* A volume that becomes watched is not locked.
LEMMA AppearUnlocked ==
    ASSUME TypeOK, NEW v \in Vols, NEW st \in SUBSET CacheKinds, NEW o \in Outcome
    PROVE  /\ Appear(v, st, o) \in CheckResult
           /\ Appear(v, st, o).w.lock = NoPort
           /\ Appear(v, st, o).w.waiters = <<>>
           /\ Appear(v, st, o).w.origMntFlags = FALSE
<1> DEFINE r == CreateWatchedVol(v, st)
<1>1. hasBoots[v] \in BOOLEAN
  BY DEF TypeOK, VolumeTypeOK
<1>2. <<>> \in Seq(Clients)
  BY EmptySeq
<1>3. /\ r \in CheckResult /\ r.w.lock = NoPort /\ r.w.waiters = <<>>
      /\ r.w.origMntFlags = FALSE
  BY <1>1, <1>2 DEF CreateWatchedVol, Unchecked, CheckResult, WatchedVol, CacheKinds
<1>4. KeepsLock(CheckRebuild(r.w, r.stale, hasBoots[v], o), r.w)
  BY <1>1, <1>3, CheckRebuildKeeps DEF CheckResult
<1>5. Appear(v, st, o) \in {r, CheckRebuild(r.w, r.stale, hasBoots[v], o)}
  BY DEF Appear
<1> QED
  BY <1>3, <1>4, <1>5 DEF KeepsLock

LEMMA DissentKeeps ==
    ASSUME TypeOK, NEW v \in Vols, NEW w \in WatchedVol,
           NEW st \in SUBSET CacheKinds, NEW o \in Outcome
    PROVE  KeepsLock(DissentUnmount(v, w, st, o), w)
<1> DEFINE r == IF w.isBootRoot THEN CheckVolBusy(w, st, hasBoots[v], o)
                                ELSE Unchecked(w, st)
           busy == w.lock # NoPort \/ r.launched
<1>1. hasBoots[v] \in BOOLEAN
  BY DEF TypeOK, VolumeTypeOK
<1>2. KeepsLock(r, w)
  BY <1>1, CheckVolBusyKeeps, UncheckedKeeps
<1>3. DissentUnmount(v, w, st, o) =
        [r EXCEPT !.w.updterrs = IF busy /\ @ = 0 THEN 1 ELSE @]
  BY DEF DissentUnmount
<1> HIDE DEF r, busy
<1> QED
  BY <1>2, <1>3 DEF KeepsLock, CheckResult, WatchedVol

\* Checking every watched volume touches no lock and no queue.
LEMMA CheckAllKeeps ==
    ASSUME TypeOK, NEW d, DOMAIN d \subseteq Vols, d \in [DOMAIN d -> WatchedVol],
           NEW s \in [Vols -> SUBSET CacheKinds], NEW o,
           \A v \in DOMAIN d : o[v] \in Outcome
    PROVE  /\ DOMAIN CheckAll(d, s, o) = DOMAIN d
           /\ \A v \in DOMAIN d : KeepsLock(CheckAll(d, s, o)[v], d[v])
<1>1. \A v \in DOMAIN d : CheckAll(d, s, o)[v] = CheckVolBusy(d[v], s[v], hasBoots[v], o[v])
  BY DEF CheckAll
<1>2. \A v \in Vols : hasBoots[v] \in BOOLEAN
  BY DEF TypeOK, VolumeTypeOK
<1>3. \A v \in DOMAIN d : KeepsLock(CheckVolBusy(d[v], s[v], hasBoots[v], o[v]), d[v])
  BY <1>2, CheckVolBusyKeeps
<1> QED
  BY <1>1, <1>3 DEF CheckAll

(***************************************************************************)
(* Handing a lock on.                                                      *)
(***************************************************************************)
LEMMA LeastElement ==
    ASSUME NEW T \in SUBSET Nat, T # {}
    PROVE  \E i \in T : \A j \in T : ~(j < i)
<1> DEFINE R == OpToRel(<, Nat)
<1>1. IsWellFoundedOn(R, Nat)
  BY NatLessThanWellFounded
<1>2. \A x, y \in Nat : y < x => <<y, x>> \in R
  BY DEF OpToRel
<1> HIDE DEF R
<1>3. PICK x \in T : \A y \in T : ~(<<y, x>> \in R)
  BY <1>1, WFMin
<1> QED
  BY <1>2, <1>3

\* FirstLive finds the first waiter that lives, if there is one.
LEMMA FirstLiveExists ==
    ASSUME NEW w \in WatchedVol, ~AllDead(w)
    PROVE  /\ FirstLive(w) \in 1..Len(w.waiters)
           /\ w.waiters[FirstLive(w)] \notin dead
           /\ \A j \in 1..(FirstLive(w) - 1) : w.waiters[j] \in dead
<1> DEFINE T == {i \in 1..Len(w.waiters) : w.waiters[i] \notin dead}
<1>1. w.waiters \in Seq(Clients)
  BY DEF WatchedVol
<1>2. DOMAIN w.waiters = 1..Len(w.waiters) /\ Len(w.waiters) \in Nat
  BY <1>1, LenProperties
<1>3. T \in SUBSET Nat /\ T # {}
  BY <1>2 DEF AllDead, WaiterSet, ToSet
<1>4. PICK i \in T : \A j \in T : ~(j < i)
  BY <1>3, LeastElement
<1>5. \A j \in 1..(i - 1) : w.waiters[j] \in dead
  <2>1. SUFFICES ASSUME NEW j \in 1..(i - 1), w.waiters[j] \notin dead
                 PROVE  FALSE
    OBVIOUS
  <2>2. j \in T /\ j < i
    BY <1>2, <1>4, <2>1
  <2> QED
    BY <1>4, <2>2
<1> QED
  BY <1>4, <1>5 DEF FirstLive

LEMMA RemoveAtType ==
    ASSUME NEW T, NEW q \in Seq(T), NEW i \in 1..Len(q)
    PROVE  RemoveAt(q, i) \in Seq(T)
<1>1. SubSeq(q, 1, i - 1) \in Seq(T)
  BY SubSeqProperties
<1>2. SubSeq(q, i + 1, Len(q)) \in Seq(T)
  BY SubSeqProperties
<1> QED
  BY <1>1, <1>2, ConcatProperties DEF RemoveAt

\* handleWatchedHandoff leaves nobody waiting on a free lock.
LEMMA HandoffServes ==
    ASSUME NEW w \in WatchedVol
    PROVE  /\ Handoff(w) \in WatchedVol
           /\ Handoff(w).lock = NoPort => Handoff(w).waiters = <<>>
<1>1. w.waiters \in Seq(Clients) /\ Len(w.waiters) \in Nat
  BY LenProperties DEF WatchedVol
<1>2. CASE AllDead(w)
  BY <1>2, EmptySeq DEF Handoff, WatchedVol
<1>3. CASE ~AllDead(w)
  <2> DEFINE i == FirstLive(w)
             q == SubSeq(w.waiters, i + 1, Len(w.waiters))
  <2>1. i \in 1..Len(w.waiters)
    BY <1>3, FirstLiveExists
  <2> HIDE DEF i
  <2>2. w.waiters[i] \in Clients
    BY <1>1, <2>1, ElementOfSeq
  <2>3. q \in Seq(Clients)
    <3>1. \A k \in (i + 1)..Len(w.waiters) : w.waiters[k] \in Clients
      BY <1>1, <2>1, ElementOfSeq
    <3> QED
      BY <1>1, <2>1, <3>1, SubSeqProperties
  <2>4. Handoff(w) = [w EXCEPT !.lock = w.waiters[i], !.waiters = q]
    BY <1>3 DEF Handoff, i
  <2>5. Handoff(w).lock # NoPort
    BY <2>2, <2>4, WatchVolAssumption DEF WatchedVol
  <2> QED
    BY <2>2, <2>3, <2>4, <2>5 DEF WatchedVol
<1> QED
  BY <1>2, <1>3

(***************************************************************************)
(* The inductive invariant.  RebootExcludesUpdates is not inductive alone: *)
(* a handler that finds a lock free must know that nobody queues for it,   *)
(* which is NoWaiterOnFreeLock; both are stated here of a dictionary, so   *)
(* that each function of the code can be shown to preserve them.           *)
(***************************************************************************)
GoodDict(d) ==
    /\ DOMAIN d \subseteq Vols
    /\ d \in [DOMAIN d -> WatchedVol]
    /\ \A v \in DOMAIN d : d[v].lock = NoPort => d[v].waiters = <<>>
Free(d) == \A v \in DOMAIN d : d[v].lock = NoPort

LockInv == /\ GoodDict(sFsysWatchDict)
           /\ sRebootLock # NoPort => Free(sFsysWatchDict)
IInv == TypeOK /\ LockInv

\* The invariant says what the two properties say.
LEMMA InvImplies == IInv => TypeOK /\ NoWaiterOnFreeLock /\ RebootExcludesUpdates
<1>1. ToSet(<<>>) = {}
  BY DEF ToSet
<1> QED
  BY <1>1 DEF IInv, LockInv, GoodDict, Free, NoWaiterOnFreeLock,
       RebootExcludesUpdates, Watched, LockOf, WaitersFor, WaiterSet

LEMMA PutGood ==
    ASSUME NEW d, GoodDict(d), NEW v \in Vols, NEW w \in WatchedVol,
           w.lock = NoPort => w.waiters = <<>>
    PROVE  /\ GoodDict(Put(d, v, w))
           /\ Free(d) /\ w.lock = NoPort => Free(Put(d, v, w))
<1>1. /\ DOMAIN Put(d, v, w) = DOMAIN d \cup {v}
      /\ \A u \in DOMAIN d \cup {v} : Put(d, v, w)[u] = IF u = v THEN w ELSE d[u]
      /\ Put(d, v, w) \in [DOMAIN d \cup {v} -> WatchedVol]
  BY DEF Put, GoodDict
<1> QED
  BY <1>1 DEF GoodDict, Free

LEMMA RestrictGood ==
    ASSUME NEW d, GoodDict(d), NEW S, S \subseteq DOMAIN d
    PROVE  /\ GoodDict(Restrict(d, S))
           /\ Free(d) => Free(Restrict(d, S))
<1>1. /\ DOMAIN Restrict(d, S) = S
      /\ \A u \in S : Restrict(d, S)[u] = d[u]
      /\ Restrict(d, S) \in [S -> WatchedVol]
  BY DEF Restrict, GoodDict
<1> QED
  BY <1>1 DEF GoodDict, Free

\* The results of checks, one per volume of a set.
GoodResults(all) ==
    /\ DOMAIN all \subseteq Vols
    /\ \A v \in DOMAIN all :
          /\ all[v] \in CheckResult
          /\ all[v].w.lock = NoPort => all[v].w.waiters = <<>>

LEMMA DictOfGood ==
    ASSUME NEW all, GoodResults(all)
    PROVE  /\ GoodDict(DictOf(all))
           /\ (\A v \in DOMAIN all : all[v].w.lock = NoPort) => Free(DictOf(all))
<1>1. /\ DOMAIN DictOf(all) = DOMAIN all \ UnwatchableVols
      /\ \A u \in DOMAIN all \ UnwatchableVols : DictOf(all)[u] = all[u].w
      /\ DictOf(all) \in [DOMAIN all \ UnwatchableVols -> WatchedVol]
  BY DEF DictOf, GoodResults, CheckResult
<1> QED
  BY <1>1 DEF GoodDict, Free, GoodResults

LEMMA StaleOfType ==
    ASSUME NEW all, GoodResults(all), NEW s \in [Vols -> SUBSET CacheKinds]
    PROVE  StaleOf(all, s) \in [Vols -> SUBSET CacheKinds]
  BY DEF StaleOf, GoodResults, CheckResult

LEMMA LaunchedType ==
    ASSUME NEW all, GoodResults(all), TypeOK, Launched(all)
    PROVE  launched' \in [Vols -> BOOLEAN]
<1>1. \A v \in Vols : (launched[v] \/ (v \in DOMAIN all /\ all[v].forked)) \in BOOLEAN
  OBVIOUS
<1> QED
  BY <1>1 DEF Launched

\* Checking all of a good dictionary gives good results and keeps its locks.
LEMMA CheckAllGood ==
    ASSUME TypeOK, NEW d, GoodDict(d), NEW s \in [Vols -> SUBSET CacheKinds],
           NEW o, \A v \in DOMAIN d : o[v] \in Outcome
    PROVE  /\ GoodResults(CheckAll(d, s, o))
           /\ DOMAIN CheckAll(d, s, o) = DOMAIN d
           /\ \A v \in DOMAIN d : /\ CheckAll(d, s, o)[v].w.lock = d[v].lock
                                   /\ CheckAll(d, s, o)[v].w.waiters = d[v].waiters
<1>1. /\ DOMAIN CheckAll(d, s, o) = DOMAIN d
      /\ \A v \in DOMAIN d : KeepsLock(CheckAll(d, s, o)[v], d[v])
  BY CheckAllKeeps DEF GoodDict
<1> QED
  BY <1>1 DEF GoodResults, GoodDict, KeepsLock

LEMMA OneGood ==
    ASSUME NEW v \in Vols, NEW r \in CheckResult,
           r.w.lock = NoPort => r.w.waiters = <<>>
    PROVE  GoodResults(One(v, r))
  BY DEF GoodResults, One

\* ForkOutcomes and MountOutcomes are sets of Booleans.
LEMMA OutcomesType == Outcomes \subseteq Outcome
  BY WatchVolAssumption DEF Outcomes, Outcome

(***************************************************************************)
(* Volumes that come and go.                                               *)
(***************************************************************************)
PortTypes ==
    /\ sReplyPorts' \subseteq Clients
    /\ portInfo' \in [Clients -> Infos]
    /\ reply' \in [Clients -> Replies]
    /\ dead' \subseteq Clients
CacheTypes ==
    /\ stale' \in [Vols -> SUBSET CacheKinds]
    /\ plist' \in [Vols -> {"read", "newer", "missing"}]
    /\ launched' \in [Vols -> BOOLEAN]

LEMMA StopWatchingTypes ==
    ASSUME TypeOK, NEW v \in Vols, StopWatching(v)
    PROVE  PortTypes
  BY DEF TypeOK, KextdTypeOK, ClientTypeOK, StopWatching, PortTypes, Infos, Replies

\* vol_appeared adds an unlocked volume or nothing.
LEMMA VolAppearedGood ==
    ASSUME TypeOK, NEW d, GoodDict(d), NEW v \in Vols,
           NEW st \in SUBSET CacheKinds, NEW o \in Outcome, VolAppeared(d, v, st, o)
    PROVE  /\ GoodDict(sFsysWatchDict')
           /\ Free(d) => Free(sFsysWatchDict')
           /\ CacheTypes
<1> DEFINE r == Appear(v, st, o)
<1>1. r \in CheckResult /\ r.w.lock = NoPort /\ r.w.waiters = <<>>
  BY AppearUnlocked
<1>2. r.w \in WatchedVol /\ r.stale \in SUBSET CacheKinds
  BY <1>1 DEF CheckResult
<1>3. stale \in [Vols -> SUBSET CacheKinds] /\ launched \in [Vols -> BOOLEAN]
      /\ plist \in [Vols -> {"read", "newer", "missing"}]
  BY DEF TypeOK, VolumeTypeOK
<1>4. CASE Eligible(v)
  <2>1. /\ sFsysWatchDict' = IF v \in UnwatchableVols THEN d ELSE Put(d, v, r.w)
        /\ stale' = [stale EXCEPT ![v] = r.stale]
        /\ plist' = [plist EXCEPT ![v] = "read"]
        /\ Launched(One(v, r))
    BY <1>4 DEF VolAppeared
  <2> HIDE DEF r
  <2>2. launched' \in [Vols -> BOOLEAN]
    BY <1>1, <2>1, OneGood, LaunchedType
  <2>3. GoodDict(Put(d, v, r.w)) /\ (Free(d) => Free(Put(d, v, r.w)))
    BY <1>1, <1>2, PutGood
  <2> QED
    BY <1>2, <1>3, <2>1, <2>2, <2>3 DEF CacheTypes
<1>5. CASE ~Eligible(v)
  BY <1>3, <1>5 DEF VolAppeared, CacheTypes
<1> QED
  BY <1>4, <1>5

LEMMA ReappearGood ==
    ASSUME IInv, NEW v \in Vols, NEW st \in SUBSET CacheKinds, NEW o \in Outcomes,
           Reappear(v, st, o)
    PROVE  /\ GoodDict(sFsysWatchDict')
           /\ Free(sFsysWatchDict) => Free(sFsysWatchDict')
           /\ CacheTypes /\ PortTypes
<1>1. TypeOK /\ GoodDict(sFsysWatchDict) /\ o \in Outcome
  BY OutcomesType DEF IInv, LockInv
<1>2. CASE v = Root /\ v \in Watched
  BY <1>1, <1>2 DEF Reappear, TypeOK, KextdTypeOK, ClientTypeOK, VolumeTypeOK,
       CacheTypes, PortTypes
<1>3. CASE ~(v = Root /\ v \in Watched)
  <2> DEFINE d == Restrict(sFsysWatchDict, Watched \ {v})
  <2>1. StopWatching(v) /\ VolAppeared(d, v, st, o)
    BY <1>3 DEF Reappear
  <2>2. GoodDict(d) /\ (Free(sFsysWatchDict) => Free(d))
    BY <1>1, RestrictGood DEF Watched
  <2> HIDE DEF d
  <2>3. PortTypes
    BY <1>1, <2>1, StopWatchingTypes
  <2> QED
    BY <1>1, <2>1, <2>2, <2>3, VolAppearedGood
<1> QED
  BY <1>2, <1>3

\* What a step must establish: its new dictionary is good and, if shutdown holds
\* the system, free; the rest is typed.
LEMMA EstablishInv ==
    ASSUME GoodDict(sFsysWatchDict'),
           sRebootLock' # NoPort => Free(sFsysWatchDict)',
           CacheTypes, PortTypes,
           sRebootLock' \in Clients \cup {NoPort},
           sRebootWaiter' \in Clients \cup {NoPort},
           sAutoUpdateDelayer' \in BOOLEAN,
           target' \in [Clients -> Vols],
           SeenTypeOK',
           mounted' \in [Vols -> BOOLEAN],
           ownersIgnored' \in [Vols -> BOOLEAN],
           hasBoots' \in [Vols -> BOOLEAN],
           installing' \subseteq Vols,
           daEvents' \subseteq (Vols \X DAKeys),
           fsEvents' \subseteq Vols,
           changes' \in 0..MaxChanges
    PROVE  IInv'
<1>1. KextdTypeOK'
  BY DEF KextdTypeOK, PortTypes, GoodDict
<1>2. ClientTypeOK'
  BY DEF ClientTypeOK, PortTypes
<1>3. VolumeTypeOK'
  BY DEF VolumeTypeOK, CacheTypes
<1>4. LockInv'
  BY DEF LockInv, GoodDict, Free
<1> QED
  BY <1>1, <1>2, <1>3, <1>4 DEF IInv, TypeOK

\* What a kextcache found out of date is put down, forgotten, or changed since.
LEMMA SeenKept ==
    ASSUME TypeOK
    PROVE  /\ UNCHANGED seen => SeenTypeOK'
           /\ \A c : ForgetSeen(c) => SeenTypeOK'
  BY DEF TypeOK, ClientTypeOK, SeenTypeOK, ForgetSeen, Restrict

(***************************************************************************)
(* Every action preserves the invariant.                                   *)
(***************************************************************************)
LEMMA VolAppearedInv ==
    ASSUME IInv, NEW v \in Vols, vol_appeared(v)
    PROVE  IInv'
<1> USE DEF IInv, TypeOK, KextdTypeOK, ClientTypeOK, VolumeTypeOK, LockInv
<1>1. PICK o \in Outcomes : Reappear(v, stale[v], o)
  BY DEF vol_appeared
<1>2. /\ GoodDict(sFsysWatchDict')
      /\ Free(sFsysWatchDict) => Free(sFsysWatchDict')
      /\ CacheTypes /\ PortTypes
  BY <1>1, ReappearGood
<1>3. /\ fsEvents' \subseteq Vols /\ daEvents' \subseteq (Vols \X DAKeys)
      /\ UNCHANGED <<reboot, sAutoUpdateDelayer, target, seen, mediaVars, ownersIgnored>>
  BY DEF vol_appeared, ForgetEvents
<1> QED
  BY <1>2, <1>3, SeenKept, EstablishInv DEF reboot, mediaVars, Free

LEMMA VolDisappearedInv ==
    ASSUME IInv, NEW v \in Vols, vol_disappeared(v)
    PROVE  IInv'
<1> USE DEF IInv, TypeOK, KextdTypeOK, ClientTypeOK, VolumeTypeOK, LockInv
<1>1. /\ GoodDict(sFsysWatchDict')
      /\ Free(sFsysWatchDict) => Free(sFsysWatchDict')
      /\ PortTypes
  <2>1. CASE v = Root
    BY <2>1 DEF vol_disappeared, PortTypes
  <2>2. CASE v # Root
    BY <2>2, StopWatchingTypes, RestrictGood DEF vol_disappeared, Watched
  <2> QED
    BY <2>1, <2>2
<1>2. /\ fsEvents' \subseteq Vols /\ daEvents' \subseteq (Vols \X DAKeys)
      /\ UNCHANGED <<reboot, sAutoUpdateDelayer, target, seen, mediaVars, ownersIgnored,
                     stale, plist, launched>>
  BY DEF vol_disappeared, ForgetEvents
<1> QED
  BY <1>1, <1>2, SeenKept, EstablishInv DEF reboot, mediaVars, Free, CacheTypes

\* One volume's entry is replaced by the result of a check that keeps its lock.
LEMMA CheckedGood ==
    ASSUME IInv, NEW v \in Vols, v \in Watched, NEW r,
           KeepsLock(r, sFsysWatchDict[v]),
           sFsysWatchDict' = Put(sFsysWatchDict, v, r.w),
           stale' = [stale EXCEPT ![v] = r.stale],
           Launched(One(v, r))
    PROVE  /\ GoodDict(sFsysWatchDict')
           /\ Free(sFsysWatchDict) => Free(sFsysWatchDict')
           /\ stale' \in [Vols -> SUBSET CacheKinds]
           /\ launched' \in [Vols -> BOOLEAN]
<1>1. /\ GoodDict(sFsysWatchDict)
      /\ sFsysWatchDict[v] \in WatchedVol
      /\ sFsysWatchDict[v].lock = NoPort => sFsysWatchDict[v].waiters = <<>>
      /\ stale \in [Vols -> SUBSET CacheKinds]
  BY DEF IInv, LockInv, GoodDict, Watched, TypeOK, VolumeTypeOK
<1>2. /\ r \in CheckResult /\ r.w \in WatchedVol /\ r.stale \in SUBSET CacheKinds
      /\ r.w.lock = sFsysWatchDict[v].lock
      /\ r.w.lock = NoPort => r.w.waiters = <<>>
  BY <1>1 DEF KeepsLock, CheckResult
<1>3. GoodResults(One(v, r))
  BY <1>2, OneGood
<1>4. Free(sFsysWatchDict) => r.w.lock = NoPort
  BY <1>2 DEF Free, Watched
<1> QED
  BY <1>1, <1>2, <1>3, <1>4, PutGood, LaunchedType DEF IInv

LEMMA VolChangedInv ==
    ASSUME IInv, NEW v \in Vols, NEW key \in DAKeys, vol_changed(v, key)
    PROVE  IInv'
<1> USE DEF IInv, TypeOK, KextdTypeOK, ClientTypeOK, VolumeTypeOK, LockInv
<1>1. /\ GoodDict(sFsysWatchDict')
      /\ Free(sFsysWatchDict) => Free(sFsysWatchDict')
      /\ CacheTypes /\ PortTypes
      /\ fsEvents' \subseteq Vols
  <2>1. CASE /\ \E o \in Outcomes : Reappear(v, stale[v], o)
             /\ ForgetEvents(v)
    BY <2>1, ReappearGood DEF ForgetEvents
  <2>2. ASSUME v \in Watched, NEW ok \in ForkOutcomes,
               LET r == CheckBootsSetNvram(sFsysWatchDict[v], stale[v], hasBoots[v], ok)
               IN  /\ sFsysWatchDict' = Put(sFsysWatchDict, v, r.w)
                   /\ stale' = [stale EXCEPT ![v] = r.stale]
                   /\ Launched(One(v, r)),
               UNCHANGED <<sReplyPorts, portInfo, reply, dead, plist, fsEvents>>
        PROVE  /\ GoodDict(sFsysWatchDict')
               /\ Free(sFsysWatchDict) => Free(sFsysWatchDict')
               /\ CacheTypes /\ PortTypes
               /\ fsEvents' \subseteq Vols
    <3> DEFINE r == CheckBootsSetNvram(sFsysWatchDict[v], stale[v], hasBoots[v], ok)
    <3>1. KeepsLock(r, sFsysWatchDict[v])
      BY <2>2, WatchVolAssumption, CheckBootsKeeps DEF Watched
    <3> HIDE DEF r
    <3> QED
      BY <2>2, <3>1, CheckedGood DEF CacheTypes, PortTypes, r
  <2> QED
    BY <2>1, <2>2 DEF vol_changed
<1>2. /\ daEvents' \subseteq (Vols \X DAKeys)
      /\ UNCHANGED <<reboot, sAutoUpdateDelayer, target, seen, mediaVars, ownersIgnored>>
  BY DEF vol_changed
<1> QED
  BY <1>1, <1>2, SeenKept, EstablishInv DEF reboot, mediaVars, Free

LEMMA DiskBusyInv ==
    ASSUME IInv, NEW v \in Vols, is_dadisk_busy(v)
    PROVE  IInv'
<1> USE DEF IInv, TypeOK, KextdTypeOK, ClientTypeOK, VolumeTypeOK, LockInv
<1>1. PICK o \in Outcomes \X Outcomes :
        LET a == IF v \in Watched THEN Unchecked(sFsysWatchDict[v], stale[v])
                                  ELSE Appear(v, stale[v], o[1])
            r == IF v \in UnwatchableVols THEN a
                   ELSE DissentUnmount(v, a.w, a.stale, o[2])
        IN  /\ sFsysWatchDict' = IF v \in UnwatchableVols THEN sFsysWatchDict
                                   ELSE Put(sFsysWatchDict, v, r.w)
            /\ stale' = [stale EXCEPT ![v] = r.stale]
            /\ plist' = IF v \in Watched THEN plist ELSE [plist EXCEPT ![v] = "read"]
            /\ Launched(One(v, [r EXCEPT !.forked = @ \/ a.forked]))
  BY DEF is_dadisk_busy
<1> DEFINE a == IF v \in Watched THEN Unchecked(sFsysWatchDict[v], stale[v])
                                 ELSE Appear(v, stale[v], o[1])
           r == IF v \in UnwatchableVols THEN a
                  ELSE DissentUnmount(v, a.w, a.stale, o[2])
           f == [r EXCEPT !.forked = @ \/ a.forked]
<1>2. /\ o[1] \in Outcome /\ o[2] \in Outcome
      /\ stale[v] \in SUBSET CacheKinds
  BY OutcomesType
<1>3. /\ a \in CheckResult
      /\ a.w.lock = NoPort => a.w.waiters = <<>>
      /\ Free(sFsysWatchDict) => a.w.lock = NoPort
  <2>1. CASE v \in Watched
    <3>1. /\ sFsysWatchDict[v] \in WatchedVol
          /\ sFsysWatchDict[v].lock = NoPort => sFsysWatchDict[v].waiters = <<>>
          /\ Free(sFsysWatchDict) => sFsysWatchDict[v].lock = NoPort
      BY <2>1 DEF GoodDict, Watched, Free
    <3>2. KeepsLock(Unchecked(sFsysWatchDict[v], stale[v]), sFsysWatchDict[v])
      BY <1>2, <3>1, UncheckedKeeps
    <3> QED
      BY <2>1, <3>1, <3>2 DEF KeepsLock
  <2>2. CASE v \notin Watched
    BY <1>2, <2>2, AppearUnlocked
  <2> QED
    BY <2>1, <2>2
<1> HIDE DEF a
<1>4. /\ r \in CheckResult
      /\ r.w.lock = NoPort => r.w.waiters = <<>>
      /\ Free(sFsysWatchDict) => r.w.lock = NoPort
  <2>1. a.w \in WatchedVol /\ a.stale \in SUBSET CacheKinds
    BY <1>3 DEF CheckResult
  <2>2. KeepsLock(DissentUnmount(v, a.w, a.stale, o[2]), a.w)
    BY <1>2, <2>1, DissentKeeps
  <2> QED
    BY <1>3, <2>2 DEF KeepsLock
<1>5. /\ sFsysWatchDict' = IF v \in UnwatchableVols THEN sFsysWatchDict
                             ELSE Put(sFsysWatchDict, v, r.w)
      /\ stale' = [stale EXCEPT ![v] = r.stale]
      /\ plist' = IF v \in Watched THEN plist ELSE [plist EXCEPT ![v] = "read"]
      /\ Launched(One(v, f))
  BY <1>1 DEF a
<1> HIDE DEF r
<1>6. f \in CheckResult /\ (f.w.lock = NoPort => f.w.waiters = <<>>)
  <2>1. (r.forked \/ a.forked) \in BOOLEAN
    OBVIOUS
  <2> QED
    BY <1>4, <2>1 DEF CheckResult
<1> HIDE DEF f
<1>7. launched' \in [Vols -> BOOLEAN]
  BY <1>5, <1>6, OneGood, LaunchedType
<1>8. /\ GoodDict(sFsysWatchDict')
      /\ Free(sFsysWatchDict) => Free(sFsysWatchDict')
  BY <1>4, <1>5, PutGood DEF CheckResult
<1>9. CacheTypes
  BY <1>4, <1>5, <1>7 DEF CacheTypes, CheckResult
<1>10. UNCHANGED <<sReplyPorts, portInfo, reboot, sAutoUpdateDelayer,
                   clientVars, mediaVars, ownersIgnored, daEvents, fsEvents>>
  BY DEF is_dadisk_busy
<1> QED
  BY <1>8, <1>9, <1>10, SeenKept, EstablishInv
  DEF reboot, mediaVars, clientVars, Free, PortTypes

LEMMA CheckScheduleUpdateGood ==
    ASSUME IInv, NEW v \in Vols, v \in Watched, NEW st \in SUBSET CacheKinds,
           CheckScheduleUpdate(v, st)
    PROVE  /\ GoodDict(sFsysWatchDict')
           /\ Free(sFsysWatchDict) => Free(sFsysWatchDict')
           /\ CacheTypes /\ PortTypes
<1> USE DEF IInv, TypeOK, KextdTypeOK, ClientTypeOK, VolumeTypeOK, LockInv
<1>1. CASE \E o \in Outcomes : Reappear(v, st, o)
  BY <1>1, ReappearGood
<1>2. CASE /\ sFsysWatchDict' =
                IF IgnoreChange(v) \/ sAutoUpdateDelayer THEN sFsysWatchDict
                  ELSE [sFsysWatchDict EXCEPT ![v].delayer = TRUE]
           /\ stale' = [stale EXCEPT ![v] = st]
           /\ UNCHANGED <<sReplyPorts, portInfo, reply, dead, plist, launched>>
  <2> DEFINE w == [sFsysWatchDict[v] EXCEPT !.delayer = TRUE]
             d == [sFsysWatchDict EXCEPT ![v] = w]
  <2>1. w \in WatchedVol /\ w.lock = sFsysWatchDict[v].lock
        /\ w.waiters = sFsysWatchDict[v].waiters
    BY DEF Watched, WatchedVol
  <2>2. d = [sFsysWatchDict EXCEPT ![v].delayer = TRUE]
    OBVIOUS
  <2> HIDE DEF w
  <2>3. GoodDict(d) /\ (Free(sFsysWatchDict) => Free(d))
    BY <2>1 DEF GoodDict, Free, Watched
  <2>4. sFsysWatchDict' \in {sFsysWatchDict, d}
    BY <1>2, <2>2
  <2> HIDE DEF d
  <2> QED
    BY <1>2, <2>3, <2>4 DEF CacheTypes, PortTypes
<1> QED
  BY <1>1, <1>2 DEF CheckScheduleUpdate

LEMMA FsysChangedInv ==
    ASSUME IInv, NEW v \in Vols, fsys_changed(v)
    PROVE  IInv'
<1> USE DEF IInv, TypeOK, KextdTypeOK, ClientTypeOK, VolumeTypeOK, LockInv
<1>1. /\ GoodDict(sFsysWatchDict')
      /\ Free(sFsysWatchDict) => Free(sFsysWatchDict')
      /\ CacheTypes /\ PortTypes
  BY CheckScheduleUpdateGood DEF fsys_changed
<1> QED
  BY <1>1, SeenKept, EstablishInv DEF fsys_changed, reboot, mediaVars, Free

LEMMA UpdateVolForMediaInv ==
    ASSUME IInv, NEW v \in Vols, NEW inv \in BOOLEAN, updateVolForMedia(v, inv)
    PROVE  IInv'
<1> USE DEF IInv, TypeOK, KextdTypeOK, ClientTypeOK, VolumeTypeOK, LockInv
<1> DEFINE st == IF inv THEN stale[v] \cup {"boot"} ELSE stale[v]
<1>1. st \in SUBSET CacheKinds
  BY DEF CacheKinds
<1>2. /\ GoodDict(sFsysWatchDict')
      /\ Free(sFsysWatchDict) => Free(sFsysWatchDict')
      /\ CacheTypes /\ PortTypes
  BY <1>1, CheckScheduleUpdateGood DEF updateVolForMedia
<1>3. changes' \in 0..MaxChanges
  BY WatchVolAssumption DEF updateVolForMedia
<1>4. fsEvents' \subseteq Vols
  BY DEF updateVolForMedia, ForgetEvents
<1> QED
  BY <1>2, <1>3, <1>4, SeenKept, EstablishInv DEF updateVolForMedia, reboot, Free

LEMMA CheckNowInv ==
    ASSUME IInv, NEW v \in Vols, check_now(v)
    PROVE  IInv'
<1> USE DEF IInv, TypeOK, KextdTypeOK, ClientTypeOK, VolumeTypeOK, LockInv
<1>1. PICK o \in Outcomes :
        LET r == CheckRebuild(sFsysWatchDict[v], stale[v], hasBoots[v], o)
        IN  /\ sFsysWatchDict' = Put(sFsysWatchDict, v, r.w)
            /\ stale' = [stale EXCEPT ![v] = r.stale]
            /\ Launched(One(v, r))
  BY DEF check_now
<1> DEFINE r == CheckRebuild(sFsysWatchDict[v], stale[v], hasBoots[v], o)
<1>2. v \in Watched /\ KeepsLock(r, sFsysWatchDict[v])
  BY CheckRebuildKeeps, OutcomesType DEF check_now, Watched
<1> HIDE DEF r
<1>3. /\ GoodDict(sFsysWatchDict')
      /\ Free(sFsysWatchDict) => Free(sFsysWatchDict')
      /\ stale' \in [Vols -> SUBSET CacheKinds]
      /\ launched' \in [Vols -> BOOLEAN]
  BY <1>1, <1>2, CheckedGood DEF r
<1> QED
  BY <1>3, SeenKept, EstablishInv
  DEF check_now, reboot, mediaVars, clientVars, Free, CacheTypes, PortTypes

LEMMA CheckAutoUpdateInv ==
    ASSUME IInv, checkAutoUpdate
    PROVE  IInv'
<1> USE DEF IInv, TypeOK, KextdTypeOK, ClientTypeOK, VolumeTypeOK, LockInv
<1>1. PICK o \in [Watched -> Outcomes] :
        LET all == CheckAll(sFsysWatchDict, stale, o)
        IN  /\ sFsysWatchDict' = DictOf(all)
            /\ stale' = StaleOf(all, stale)
            /\ Launched(all)
  BY DEF checkAutoUpdate
<1> DEFINE all == CheckAll(sFsysWatchDict, stale, o)
<1>2. /\ GoodResults(all)
      /\ DOMAIN all = Watched
      /\ \A v \in Watched : all[v].w.lock = sFsysWatchDict[v].lock
  BY CheckAllGood, OutcomesType DEF Watched
<1> HIDE DEF all
<1>3. /\ GoodDict(sFsysWatchDict')
      /\ Free(sFsysWatchDict) => Free(sFsysWatchDict')
      /\ stale' \in [Vols -> SUBSET CacheKinds]
      /\ launched' \in [Vols -> BOOLEAN]
  BY <1>1, <1>2, DictOfGood, StaleOfType, LaunchedType DEF all, Free, Watched
<1> QED
  BY <1>3, SeenKept, EstablishInv
  DEF checkAutoUpdate, reboot, mediaVars, clientVars, Free, CacheTypes, PortTypes

\* The end of an unlock and of a locker's death: the shutdown that waits is let
\* through only when the checks found no lock held.
LEMMA HandOnGood ==
    ASSUME IInv, sRebootLock = NoPort, NEW client \in Clients, NEW v \in Watched,
           NEW w \in WatchedVol, NEW s \in [Vols -> SUBSET CacheKinds],
           NEW o \in [Watched -> Outcomes], HandOn(client, v, w, s, o)
    PROVE  /\ GoodDict(sFsysWatchDict')
           /\ sRebootLock' # NoPort => Free(sFsysWatchDict')
           /\ stale' \in [Vols -> SUBSET CacheKinds]
           /\ launched' \in [Vols -> BOOLEAN]
           /\ PortTypes
           /\ sRebootLock' \in Clients \cup {NoPort}
           /\ sRebootWaiter' \in Clients \cup {NoPort}
<1> USE DEF IInv, TypeOK, KextdTypeOK, ClientTypeOK, VolumeTypeOK, LockInv
<1> DEFINE w2   == Handoff([w EXCEPT !.origMntFlags = FALSE])
           d    == Put(sFsysWatchDict, v, w2)
           try  == sRebootLock = NoPort /\ sRebootWaiter # NoPort
           all  == IF try THEN CheckAll(d, s, o)
                          ELSE [u \in DOMAIN d |-> Unchecked(d[u], s[u])]
           free == try /\ ~AnyBusy(all)
           told == {w2.lock} \cup (IF free THEN {sRebootWaiter} ELSE {})
           gone == Dropped(w)
<1>1. /\ sFsysWatchDict' = DictOf(all)
      /\ stale' = StaleOf(all, s)
      /\ Launched(all)
      /\ sRebootLock' = IF free /\ sRebootWaiter \notin dead THEN sRebootWaiter
                                                             ELSE sRebootLock
      /\ sRebootWaiter' = IF free THEN NoPort ELSE sRebootWaiter
      /\ sReplyPorts' = sReplyPorts \ (gone \cup told)
      /\ portInfo' = [c \in Clients |-> IF c \in gone THEN "none" ELSE portInfo[c]]
      /\ dead' = dead \ gone
      /\ reply' = [c \in Clients |-> CASE c = client -> "none"
                                       [] c \in told \ dead -> "OK"
                                       [] OTHER -> reply[c]]
  BY DEF HandOn
<1>2. w2 \in WatchedVol /\ (w2.lock = NoPort => w2.waiters = <<>>)
  <2>1. [w EXCEPT !.origMntFlags = FALSE] \in WatchedVol
    BY DEF WatchedVol
  <2> QED
    BY <2>1, HandoffServes
<1> HIDE DEF w2
<1>3. GoodDict(d) /\ DOMAIN d = Watched
  BY <1>2, PutGood DEF Watched, Put
<1> HIDE DEF d
<1>4. GoodResults(all)
  <2>1. CASE try
    BY <1>3, <2>1, CheckAllGood, OutcomesType
  <2>2. CASE ~try
    <3>1. \A u \in DOMAIN d : KeepsLock(Unchecked(d[u], s[u]), d[u])
      BY <1>3, UncheckedKeeps DEF GoodDict
    <3>2. all = [u \in DOMAIN d |-> Unchecked(d[u], s[u])]
      BY <2>2
    <3> HIDE DEF all
    <3> QED
      BY <1>3, <3>1, <3>2 DEF GoodResults, GoodDict, KeepsLock
  <2> QED
    BY <2>1, <2>2
<1> HIDE DEF all
<1>5. free => Free(DictOf(all))
  BY <1>4, DictOfGood DEF AnyBusy
<1>6. PortTypes
  <2>1. reply' \in [Clients -> Replies]
    BY <1>1 DEF Replies
  <2>2. portInfo' \in [Clients -> Infos]
    BY <1>1 DEF Infos
  <2> QED
    BY <1>1, <2>1, <2>2 DEF PortTypes
<1> QED
  BY <1>1, <1>4, <1>5, <1>6, DictOfGood, StaleOfType, LaunchedType

LEMMA RestoreOwnersType ==
    ASSUME TypeOK, NEW v, NEW ok \in BOOLEAN, RestoreOwners(v, ok)
    PROVE  ownersIgnored' \in [Vols -> BOOLEAN]
  BY DEF RestoreOwners, TypeOK, VolumeTypeOK

LEMMA PortDiedInv ==
    ASSUME IInv, NEW c \in Clients, port_died(c)
    PROVE  IInv'
<1> USE DEF IInv, TypeOK, KextdTypeOK, ClientTypeOK, VolumeTypeOK, LockInv
<1>1. UNCHANGED <<sAutoUpdateDelayer, target, seen, mediaVars, plist, daEvents, fsEvents>>
  BY DEF port_died
<1>2. CASE portInfo[c] = "reboot"
  <2>1. /\ sRebootLock' = IF sRebootLock = c THEN NoPort ELSE sRebootLock
        /\ sRebootWaiter' = IF sRebootWaiter = c THEN NoPort ELSE sRebootWaiter
        /\ sReplyPorts' = sReplyPorts \ {c}
        /\ portInfo' = [portInfo EXCEPT ![c] = "none"]
        /\ dead' = dead \ {c}
        /\ UNCHANGED <<sFsysWatchDict, reply, stale, launched, ownersIgnored>>
    BY <1>2 DEF port_died
  <2> QED
    BY <1>1, <2>1, SeenKept, EstablishInv DEF CacheTypes, PortTypes, Infos, mediaVars, Free
<1>3. CASE portInfo[c] # "reboot" /\ portInfo[c] \notin Watched
  <2>1. /\ portInfo' = [portInfo EXCEPT ![c] = "none"]
        /\ dead' = dead \ {c}
        /\ UNCHANGED <<sFsysWatchDict, sReplyPorts, reboot, reply, stale,
                       launched, ownersIgnored>>
    BY <1>3 DEF port_died
  <2> QED
    BY <1>1, <2>1, SeenKept, EstablishInv
    DEF CacheTypes, PortTypes, Infos, mediaVars, reboot, Free
<1>4. CASE portInfo[c] # "reboot" /\ portInfo[c] \in Watched
  <2> DEFINE v == portInfo[c]
             w == sFsysWatchDict[v]
  <2>1. w \in WatchedVol /\ v \in Watched
    BY <1>4 DEF Watched
  <2>2. \/ /\ Holds(w, c)
           /\ \E o \in [Watched -> Outcomes] :
                HandOn(c, v, [w EXCEPT !.updterrs = Bump(@)], stale, o)
           /\ \E ok \in MountOutcomes : RestoreOwners(v, ok)
        \/ /\ ~Holds(w, c)
           /\ \E i \in DOMAIN w.waiters :
                /\ w.waiters[i] = c
                /\ sFsysWatchDict' =
                     [sFsysWatchDict EXCEPT ![v].waiters = RemoveAt(@, i)]
           /\ sReplyPorts' = sReplyPorts \ {c}
           /\ portInfo' = [portInfo EXCEPT ![c] = "none"]
           /\ dead' = dead \ {c}
           /\ UNCHANGED <<reboot, reply, stale, launched, ownersIgnored>>
    BY <1>4 DEF port_died
  <2>3. CASE Holds(w, c)
    <3>1. PICK o \in [Watched -> Outcomes] :
            HandOn(c, v, [w EXCEPT !.updterrs = Bump(@)], stale, o)
      BY <2>2, <2>3
    <3>2. ownersIgnored' \in [Vols -> BOOLEAN]
      BY <2>2, <2>3, RestoreOwnersType, WatchVolAssumption
    <3>3. sRebootLock = NoPort
      BY <2>1, <2>3, WatchVolAssumption DEF Holds, Free, Watched
    <3>4. [w EXCEPT !.updterrs = Bump(@)] \in WatchedVol
      BY <2>1, ErrorCounted
    <3> HIDE DEF w, v
    <3> QED
      BY <1>1, <2>1, <3>1, <3>2, <3>3, <3>4, HandOnGood, SeenKept, EstablishInv
      DEF CacheTypes, mediaVars, Free
  <2>4. CASE ~Holds(w, c)
    <3>1. PICK i \in DOMAIN w.waiters :
            /\ w.waiters[i] = c
            /\ sFsysWatchDict' =
                 [sFsysWatchDict EXCEPT ![v].waiters = RemoveAt(@, i)]
      BY <2>2, <2>4
    <3> DEFINE q == RemoveAt(w.waiters, i)
    <3>2. q \in Seq(Clients)
      <4>1. w.waiters \in Seq(Clients)
        BY <2>1 DEF WatchedVol
      <4>2. i \in 1..Len(w.waiters)
        BY <4>1, LenProperties
      <4> QED
        BY <4>1, <4>2, RemoveAtType
    <3>3. w.lock # NoPort
      BY <2>1, EmptySeq DEF GoodDict, Watched
    <3> HIDE DEF q
    <3>4. /\ GoodDict(sFsysWatchDict')
          /\ Free(sFsysWatchDict) => Free(sFsysWatchDict')
      BY <2>1, <3>1, <3>2, <3>3 DEF GoodDict, Free, Watched, WatchedVol, q
    <3> QED
      BY <1>1, <2>2, <2>4, <3>4, SeenKept, EstablishInv
      DEF CacheTypes, PortTypes, Infos, mediaVars, reboot, Free
  <2> QED
    BY <2>3, <2>4
<1> QED
  BY <1>2, <1>3, <1>4

LEMMA ExitAccountingCases ==
    ASSUME NEW w \in WatchedVol, NEW exitstatus
    PROVE  ExitAccounting(w, exitstatus) \in
             {w, [w EXCEPT !.updterrs = 0, !.updtattempts = 0], [w EXCEPT !.updterrs = Bump(@)]}
<1>1. CASE exitstatus = "EX_OK" /\ w.updterrs > 0
  BY <1>1 DEF ExitAccounting
<1>2. CASE exitstatus = "EX_OK" /\ ~(w.updterrs > 0)
  <2>1. w.updterrs = 0
    BY <1>2 DEF WatchedVol
  <2> QED
    BY <1>2, <2>1 DEF ExitAccounting
<1>3. CASE exitstatus # "EX_OK"
  BY <1>3 DEF ExitAccounting
<1> QED
  BY <1>1, <1>2, <1>3

LEMMA ExitAccountingType ==
    ASSUME NEW w \in WatchedVol, NEW exitstatus
    PROVE  ExitAccounting(w, exitstatus) \in WatchedVol
<1>1. [w EXCEPT !.updterrs = 0, !.updtattempts = 0] \in WatchedVol
  BY DEF WatchedVol
<1>2. [w EXCEPT !.updterrs = Bump(@)] \in WatchedVol
  BY ErrorCounted
<1> QED
  BY <1>1, <1>2, ExitAccountingCases

LEMMA StaleAfterType ==
    ASSUME TypeOK, NEW c \in Clients, NEW exitstatus
    PROVE  [stale EXCEPT ![target[c]] = StaleAfter(c, exitstatus)]
              \in [Vols -> SUBSET CacheKinds]
  BY DEF TypeOK, ClientTypeOK, VolumeTypeOK, StaleAfter

LEMMA NeedUpdatesInv ==
    ASSUME IInv, NEW c \in Clients, needUpdates(c)
    PROVE  IInv'
<1> USE DEF IInv, TypeOK, KextdTypeOK, ClientTypeOK, VolumeTypeOK, LockInv
<1>1. SeenTypeOK'
  <2>1. PICK found \in SUBSET CacheKinds : c \in Helpers /\ seen' = Put(seen, c, found)
    BY DEF needUpdates
  <2> QED
    BY <2>1 DEF SeenTypeOK, Put
<1> QED
  BY <1>1, SeenKept, EstablishInv
  DEF needUpdates, CacheTypes, PortTypes, mediaVars, kextdVars, Free

LEMMA UnlockVolumeInv ==
    ASSUME IInv, NEW c \in Clients, NEW exitstatus,
           _kextmanager_unlock_volume(c, exitstatus)
    PROVE  IInv'
<1> USE DEF IInv, TypeOK, KextdTypeOK, ClientTypeOK, VolumeTypeOK, LockInv
<1> DEFINE v == target[c]
<1>1. UNCHANGED <<sAutoUpdateDelayer, target, mediaVars, plist, daEvents, fsEvents>>
  BY DEF _kextmanager_unlock_volume
<1>6. SeenTypeOK'
  BY SeenKept DEF _kextmanager_unlock_volume
<1>2. LET s == [stale EXCEPT ![v] = StaleAfter(c, exitstatus)] IN
        IF v \in Watched /\ Holds(sFsysWatchDict[v], c)
          THEN /\ \E o \in [Watched -> Outcomes] :
                    HandOn(c, v, ExitAccounting(sFsysWatchDict[v], exitstatus), s, o)
               /\ \E ok \in MountOutcomes : RestoreOwners(v, ok)
          ELSE /\ stale' = s
               /\ dead' = dead \cup {c}
               /\ reply' = [reply EXCEPT ![c] = "none"]
               /\ UNCHANGED <<sFsysWatchDict, sReplyPorts, reboot, portInfo,
                              launched, ownersIgnored>>
  BY DEF _kextmanager_unlock_volume
<1> DEFINE s == [stale EXCEPT ![v] = StaleAfter(c, exitstatus)]
<1>3. s \in [Vols -> SUBSET CacheKinds]
  BY StaleAfterType
<1>4. CASE v \in Watched /\ Holds(sFsysWatchDict[v], c)
  <2>1. PICK o \in [Watched -> Outcomes] :
          HandOn(c, v, ExitAccounting(sFsysWatchDict[v], exitstatus), s, o)
    BY <1>2, <1>4
  <2>2. ownersIgnored' \in [Vols -> BOOLEAN]
    BY <1>2, <1>4, RestoreOwnersType, WatchVolAssumption
  <2>3. sRebootLock = NoPort
    BY <1>4, WatchVolAssumption DEF Holds, Free, Watched
  <2>4. ExitAccounting(sFsysWatchDict[v], exitstatus) \in WatchedVol
    BY <1>4, ExitAccountingType DEF Watched
  <2> HIDE DEF s, v
  <2> QED
    BY <1>1, <1>3, <1>4, <1>6, <2>1, <2>2, <2>3, <2>4, HandOnGood, SeenKept, EstablishInv
    DEF CacheTypes, mediaVars, Free
<1>5. CASE ~(v \in Watched /\ Holds(sFsysWatchDict[v], c))
  <2>1. /\ stale' = s
        /\ dead' = dead \cup {c}
        /\ reply' = [reply EXCEPT ![c] = "none"]
        /\ UNCHANGED <<sFsysWatchDict, sReplyPorts, reboot, portInfo,
                       launched, ownersIgnored>>
    BY <1>2, <1>5
  <2> HIDE DEF s, v
  <2> QED
    BY <1>1, <1>3, <1>6, <2>1, SeenKept, EstablishInv
    DEF CacheTypes, PortTypes, Replies, mediaVars, reboot, Free
<1> QED
  BY <1>4, <1>5

LEMMA FinishUnlockedInv ==
    ASSUME IInv, NEW c \in Clients, FinishUnlocked(c)
    PROVE  IInv'
<1> USE DEF IInv, TypeOK, KextdTypeOK, ClientTypeOK, VolumeTypeOK, LockInv
<1>1. stale' \in [Vols -> SUBSET CacheKinds]
  BY StaleAfterType DEF FinishUnlocked
<1>2. reply' \in [Clients -> Replies]
  BY DEF FinishUnlocked, Replies
<1> QED
  BY <1>1, <1>2, SeenKept, EstablishInv
  DEF FinishUnlocked, CacheTypes, PortTypes, mediaVars, kextdVars, Free

LEMMA ClientDiesInv ==
    ASSUME IInv, NEW c \in Clients, ClientDies(c)
    PROVE  IInv'
<1> USE DEF IInv, TypeOK, KextdTypeOK, ClientTypeOK, VolumeTypeOK, LockInv
<1>1. reply' \in [Clients -> Replies] /\ dead' \subseteq Clients
  BY DEF ClientDies, Replies
<1> QED
  BY <1>1, SeenKept, EstablishInv
  DEF ClientDies, CacheTypes, PortTypes, mediaVars, kextdVars, Free

\* reconsiderVolumes() locks nothing either.
LEMMA ReconsiderGood ==
    ASSUME TypeOK, NEW all, GoodResults(all), NEW s \in [Vols -> SUBSET CacheKinds],
           NEW o \in [Vols -> Outcomes]
    PROVE  GoodResults(Reconsider(all, s, o))
<1> USE DEF TypeOK, VolumeTypeOK
<1> DEFINE D == DOMAIN all \cup {u \in Vols : Eligible(u)}
           R == Reconsider(all, s, o)
           b(v) == CheckBootsSetNvram(all[v].w, s[v], hasBoots[v], o[v][1])
<1>1. DOMAIN R = D /\ D \subseteq Vols
  BY DEF Reconsider, GoodResults
<1>2. ASSUME NEW v \in D
      PROVE  R[v] \in CheckResult /\ (R[v].w.lock = NoPort => R[v].w.waiters = <<>>)
  <2>1. v \in Vols /\ o[v] \in Outcome /\ o[v][1] \in BOOLEAN
    BY <1>1, OutcomesType DEF Outcome
  <2>2. R[v] = CASE v \in DOMAIN all /\ mounted[v] -> [b(v) EXCEPT !.launched = FALSE]
                 [] v \in DOMAIN all /\ ~mounted[v] -> all[v]
                 [] OTHER -> Appear(v, s[v], o[v])
    BY DEF Reconsider
  <2>3. CASE v \in DOMAIN all /\ mounted[v]
    <3>1. /\ all[v] \in CheckResult
          /\ all[v].w \in WatchedVol
          /\ all[v].w.lock = NoPort => all[v].w.waiters = <<>>
      BY <2>3 DEF GoodResults, CheckResult
    <3>2. KeepsLock(b(v), all[v].w)
      BY <2>1, <3>1, CheckBootsKeeps
    <3>3. R[v] = [b(v) EXCEPT !.launched = FALSE]
      BY <2>2, <2>3, Zenon
    <3> HIDE DEF b, R
    <3> QED
      BY <3>1, <3>2, <3>3 DEF KeepsLock, CheckResult
  <2>4. CASE v \in DOMAIN all /\ ~mounted[v]
    <3>1. R[v] = all[v]
      BY <2>2, <2>4, Zenon
    <3> QED
      BY <2>4, <3>1 DEF GoodResults
  <2>5. CASE v \notin DOMAIN all
    <3>1. R[v] = Appear(v, s[v], o[v])
      BY <2>2, <2>5, Zenon
    <3>2. s[v] \in SUBSET CacheKinds
      BY <2>1
    <3> HIDE DEF R, b, D
    <3>3. /\ Appear(v, s[v], o[v]) \in CheckResult
          /\ Appear(v, s[v], o[v]).w.waiters = <<>>
      BY <2>1, <3>2, AppearUnlocked
    <3> QED
      BY <3>1, <3>3
  <2> QED
    BY <2>3, <2>4, <2>5
<1> QED
  BY <1>1, <1>2 DEF GoodResults

LEMMA LockRebootGood ==
    ASSUME IInv, NEW c \in Clients, NEW wait \in BOOLEAN, NEW all, GoodResults(all),
           sRebootLock = NoPort, LockReboot(c, wait, all)
    PROVE  /\ GoodDict(sFsysWatchDict')
           /\ sRebootLock' # NoPort => Free(sFsysWatchDict')
           /\ CacheTypes
           /\ sReplyPorts' \subseteq Clients
           /\ portInfo' \in [Clients -> Infos]
           /\ reply' \in [Clients -> Replies]
           /\ sRebootLock' \in Clients \cup {NoPort}
           /\ sRebootWaiter' \in Clients \cup {NoPort}
<1> USE DEF IInv, TypeOK, KextdTypeOK, ClientTypeOK, VolumeTypeOK, LockInv
<1>1. /\ sFsysWatchDict' = DictOf(all)
      /\ stale' = StaleOf(all, stale)
      /\ plist' = [v \in Vols |-> IF v \in DOMAIN all \ Watched THEN "read"
                                                                ELSE plist[v]]
      /\ Launched(all)
  BY DEF LockReboot
<1>2. GoodDict(sFsysWatchDict') /\ CacheTypes
  BY <1>1, DictOfGood, StaleOfType, LaunchedType DEF CacheTypes
<1>3. ~AnyBusy(all) => Free(sFsysWatchDict')
  BY <1>1, DictOfGood DEF AnyBusy
<1>4. CASE ~AnyBusy(all)
  <2>1. /\ sRebootLock' = c
        /\ portInfo' = [portInfo EXCEPT ![c] = "reboot"]
        /\ reply' = [reply EXCEPT ![c] = "OK"]
        /\ UNCHANGED <<sRebootWaiter, sReplyPorts>>
    BY <1>4, Zenon DEF LockReboot
  <2> QED
    BY <1>2, <1>3, <1>4, <2>1 DEF Infos, Replies
<1>5. CASE AnyBusy(all) /\ wait /\ sRebootWaiter = NoPort
  <2>1. /\ sRebootWaiter' = c
        /\ portInfo' = [portInfo EXCEPT ![c] = "reboot"]
        /\ sReplyPorts' = sReplyPorts \cup {c}
        /\ reply' = [reply EXCEPT ![c] = "blocked"]
        /\ UNCHANGED sRebootLock
    BY <1>5, Zenon DEF LockReboot
  <2> QED
    BY <1>2, <2>1 DEF Infos, Replies
<1>6. CASE AnyBusy(all) /\ ~(wait /\ sRebootWaiter = NoPort)
  <2>1. /\ reply' = [reply EXCEPT ![c] = "EBUSY"]
        /\ UNCHANGED <<reboot, sReplyPorts, portInfo>>
    BY <1>6, Zenon DEF LockReboot
  <2> QED
    BY <1>2, <2>1 DEF Replies, reboot
<1> QED
  BY <1>4, <1>5, <1>6

LEMMA LockRebootInv ==
    ASSUME IInv, NEW c \in Clients, NEW wait \in BOOLEAN,
           _kextmanager_lock_reboot(c, wait)
    PROVE  IInv'
<1> USE DEF IInv, TypeOK, KextdTypeOK, ClientTypeOK, VolumeTypeOK, LockInv
<1>1. UNCHANGED <<sAutoUpdateDelayer, target, dead, seen, mediaVars, ownersIgnored,
                  daEvents, fsEvents>>
  BY DEF _kextmanager_lock_reboot
<1>2. CASE c \in NonRoot \/ sRebootLock # NoPort
  <2>1. /\ reply' = [reply EXCEPT ![c] = IF c \in NonRoot THEN "EPERM"
                                                           ELSE "EALREADY"]
        /\ UNCHANGED <<sFsysWatchDict, sReplyPorts, portInfo, reboot,
                       stale, plist, launched>>
    BY <1>2 DEF _kextmanager_lock_reboot
  <2> QED
    BY <1>1, <2>1, SeenKept, EstablishInv
    DEF CacheTypes, PortTypes, Replies, mediaVars, reboot, Free
<1>3. CASE ~(c \in NonRoot \/ sRebootLock # NoPort)
  <2>1. PICK o \in [Vols -> Outcomes] :
          LET all == CheckAll(sFsysWatchDict, stale, o)
              s   == StaleOf(all, stale)
          IN  LockReboot(c, wait, IF AnyBusy(all) THEN all ELSE Reconsider(all, s, o))
    BY <1>3 DEF _kextmanager_lock_reboot
  <2> DEFINE all == CheckAll(sFsysWatchDict, stale, o)
             s   == StaleOf(all, stale)
             res == IF AnyBusy(all) THEN all ELSE Reconsider(all, s, o)
  <2>2. GoodResults(all)
    BY CheckAllGood, OutcomesType
  <2>3. s \in [Vols -> SUBSET CacheKinds]
    BY <2>2, StaleOfType
  <2>4. LockReboot(c, wait, res)
    BY <2>1
  <2> HIDE DEF all, s
  <2>5. GoodResults(res)
    BY <2>2, <2>3, ReconsiderGood
  <2> HIDE DEF res
  <2> QED
    BY <1>1, <1>3, <2>4, <2>5, LockRebootGood, SeenKept, EstablishInv
    DEF PortTypes, mediaVars, Free
<1> QED
  BY <1>2, <1>3

LEMMA LockVolumeInv ==
    ASSUME IInv, NEW c \in Clients, NEW v \in Vols, NEW wait \in BOOLEAN,
           _kextmanager_lock_volume(c, v, wait)
    PROVE  IInv'
<1> USE DEF IInv, TypeOK, KextdTypeOK, ClientTypeOK, VolumeTypeOK, LockInv
<1>1. UNCHANGED <<reboot, sAutoUpdateDelayer, dead, seen, mediaVars, stale, plist,
                  daEvents, fsEvents>>
  BY DEF _kextmanager_lock_volume
<1>2. target' \in [Clients -> Vols]
  BY DEF _kextmanager_lock_volume
<1>3. launched' \in [Vols -> BOOLEAN]
  BY DEF _kextmanager_lock_volume
<1>4. CASE /\ \E x \in Replies : reply' = [reply EXCEPT ![c] = x]
           /\ UNCHANGED <<sFsysWatchDict, sReplyPorts, portInfo, ownersIgnored>>
  BY <1>1, <1>2, <1>3, <1>4, SeenKept, EstablishInv
  DEF CacheTypes, PortTypes, mediaVars, reboot, Free
<1>5. CASE c \in NonRoot \/ sRebootLock # NoPort \/ v \notin Watched
  <2>1. \/ /\ reply' = [reply EXCEPT ![c] = "EPERM"]
           /\ UNCHANGED <<sFsysWatchDict, sReplyPorts, portInfo, ownersIgnored>>
        \/ /\ reply' = [reply EXCEPT ![c] = "ENOLCK"]
           /\ UNCHANGED <<sFsysWatchDict, sReplyPorts, portInfo, ownersIgnored>>
        \/ /\ reply' = [reply EXCEPT ![c] = "ENOENT"]
           /\ UNCHANGED <<sFsysWatchDict, sReplyPorts, portInfo, ownersIgnored>>
    BY <1>5, Zenon DEF _kextmanager_lock_volume
  <2> QED
    BY <1>4, <2>1 DEF Replies
<1>6. CASE ~(c \in NonRoot \/ sRebootLock # NoPort \/ v \notin Watched)
  <2> DEFINE w == sFsysWatchDict[v]
  <2>1. w \in WatchedVol /\ v \in Watched /\ sRebootLock' = NoPort
    BY <1>1, <1>6 DEF Watched, reboot
  <2>2. \/ /\ sFsysWatchDict[v].lock = NoPort
           /\ \E ok \in MountOutcomes :
                ownersIgnored' = [ownersIgnored EXCEPT ![v] = @ /\ ~ok]
           /\ sFsysWatchDict' =
                [sFsysWatchDict EXCEPT
                   ![v] = Granted(sFsysWatchDict[v], c, ownersIgnored[v])]
           /\ portInfo' = [portInfo EXCEPT ![c] = v]
           /\ reply' = [reply EXCEPT ![c] = "OK"]
           /\ UNCHANGED sReplyPorts
        \/ /\ sFsysWatchDict[v].lock # NoPort
           /\ wait
           /\ sFsysWatchDict' =
                [sFsysWatchDict EXCEPT ![v].waiters = Append(@, c)]
           /\ sReplyPorts' = sReplyPorts \cup {c}
           /\ portInfo' = [portInfo EXCEPT ![c] = v]
           /\ reply' = [reply EXCEPT ![c] = "blocked"]
           /\ UNCHANGED ownersIgnored
        \/ /\ sFsysWatchDict[v].lock # NoPort
           /\ ~wait
           /\ reply' = [reply EXCEPT ![c] = "EBUSY"]
           /\ UNCHANGED <<sFsysWatchDict, sReplyPorts, portInfo, ownersIgnored>>
    BY <1>6, Zenon DEF _kextmanager_lock_volume
  <2>3. CASE sFsysWatchDict[v].lock = NoPort
    <3> DEFINE g == Granted(w, c, ownersIgnored[v])
    <3>1. g \in WatchedVol /\ g.lock # NoPort
      BY <2>1, WatchVolAssumption DEF WatchedVol, Granted
    <3>2. /\ sFsysWatchDict' = [sFsysWatchDict EXCEPT ![v] = g]
          /\ \E ok \in MountOutcomes :
                ownersIgnored' = [ownersIgnored EXCEPT ![v] = @ /\ ~ok]
          /\ portInfo' = [portInfo EXCEPT ![c] = v]
          /\ reply' = [reply EXCEPT ![c] = "OK"]
          /\ UNCHANGED sReplyPorts
      BY <2>2, <2>3
    <3> HIDE DEF g
    <3>3. GoodDict(sFsysWatchDict')
      BY <2>1, <3>1, <3>2 DEF GoodDict, Watched
    <3>4. ownersIgnored' \in [Vols -> BOOLEAN]
      BY <3>2, WatchVolAssumption
    <3> QED
      BY <1>1, <1>2, <1>3, <2>1, <3>2, <3>3, <3>4, SeenKept, EstablishInv
      DEF CacheTypes, PortTypes, Infos, Replies, mediaVars, reboot
  <2>4. CASE sFsysWatchDict[v].lock # NoPort /\ wait
    <3> DEFINE q == Append(w.waiters, c)
    <3>1. q \in Seq(Clients)
      BY <2>1, AppendProperties DEF WatchedVol
    <3>2. /\ sFsysWatchDict' = [sFsysWatchDict EXCEPT ![v].waiters = q]
          /\ sReplyPorts' = sReplyPorts \cup {c}
          /\ portInfo' = [portInfo EXCEPT ![c] = v]
          /\ reply' = [reply EXCEPT ![c] = "blocked"]
          /\ UNCHANGED ownersIgnored
      BY <2>2, <2>4
    <3> HIDE DEF q
    <3>3. GoodDict(sFsysWatchDict')
      BY <2>1, <2>4, <3>1, <3>2 DEF GoodDict, Watched, WatchedVol
    <3> QED
      BY <1>1, <1>2, <1>3, <2>1, <3>2, <3>3, SeenKept, EstablishInv
      DEF CacheTypes, PortTypes, Infos, Replies, mediaVars, reboot
  <2>5. CASE sFsysWatchDict[v].lock # NoPort /\ ~wait
    BY <1>4, <2>2, <2>5 DEF Replies
  <2> QED
    BY <2>3, <2>4, <2>5
<1> QED
  BY <1>5, <1>6

\* What the environment does to volumes is none of kextd's state.
EnvironmentStep(v) ==
    \/ Mount(v)
    \/ \E how \in {"VolumePath", "disappeared"} : Unmount(v, how)
    \/ \E kind \in TouchKinds : Touch(v, kind)
    \/ \E to \in {"newer", "missing"} : ChangePlist(v, to)
    \/ ChangeBoots(v)
    \/ InstallerStarts(v)
    \/ InstallerEnds(v)
    \/ LaunchedQuits(v)

LEMMA EnvironmentInv ==
    ASSUME IInv, NEW v \in Vols, EnvironmentStep(v)
    PROVE  IInv'
<1> USE DEF IInv, TypeOK, KextdTypeOK, ClientTypeOK, VolumeTypeOK, LockInv
<1>1. Change => changes' \in 0..MaxChanges
  BY WatchVolAssumption DEF Change
<1>2. Notify(v) => fsEvents' \subseteq Vols
  BY DEF Notify
<1> HIDE DEF Change, Notify
<1>3. CASE Mount(v)
  <2>1. /\ mounted' \in [Vols -> BOOLEAN] /\ ownersIgnored' \in [Vols -> BOOLEAN]
        /\ daEvents' \subseteq (Vols \X DAKeys)
    BY <1>3 DEF Mount, DAKeys
  <2> QED
    BY <1>1, <1>3, <2>1, SeenKept, EstablishInv
    DEF Mount, CacheTypes, PortTypes, kextdVars, clientVars, Free
<1>4. ASSUME NEW how \in {"VolumePath", "disappeared"}, Unmount(v, how)
      PROVE  IInv'
  <2>1. mounted' \in [Vols -> BOOLEAN] /\ daEvents' \subseteq (Vols \X DAKeys)
    BY <1>4 DEF Unmount, DAKeys
  <2> QED
    BY <1>1, <1>4, <2>1, SeenKept, EstablishInv
    DEF Unmount, CacheTypes, PortTypes, kextdVars, clientVars, Free
<1>5. ASSUME NEW kind \in TouchKinds, Touch(v, kind)
      PROVE  IInv'
  <2>1. stale' \in [Vols -> SUBSET CacheKinds]
    BY <1>5, WatchVolAssumption DEF Touch
  <2>2. SeenTypeOK'
    BY <1>5 DEF Touch, SeenTypeOK
  <2> QED
    BY <1>1, <1>2, <1>5, <2>1, <2>2, SeenKept, EstablishInv
    DEF Touch, CacheTypes, PortTypes, kextdVars, clientVars, Free
<1>6. ASSUME NEW to \in {"newer", "missing"}, ChangePlist(v, to)
      PROVE  IInv'
  <2>1. plist' \in [Vols -> {"read", "newer", "missing"}]
    BY <1>6 DEF ChangePlist
  <2> QED
    BY <1>1, <1>2, <1>6, <2>1, SeenKept, EstablishInv
    DEF ChangePlist, CacheTypes, PortTypes, kextdVars, clientVars, Free
<1>7. CASE ChangeBoots(v)
  <2>1. hasBoots' \in [Vols -> BOOLEAN] /\ daEvents' \subseteq (Vols \X DAKeys)
    BY <1>7 DEF ChangeBoots, DAKeys
  <2> QED
    BY <1>1, <1>7, <2>1, SeenKept, EstablishInv
    DEF ChangeBoots, CacheTypes, PortTypes, kextdVars, clientVars, Free
<1>8. CASE InstallerStarts(v)
  BY <1>1, <1>2, <1>8, SeenKept, EstablishInv
  DEF InstallerStarts, CacheTypes, PortTypes, kextdVars, clientVars, Free
<1>9. CASE InstallerEnds(v)
  BY <1>2, <1>9, SeenKept, EstablishInv
  DEF InstallerEnds, CacheTypes, PortTypes, kextdVars, clientVars, Free
<1>10. CASE LaunchedQuits(v)
  <2>1. launched' \in [Vols -> BOOLEAN]
    BY <1>10 DEF LaunchedQuits
  <2> QED
    BY <1>10, <2>1, SeenKept, EstablishInv
    DEF LaunchedQuits, CacheTypes, PortTypes, kextdVars, clientVars, mediaVars, Free
<1> QED
  BY <1>3, <1>4, <1>5, <1>6, <1>7, <1>8, <1>9, <1>10 DEF EnvironmentStep

(***************************************************************************)
(* The theorems.                                                           *)
(***************************************************************************)
LEMMA InitInv == Init => IInv
<1> SUFFICES ASSUME Init PROVE IInv
  OBVIOUS
<1>1. DOMAIN sFsysWatchDict = {} /\ sFsysWatchDict \in [{} -> WatchedVol]
  BY DEF Init
<1>2. KextdTypeOK
  BY <1>1 DEF Init, KextdTypeOK, Infos
<1>3. ClientTypeOK
  BY WatchVolAssumption DEF Init, ClientTypeOK, SeenTypeOK, Replies
<1>4. VolumeTypeOK
  <2>1. \A v \in Vols : (v \in NoOwnersVols) \in BOOLEAN /\ (v \in BootVols) \in BOOLEAN
    OBVIOUS
  <2> QED
    BY <2>1, WatchVolAssumption DEF Init, VolumeTypeOK, DAKeys
<1>5. LockInv
  BY <1>1 DEF Init, LockInv, GoodDict, Free
<1> QED
  BY <1>2, <1>3, <1>4, <1>5 DEF IInv, TypeOK

LEMMA NextInv == IInv /\ [Next]_vars => IInv'
<1> SUFFICES ASSUME IInv, [Next]_vars PROVE IInv'
  OBVIOUS
<1>1. CASE VolumeCallback
  <2>1. PICK v \in Vols :
           \/ vol_appeared(v)
           \/ vol_disappeared(v)
           \/ \E key \in {"VolumePath", "MediaContent"} : vol_changed(v, key)
           \/ fsys_changed(v)
           \/ check_now(v)
    BY <1>1 DEF VolumeCallback
  <2> QED
    BY <2>1, VolAppearedInv, VolDisappearedInv, VolChangedInv, FsysChangedInv,
       CheckNowInv DEF DAKeys
<1>2. CASE checkAutoUpdate
  BY <1>2, CheckAutoUpdateInv
<1>3. CASE \E c \in Clients : port_died(c)
  BY <1>3, PortDiedInv
<1>4. CASE ClientCall
  BY <1>4, LockRebootInv, LockVolumeInv, UnlockVolumeInv, FinishUnlockedInv,
     NeedUpdatesInv, ClientDiesInv DEF ClientCall
<1>5. CASE VolumeEvent
  <2>1. PICK v \in Vols :
           \/ is_dadisk_busy(v)
           \/ \E inv \in BOOLEAN : updateVolForMedia(v, inv)
           \/ EnvironmentStep(v)
    BY <1>5 DEF VolumeEvent, EnvironmentStep
  <2> QED
    BY <2>1, DiskBusyInv, UpdateVolForMediaInv, EnvironmentInv
<1>6. CASE UNCHANGED vars
  BY <1>6 DEF vars, kextdVars, clientVars, mediaVars, IInv, TypeOK, KextdTypeOK,
     ClientTypeOK, SeenTypeOK, VolumeTypeOK, LockInv, GoodDict, Free
<1> QED
  BY <1>1, <1>2, <1>3, <1>4, <1>5, <1>6 DEF Next, KextdCallback

\* kextd's data, its clients' view and the volumes' state keep their types.
THEOREM TypeCorrect == Spec => []TypeOK
<1>1. IInv => TypeOK
  BY InvImplies
<1> QED
  BY <1>1, InitInv, NextInv, PTL DEF Spec

\* Nobody queues for a lock that nobody holds (handleWatchedHandoff, port_died,
\* _kextmanager_lock_volume).
THEOREM NobodyWaitsInVain == Spec => []NoWaiterOnFreeLock
<1>1. IInv => NoWaiterOnFreeLock
  BY InvImplies
<1> QED
  BY <1>1, InitInv, NextInv, PTL DEF Spec

\* While shutdown holds the reboot lock nobody holds, or queues for, the lock of
\* a watched volume (_kextmanager_lock_reboot, handleRebootHandoff).
THEOREM ShutdownIsExclusive == Spec => []RebootExcludesUpdates
<1>1. IInv => RebootExcludesUpdates
  BY InvImplies
<1> QED
  BY <1>1, InitInv, NextInv, PTL DEF Spec

(***************************************************************************)
(* Shutdown over a clean system.  A volume that was checked is settled: it *)
(* is being updated, needs no update, or cannot get one.  A second look at *)
(* a settled volume (reconsiderVolumes) launches nothing.                  *)
(***************************************************************************)
Fails(w) == FALSE \in ForkOutcomes /\ w.updterrs > 0
UpToDate(r, boots) == /\ ~KextCacheStale(r.stale)
                      /\ r.w.isBootRoot = boots
                      /\ boots => "boot" \notin r.stale
Settled(r, boots) == r.launched \/ GetOutOfMyWay \/ Fails(r.w) \/ UpToDate(r, boots)

\* A launch is reported or leaves an error.
LEMMA LaunchRebuildSettles ==
    ASSUME NEW r \in CheckResult, NEW ok \in BOOLEAN
    PROVE  LET l == LaunchRebuild(r, ok)
           IN  /\ l.stale = r.stale /\ l.w.isBootRoot = r.w.isBootRoot
               /\ l.w.updterrs >= r.w.updterrs
               /\ ok => l.launched
               /\ ~ok => l.w.updterrs > 0
<1>1. r.w.updterrs \in Nat /\ ErrCap \in Nat /\ ErrCap > 0
  BY WatchVolAssumption DEF CheckResult, WatchedVol
<1>2. Bump(r.w.updterrs) >= r.w.updterrs /\ Bump(r.w.updterrs) > 0
  BY <1>1 DEF Bump
<1>3. CASE ok
  BY <1>1, <1>3 DEF LaunchRebuild, CheckResult, WatchedVol
<1>4. CASE ~ok
  <2> DEFINE n == Bump(r.w.updterrs)
             l == LaunchRebuild(r, ok)
  <2>1. l.stale = r.stale /\ l.w.isBootRoot = r.w.isBootRoot /\ l.w.updterrs = n
    BY <1>4 DEF LaunchRebuild, CheckResult, WatchedVol
  <2> HIDE DEF n, l
  <2> QED
    BY <1>2, <1>4, <2>1 DEF n, l
<1> QED
  BY <1>3, <1>4

\* check_rebuild re-entered leaves what it was told of the partitions.
LEMMA RebuildIfStaleSettles ==
    ASSUME NEW w \in WatchedVol, NEW st \in SUBSET CacheKinds, NEW ok \in BOOLEAN
    PROVE  LET r == RebuildIfStale(w, st, ok)
           IN  /\ r.stale = st /\ r.w.isBootRoot = w.isBootRoot
               /\ r.w.updterrs >= w.updterrs
<1> DEFINE r == Unchecked(CancelDelayer(w), st)
<1>1. /\ r \in CheckResult /\ r.stale = st /\ r.w.isBootRoot = w.isBootRoot
      /\ r.w.updterrs = w.updterrs /\ w.updterrs \in Nat
  BY DEF Unchecked, CancelDelayer, CheckResult, WatchedVol
<1>2. RebuildIfStale(w, st, ok) \in {r, LaunchRebuild(r, ok)}
  BY DEF RebuildIfStale
<1> HIDE DEF r
<1>3. /\ LaunchRebuild(r, ok).stale = st
      /\ LaunchRebuild(r, ok).w.isBootRoot = w.isBootRoot
      /\ LaunchRebuild(r, ok).w.updterrs >= w.updterrs
  BY <1>1, LaunchRebuildSettles
<1> QED
  BY <1>1, <1>2, <1>3

\* After checkBootsSetNvram() kextd knows whether there are partitions.
BootsKnown(r, w, st, boots) ==
    /\ r.w.isBootRoot = boots
    /\ r.w.updterrs >= w.updterrs
    /\ "kext" \in r.stale <=> "kext" \in st
    /\ w.isBootRoot = boots => r = Unchecked(w, st)

LEMMA CheckBootsSettles ==
    ASSUME NEW w \in WatchedVol, NEW st \in SUBSET CacheKinds,
           NEW boots \in BOOLEAN, NEW ok \in BOOLEAN
    PROVE  BootsKnown(CheckBootsSetNvram(w, st, boots, ok), w, st, boots)
<1> USE DEF BootsKnown
<1>1. w.updterrs \in Nat /\ w.isBootRoot \in BOOLEAN
  BY DEF WatchedVol
<1>2. CASE boots /\ ~w.isBootRoot
  <2> DEFINE x == [w EXCEPT !.isBootRoot = TRUE]
  <2>1. x \in WatchedVol /\ x.isBootRoot = TRUE /\ x.updterrs = w.updterrs
    BY DEF WatchedVol
  <2>2. CheckBootsSetNvram(w, st, boots, ok) = RebuildIfStale(x, st, ok)
    BY <1>2 DEF CheckBootsSetNvram
  <2>3. boots = TRUE /\ w.isBootRoot = FALSE
    BY <1>1, <1>2
  <2> HIDE DEF x
  <2>4. LET r == RebuildIfStale(x, st, ok)
        IN  r.stale = st /\ r.w.isBootRoot = TRUE /\ r.w.updterrs >= w.updterrs
    BY <2>1, RebuildIfStaleSettles
  <2> QED
    BY <2>2, <2>3, <2>4
<1>3. CASE ~boots /\ w.isBootRoot
  <2>1. CheckBootsSetNvram(w, st, boots, ok) =
          Unchecked([w EXCEPT !.isBootRoot = FALSE], st \cup {"boot"})
    BY <1>3 DEF CheckBootsSetNvram
  <2>2. boots = FALSE /\ w.isBootRoot = TRUE
    BY <1>1, <1>3
  <2> DEFINE x == [w EXCEPT !.isBootRoot = FALSE]
  <2>3. x.isBootRoot = FALSE /\ x.updterrs = w.updterrs
    BY DEF WatchedVol
  <2> HIDE DEF x
  <2>4. LET r == Unchecked(x, st \cup {"boot"})
        IN  /\ r.w.isBootRoot = FALSE /\ r.w.updterrs >= w.updterrs
            /\ "kext" \in r.stale <=> "kext" \in st
    BY <1>1, <2>3 DEF Unchecked
  <2> QED
    BY <2>1, <2>2, <2>4 DEF x
<1>4. CASE boots = w.isBootRoot
  <2>1. CheckBootsSetNvram(w, st, boots, ok) = Unchecked(w, st)
    BY <1>1, <1>4 DEF CheckBootsSetNvram
  <2> QED
    BY <1>1, <1>4, <2>1 DEF Unchecked
<1> QED
  BY <1>1, <1>2, <1>3, <1>4

\* check_rebuild settles a volume within its limits.
LEMMA CheckRebuildSettles ==
    ASSUME NEW w \in WatchedVol, NEW st \in SUBSET CacheKinds,
           NEW boots \in BOOLEAN, NEW o \in Outcomes,
           ~(w.updtattempts > kMaxUpdateAttempts)
    PROVE  Settled(CheckRebuild(w, st, boots, o), boots)
<1> DEFINE r == Unchecked(CancelDelayer(w), st)
           b == CheckBootsSetNvram(r.w, st, boots, o[1])
<1>1. o[1] \in BOOLEAN /\ o[2] \in ForkOutcomes /\ o[2] \in BOOLEAN
  BY WatchVolAssumption DEF Outcomes
<1>2. KeepsLock(r, w) /\ r.w \in WatchedVol
  BY DEF KeepsLock, Unchecked, CancelDelayer, CheckResult, WatchedVol
<1>3. CASE GetOutOfMyWay
  BY <1>3 DEF Settled
<1>4. CASE ~GetOutOfMyWay /\ KextCacheStale(st)
  <2>1. CheckRebuild(w, st, boots, o) = LaunchRebuild(r, o[2])
    BY <1>4, Zenon DEF CheckRebuild, StopTrying
  <2> HIDE DEF r
  <2>2. LaunchRebuild(r, o[2]).launched \/ (~o[2] /\ LaunchRebuild(r, o[2]).w.updterrs > 0)
    BY <1>1, <1>2, LaunchRebuildSettles DEF KeepsLock
  <2> QED
    BY <1>1, <2>1, <2>2 DEF Settled, Fails
<1>5. CASE ~GetOutOfMyWay /\ ~KextCacheStale(st)
  <2>1. CheckRebuild(w, st, boots, o) =
          IF b.w.isBootRoot /\ "boot" \in b.stale THEN LaunchRebuild(b, o[2])
                                                  ELSE [b EXCEPT !.launched = FALSE]
    BY <1>5, Zenon DEF CheckRebuild, StopTrying
  <2> HIDE DEF r
  <2>2. b \in CheckResult
    BY <1>1, <1>2, CheckBootsKeeps DEF KeepsLock
  <2>3. b.w.isBootRoot = boots /\ ("kext" \in b.stale <=> "kext" \in st)
    <3>1. BootsKnown(b, r.w, st, boots)
      BY <1>1, <1>2, CheckBootsSettles
    <3> HIDE DEF b
    <3> QED
      BY <3>1 DEF BootsKnown
  <2> HIDE DEF b
  <2>4. CASE b.w.isBootRoot /\ "boot" \in b.stale
    <3>1. LaunchRebuild(b, o[2]).launched \/ (~o[2] /\ LaunchRebuild(b, o[2]).w.updterrs > 0)
      BY <1>1, <2>2, LaunchRebuildSettles
    <3> QED
      BY <1>1, <2>1, <2>4, <3>1 DEF Settled, Fails
  <2>5. CASE ~(b.w.isBootRoot /\ "boot" \in b.stale)
    <3> DEFINE x == [b EXCEPT !.launched = FALSE]
    <3>1. x.stale = b.stale /\ x.w = b.w
      BY <2>2 DEF CheckResult
    <3>2. CheckRebuild(w, st, boots, o) = x
      BY <2>1, <2>5
    <3> HIDE DEF x
    <3> QED
      BY <1>5, <2>3, <2>5, <3>1, <3>2 DEF Settled, UpToDate, KextCacheStale
  <2> QED
    BY <2>4, <2>5
<1> QED
  BY <1>3, <1>4, <1>5

\* What excuses a volume v that is let alone as r says when shutdown gets its lock.
GivenUp(v, r) == \/ r.w.updterrs >= kMaxUpdateFailures
                 \/ v \in Watched /\ sFsysWatchDict[v].updtattempts >= kMaxUpdateAttempts
Excused(v, r) == \/ Settled(r, hasBoots[v])
                 \/ GivenUp(v, r)
                 \/ v \notin Watched /\ sAutoUpdateDelayer

\* Checking all volumes settles or excuses each, if none is locked.  d: the
\* watched volumes, with no more attempts than before this step.
LEMMA CheckAllExcuses ==
    ASSUME TypeOK, NEW d, GoodDict(d), DOMAIN d = Watched,
           \A v \in Watched : d[v].updtattempts >= kMaxUpdateAttempts =>
                                 sFsysWatchDict[v].updtattempts >= kMaxUpdateAttempts,
           NEW s \in [Vols -> SUBSET CacheKinds],
           NEW o, \A v \in Watched : o[v] \in Outcomes,
           ~AnyBusy(CheckAll(d, s, o))
    PROVE  \A v \in Watched : Excused(v, CheckAll(d, s, o)[v])
<1>1. SUFFICES ASSUME NEW v \in Watched PROVE Excused(v, CheckAll(d, s, o)[v])
  OBVIOUS
<1> DEFINE w == d[v]
           r == CheckAll(d, s, o)[v]
<1>2. v \in Vols /\ v \in DOMAIN d /\ w \in WatchedVol /\ s[v] \in SUBSET CacheKinds
      /\ hasBoots[v] \in BOOLEAN /\ o[v] \in Outcomes
  BY DEF GoodDict, TypeOK, VolumeTypeOK
<1>3. w.updtattempts \in Nat /\ w.updterrs \in Nat
      /\ kMaxUpdateAttempts \in Nat /\ kMaxUpdateFailures \in Nat
  BY <1>2, WatchVolAssumption DEF WatchedVol
<1>4. r = CheckVolBusy(w, s[v], hasBoots[v], o[v])
  BY <1>2 DEF CheckAll
<1>5. w.lock = NoPort
  <2>1. \A u \in DOMAIN d : o[u] \in Outcome
    BY OutcomesType
  <2>2. r.w.lock = w.lock /\ v \in DOMAIN CheckAll(d, s, o)
    BY <1>2, <2>1, CheckAllGood
  <2>3. r.w.lock = NoPort
    BY <2>2 DEF AnyBusy
  <2> QED
    BY <2>2, <2>3
<1> HIDE DEF r
<1>6. CASE WithinLimits(w)
  <2>1. r = CheckRebuild(w, s[v], hasBoots[v], o[v])
    BY <1>4, <1>5, <1>6 DEF CheckVolBusy
  <2>2. ~(w.updtattempts > kMaxUpdateAttempts)
    BY <1>3, <1>6 DEF WithinLimits
  <2> HIDE DEF w
  <2> QED
    BY <1>2, <2>1, <2>2, CheckRebuildSettles DEF Excused, r
<1>7. CASE ~WithinLimits(w)
  <2>1. r = Unchecked(w, s[v])
    BY <1>4, <1>7 DEF CheckVolBusy
  <2>2. w.updterrs >= kMaxUpdateFailures \/ w.updtattempts >= kMaxUpdateAttempts
    BY <1>3, <1>7 DEF WithinLimits
  <2> QED
    BY <2>1, <2>2 DEF Excused, GivenUp, Unchecked, r
<1> QED
  BY <1>6, <1>7

\* reconsiderVolumes keeps the excuses of the watched volumes, and checks those
\* that appear unless it is too early for that.
LEMMA ReconsiderExcuses ==
    ASSUME TypeOK, NEW all, GoodResults(all), DOMAIN all = Watched, ~AnyBusy(all),
           \A v \in Watched : Excused(v, all[v]),
           NEW s \in [Vols -> SUBSET CacheKinds], \A v \in Watched : s[v] = all[v].stale,
           NEW o \in [Vols -> Outcomes]
    PROVE  \A v \in DOMAIN Reconsider(all, s, o) \ UnwatchableVols :
              Excused(v, Reconsider(all, s, o)[v])
<1> DEFINE D == DOMAIN all \cup {u \in Vols : Eligible(u)}
           R == Reconsider(all, s, o)
           b(v) == CheckBootsSetNvram(all[v].w, s[v], hasBoots[v], o[v][1])
<1>1. DOMAIN R = D /\ D \subseteq Vols
  BY DEF Reconsider, GoodResults
<1>2. ASSUME NEW v \in D \ UnwatchableVols
      PROVE  Excused(v, R[v])
  <2>1. v \in Vols /\ o[v] \in Outcomes /\ o[v][1] \in BOOLEAN
        /\ hasBoots[v] \in BOOLEAN /\ s[v] \in SUBSET CacheKinds
    BY <1>1, OutcomesType DEF Outcome, TypeOK, VolumeTypeOK
  <2>2. R[v] = CASE v \in DOMAIN all /\ mounted[v] -> [b(v) EXCEPT !.launched = FALSE]
                 [] v \in DOMAIN all /\ ~mounted[v] -> all[v]
                 [] OTHER -> Appear(v, s[v], o[v])
    BY DEF Reconsider
  <2>3. CASE v \in DOMAIN all /\ mounted[v]
    <3> DEFINE a == all[v]
               r == b(v)
    <3>1. /\ a \in CheckResult /\ a.w \in WatchedVol /\ a.launched = FALSE
          /\ a.w.updterrs \in Nat /\ kMaxUpdateFailures \in Nat
      BY <2>3, WatchVolAssumption DEF GoodResults, CheckResult, WatchedVol, AnyBusy
    <3>2. KeepsLock(r, a.w) /\ BootsKnown(r, a.w, s[v], hasBoots[v])
      BY <2>1, <3>1, CheckBootsKeeps, CheckBootsSettles
    <3>3. R[v] = [r EXCEPT !.launched = FALSE]
      BY <2>2, <2>3, Zenon
    <3>4. Excused(v, a) /\ s[v] = a.stale /\ v \in Watched
      BY <2>3
    <3> HIDE DEF r, R, a
    <3>5. r.w.updterrs >= a.w.updterrs /\ r.w.updterrs \in Nat
      BY <3>2 DEF BootsKnown, KeepsLock, CheckResult, WatchedVol
    <3>6. R[v].w = r.w /\ R[v].stale = r.stale
      BY <3>2, <3>3 DEF KeepsLock, CheckResult
    <3>7. CASE UpToDate(a, hasBoots[v])
      <4>1. r = Unchecked(a.w, a.stale)
        BY <3>2, <3>4, <3>7 DEF UpToDate, BootsKnown
      <4>2. R[v].w = a.w /\ R[v].stale = a.stale
        BY <3>6, <4>1 DEF Unchecked
      <4> QED
        BY <3>7, <4>2 DEF Excused, Settled, UpToDate
    <3>8. CASE Fails(a.w) \/ a.w.updterrs >= kMaxUpdateFailures
      <4>1. /\ a.w.updterrs > 0 => r.w.updterrs > 0
            /\ a.w.updterrs >= kMaxUpdateFailures => r.w.updterrs >= kMaxUpdateFailures
        BY <3>1, <3>5
      <4> QED
        BY <3>6, <3>8, <4>1 DEF Excused, Settled, Fails, GivenUp
    <3>9. CASE GetOutOfMyWay \/ sFsysWatchDict[v].updtattempts >= kMaxUpdateAttempts
      BY <3>4, <3>9 DEF Excused, Settled, GivenUp
    <3> QED
      BY <3>1, <3>4, <3>7, <3>8, <3>9 DEF Excused, Settled, GivenUp
  <2>4. CASE v \in DOMAIN all /\ ~mounted[v]
    <3>1. R[v] = all[v]
      BY <2>2, <2>4, Zenon
    <3> QED
      BY <2>4, <3>1
  <2>5. CASE v \notin DOMAIN all
    <3>1. R[v] = Appear(v, s[v], o[v])
      BY <2>2, <2>5, Zenon
    <3> HIDE DEF R, b, D
    <3>2. CASE sAutoUpdateDelayer
      BY <2>5, <3>2 DEF Excused
    <3>3. CASE ~sAutoUpdateDelayer
      <4> DEFINE c == CreateWatchedVol(v, s[v])
      <4>1. R[v] = CheckRebuild(c.w, c.stale, hasBoots[v], o[v])
        BY <1>2, <3>1, <3>3 DEF Appear
      <4>2. c.w \in WatchedVol /\ c.stale \in SUBSET CacheKinds /\ c.w.updtattempts = 0
        BY <2>1, EmptySeq DEF CreateWatchedVol, Unchecked, WatchedVol, CacheKinds
      <4> HIDE DEF c
      <4>3. ~(c.w.updtattempts > kMaxUpdateAttempts)
        BY <4>2, WatchVolAssumption
      <4> QED
        BY <2>1, <4>1, <4>2, <4>3, CheckRebuildSettles DEF Excused
    <3> QED
      BY <3>2, <3>3
  <2> QED
    BY <2>3, <2>4, <2>5
<1> QED
  BY <1>1, <1>2

LetThrough(v) == \/ Clean(v)'
                 \/ GaveUp(v)
                 \/ ForkFailed(v)
                 \/ v \notin Watched /\ sAutoUpdateDelayer

\* Nothing is busy and everything is excused: shutdown may be let through.
LEMMA ExcusedLetThrough ==
    ASSUME NEW all, GoodResults(all), ~AnyBusy(all),
           \A v \in DOMAIN all \ UnwatchableVols : Excused(v, all[v]),
           NEW s, sFsysWatchDict' = DictOf(all), stale' = StaleOf(all, s)
    PROVE  \A v \in Watched' : LetThrough(v)
<1>1. SUFFICES ASSUME NEW v \in Watched' PROVE LetThrough(v)
  OBVIOUS
<1>2. /\ v \in DOMAIN all /\ v \in Vols /\ Excused(v, all[v])
      /\ sFsysWatchDict'[v] = all[v].w /\ stale'[v] = all[v].stale
  BY <1>1 DEF Watched, DictOf, StaleOf, GoodResults
<1>3. ~all[v].launched
  BY <1>2 DEF AnyBusy
<1>4. CASE Settled(all[v], hasBoots[v])
  <2>1. CASE Fails(all[v].w)
    BY <1>2, <2>1 DEF Fails, LetThrough, ForkFailed
  <2>2. CASE GetOutOfMyWay
    BY <2>2 DEF LetThrough, Clean
  <2>3. CASE UpToDate(all[v], hasBoots[v])
    <3>1. /\ ~KextCacheStale(stale'[v])
          /\ sFsysWatchDict'[v].isBootRoot => "boot" \notin stale'[v]
      BY <1>2, <2>3 DEF UpToDate
    <3> QED
      BY <3>1 DEF LetThrough, Clean, KextCacheStale
  <2> QED
    BY <1>3, <1>4, <2>1, <2>2, <2>3 DEF Settled
<1>5. CASE GivenUp(v, all[v])
  BY <1>2, <1>5 DEF GivenUp, LetThrough, GaveUp
<1> QED
  BY <1>2, <1>4, <1>5 DEF Excused, LetThrough

LEMMA LockRebootClean ==
    ASSUME IInv, NEW c \in Clients, NEW wait, _kextmanager_lock_reboot(c, wait),
           sRebootLock = NoPort, sRebootLock' # NoPort
    PROVE  \A v \in Watched' : LetThrough(v)
<1>1. c \notin NonRoot
  BY DEF _kextmanager_lock_reboot, reboot
<1>2. PICK o \in [Vols -> Outcomes] :
        LET all == CheckAll(sFsysWatchDict, stale, o)
            s   == StaleOf(all, stale)
        IN  LockReboot(c, wait, IF AnyBusy(all) THEN all ELSE Reconsider(all, s, o))
  BY <1>1 DEF _kextmanager_lock_reboot
<1> DEFINE all == CheckAll(sFsysWatchDict, stale, o)
           s   == StaleOf(all, stale)
           res == IF AnyBusy(all) THEN all ELSE Reconsider(all, s, o)
<1>3. TypeOK /\ GoodDict(sFsysWatchDict) /\ stale \in [Vols -> SUBSET CacheKinds]
      /\ DOMAIN sFsysWatchDict = Watched
  BY DEF IInv, LockInv, TypeOK, VolumeTypeOK, Watched
<1>4. GoodResults(all) /\ DOMAIN all = Watched
  <2>1. \A v \in DOMAIN sFsysWatchDict : o[v] \in Outcome
    BY <1>3, OutcomesType DEF GoodDict
  <2> QED
    BY <1>3, <2>1, CheckAllGood
<1>5. s \in [Vols -> SUBSET CacheKinds] /\ \A v \in Watched : s[v] = all[v].stale
  <2>1. s \in [Vols -> SUBSET CacheKinds]
    BY <1>3, <1>4, StaleOfType
  <2>2. \A v \in Watched : s[v] = all[v].stale
    BY <1>3, <1>4 DEF StaleOf, GoodDict
  <2> QED
    BY <2>1, <2>2
<1>6. ~AnyBusy(all) => \A v \in Watched : Excused(v, all[v])
  <2>1. \A v \in Watched : o[v] \in Outcomes
    BY <1>3 DEF GoodDict
  <2> QED
    BY <1>3, <2>1, CheckAllExcuses
<1>7. LockReboot(c, wait, res)
  BY <1>2
<1> HIDE DEF all, s
<1>8. GoodResults(res)
  BY <1>3, <1>4, <1>5, ReconsiderGood
<1>9. ~AnyBusy(res)
  <2>1. SUFFICES ASSUME AnyBusy(res) PROVE sRebootLock' = sRebootLock
    OBVIOUS
  <2> HIDE DEF res
  <2>2. CASE wait /\ sRebootWaiter = NoPort
    BY <1>7, <2>1, <2>2, Zenon DEF LockReboot
  <2>3. CASE ~(wait /\ sRebootWaiter = NoPort)
    <3>1. UNCHANGED reboot
      BY <1>7, <2>1, <2>3, Zenon DEF LockReboot
    <3> QED
      BY <3>1 DEF reboot
  <2> QED
    BY <2>2, <2>3
<1>10. \A v \in DOMAIN res \ UnwatchableVols : Excused(v, res[v])
  <2>1. ~AnyBusy(all) /\ res = Reconsider(all, s, o)
    BY <1>9
  <2> QED
    BY <1>3, <1>4, <1>5, <1>6, <2>1, ReconsiderExcuses
<1>11. sFsysWatchDict' = DictOf(res) /\ stale' = StaleOf(res, stale)
  BY <1>7 DEF LockReboot
<1> HIDE DEF res
<1> QED
  BY <1>8, <1>9, <1>10, <1>11, ExcusedLetThrough

\* The same when a lock is handed on and shutdown waits for the last of them.
LEMMA HandOnClean ==
    ASSUME IInv, NEW c, NEW v \in Watched, NEW w \in WatchedVol,
           w.updtattempts >= kMaxUpdateAttempts =>
              sFsysWatchDict[v].updtattempts >= kMaxUpdateAttempts,
           NEW s \in [Vols -> SUBSET CacheKinds], NEW o \in [Watched -> Outcomes],
           HandOn(c, v, w, s, o), sRebootLock = NoPort, sRebootLock' # NoPort
    PROVE  \A u \in Watched' : LetThrough(u)
<1> DEFINE x    == [w EXCEPT !.origMntFlags = FALSE]
           w2   == Handoff(x)
           d    == Put(sFsysWatchDict, v, w2)
           try  == sRebootLock = NoPort /\ sRebootWaiter # NoPort
           all  == IF try THEN CheckAll(d, s, o)
                          ELSE [u \in DOMAIN d |-> Unchecked(d[u], s[u])]
           free == try /\ ~AnyBusy(all)
<1>1. /\ sFsysWatchDict' = DictOf(all) /\ stale' = StaleOf(all, s)
      /\ sRebootLock' = IF free /\ sRebootWaiter \notin dead THEN sRebootWaiter
                                                             ELSE sRebootLock
  BY DEF HandOn
<1>2. free
  BY <1>1
<1>3. /\ w2 \in WatchedVol /\ (w2.lock = NoPort => w2.waiters = <<>>)
      /\ w2.updtattempts = w.updtattempts
  <2>1. x \in WatchedVol /\ x.updtattempts = w.updtattempts
    BY DEF WatchedVol
  <2> HIDE DEF x
  <2>2. Handoff(x).updtattempts = x.updtattempts
    BY <2>1 DEF Handoff, WatchedVol
  <2> QED
    BY <2>1, <2>2, HandoffServes
<1> HIDE DEF w2
<1>4. TypeOK /\ GoodDict(sFsysWatchDict) /\ v \in Vols
  BY DEF IInv, LockInv, GoodDict, Watched
<1>5. /\ GoodDict(d) /\ DOMAIN d = Watched
      /\ \A u \in Watched : d[u].updtattempts >= kMaxUpdateAttempts =>
                               sFsysWatchDict[u].updtattempts >= kMaxUpdateAttempts
  <2>1. GoodDict(d)
    BY <1>3, <1>4, PutGood
  <2>2. DOMAIN d = Watched /\ \A u \in Watched : d[u] = IF u = v THEN w2 ELSE sFsysWatchDict[u]
    BY DEF Put, Watched
  <2> HIDE DEF d
  <2> QED
    BY <1>3, <2>1, <2>2
<1> HIDE DEF d
<1>6. \A u \in Watched : o[u] \in Outcomes /\ o[u] \in Outcome
  BY OutcomesType
<1>7. all = CheckAll(d, s, o) /\ ~AnyBusy(all)
  BY <1>2
<1> HIDE DEF all
<1>8. GoodResults(all) /\ DOMAIN all = Watched
  BY <1>4, <1>5, <1>6, <1>7, CheckAllGood
<1>9. \A u \in Watched : Excused(u, all[u])
  BY <1>4, <1>5, <1>6, <1>7, CheckAllExcuses
<1> QED
  BY <1>1, <1>7, <1>8, <1>9, ExcusedLetThrough

LEMMA AttemptsNotRaised ==
    ASSUME NEW w \in WatchedVol, NEW exitstatus
    PROVE  LET x == ExitAccounting(w, exitstatus)
           IN  x.updtattempts >= kMaxUpdateAttempts => w.updtattempts >= kMaxUpdateAttempts
<1> DEFINE x == ExitAccounting(w, exitstatus)
<1>1. w.updtattempts \in Nat /\ kMaxUpdateAttempts \in Nat
  BY WatchVolAssumption DEF WatchedVol
<1>2. x.updtattempts = w.updtattempts \/ x.updtattempts = 0
  <2>1. /\ [w EXCEPT !.updterrs = 0, !.updtattempts = 0].updtattempts = 0
        /\ [w EXCEPT !.updterrs = Bump(@)].updtattempts = w.updtattempts
    BY DEF WatchedVol
  <2> HIDE DEF x
  <2> QED
    BY <2>1, ExitAccountingCases DEF x
<1> HIDE DEF x
<1>3. x.updtattempts >= kMaxUpdateAttempts => w.updtattempts >= kMaxUpdateAttempts
  BY <1>1, <1>2
<1> QED
  BY <1>3 DEF x

LEMMA UnlockVolumeClean ==
    ASSUME IInv, NEW c \in Clients, NEW exitstatus,
           _kextmanager_unlock_volume(c, exitstatus),
           sRebootLock = NoPort, sRebootLock' # NoPort
    PROVE  \A u \in Watched' : LetThrough(u)
<1> DEFINE v == target[c]
           s == [stale EXCEPT ![v] = StaleAfter(c, exitstatus)]
<1>1. IF v \in Watched /\ Holds(sFsysWatchDict[v], c)
           THEN \E o \in [Watched -> Outcomes] :
                   HandOn(c, v, ExitAccounting(sFsysWatchDict[v], exitstatus), s, o)
           ELSE UNCHANGED reboot
  BY DEF _kextmanager_unlock_volume
<1>2. v \in Vols /\ stale \in [Vols -> SUBSET CacheKinds] /\ GoodDict(sFsysWatchDict)
  BY DEF IInv, LockInv, TypeOK, ClientTypeOK, VolumeTypeOK
<1> HIDE DEF v, s
<1>3. s \in [Vols -> SUBSET CacheKinds]
  BY StaleAfterType DEF IInv, s, v
<1>4. v \in Watched
  BY <1>1 DEF reboot
<1>5. PICK o \in [Watched -> Outcomes] :
        HandOn(c, v, ExitAccounting(sFsysWatchDict[v], exitstatus), s, o)
  BY <1>1 DEF reboot
<1>6. sFsysWatchDict[v] \in WatchedVol
  BY <1>2, <1>4 DEF GoodDict, Watched
<1>7. ExitAccounting(sFsysWatchDict[v], exitstatus) \in WatchedVol
  BY <1>6, ExitAccountingType
<1> QED
  BY <1>3, <1>4, <1>5, <1>6, <1>7, AttemptsNotRaised, HandOnClean

LEMMA PortDiedClean ==
    ASSUME IInv, NEW c \in Clients, port_died(c), sRebootLock = NoPort, sRebootLock' # NoPort
    PROVE  \A u \in Watched' : LetThrough(u)
<1> DEFINE v == portInfo[c]
           w == sFsysWatchDict[v]
           x == [w EXCEPT !.updterrs = Bump(@)]
<1>1. v \in Watched /\ \E o \in [Watched -> Outcomes] : HandOn(c, v, x, stale, o)
  BY DEF port_died, reboot
<1> HIDE DEF v
<1>2. w \in WatchedVol /\ stale \in [Vols -> SUBSET CacheKinds]
  BY <1>1 DEF IInv, LockInv, GoodDict, Watched, TypeOK, VolumeTypeOK
<1>3. x \in WatchedVol /\ x.updtattempts = w.updtattempts
  BY <1>2, ErrorCounted DEF WatchedVol
<1> HIDE DEF x
<1> QED
  BY <1>1, <1>2, <1>3, HandOnClean

LEMMA NextClean ==
    ASSUME IInv, [Next]_vars, sRebootLock = NoPort, sRebootLock' # NoPort
    PROVE  \A v \in Watched' : LetThrough(v)
<1>1. CASE VolumeCallback
  <2>1. UNCHANGED reboot
    BY <1>1 DEF VolumeCallback, vol_appeared, vol_disappeared, vol_changed, fsys_changed,
       check_now
  <2> QED
    BY <2>1 DEF reboot
<1>2. CASE checkAutoUpdate
  BY <1>2 DEF checkAutoUpdate, reboot
<1>3. CASE \E c \in Clients : port_died(c)
  BY <1>3, PortDiedClean
<1>4. ASSUME NEW c \in Clients,
             \/ \E wait \in BOOLEAN, v \in Vols : _kextmanager_lock_volume(c, v, wait)
             \/ needUpdates(c)
             \/ FinishUnlocked(c)
             \/ ClientDies(c)
      PROVE  FALSE
  BY <1>4 DEF _kextmanager_lock_volume, needUpdates, FinishUnlocked, ClientDies, kextdVars,
     reboot
<1>5. CASE ClientCall
  BY <1>4, <1>5, LockRebootClean, UnlockVolumeClean DEF ClientCall
<1>6. CASE VolumeEvent
  <2>1. PICK v \in Vols :
           \/ is_dadisk_busy(v)
           \/ \E inv \in BOOLEAN : updateVolForMedia(v, inv)
           \/ EnvironmentStep(v)
    BY <1>6 DEF VolumeEvent, EnvironmentStep
  <2>2. UNCHANGED reboot
    BY <2>1 DEF is_dadisk_busy, updateVolForMedia, EnvironmentStep, Mount, Unmount, Touch,
       ChangePlist, ChangeBoots, InstallerStarts, InstallerEnds, LaunchedQuits, kextdVars,
       reboot
  <2> QED
    BY <2>2 DEF reboot
<1>7. CASE UNCHANGED vars
  BY <1>7 DEF vars, kextdVars
<1> QED
  BY <1>1, <1>2, <1>3, <1>5, <1>6, <1>7 DEF Next, KextdCallback

\* Shutdown is let through only over volumes that need no update or cannot get
\* one (_kextmanager_lock_reboot, reconsiderVolumes, handleRebootHandoff).
THEOREM ShutdownIsClean == Spec => RebootOnlyWhenClean
<1> DEFINE A == sRebootLock = NoPort /\ sRebootLock' # NoPort =>
                  \A v \in Watched' :
                     \/ Clean(v)'
                     \/ GaveUp(v)
                     \/ ForkFailed(v)
                     \/ v \notin Watched /\ sAutoUpdateDelayer
<1>1. IInv /\ [Next]_vars => [A]_vars
  BY NextClean DEF LetThrough
<1>2. RebootOnlyWhenClean <=> [][A]_vars
  BY PTL DEF RebootOnlyWhenClean
<1> HIDE DEF A
<1> QED
  BY <1>1, <1>2, InitInv, NextInv, PTL DEF Spec
=============================================================================
