-------------------------- MODULE KextdPortsProofs --------------------------
(***************************************************************************)
(* Proofs about KextdWatchVol that need to know where each client is: the  *)
(* ports kextd tracks, the lock of "/", the order of the queues, and that  *)
(* kextd implements UpdateLocks.                                           *)
(***************************************************************************)
EXTENDS KextdWatchVolProofs

(***************************************************************************)
(* The dictionary as UpdateLocks sees it: who holds each volume, who waits *)
(* for it, and whether its owners are to be put back.                      *)
(***************************************************************************)
HolderIn(d) == [v \in Vols |-> IF v \in DOMAIN d THEN d[v].lock ELSE NoPort]
QueueIn(d) == [v \in Vols |-> IF v \in DOMAIN d THEN d[v].waiters ELSE <<>>]
OwedIn(d) == [v \in Vols |-> v \in DOMAIN d /\ d[v].origMntFlags]
holder == HolderIn(sFsysWatchDict)
queue == QueueIn(sFsysWatchDict)
owed == OwedIn(sFsysWatchDict)
Queued(v) == ToSet(queue[v])
Distinct(q) == \A i, j \in DOMAIN q : q[i] = q[j] => i = j

(***************************************************************************)
(* Queues without repetition.                                              *)
(***************************************************************************)
\* q's members by number.
LEMMA Members ==
    ASSUME NEW T, NEW q \in Seq(T)
    PROVE  /\ Len(q) \in Nat /\ DOMAIN q = 1..Len(q)
           /\ \A x : x \in ToSet(q) <=> \E i \in 1..Len(q) : q[i] = x
           /\ \A i \in 1..Len(q) : q[i] \in T
  BY LenProperties, ElementOfSeq DEF ToSet

LEMMA AppendMembers ==
    ASSUME NEW T, NEW q \in Seq(T), NEW x \in T, Distinct(q), x \notin ToSet(q)
    PROVE  /\ Append(q, x) \in Seq(T)
           /\ Distinct(Append(q, x))
           /\ ToSet(Append(q, x)) = ToSet(q) \cup {x}
<1> DEFINE r == Append(q, x)
<1>1. /\ r \in Seq(T) /\ Len(r) = Len(q) + 1
      /\ \A i \in 1..Len(q) : r[i] = q[i]
      /\ r[Len(q) + 1] = x
  BY AppendProperties
<1> HIDE DEF r
<1>2. Len(q) \in Nat /\ DOMAIN q = 1..Len(q) /\ DOMAIN r = 1..(Len(q) + 1)
  BY <1>1, Members
<1>3. \A i \in 1..Len(q) : q[i] # x
  BY Members
<1>4. Distinct(r)
  <2>1. SUFFICES ASSUME NEW i \in 1..(Len(q) + 1), NEW j \in 1..(Len(q) + 1), r[i] = r[j]
                 PROVE  i = j
    BY <1>2 DEF Distinct
  <2>2. CASE i \in 1..Len(q) /\ j \in 1..Len(q)
    BY <1>1, <1>2, <2>1, <2>2 DEF Distinct
  <2>3. CASE i = Len(q) + 1 \/ j = Len(q) + 1
    BY <1>1, <1>2, <1>3, <2>1, <2>3
  <2> QED
    BY <1>2, <2>2, <2>3
<1>5. \A y : y \in ToSet(r) <=> y \in ToSet(q) \/ y = x
  <2>1. \A y : y \in ToSet(r) <=> \E i \in 1..(Len(q) + 1) : r[i] = y
    BY <1>1, Members
  <2>2. \A y : y \in ToSet(q) <=> \E i \in 1..Len(q) : q[i] = y
    BY Members
  <2> QED
    BY <1>1, <1>2, <2>1, <2>2
<1> QED
  BY <1>1, <1>4, <1>5 DEF r

LEMMA RemoveAtElements ==
    ASSUME NEW T, NEW q \in Seq(T), NEW i \in 1..Len(q)
    PROVE  /\ RemoveAt(q, i) \in Seq(T)
           /\ Len(RemoveAt(q, i)) = Len(q) - 1
           /\ \A j \in 1..(Len(q) - 1) :
                 RemoveAt(q, i)[j] = IF j < i THEN q[j] ELSE q[j + 1]
<1> DEFINE a == SubSeq(q, 1, i - 1)
           b == SubSeq(q, i + 1, Len(q))
<1>1. Len(q) \in Nat /\ \A j \in 1..Len(q) : q[j] \in T
  BY Members
<1>2. /\ a \in Seq(T) /\ Len(a) = i - 1
      /\ \A j \in 1..(i - 1) : a[j] = q[j]
  <2>1. \A j \in 1..(i - 1) : q[j] \in T
    BY <1>1
  <2>2. /\ a \in Seq(T)
        /\ Len(a) = IF 1 <= i - 1 THEN (i - 1) - 1 + 1 ELSE 0
        /\ \A j \in 1..((i - 1) - 1 + 1) : a[j] = q[1 + j - 1]
    BY <1>1, <2>1, SubSeqProperties
  <2> QED
    BY <1>1, <2>2
<1>3. /\ b \in Seq(T) /\ Len(b) = Len(q) - i
      /\ \A j \in 1..(Len(q) - i) : b[j] = q[i + j]
  <2>1. \A j \in (i + 1)..Len(q) : q[j] \in T
    BY <1>1
  <2>2. /\ b \in Seq(T)
        /\ Len(b) = IF i + 1 <= Len(q) THEN Len(q) - (i + 1) + 1 ELSE 0
        /\ \A j \in 1..(Len(q) - (i + 1) + 1) : b[j] = q[(i + 1) + j - 1]
    BY <1>1, <2>1, SubSeqProperties
  <2>3. \A j \in 1..(Len(q) - i) : j \in 1..(Len(q) - (i + 1) + 1) /\ (i + 1) + j - 1 = i + j
    BY <1>1
  <2>4. Len(b) = Len(q) - i
    BY <1>1, <2>2
  <2> HIDE DEF b
  <2>5. \A j \in 1..(Len(q) - i) : b[j] = q[i + j]
    BY <2>2, <2>3
  <2> QED
    BY <2>2, <2>4, <2>5
<1>4. RemoveAt(q, i) = a \o b
  BY DEF RemoveAt
<1> HIDE DEF a, b
<1>5. /\ a \o b \in Seq(T) /\ Len(a \o b) = Len(a) + Len(b)
      /\ \A j \in 1..(Len(a) + Len(b)) : (a \o b)[j] = IF j <= Len(a) THEN a[j] ELSE b[j - Len(a)]
  BY <1>2, <1>3, ConcatProperties
<1>6. ASSUME NEW j \in 1..(Len(q) - 1)
      PROVE  (a \o b)[j] = IF j < i THEN q[j] ELSE q[j + 1]
  <2>1. j \in 1..(Len(a) + Len(b)) /\ (j <= Len(a) <=> j < i)
    BY <1>1, <1>2, <1>3
  <2>2. CASE j < i
    BY <1>1, <1>2, <1>5, <2>1, <2>2
  <2>3. CASE ~(j < i)
    <3>1. j - (i - 1) \in 1..(Len(q) - i) /\ i + (j - (i - 1)) = j + 1
      BY <1>1, <2>3
    <3>2. (a \o b)[j] = b[j - (i - 1)]
      BY <1>2, <1>5, <2>1, <2>3
    <3>3. b[j - (i - 1)] = q[i + (j - (i - 1))]
      BY <1>3, <3>1
    <3> QED
      BY <2>3, <3>1, <3>2, <3>3
  <2> QED
    BY <2>2, <2>3
<1> QED
  BY <1>1, <1>2, <1>3, <1>4, <1>5, <1>6

LEMMA RemoveAtMembers ==
    ASSUME NEW T, NEW q \in Seq(T), NEW i \in 1..Len(q), Distinct(q)
    PROVE  /\ RemoveAt(q, i) \in Seq(T)
           /\ Distinct(RemoveAt(q, i))
           /\ ToSet(RemoveAt(q, i)) = ToSet(q) \ {q[i]}
<1> DEFINE r == RemoveAt(q, i)
           n == Len(q)
           at(j) == IF j < i THEN j ELSE j + 1
<1>1. /\ r \in Seq(T) /\ Len(r) = n - 1
      /\ \A j \in 1..(n - 1) : r[j] = q[at(j)]
  BY RemoveAtElements
<1>2. n \in Nat /\ DOMAIN q = 1..n /\ DOMAIN r = 1..(n - 1)
  BY <1>1, Members
<1> HIDE DEF r, n
<1>3. \A j \in 1..(n - 1) : at(j) \in 1..n /\ at(j) # i
  BY <1>2 DEF n
<1>4. Distinct(r)
  <2>1. SUFFICES ASSUME NEW j \in 1..(n - 1), NEW k \in 1..(n - 1), r[j] = r[k]
                 PROVE  j = k
    BY <1>2 DEF Distinct
  <2>2. q[at(j)] = q[at(k)]
    BY <1>1, <2>1
  <2>3. at(j) = at(k)
    <3> HIDE DEF at
    <3> QED
      BY <1>2, <1>3, <2>2 DEF Distinct
  <2> QED
    BY <1>2, <2>3 DEF n
<1>5. \A x : x \in ToSet(r) <=> x \in ToSet(q) /\ x # q[i]
  <2>1. SUFFICES ASSUME NEW x PROVE x \in ToSet(r) <=> x \in ToSet(q) /\ x # q[i]
    OBVIOUS
  <2>2. x \in ToSet(r) <=> \E j \in 1..(n - 1) : r[j] = x
    BY <1>1, Members
  <2>3. x \in ToSet(q) <=> \E k \in 1..n : q[k] = x
    BY Members DEF n
  <2>4. ASSUME NEW k \in 1..n, q[k] = x, k # i
        PROVE  \E j \in 1..(n - 1) : r[j] = x
    <3>1. CASE k < i
      <4>1. k \in 1..(n - 1) /\ at(k) = k
        BY <1>2, <3>1 DEF n
      <4> QED
        BY <1>1, <2>4, <4>1
    <3>2. CASE ~(k < i)
      <4>1. k - 1 \in 1..(n - 1) /\ at(k - 1) = k
        BY <1>2, <2>4, <3>2 DEF n
      <4> QED
        BY <1>1, <2>4, <4>1
    <3> QED
      BY <3>1, <3>2
  <2>5. ASSUME NEW j \in 1..(n - 1), r[j] = x
        PROVE  at(j) \in 1..n /\ q[at(j)] = x /\ x # q[i]
    <3>1. at(j) \in 1..n /\ at(j) # i /\ q[at(j)] = x
      BY <1>1, <1>3, <2>5
    <3> HIDE DEF at
    <3>2. i \in 1..n
      BY DEF n
    <3> QED
      BY <1>2, <3>1, <3>2 DEF Distinct
  <2> QED
    BY <2>2, <2>3, <2>4, <2>5
<1> QED
  BY <1>1, <1>4, <1>5 DEF r

\* What is left behind the i-th.
LEMMA RestMembers ==
    ASSUME NEW T, NEW q \in Seq(T), NEW i \in 1..Len(q), Distinct(q)
    PROVE  LET r == SubSeq(q, i + 1, Len(q))
           IN  /\ r \in Seq(T) /\ Distinct(r)
               /\ ToSet(r) \subseteq ToSet(q) /\ q[i] \notin ToSet(r)
               /\ \A x \in ToSet(q) \ ToSet(r) : \E j \in 1..i : x = q[j]
<1> DEFINE r == SubSeq(q, i + 1, Len(q))
           n == Len(q)
<1>1. n \in Nat /\ DOMAIN q = 1..n /\ \A j \in 1..n : q[j] \in T
  BY Members
<1>2. /\ r \in Seq(T) /\ Len(r) = n - i
      /\ \A j \in 1..(n - i) : r[j] = q[i + j]
  <2>1. \A j \in (i + 1)..n : q[j] \in T
    BY <1>1
  <2>2. /\ r \in Seq(T)
        /\ Len(r) = IF i + 1 <= n THEN n - (i + 1) + 1 ELSE 0
        /\ \A j \in 1..(n - (i + 1) + 1) : r[j] = q[(i + 1) + j - 1]
    BY <1>1, <2>1, SubSeqProperties
  <2>3. \A j \in 1..(n - i) : j \in 1..(n - (i + 1) + 1) /\ (i + 1) + j - 1 = i + j
    BY <1>1
  <2> HIDE DEF r
  <2>4. Len(r) = n - i
    <3>1. i \in 1..n
      OBVIOUS
    <3> HIDE DEF n
    <3> QED
      BY <1>1, <2>2, <3>1
  <2>5. \A j \in 1..(n - i) : r[j] = q[i + j]
    BY <2>2, <2>3
  <2> QED
    BY <2>2, <2>4, <2>5
<1>3. DOMAIN r = 1..(n - i) /\ i \in 1..n
  BY <1>2, Members
<1> HIDE DEF r, n
<1>4. \A j \in 1..(n - i) : i + j \in 1..n /\ i + j # i
  BY <1>1, <1>3
<1>5. Distinct(r)
  <2>1. SUFFICES ASSUME NEW j \in 1..(n - i), NEW k \in 1..(n - i), r[j] = r[k]
                 PROVE  j = k
    BY <1>3 DEF Distinct
  <2>2. i + j = i + k
    BY <1>1, <1>2, <1>4, <2>1 DEF Distinct
  <2> QED
    BY <1>1, <1>3, <2>2
<1>6. \A x : x \in ToSet(r) <=> \E j \in 1..(n - i) : r[j] = x
  BY <1>2, Members
<1>7. \A x : x \in ToSet(q) <=> \E j \in 1..n : q[j] = x
  BY Members DEF n
<1>8. ToSet(r) \subseteq ToSet(q)
  BY <1>2, <1>4, <1>6, <1>7
<1>9. q[i] \notin ToSet(r)
  <2>1. SUFFICES ASSUME NEW j \in 1..(n - i), r[j] = q[i] PROVE FALSE
    BY <1>6
  <2> QED
    BY <1>1, <1>2, <1>3, <1>4, <2>1 DEF Distinct
<1>10. ASSUME NEW x \in ToSet(q) \ ToSet(r)
       PROVE  \E j \in 1..i : x = q[j]
  <2>1. PICK j \in 1..n : q[j] = x
    BY <1>7, <1>10
  <2>2. CASE j <= i
    <3>1. j \in 1..i
      BY <1>1, <1>3, <2>2
    <3> QED
      BY <2>1, <3>1
  <2>3. CASE ~(j <= i)
    <3>1. j - i \in 1..(n - i) /\ i + (j - i) = j
      BY <1>1, <1>3, <2>3
    <3>2. r[j - i] = x
      BY <1>2, <2>1, <3>1
    <3> QED
      BY <1>6, <1>10, <3>1, <3>2
  <2> QED
    BY <2>2, <2>3
<1> QED
  BY <1>2, <1>5, <1>8, <1>9, <1>10 DEF r, n

(***************************************************************************)
(* How far a check can raise updtattempts: the first test of check_rebuild *)
(* stops it above the limit, so that each of the helpers that one check    *)
(* launches counts at most once more.                                      *)
(***************************************************************************)
Within(w) == w.updtattempts <= kMaxUpdateAttempts + 2
Grows(r, w, n) ==
    /\ r.w.updtattempts <= w.updtattempts + n
    /\ w.updtattempts > kMaxUpdateAttempts => r.w.updtattempts <= w.updtattempts


LEMMA LaunchRebuildGrows ==
    ASSUME NEW r \in CheckResult, NEW ok \in BOOLEAN
    PROVE  LaunchRebuild(r, ok).w.updtattempts <= r.w.updtattempts + 1
<1>1. r.w \in WatchedVol /\ r.w.updtattempts \in Nat
  BY DEF CheckResult, WatchedVol
<1>2. CASE ok
  <2>1. LaunchRebuild(r, ok).w = [r.w EXCEPT !.updtattempts = @ + 1]
    BY <1>2 DEF LaunchRebuild, CheckResult
  <2> QED
    BY <1>1, <2>1 DEF WatchedVol
<1>3. CASE ~ok
  <2>1. LaunchRebuild(r, ok).w = [r.w EXCEPT !.updterrs = Bump(@)]
    BY <1>3 DEF LaunchRebuild, CheckResult
  <2> QED
    BY <1>1, <2>1 DEF WatchedVol
<1> QED
  BY <1>2, <1>3

\* What cancelling the delayer leaves.
LEMMA CancelledKeeps ==
    ASSUME NEW w \in WatchedVol, NEW st \in SUBSET CacheKinds
    PROVE  /\ KeepsLock(Unchecked(CancelDelayer(w), st), w)
           /\ Unchecked(CancelDelayer(w), st).w.updtattempts = w.updtattempts
  BY DEF KeepsLock, Unchecked, CancelDelayer, CheckResult, WatchedVol

LEMMA RebuildIfStaleGrows ==
    ASSUME NEW w \in WatchedVol, NEW st \in SUBSET CacheKinds, NEW ok \in BOOLEAN
    PROVE  Grows(RebuildIfStale(w, st, ok), w, 1)
<1> DEFINE r == Unchecked(CancelDelayer(w), st)
<1>1. r \in CheckResult /\ r.w.updtattempts = w.updtattempts
  BY CancelledKeeps DEF KeepsLock
<1>2. w.updtattempts \in Nat /\ kMaxUpdateAttempts \in Nat
  BY WatchVolAssumption DEF WatchedVol
<1>3. LaunchRebuild(r, ok).w.updtattempts <= w.updtattempts + 1
  BY <1>1, LaunchRebuildGrows
<1>4. /\ RebuildIfStale(w, st, ok) \in {r, LaunchRebuild(r, ok)}
      /\ w.updtattempts > kMaxUpdateAttempts => RebuildIfStale(w, st, ok) = r
  BY DEF RebuildIfStale, StopTrying
<1> HIDE DEF r
<1> QED
  BY <1>1, <1>2, <1>3, <1>4 DEF Grows

LEMMA CheckBootsGrows ==
    ASSUME NEW w \in WatchedVol, NEW st \in SUBSET CacheKinds,
           NEW boots \in BOOLEAN, NEW ok \in BOOLEAN
    PROVE  Grows(CheckBootsSetNvram(w, st, boots, ok), w, 1)
<1>1. w.updtattempts \in Nat
  BY DEF WatchedVol
<1>2. CASE boots /\ ~w.isBootRoot
  <2> DEFINE u == [w EXCEPT !.isBootRoot = TRUE]
  <2>1. u \in WatchedVol /\ u.updtattempts = w.updtattempts
    BY DEF WatchedVol
  <2>2. CheckBootsSetNvram(w, st, boots, ok) = RebuildIfStale(u, st, ok)
    BY <1>2 DEF CheckBootsSetNvram
  <2> HIDE DEF u
  <2>3. Grows(RebuildIfStale(u, st, ok), u, 1)
    BY <2>1, RebuildIfStaleGrows
  <2> QED
    BY <2>1, <2>2, <2>3 DEF Grows
<1>3. CASE ~boots /\ w.isBootRoot
  <2>1. CheckBootsSetNvram(w, st, boots, ok).w = [w EXCEPT !.isBootRoot = FALSE]
    BY <1>3 DEF CheckBootsSetNvram, Unchecked
  <2>2. [w EXCEPT !.isBootRoot = FALSE].updtattempts = w.updtattempts
    BY DEF WatchedVol
  <2> QED
    BY <1>1, <2>1, <2>2 DEF Grows
<1>4. CASE boots = w.isBootRoot
  <2>1. CheckBootsSetNvram(w, st, boots, ok).w = w
    BY <1>4 DEF CheckBootsSetNvram, Unchecked
  <2> QED
    BY <1>1, <2>1 DEF Grows
<1> QED
  BY <1>2, <1>3, <1>4 DEF WatchedVol

LEMMA CheckRebuildGrows ==
    ASSUME NEW w \in WatchedVol, NEW st \in SUBSET CacheKinds,
           NEW boots \in BOOLEAN, NEW o \in Outcome
    PROVE  Grows(CheckRebuild(w, st, boots, o), w, 2)
<1> DEFINE r == Unchecked(CancelDelayer(w), st)
           b == CheckBootsSetNvram(r.w, st, boots, o[1])
           x == CheckRebuild(w, st, boots, o)
<1>1. o[1] \in BOOLEAN /\ o[2] \in BOOLEAN
  BY DEF Outcome
<1>2. KeepsLock(r, w) /\ r.w.updtattempts = w.updtattempts
  BY CancelledKeeps
<1>3. r \in CheckResult /\ r.w \in WatchedVol /\ w.updtattempts \in Nat
  BY <1>2 DEF KeepsLock, CheckResult, WatchedVol
<1>4. KeepsLock(b, r.w) /\ Grows(b, r.w, 1)
  <2> HIDE DEF r
  <2> QED
    BY <1>1, <1>3, CheckBootsKeeps, CheckBootsGrows
<1>5. b \in CheckResult /\ b.w.updtattempts \in Nat
  BY <1>4 DEF KeepsLock, CheckResult, WatchedVol
<1>6. CASE StopTrying(w)
  <2>1. x = r
    BY <1>6, Zenon DEF CheckRebuild
  <2> HIDE DEF r, b
  <2> QED
    BY <1>2, <1>3, <2>1 DEF Grows
<1>7. CASE ~StopTrying(w)
  <2>1. ~(w.updtattempts > kMaxUpdateAttempts)
    BY <1>7 DEF StopTrying
  <2>2. x \in {LaunchRebuild(r, o[2]), LaunchRebuild(b, o[2]), [b EXCEPT !.launched = FALSE]}
    <3>1. CASE KextCacheStale(st)
      BY <1>7, <3>1, Zenon DEF CheckRebuild
    <3>2. CASE ~KextCacheStale(st)
      <4>1. x = IF b.w.isBootRoot /\ "boot" \in b.stale THEN LaunchRebuild(b, o[2])
                                                        ELSE [b EXCEPT !.launched = FALSE]
        BY <1>7, <3>2, Zenon DEF CheckRebuild
      <4> HIDE DEF r, b
      <4> QED
        BY <4>1
    <3> QED
      BY <3>1, <3>2
  <2> HIDE DEF r, b
  <2>3. /\ LaunchRebuild(r, o[2]).w.updtattempts <= w.updtattempts + 1
        /\ LaunchRebuild(b, o[2]).w.updtattempts <= w.updtattempts + 2
    <3>1. /\ LaunchRebuild(b, o[2]).w.updtattempts <= b.w.updtattempts + 1
          /\ LaunchRebuild(r, o[2]).w.updtattempts <= r.w.updtattempts + 1
      BY <1>1, <1>3, <1>5, LaunchRebuildGrows
    <3>2. LaunchRebuild(b, o[2]) \in CheckResult /\ LaunchRebuild(r, o[2]) \in CheckResult
      BY <1>1, <1>3, <1>5, LaunchRebuildKeeps DEF KeepsLock
    <3>3. /\ LaunchRebuild(b, o[2]).w.updtattempts \in Nat
          /\ LaunchRebuild(r, o[2]).w.updtattempts \in Nat
      BY <3>2 DEF CheckResult, WatchedVol
    <3> QED
      BY <1>2, <1>3, <1>4, <1>5, <3>1, <3>3 DEF Grows
  <2>4. [b EXCEPT !.launched = FALSE].w = b.w
    BY <1>5 DEF CheckResult
  <2>5. x.w.updtattempts <= w.updtattempts + 2
    <3>1. CASE x = LaunchRebuild(r, o[2])
      <4>1. x \in CheckResult
        BY <1>1, <1>3, <3>1, LaunchRebuildKeeps DEF KeepsLock
      <4>2. x.w.updtattempts \in Nat
        BY <4>1 DEF CheckResult, WatchedVol
      <4> QED
        BY <1>3, <2>3, <3>1, <4>2
    <3>2. CASE x = LaunchRebuild(b, o[2])
      BY <2>3, <3>2
    <3>3. CASE x = [b EXCEPT !.launched = FALSE]
      BY <1>2, <1>3, <1>4, <1>5, <2>4, <3>3 DEF Grows
    <3> QED
      BY <2>2, <3>1, <3>2, <3>3
  <2> QED
    BY <2>1, <2>5 DEF Grows
<1> QED
  BY <1>6, <1>7

LEMMA WithinGrows ==
    ASSUME NEW w \in WatchedVol, NEW r \in CheckResult, Within(w),
           Grows(r, w, 2) \/ Grows(r, w, 1)
    PROVE  Within(r.w)
<1>1. w.updtattempts \in Nat /\ r.w.updtattempts \in Nat /\ kMaxUpdateAttempts \in Nat
  BY WatchVolAssumption DEF WatchedVol, CheckResult
<1> QED
  BY <1>1 DEF Grows, Within

\* What a check of a volume leaves of its lock and its attempts.
Checks(r, w) == KeepsLock(r, w) /\ (Within(w) => Within(r.w))

LEMMA CheckBootsChecks ==
    ASSUME NEW w \in WatchedVol, NEW st \in SUBSET CacheKinds,
           NEW boots \in BOOLEAN, NEW ok \in BOOLEAN
    PROVE  Checks(CheckBootsSetNvram(w, st, boots, ok), w)
  BY CheckBootsKeeps, CheckBootsGrows, WithinGrows DEF Checks, KeepsLock

LEMMA CheckRebuildChecks ==
    ASSUME NEW w \in WatchedVol, NEW st \in SUBSET CacheKinds,
           NEW boots \in BOOLEAN, NEW o \in Outcome
    PROVE  Checks(CheckRebuild(w, st, boots, o), w)
  BY CheckRebuildKeeps, CheckRebuildGrows, WithinGrows DEF Checks, KeepsLock

LEMMA UncheckedChecks ==
    ASSUME NEW w \in WatchedVol, NEW st \in SUBSET CacheKinds
    PROVE  Checks(Unchecked(w, st), w)
  BY UncheckedKeeps DEF Checks, Unchecked

LEMMA CheckVolBusyChecks ==
    ASSUME NEW w \in WatchedVol, NEW st \in SUBSET CacheKinds,
           NEW boots \in BOOLEAN, NEW o \in Outcome
    PROVE  Checks(CheckVolBusy(w, st, boots, o), w)
  BY CheckRebuildChecks, UncheckedChecks DEF CheckVolBusy

LEMMA DissentChecks ==
    ASSUME TypeOK, NEW v \in Vols, NEW w \in WatchedVol,
           NEW st \in SUBSET CacheKinds, NEW o \in Outcome
    PROVE  Checks(DissentUnmount(v, w, st, o), w)
<1> DEFINE r == IF w.isBootRoot THEN CheckVolBusy(w, st, hasBoots[v], o)
                                ELSE Unchecked(w, st)
           busy == w.lock # NoPort \/ r.launched
<1>1. hasBoots[v] \in BOOLEAN
  BY DEF TypeOK, VolumeTypeOK
<1>2. Checks(r, w)
  BY <1>1, CheckVolBusyChecks, UncheckedChecks
<1>3. DissentUnmount(v, w, st, o) =
        [r EXCEPT !.w.updterrs = IF busy /\ @ = 0 THEN 1 ELSE @]
  BY DEF DissentUnmount
<1> HIDE DEF r, busy
<1>4. r \in CheckResult /\ r.w \in WatchedVol
  BY <1>2 DEF Checks, KeepsLock, CheckResult
<1>5. DissentUnmount(v, w, st, o).w.updtattempts = r.w.updtattempts
  BY <1>3, <1>4 DEF CheckResult, WatchedVol
<1> QED
  BY <1>2, <1>5, DissentKeeps DEF Checks, Within

\* A volume that becomes watched is as no volume: nobody holds or awaits it, and
\* no owners are to be put back.
Fresh(w) == /\ w \in WatchedVol /\ Within(w)
            /\ w.lock = NoPort /\ w.waiters = <<>> /\ w.origMntFlags = FALSE

LEMMA AppearFresh ==
    ASSUME TypeOK, NEW v \in Vols, NEW st \in SUBSET CacheKinds, NEW o \in Outcome
    PROVE  Appear(v, st, o) \in CheckResult /\ Fresh(Appear(v, st, o).w)
<1> DEFINE r == CreateWatchedVol(v, st)
<1>1. hasBoots[v] \in BOOLEAN
  BY DEF TypeOK, VolumeTypeOK
<1>2. <<>> \in Seq(Clients)
  BY EmptySeq
<1>3. r \in CheckResult /\ r.w \in WatchedVol /\ r.w.updtattempts = 0
  BY <1>1, <1>2 DEF CreateWatchedVol, Unchecked, CheckResult, WatchedVol, CacheKinds
<1>4. Within(r.w)
  BY <1>3, WatchVolAssumption DEF Within
<1>5. r.stale \in SUBSET CacheKinds
  BY <1>3 DEF CheckResult
<1> HIDE DEF r
<1>6. Within(CheckRebuild(r.w, r.stale, hasBoots[v], o).w)
  BY <1>1, <1>3, <1>4, <1>5, CheckRebuildChecks DEF Checks
<1>7. Appear(v, st, o) \in {r, CheckRebuild(r.w, r.stale, hasBoots[v], o)}
  BY DEF Appear, r
<1>8. Within(Appear(v, st, o).w)
  BY <1>4, <1>6, <1>7
<1>9. Appear(v, st, o).w \in WatchedVol
  BY AppearUnlocked DEF CheckResult
<1> QED
  BY <1>8, <1>9, AppearUnlocked DEF Fresh

(***************************************************************************)
(* Dictionaries that UpdateLocks cannot tell apart.                        *)
(***************************************************************************)
\* Only watchable volumes are watched, none above the reach of the limit.
Proper(d) == /\ DOMAIN d \cap UnwatchableVols = {}
             /\ \A v \in DOMAIN d : Within(d[v])
Alike(x, w) == /\ x.lock = w.lock /\ x.waiters = w.waiters
               /\ x.origMntFlags = w.origMntFlags
               /\ Within(w) => Within(x)
SameLocks(d, e) == /\ DOMAIN d \subseteq DOMAIN e
                   /\ HolderIn(e) = HolderIn(d)
                   /\ QueueIn(e) = QueueIn(d)
                   /\ OwedIn(e) = OwedIn(d)

LEMMA ChecksAlike ==
    ASSUME NEW r, NEW w, Checks(r, w)
    PROVE  Alike(r.w, w)
  BY DEF Checks, KeepsLock, Alike

\* Volumes may be added unlocked; those that were there keep their locks.
LEMMA SameLocksIf ==
    ASSUME NEW d, GoodDict(d), Proper(d), NEW e, GoodDict(e),
           DOMAIN d \subseteq DOMAIN e, DOMAIN e \cap UnwatchableVols = {},
           \A v \in DOMAIN e : IF v \in DOMAIN d THEN Alike(e[v], d[v]) ELSE Fresh(e[v])
    PROVE  SameLocks(d, e) /\ Proper(e)
<1>1. \A v \in DOMAIN e : Within(e[v])
  BY DEF Proper, Alike, Fresh
<1>2. \A v \in Vols : /\ HolderIn(e)[v] = HolderIn(d)[v]
                      /\ QueueIn(e)[v] = QueueIn(d)[v]
                      /\ OwedIn(e)[v] = OwedIn(d)[v]
  <2>1. SUFFICES ASSUME NEW v \in Vols
                 PROVE  /\ HolderIn(e)[v] = HolderIn(d)[v]
                        /\ QueueIn(e)[v] = QueueIn(d)[v]
                        /\ OwedIn(e)[v] = OwedIn(d)[v]
    OBVIOUS
  <2>2. CASE v \in DOMAIN d
    BY <2>2 DEF HolderIn, QueueIn, OwedIn, Alike
  <2>3. CASE v \in DOMAIN e \ DOMAIN d
    BY <2>3 DEF HolderIn, QueueIn, OwedIn, Fresh
  <2>4. CASE v \notin DOMAIN e
    BY <2>4 DEF HolderIn, QueueIn, OwedIn
  <2> QED
    BY <2>2, <2>3, <2>4
<1>3. /\ HolderIn(e) = [v \in Vols |-> HolderIn(e)[v]]
      /\ HolderIn(d) = [v \in Vols |-> HolderIn(d)[v]]
  BY DEF HolderIn
<1>4. /\ QueueIn(e) = [v \in Vols |-> QueueIn(e)[v]]
      /\ QueueIn(d) = [v \in Vols |-> QueueIn(d)[v]]
  BY DEF QueueIn
<1>5. /\ OwedIn(e) = [v \in Vols |-> OwedIn(e)[v]]
      /\ OwedIn(d) = [v \in Vols |-> OwedIn(d)[v]]
  BY DEF OwedIn
<1>6. HolderIn(e) = HolderIn(d)
  BY <1>2, <1>3
<1>7. QueueIn(e) = QueueIn(d)
  BY <1>2, <1>4
<1>8. OwedIn(e) = OwedIn(d)
  BY <1>2, <1>5
<1> QED
  BY <1>1, <1>6, <1>7, <1>8 DEF SameLocks, Proper

\* One entry is replaced by one with the same lock, or a fresh one is added.
LEMMA PutSame ==
    ASSUME NEW d, GoodDict(d), Proper(d), NEW v \in Vols \ UnwatchableVols,
           NEW w \in WatchedVol,
           IF v \in DOMAIN d THEN Alike(w, d[v]) ELSE Fresh(w)
    PROVE  SameLocks(d, Put(d, v, w)) /\ Proper(Put(d, v, w))
<1> DEFINE e == Put(d, v, w)
<1>1. /\ DOMAIN e = DOMAIN d \cup {v}
      /\ \A u \in DOMAIN e : e[u] = IF u = v THEN w ELSE d[u]
  BY DEF Put
<1>2. w.lock = NoPort => w.waiters = <<>>
  BY DEF GoodDict, Alike, Fresh
<1>3. GoodDict(e)
  BY <1>2, PutGood
<1>4. \A u \in DOMAIN d : Alike(d[u], d[u])
  BY DEF Alike
<1>5. \A u \in DOMAIN e : IF u \in DOMAIN d THEN Alike(e[u], d[u]) ELSE Fresh(e[u])
  BY <1>1, <1>4
<1>6. DOMAIN d \subseteq DOMAIN e /\ DOMAIN e \cap UnwatchableVols = {}
  BY <1>1 DEF Proper
<1> HIDE DEF e
<1> QED
  BY <1>3, <1>5, <1>6, SameLocksIf DEF e

\* The same of checks of every watched volume, and of others that may appear.
LEMMA DictOfSame ==
    ASSUME NEW d, GoodDict(d), Proper(d), NEW all, GoodResults(all),
           DOMAIN d \subseteq DOMAIN all,
           \A v \in DOMAIN all : IF v \in DOMAIN d THEN Alike(all[v].w, d[v])
                                                  ELSE Fresh(all[v].w)
    PROVE  SameLocks(d, DictOf(all)) /\ Proper(DictOf(all))
<1> DEFINE e == DictOf(all)
<1>1. /\ DOMAIN e = DOMAIN all \ UnwatchableVols
      /\ \A u \in DOMAIN e : e[u] = all[u].w
  BY DEF DictOf
<1>2. GoodDict(e)
  BY DictOfGood
<1>3. \A u \in DOMAIN e : IF u \in DOMAIN d THEN Alike(e[u], d[u]) ELSE Fresh(e[u])
  BY <1>1
<1>4. DOMAIN d \subseteq DOMAIN e /\ DOMAIN e \cap UnwatchableVols = {}
  BY <1>1 DEF Proper
<1> HIDE DEF e
<1> QED
  BY <1>2, <1>3, <1>4, SameLocksIf DEF e

LEMMA SameLocksTrans ==
    ASSUME NEW d, NEW e, NEW f, SameLocks(d, e), SameLocks(e, f)
    PROVE  SameLocks(d, f)
  BY DEF SameLocks

\* A volume is taken out of the dictionary.
LEMMA DropSees ==
    ASSUME NEW d, GoodDict(d), Proper(d), NEW v \in Vols
    PROVE  LET e == Restrict(d, DOMAIN d \ {v})
           IN  /\ GoodDict(e) /\ Proper(e) /\ DOMAIN e = DOMAIN d \ {v}
               /\ HolderIn(e) = [HolderIn(d) EXCEPT ![v] = NoPort]
               /\ QueueIn(e) = [QueueIn(d) EXCEPT ![v] = <<>>]
               /\ OwedIn(e) = [OwedIn(d) EXCEPT ![v] = FALSE]
<1> DEFINE e == Restrict(d, DOMAIN d \ {v})
<1>1. /\ DOMAIN e = DOMAIN d \ {v}
      /\ \A u \in DOMAIN e : e[u] = d[u]
  BY DEF Restrict
<1>2. GoodDict(e)
  BY RestrictGood
<1> HIDE DEF e
<1>3. Proper(e)
  BY <1>1 DEF Proper
<1>4. HolderIn(e) = [HolderIn(d) EXCEPT ![v] = NoPort]
  BY <1>1 DEF HolderIn
<1>5. QueueIn(e) = [QueueIn(d) EXCEPT ![v] = <<>>]
  BY <1>1 DEF QueueIn
<1>6. OwedIn(e) = [OwedIn(d) EXCEPT ![v] = FALSE]
  BY <1>1 DEF OwedIn
<1> QED
  BY <1>1, <1>2, <1>3, <1>4, <1>5, <1>6 DEF e

\* A watched volume's entry is replaced.
LEMMA PutSees ==
    ASSUME NEW d, GoodDict(d), Proper(d), NEW v \in DOMAIN d, NEW w \in WatchedVol,
           Within(w)
    PROVE  LET e == Put(d, v, w)
           IN  /\ DOMAIN e = DOMAIN d /\ Proper(e)
               /\ HolderIn(e) = [HolderIn(d) EXCEPT ![v] = w.lock]
               /\ QueueIn(e) = [QueueIn(d) EXCEPT ![v] = w.waiters]
               /\ OwedIn(e) = [OwedIn(d) EXCEPT ![v] = w.origMntFlags]
<1> DEFINE e == Put(d, v, w)
<1>1. /\ DOMAIN e = DOMAIN d
      /\ \A u \in DOMAIN e : e[u] = IF u = v THEN w ELSE d[u]
  BY DEF Put
<1> HIDE DEF e
<1>2. Proper(e)
  BY <1>1 DEF Proper
<1>3. HolderIn(e) = [HolderIn(d) EXCEPT ![v] = w.lock]
  BY <1>1 DEF HolderIn, GoodDict
<1>4. QueueIn(e) = [QueueIn(d) EXCEPT ![v] = w.waiters]
  BY <1>1 DEF QueueIn, GoodDict
<1>5. OwedIn(e) = [OwedIn(d) EXCEPT ![v] = w.origMntFlags]
  <2>1. w.origMntFlags \in BOOLEAN /\ v \in Vols
    BY DEF WatchedVol, GoodDict
  <2>2. \A u \in Vols : OwedIn(e)[u] = [OwedIn(d) EXCEPT ![v] = w.origMntFlags][u]
    BY <1>1, <2>1 DEF OwedIn
  <2> QED
    BY <2>2 DEF OwedIn
<1> QED
  BY <1>1, <1>2, <1>3, <1>4, <1>5 DEF e

(***************************************************************************)
(* The inductive invariant.                                                *)
(***************************************************************************)
\* A client is in one place at most, and its port's context names it.
OnePlace ==
    /\ holder \in [Vols -> Helpers \cup {NoPort}]
    /\ queue \in [Vols -> Seq(Helpers)]
    /\ \A v \in Vols : Distinct(queue[v]) /\ holder[v] \notin Queued(v)
    /\ \A c \in Clients, v \in Vols :
          portInfo[c] = v <=> c = holder[v] \/ c \in Queued(v)
    /\ \A c \in Rebooters : portInfo[c] # "freed"

\* Who waits for, or holds, the reboot lock.
Shutdown ==
    /\ sRebootLock \in Rebooters \cup {NoPort}
    /\ sRebootWaiter \in Rebooters \cup {NoPort}
    /\ \A c \in Clients :
          /\ portInfo[c] = "reboot" => c \in Rebooters
                                       /\ c \in {sRebootLock, sRebootWaiter} \cup dead
          /\ c \in {sRebootLock, sRebootWaiter} => portInfo[c] = "reboot"

\* A reply is owed to those who wait and to nobody else.
RepliesOwed ==
    /\ \A c \in Clients :
          c \in sReplyPorts <=> (\E v \in Vols : c \in Queued(v)) \/ c = sRebootWaiter
    /\ \A c \in Clients : reply[c] = "blocked" => c \in sReplyPorts

\* What the clients were told.
Told ==
    /\ \A c \in dead : reply[c] = "none" /\ portInfo[c] # "none"
    /\ \A v \in Vols :
          /\ holder[v] \notin dead \cup {NoPort} =>
                reply[holder[v]] = "OK" /\ target[holder[v]] = v
          /\ \A c \in Queued(v) \ dead : reply[c] = "blocked" /\ target[c] = v
    /\ \A c \in Helpers \ dead :
          /\ reply[c] = "OK" => portInfo[c] = "freed" \/ holder[target[c]] = c
          /\ portInfo[c] = "freed" => reply[c] = "OK" /\ target[c] # Root

\* The owners of "/" are ignored as it was mounted, now or once they are put back.
OwnersDue ==
    MountOutcomes = {TRUE} =>
        /\ Root \in NoOwnersVols <=> ownersIgnored[Root] \/ owed[Root]
        /\ owed[Root] => holder[Root] # NoPort

PortInv == /\ Proper(sFsysWatchDict)
           /\ OnePlace /\ Shutdown /\ RepliesOwed /\ Told /\ OwnersDue
FullInv == IInv /\ PortInv

(***************************************************************************)
(* What every step does, besides preserving the invariant: it is a step of *)
(* UpdateLocks or leaves it alone, keeps the lock of "/" and serves first  *)
(* who came first.                                                         *)
(***************************************************************************)
LocksStep == [Locks!Next]_(Locks!vars)
Served ==
    \A v \in Watched : \A c \in Clients :
         HandedTo(v, c) =>
            LET q == sFsysWatchDict[v].waiters IN
            \E i \in DOMAIN q : q[i] = c /\ \A j \in 1..(i - 1) : q[j] \in dead
Right == PortInv' /\ LocksStep /\ RootKeptStep /\ Served

LEMMA Mapped == /\ Locks!vars = <<holder, queue, sRebootLock>>
                /\ (Locks!vars)' = <<holder', queue', sRebootLock'>>
  BY DEF Locks!vars, holder, queue, HolderIn, QueueIn, Watched, LockOf

\* What the mapping says of a watched volume.
LEMMA Seen ==
    ASSUME IInv, NEW v \in Vols
    PROVE  /\ v \in Watched => holder[v] = LockOf(v) /\ queue[v] = sFsysWatchDict[v].waiters
                               /\ owed[v] = sFsysWatchDict[v].origMntFlags
           /\ v \notin Watched => holder[v] = NoPort /\ queue[v] = <<>> /\ owed[v] = FALSE
           /\ v \in Watched' => holder'[v] = LockOf(v)'
           /\ v \notin Watched' => holder'[v] = NoPort
<1>1. v \in Watched => owed[v] = sFsysWatchDict[v].origMntFlags
  <2>1. v \in Watched => sFsysWatchDict[v].origMntFlags \in BOOLEAN
    BY DEF IInv, LockInv, GoodDict, WatchedVol, Watched
  <2> QED
    BY <2>1 DEF owed, OwedIn, Watched
<1> QED
  BY <1>1 DEF holder, queue, owed, HolderIn, QueueIn, OwedIn, Watched, LockOf

\* A step that hands no lock to another.
LEMMA NothingHandedOn ==
    ASSUME Root \in Watched => Root \in Watched',
           holder[Root] \in {NoPort, holder'[Root]},
           \A v \in Vols : holder[v] = NoPort \/ holder'[v] \in {NoPort, holder[v]},
           IInv
    PROVE  RootKeptStep /\ Served
<1>1. Watched \subseteq Vols /\ Root \in Vols /\ NoPort \notin Clients
  BY WatchVolAssumption DEF IInv, LockInv, GoodDict, Watched
<1>2. RootKeptStep
  BY <1>1, Seen DEF RootKeptStep
<1>3. Served
  BY <1>1, Seen DEF Served, HandedTo
<1> QED
  BY <1>2, <1>3

\* The dictionary looks the same.
LEMMA SameSees ==
    ASSUME SameLocks(sFsysWatchDict, sFsysWatchDict')
    PROVE  /\ holder' = holder /\ queue' = queue /\ owed' = owed
           /\ Watched \subseteq Watched'
  BY DEF SameLocks, holder, queue, owed, HolderIn, QueueIn, OwedIn, Watched

LEMMA Facts ==
    ASSUME FullInv
    PROVE  /\ Clients = Helpers \cup Rebooters /\ Helpers \cap Rebooters = {}
           /\ NoPort \notin Clients /\ Root \in Vols
           /\ "none" \notin Vols /\ "reboot" \notin Vols /\ "freed" \notin Vols
           /\ portInfo \in [Clients -> Infos] /\ reply \in [Clients -> Replies]
           /\ target \in [Clients -> Vols]
           /\ dead \subseteq Clients /\ sReplyPorts \subseteq Clients
           /\ \A v \in Vols : Queued(v) \subseteq Helpers
           /\ ownersIgnored \in [Vols -> BOOLEAN] /\ owed \in [Vols -> BOOLEAN]
           /\ GoodDict(sFsysWatchDict) /\ Watched \subseteq Vols
<1>1. Clients = Helpers \cup Rebooters /\ Helpers \cap Rebooters = {}
      /\ NoPort \notin Clients /\ Root \in Vols
      /\ "none" \notin Vols /\ "reboot" \notin Vols /\ "freed" \notin Vols
  BY WatchVolAssumption DEF Clients
<1>2. \A v \in Vols : Queued(v) \subseteq Helpers
  <2>1. SUFFICES ASSUME NEW v \in Vols PROVE ToSet(queue[v]) \subseteq Helpers
    BY DEF Queued
  <2>2. queue[v] \in Seq(Helpers)
    BY DEF FullInv, PortInv, OnePlace
  <2>3. \A i \in DOMAIN queue[v] : queue[v][i] \in Helpers
    BY <2>2, ElementOfSeq, LenProperties
  <2> QED
    BY <2>3 DEF ToSet
<1>3. owed \in [Vols -> BOOLEAN]
  <2>1. \A v \in Vols : (v \in DOMAIN sFsysWatchDict /\ sFsysWatchDict[v].origMntFlags) \in BOOLEAN
    OBVIOUS
  <2> QED
    BY <2>1 DEF owed, OwedIn
<1>4. IInv
  BY DEF FullInv
<1> QED
  BY <1>1, <1>2, <1>3, <1>4
  DEF IInv, LockInv, TypeOK, KextdTypeOK, ClientTypeOK, VolumeTypeOK, GoodDict, Watched

(***************************************************************************)
(* The kinds of step.                                                      *)
(***************************************************************************)
clients == <<sReplyPorts, portInfo, reply, target, dead>>

\* Checks of volumes: no lock and no client is touched.
LEMMA SameRight ==
    ASSUME FullInv, SameLocks(sFsysWatchDict, sFsysWatchDict'), Proper(sFsysWatchDict)',
           UNCHANGED <<clients, sRebootLock, sRebootWaiter>>,
           ownersIgnored'[Root] = ownersIgnored[Root] \/ ownersIgnored'[Root] = (Root \in NoOwnersVols)
    PROVE  Right
<1>1. holder' = holder /\ queue' = queue /\ owed' = owed /\ Watched \subseteq Watched'
  BY SameSees
<1>2. /\ sReplyPorts' = sReplyPorts /\ portInfo' = portInfo /\ reply' = reply
      /\ target' = target /\ dead' = dead
      /\ sRebootLock' = sRebootLock /\ sRebootWaiter' = sRebootWaiter
  BY DEF clients
<1>3. OnePlace' /\ Shutdown' /\ RepliesOwed' /\ Told'
  <2>1. OnePlace /\ Shutdown /\ RepliesOwed /\ Told
    BY DEF FullInv, PortInv
  <2>2. OnePlace'
    BY <1>1, <1>2, <2>1 DEF OnePlace, Queued
  <2>3. Shutdown'
    BY <1>1, <1>2, <2>1 DEF Shutdown
  <2>4. RepliesOwed'
    BY <1>1, <1>2, <2>1 DEF RepliesOwed, Queued
  <2>5. Told'
    BY <1>1, <1>2, <2>1 DEF Told, Queued
  <2> QED
    BY <2>2, <2>3, <2>4, <2>5
<1>4. OwnersDue'
  BY <1>1, Facts DEF OwnersDue, FullInv, PortInv
<1>5. LocksStep
  BY <1>1, <1>2, Mapped DEF LocksStep
<1>6. RootKeptStep /\ Served
  BY <1>1, NothingHandedOn, Facts DEF FullInv
<1> QED
  BY <1>3, <1>4, <1>5, <1>6 DEF Right, PortInv

\* A client that holds nothing and waits for nothing gets an answer.
LEMMA AnsweredRight ==
    ASSUME FullInv, NEW c \in Clients \ dead, NEW x \in Replies \ {"OK", "blocked"},
           reply[c] # "blocked", c \in Helpers => reply[c] # "OK",
           SameLocks(sFsysWatchDict, sFsysWatchDict'), Proper(sFsysWatchDict)',
           reply' = [reply EXCEPT ![c] = x],
           \A k \in Clients \ {c} : target'[k] = target[k],
           UNCHANGED <<sReplyPorts, portInfo, dead, sRebootLock, sRebootWaiter, ownersIgnored>>
    PROVE  Right
<1>1. holder' = holder /\ queue' = queue /\ owed' = owed /\ Watched \subseteq Watched'
  BY SameSees
<1>2. OnePlace /\ Shutdown /\ RepliesOwed /\ Told /\ OwnersDue
  BY DEF FullInv, PortInv
<1>3. OnePlace'
  BY <1>1, <1>2 DEF OnePlace, Queued
<1>4. Shutdown'
  BY <1>2 DEF Shutdown
<1>5. RepliesOwed'
  BY <1>1, <1>2, Facts DEF RepliesOwed, Queued
<1>6. Told'
  <2>1. \A k \in dead' : reply'[k] = "none" /\ portInfo'[k] # "none"
    BY <1>2, Facts DEF Told
  <2>2. ASSUME NEW v \in Vols
        PROVE  /\ holder'[v] \notin dead' \cup {NoPort} =>
                    reply'[holder'[v]] = "OK" /\ target'[holder'[v]] = v
               /\ \A k \in Queued(v)' \ dead' : reply'[k] = "blocked" /\ target'[k] = v
    <3>1. Queued(v)' = Queued(v) /\ Queued(v) \subseteq Helpers
      BY <1>1, Facts DEF Queued
    <3>2. holder[v] \in Helpers \cup {NoPort}
      BY <1>2 DEF OnePlace
    <3> QED
      BY <1>1, <1>2, <3>1, <3>2, Facts DEF Told
  <2>3. ASSUME NEW k \in Helpers \ dead'
        PROVE  /\ reply'[k] = "OK" => portInfo'[k] = "freed" \/ holder'[target'[k]] = k
               /\ portInfo'[k] = "freed" => reply'[k] = "OK" /\ target'[k] # Root
    BY <1>1, <1>2, Facts DEF Told
  <2> QED
    BY <2>1, <2>2, <2>3 DEF Told
<1>7. OwnersDue'
  BY <1>1, <1>2 DEF OwnersDue
<1>8. LocksStep
  BY <1>1, Mapped DEF LocksStep
<1>9. RootKeptStep /\ Served
  BY <1>1, NothingHandedOn, Facts DEF FullInv
<1> QED
  BY <1>3, <1>4, <1>5, <1>6, <1>7, <1>8, <1>9 DEF Right, PortInv

\* A client exits; kextd will hear of it if it has its port.
LEMMA DiesRight ==
    ASSUME FullInv, NEW c \in Clients \ dead,
           UNCHANGED <<sFsysWatchDict, sReplyPorts, portInfo, target, sRebootLock,
                       sRebootWaiter, ownersIgnored>>,
           reply' = [reply EXCEPT ![c] = "none"],
           dead' = IF portInfo[c] = "none" THEN dead ELSE dead \cup {c}
    PROVE  Right
<1>1. holder' = holder /\ queue' = queue /\ owed' = owed /\ Watched' = Watched
  BY DEF holder, queue, owed, HolderIn, QueueIn, OwedIn, Watched
<1>2. OnePlace /\ Shutdown /\ RepliesOwed /\ Told /\ OwnersDue /\ Proper(sFsysWatchDict)
  BY DEF FullInv, PortInv
<1>3. OnePlace'
  BY <1>1, <1>2 DEF OnePlace, Queued
<1>4. Shutdown'
  BY <1>2 DEF Shutdown
<1>5. RepliesOwed'
  BY <1>1, <1>2, Facts DEF RepliesOwed, Queued
<1>6. Told'
  <2>1. \A k \in dead' : reply'[k] = "none" /\ portInfo'[k] # "none"
    BY <1>2, Facts DEF Told
  <2>2. ASSUME NEW v \in Vols
        PROVE  /\ holder'[v] \notin dead' \cup {NoPort} =>
                    reply'[holder'[v]] = "OK" /\ target'[holder'[v]] = v
               /\ \A k \in Queued(v)' \ dead' : reply'[k] = "blocked" /\ target'[k] = v
    <3>1. Queued(v)' = Queued(v) /\ Queued(v) \subseteq Helpers
      BY <1>1, Facts DEF Queued
    <3>2. holder[v] \in Helpers \cup {NoPort}
      BY <1>2 DEF OnePlace
    <3>3. \A k \in Clients : k = holder[v] \/ k \in Queued(v) => portInfo[k] # "none"
      BY <1>2, Facts DEF OnePlace
    <3>4. \A k \in Clients \ dead' : k = holder[v] \/ k \in Queued(v) => k # c /\ k \notin dead
      BY <3>3
    <3>5. holder[v] \notin dead' \cup {NoPort} =>
                    reply[holder[v]] = "OK" /\ target[holder[v]] = v /\ holder[v] # c
      BY <1>2, <3>2, <3>4, Facts DEF Told
    <3>6. \A k \in Queued(v) \ dead' : reply[k] = "blocked" /\ target[k] = v /\ k # c
      BY <1>2, <3>1, <3>4, Facts DEF Told
    <3> QED
      BY <1>1, <3>1, <3>2, <3>5, <3>6, Facts
  <2>3. ASSUME NEW k \in Helpers \ dead'
        PROVE  /\ reply'[k] = "OK" => portInfo'[k] = "freed" \/ holder'[target'[k]] = k
               /\ portInfo'[k] = "freed" => reply'[k] = "OK" /\ target'[k] # Root
    BY <1>1, <1>2, Facts DEF Told
  <2> QED
    BY <2>1, <2>2, <2>3 DEF Told
<1>7. OwnersDue' /\ Proper(sFsysWatchDict)'
  BY <1>1, <1>2 DEF OwnersDue, Proper, Within
<1>8. LocksStep
  BY <1>1, Mapped DEF LocksStep
<1>9. RootKeptStep /\ Served
  BY <1>1, NothingHandedOn, Facts DEF FullInv
<1> QED
  BY <1>3, <1>4, <1>5, <1>6, <1>7, <1>8, <1>9 DEF Right, PortInv

\* A volume goes: those who wait are told ENOENT, the holder is abandoned.
LEMMA ForgetRight ==
    ASSUME FullInv, NEW v \in Vols, v # Root \/ v \notin Watched, StopWatching(v),
           holder' = [holder EXCEPT ![v] = NoPort],
           queue' = [queue EXCEPT ![v] = <<>>],
           owed' = [owed EXCEPT ![v] = FALSE],
           Watched \ {v} \subseteq Watched', Proper(sFsysWatchDict)',
           UNCHANGED <<target, sRebootLock, sRebootWaiter, ownersIgnored>>
    PROVE  Right
<1>1. OnePlace /\ Shutdown /\ RepliesOwed /\ Told /\ OwnersDue
  BY DEF FullInv, PortInv
<1> DEFINE W == Queued(v)
<1>2. /\ WaitersOn(v) = W
      /\ LockersOf(v) = {holder[v]} \ {NoPort}
  <2>1. ToSet(<<>>) = {}
    BY DEF ToSet
  <2> QED
    BY <2>1, Seen, Facts DEF WaitersOn, LockersOf, Queued, WaiterSet, LockOf, FullInv
<1>3. W \subseteq Helpers /\ holder[v] \in Helpers \cup {NoPort} /\ holder[v] \notin W
  BY <1>1, Facts DEF OnePlace
<1>4. \A u \in Vols : Queued(u)' = IF u = v THEN {} ELSE Queued(u)
  <2>1. ToSet(<<>>) = {}
    BY DEF ToSet
  <2>2. \A u \in Vols : queue'[u] = IF u = v THEN <<>> ELSE queue[u]
    BY <1>1 DEF OnePlace
  <2>3. \A u \in Vols : Queued(u)' = ToSet(queue'[u]) /\ Queued(u) = ToSet(queue[u])
    BY DEF Queued
  <2> QED
    BY <2>1, <2>2, <2>3
<1>5. \A u \in Vols : holder'[u] = IF u = v THEN NoPort ELSE holder[u]
  BY <1>1 DEF OnePlace
<1>6. \A c \in Clients :
        /\ portInfo'[c] = IF c \in W THEN "none"
                          ELSE IF c = holder[v] THEN "freed" ELSE portInfo[c]
        /\ reply'[c] = IF c \in W \ dead THEN "ENOENT" ELSE reply[c]
  <2>1. SUFFICES ASSUME NEW c \in Clients
                 PROVE  portInfo'[c] = IF c \in W THEN "none"
                                       ELSE IF c = holder[v] THEN "freed" ELSE portInfo[c]
    BY <1>2 DEF StopWatching
  <2>2. portInfo'[c] = CASE c \in WaitersOn(v) -> "none"
                         [] c \in LockersOf(v) -> "freed"
                         [] OTHER -> portInfo[c]
    BY DEF StopWatching
  <2>3. c # NoPort
    BY Facts
  <2>4. CASE c \in W
    <3>1. c \in WaitersOn(v) /\ c \notin LockersOf(v)
      BY <1>2, <1>3, <2>4
    <3>2. portInfo'[c] = "none"
      BY <2>2, <3>1, Zenon
    <3> QED
      BY <2>4, <3>2
  <2>5. CASE c \notin W /\ c = holder[v]
    <3>1. c \notin WaitersOn(v) /\ c \in LockersOf(v)
      BY <1>2, <2>3, <2>5
    <3>2. portInfo'[c] = "freed"
      BY <2>2, <3>1, Zenon
    <3> QED
      BY <2>5, <3>2
  <2>6. CASE c \notin W /\ c # holder[v]
    <3>1. c \notin WaitersOn(v) /\ c \notin LockersOf(v)
      BY <1>2, <2>6
    <3>2. portInfo'[c] = portInfo[c]
      BY <2>2, <3>1, Zenon
    <3> QED
      BY <2>6, <3>2
  <2> QED
    BY <2>4, <2>5, <2>6
<1>7. sReplyPorts' = sReplyPorts \ W /\ dead' = dead \ W
  BY <1>2 DEF StopWatching
<1>8. \A c \in Clients : portInfo[c] = v <=> c = holder[v] \/ c \in W
  BY <1>1 DEF OnePlace
<1> HIDE DEF W
<1>9. OnePlace'
  <2>1. holder' \in [Vols -> Helpers \cup {NoPort}]
    BY <1>1 DEF OnePlace
  <2>2. queue' \in [Vols -> Seq(Helpers)]
    BY <1>1, EmptySeq DEF OnePlace
  <2>3. \A u \in Vols : Distinct(queue'[u]) /\ holder'[u] \notin Queued(u)'
    <3>1. Distinct(<<>>)
      BY DEF Distinct
    <3>2. \A u \in Vols : queue'[u] = IF u = v THEN <<>> ELSE queue[u]
      BY <1>1 DEF OnePlace
    <3> QED
      BY <1>1, <1>4, <1>5, <3>1, <3>2 DEF OnePlace
  <2>4. ASSUME NEW c \in Clients, NEW u \in Vols
        PROVE  portInfo'[c] = u <=> c = holder'[u] \/ c \in Queued(u)'
    <3>1. portInfo[c] = u <=> c = holder[u] \/ c \in Queued(u)
      BY <1>1 DEF OnePlace
    <3> QED
      BY <1>4, <1>5, <1>6, <1>8, <3>1, Facts
  <2>5. \A c \in Rebooters : portInfo'[c] # "freed"
    BY <1>1, <1>3, <1>6, Facts DEF OnePlace
  <2> QED
    BY <2>1, <2>2, <2>3, <2>4, <2>5 DEF OnePlace
<1>10. Shutdown'
  BY <1>1, <1>3, <1>6, <1>7, <1>8, Facts DEF Shutdown
<1>11. RepliesOwed'
  <2>1. ASSUME NEW c \in Clients
        PROVE  c \in sReplyPorts' <=> (\E u \in Vols : c \in Queued(u)') \/ c = sRebootWaiter'
    <3>1. c \in sReplyPorts <=> (\E u \in Vols : c \in Queued(u)) \/ c = sRebootWaiter
      BY <1>1 DEF RepliesOwed
    <3>2. \A u \in Vols : portInfo[c] = u <=> c = holder[u] \/ c \in Queued(u)
      BY <1>1 DEF OnePlace
    <3>3. c = sRebootWaiter => c \notin W
      BY <1>1, <1>3, Facts DEF Shutdown
    <3>4. \A u \in Vols : c \in Queued(u) /\ c \in W => u = v
      BY <1>8, <3>2
    <3> QED
      BY <1>4, <1>7, <3>1, <3>3, <3>4 DEF W
  <2>2. \A c \in Clients : reply'[c] = "blocked" => c \in sReplyPorts'
    <3>1. \A c \in W \cap dead : reply[c] = "none"
      BY <1>1 DEF Told
    <3>2. \A c \in Clients : reply[c] = "blocked" => c \in sReplyPorts
      BY <1>1 DEF RepliesOwed
    <3> QED
      BY <1>6, <1>7, <3>1, <3>2
  <2> QED
    BY <2>1, <2>2 DEF RepliesOwed
<1>12. Told'
  <2>1. \A k \in dead' : reply'[k] = "none" /\ portInfo'[k] # "none"
    BY <1>1, <1>6, <1>7, Facts DEF Told
  <2>2. ASSUME NEW u \in Vols
        PROVE  /\ holder'[u] \notin dead' \cup {NoPort} =>
                    reply'[holder'[u]] = "OK" /\ target'[holder'[u]] = u
               /\ \A k \in Queued(u)' \ dead' : reply'[k] = "blocked" /\ target'[k] = u
    <3>1. CASE u = v
      BY <1>4, <1>5, <3>1
    <3>2. CASE u # v
      <4>1. holder'[u] = holder[u] /\ Queued(u)' = Queued(u) /\ Queued(u) \subseteq Helpers
            /\ holder[u] \in Helpers \cup {NoPort}
        BY <1>1, <1>4, <1>5, <3>2, Facts DEF OnePlace
      <4>2. \A k \in Clients : k = holder[u] \/ k \in Queued(u) => k \notin W
        <5>1. \A k \in Clients : portInfo[k] = u <=> k = holder[u] \/ k \in Queued(u)
          BY <1>1 DEF OnePlace
        <5> QED
          BY <1>8, <3>2, <5>1
      <4>3. /\ holder[u] \notin dead \cup {NoPort} =>
                  reply[holder[u]] = "OK" /\ target[holder[u]] = u
            /\ \A k \in Queued(u) \ dead : reply[k] = "blocked" /\ target[k] = u
        BY <1>1 DEF Told
      <4> QED
        BY <1>6, <1>7, <4>1, <4>2, <4>3, Facts
    <3> QED
      BY <3>1, <3>2
  <2>3. ASSUME NEW k \in Helpers \ dead'
        PROVE  /\ reply'[k] = "OK" => portInfo'[k] = "freed" \/ holder'[target'[k]] = k
               /\ portInfo'[k] = "freed" => reply'[k] = "OK" /\ target'[k] # Root
    <3>1. CASE k \in W
      <4>1. k \in dead => reply[k] = "none"
        BY <1>1 DEF Told
      <4> QED
        BY <1>6, <3>1, <4>1, Facts
    <3>2. CASE k = holder[v]
      <4>1. k \notin dead \cup {NoPort}
        BY <1>3, <1>7, <3>2, Facts
      <4>2. reply[k] = "OK" /\ target[k] = v
        BY <1>1, <3>2, <4>1 DEF Told
      <4>3. v # Root
        BY <3>2, <4>1, Seen DEF FullInv
      <4> QED
        BY <1>3, <1>6, <3>2, <4>2, <4>3, Facts
    <3>3. CASE k \notin W /\ k # holder[v]
      <4>1. k \notin dead /\ k \in Clients /\ target[k] \in Vols
        BY <1>7, <3>3, Facts
      <4>2. /\ reply[k] = "OK" => portInfo[k] = "freed" \/ holder[target[k]] = k
            /\ portInfo[k] = "freed" => reply[k] = "OK" /\ target[k] # Root
        BY <1>1, <4>1 DEF Told
      <4> QED
        BY <1>5, <1>6, <3>3, <4>1, <4>2
    <3> QED
      BY <3>1, <3>2, <3>3
  <2> QED
    BY <2>1, <2>2, <2>3 DEF Told
<1>13. v = Root => holder' = holder /\ queue' = queue /\ owed' = owed
  <2>1. SUFFICES ASSUME v = Root PROVE holder' = holder /\ queue' = queue /\ owed' = owed
    OBVIOUS
  <2>2. holder[v] = NoPort /\ queue[v] = <<>> /\ owed[v] = FALSE
    BY <2>1, Seen DEF FullInv
  <2> QED
    BY <1>1, <2>2, Facts DEF OnePlace
<1>14. OwnersDue'
  BY <1>1, <1>5, <1>13, Facts DEF OwnersDue
<1>15. LocksStep
  <2>1. v # Root => Locks!Forget(v)
    BY DEF Locks!Forget, holder, queue, HolderIn, QueueIn, Watched, LockOf
  <2> QED
    BY <1>13, <2>1, Mapped DEF LocksStep, Locks!Next
<1>16. RootKeptStep /\ Served
  BY <1>5, <1>13, NothingHandedOn, Facts DEF FullInv
<1> QED
  BY <1>9, <1>10, <1>11, <1>12, <1>14, <1>15, <1>16 DEF Right, PortInv

\* A free volume's lock is granted.
LEMMA LockRight ==
    ASSUME FullInv, NEW c \in Helpers \ dead, NEW v \in Watched, portInfo[c] = "none",
           sRebootLock = NoPort, holder[v] = NoPort, NEW ok \in MountOutcomes,
           holder' = [holder EXCEPT ![v] = c], queue' = queue,
           owed' = [owed EXCEPT ![v] = owed[v] \/ ownersIgnored[v]],
           Watched' = Watched, Proper(sFsysWatchDict)',
           ownersIgnored' = [ownersIgnored EXCEPT ![v] = @ /\ ~ok],
           portInfo' = [portInfo EXCEPT ![c] = v],
           reply' = [reply EXCEPT ![c] = "OK"],
           target' = [target EXCEPT ![c] = v],
           UNCHANGED <<sReplyPorts, dead, sRebootLock, sRebootWaiter>>
    PROVE  Right
<1>1. OnePlace /\ Shutdown /\ RepliesOwed /\ Told /\ OwnersDue
  BY DEF FullInv, PortInv
<1>2. v \in Vols /\ c \in Clients /\ c # NoPort
  BY Facts
<1>3. \A u \in Vols : Queued(u)' = Queued(u)
  BY DEF Queued
<1>4. \A u \in Vols : holder'[u] = IF u = v THEN c ELSE holder[u]
  BY <1>1 DEF OnePlace
<1>5. \A u \in Vols : c # holder[u] /\ c \notin Queued(u)
  BY <1>1, <1>2, Facts DEF OnePlace
<1>6. \A k \in Clients :
        /\ portInfo'[k] = IF k = c THEN v ELSE portInfo[k]
        /\ reply'[k] = IF k = c THEN "OK" ELSE reply[k]
        /\ target'[k] = IF k = c THEN v ELSE target[k]
  BY Facts
<1>7. OnePlace'
  <2>1. holder' \in [Vols -> Helpers \cup {NoPort}] /\ queue' \in [Vols -> Seq(Helpers)]
    BY <1>1 DEF OnePlace
  <2>2. \A u \in Vols : Distinct(queue'[u]) /\ holder'[u] \notin Queued(u)'
    BY <1>1, <1>3, <1>4, <1>5 DEF OnePlace
  <2>3. ASSUME NEW k \in Clients, NEW u \in Vols
        PROVE  portInfo'[k] = u <=> k = holder'[u] \/ k \in Queued(u)'
    <3>1. portInfo[k] = u <=> k = holder[u] \/ k \in Queued(u)
      BY <1>1 DEF OnePlace
    <3>2. k # NoPort
      BY Facts
    <3> QED
      BY <1>3, <1>4, <1>5, <1>6, <3>1, <3>2
  <2>4. \A k \in Rebooters : portInfo'[k] # "freed"
    BY <1>1, <1>2, <1>6, Facts DEF OnePlace
  <2> QED
    BY <2>1, <2>2, <2>3, <2>4 DEF OnePlace
<1>8. Shutdown'
  BY <1>1, <1>2, <1>6, Facts DEF Shutdown
<1>9. RepliesOwed'
  BY <1>1, <1>3, <1>6 DEF RepliesOwed
<1>10. Told'
  <2>1. \A k \in dead' : reply'[k] = "none" /\ portInfo'[k] # "none"
    BY <1>1, <1>6, Facts DEF Told
  <2>2. ASSUME NEW u \in Vols
        PROVE  /\ holder'[u] \notin dead' \cup {NoPort} =>
                    reply'[holder'[u]] = "OK" /\ target'[holder'[u]] = u
               /\ \A k \in Queued(u)' \ dead' : reply'[k] = "blocked" /\ target'[k] = u
    <3>1. holder[u] \in Helpers \cup {NoPort} /\ Queued(u) \subseteq Helpers
      BY <1>1, Facts DEF OnePlace
    <3>2. /\ holder[u] \notin dead \cup {NoPort} =>
                reply[holder[u]] = "OK" /\ target[holder[u]] = u
          /\ \A k \in Queued(u) \ dead : reply[k] = "blocked" /\ target[k] = u
      BY <1>1 DEF Told
    <3>3. /\ holder'[u] \notin dead' \cup {NoPort} =>
                    reply'[holder'[u]] = "OK" /\ target'[holder'[u]] = u
      <4>1. CASE u = v
        BY <1>2, <1>4, <1>6, <4>1
      <4>2. CASE u # v
        BY <1>4, <1>5, <1>6, <3>1, <3>2, <4>2, Facts
      <4> QED
        BY <4>1, <4>2
    <3> QED
      BY <1>3, <1>5, <1>6, <3>1, <3>2, <3>3, Facts
  <2>3. ASSUME NEW k \in Helpers \ dead'
        PROVE  /\ reply'[k] = "OK" => portInfo'[k] = "freed" \/ holder'[target'[k]] = k
               /\ portInfo'[k] = "freed" => reply'[k] = "OK" /\ target'[k] # Root
    <3>1. CASE k = c
      BY <1>2, <1>4, <1>6, <3>1, Facts
    <3>2. CASE k # c
      <4>1. k \in Clients /\ target[k] \in Vols /\ k # NoPort
        BY Facts
      <4>2. /\ reply[k] = "OK" => portInfo[k] = "freed" \/ holder[target[k]] = k
            /\ portInfo[k] = "freed" => reply[k] = "OK" /\ target[k] # Root
        BY <1>1 DEF Told
      <4> QED
        BY <1>4, <1>6, <3>2, <4>1, <4>2
    <3> QED
      BY <3>1, <3>2
  <2> QED
    BY <2>1, <2>2, <2>3 DEF Told
<1>11. OwnersDue'
  <2>1. ASSUME MountOutcomes = {TRUE}
        PROVE  /\ Root \in NoOwnersVols <=> ownersIgnored'[Root] \/ owed'[Root]
               /\ owed'[Root] => holder'[Root] # NoPort
    <3>1. ok = TRUE
      BY <2>1
    <3>2. /\ Root \in NoOwnersVols <=> ownersIgnored[Root] \/ owed[Root]
          /\ owed[Root] => holder[Root] # NoPort
      BY <1>1, <2>1 DEF OwnersDue
    <3>3. CASE v = Root
      BY <1>2, <1>4, <3>1, <3>2, <3>3, Facts
    <3>4. CASE v # Root
      BY <1>2, <1>4, <3>2, <3>4, Facts
    <3> QED
      BY <3>3, <3>4
  <2> QED
    BY <2>1 DEF OwnersDue
<1>12. LocksStep
  <2>1. Locks!Lock(v, c)
    BY Mapped DEF Locks!Lock, holder, queue, HolderIn, QueueIn, Watched, LockOf
  <2> QED
    BY <1>2, <2>1, Mapped DEF LocksStep, Locks!Next
<1>13. RootKeptStep /\ Served
  BY <1>4, NothingHandedOn, Facts DEF FullInv
<1> QED
  BY <1>7, <1>8, <1>9, <1>10, <1>11, <1>12, <1>13 DEF Right, PortInv

\* A client is put at the end of the queue for a lock that is held.
LEMMA EnqueueRight ==
    ASSUME FullInv, NEW c \in Helpers \ dead, NEW v \in Watched, portInfo[c] = "none",
           sRebootLock = NoPort, holder[v] # NoPort,
           holder' = holder, queue' = [queue EXCEPT ![v] = Append(@, c)], owed' = owed,
           Watched' = Watched, Proper(sFsysWatchDict)',
           sReplyPorts' = sReplyPorts \cup {c},
           portInfo' = [portInfo EXCEPT ![c] = v],
           reply' = [reply EXCEPT ![c] = "blocked"],
           target' = [target EXCEPT ![c] = v],
           UNCHANGED <<dead, sRebootLock, sRebootWaiter, ownersIgnored>>
    PROVE  Right
<1>1. OnePlace /\ Shutdown /\ RepliesOwed /\ Told /\ OwnersDue
  BY DEF FullInv, PortInv
<1>2. v \in Vols /\ c \in Clients /\ c # NoPort
  BY Facts
<1>3. \A u \in Vols : c # holder[u] /\ c \notin Queued(u)
  BY <1>1, <1>2, Facts DEF OnePlace
<1>4. \A u \in Vols : /\ queue[u] \in Seq(Helpers) /\ Distinct(queue[u])
                      /\ queue'[u] = IF u = v THEN Append(queue[v], c) ELSE queue[u]
  BY <1>1 DEF OnePlace
<1>5. /\ Append(queue[v], c) \in Seq(Helpers)
      /\ Distinct(Append(queue[v], c))
      /\ ToSet(Append(queue[v], c)) = ToSet(queue[v]) \cup {c}
  <2>1. c \notin ToSet(queue[v])
    BY <1>2, <1>3 DEF Queued
  <2>2. queue[v] \in Seq(Helpers) /\ Distinct(queue[v]) /\ c \in Helpers
    BY <1>2, <1>4
  <2> QED
    BY <2>1, <2>2, AppendMembers
<1>6. \A u \in Vols : Queued(u)' = IF u = v THEN Queued(v) \cup {c} ELSE Queued(u)
  <2>1. \A u \in Vols : Queued(u)' = ToSet(queue'[u]) /\ Queued(u) = ToSet(queue[u])
    BY DEF Queued
  <2> QED
    BY <1>2, <1>4, <1>5, <2>1
<1>7. \A k \in Clients :
        /\ portInfo'[k] = IF k = c THEN v ELSE portInfo[k]
        /\ reply'[k] = IF k = c THEN "blocked" ELSE reply[k]
        /\ target'[k] = IF k = c THEN v ELSE target[k]
  BY Facts
<1>8. OnePlace'
  <2>1. holder' \in [Vols -> Helpers \cup {NoPort}]
    BY <1>1 DEF OnePlace
  <2>2. queue' \in [Vols -> Seq(Helpers)]
    BY <1>1, <1>5 DEF OnePlace
  <2>3. ASSUME NEW u \in Vols PROVE Distinct(queue'[u]) /\ holder'[u] \notin Queued(u)'
    <3>1. holder[u] \notin Queued(u) /\ holder[u] # c
      BY <1>1, <1>3 DEF OnePlace
    <3> QED
      BY <1>4, <1>5, <1>6, <3>1
  <2>4. ASSUME NEW k \in Clients, NEW u \in Vols
        PROVE  portInfo'[k] = u <=> k = holder'[u] \/ k \in Queued(u)'
    <3>1. portInfo[k] = u <=> k = holder[u] \/ k \in Queued(u)
      BY <1>1 DEF OnePlace
    <3> QED
      BY <1>3, <1>6, <1>7, <3>1
  <2>5. \A k \in Rebooters : portInfo'[k] # "freed"
    BY <1>1, <1>2, <1>7, Facts DEF OnePlace
  <2> QED
    BY <2>1, <2>2, <2>3, <2>4, <2>5 DEF OnePlace
<1>9. Shutdown'
  BY <1>1, <1>2, <1>7, Facts DEF Shutdown
<1>10. RepliesOwed'
  <2>1. ASSUME NEW k \in Clients
        PROVE  k \in sReplyPorts' <=> (\E u \in Vols : k \in Queued(u)') \/ k = sRebootWaiter'
    <3>1. k \in sReplyPorts <=> (\E u \in Vols : k \in Queued(u)) \/ k = sRebootWaiter
      BY <1>1 DEF RepliesOwed
    <3> QED
      BY <1>2, <1>6, <3>1
  <2>2. \A k \in Clients : reply'[k] = "blocked" => k \in sReplyPorts'
    BY <1>1, <1>7 DEF RepliesOwed
  <2> QED
    BY <2>1, <2>2 DEF RepliesOwed
<1>11. Told'
  <2>1. \A k \in dead' : reply'[k] = "none" /\ portInfo'[k] # "none"
    BY <1>1, <1>7, Facts DEF Told
  <2>2. ASSUME NEW u \in Vols
        PROVE  /\ holder'[u] \notin dead' \cup {NoPort} =>
                    reply'[holder'[u]] = "OK" /\ target'[holder'[u]] = u
               /\ \A k \in Queued(u)' \ dead' : reply'[k] = "blocked" /\ target'[k] = u
    <3>1. holder[u] \in Helpers \cup {NoPort} /\ Queued(u) \subseteq Helpers
          /\ holder[u] # c /\ c \notin Queued(u)
      BY <1>1, <1>3, Facts DEF OnePlace
    <3>2. /\ holder[u] \notin dead \cup {NoPort} =>
                reply[holder[u]] = "OK" /\ target[holder[u]] = u
          /\ \A k \in Queued(u) \ dead : reply[k] = "blocked" /\ target[k] = u
      BY <1>1 DEF Told
    <3>3. \A k \in Queued(u) \ dead : k \in Clients /\ reply'[k] = "blocked" /\ target'[k] = u
      BY <1>7, <3>1, <3>2, Facts
    <3>4. reply'[c] = "blocked" /\ target'[c] = v
      BY <1>2, <1>7
    <3>5. holder[u] \notin dead \cup {NoPort} =>
                reply'[holder[u]] = "OK" /\ target'[holder[u]] = u
      BY <1>7, <3>1, <3>2, Facts
    <3> QED
      BY <1>6, <3>3, <3>4, <3>5
  <2>3. ASSUME NEW k \in Helpers \ dead'
        PROVE  /\ reply'[k] = "OK" => portInfo'[k] = "freed" \/ holder'[target'[k]] = k
               /\ portInfo'[k] = "freed" => reply'[k] = "OK" /\ target'[k] # Root
    BY <1>1, <1>2, <1>7, Facts DEF Told
  <2> QED
    BY <2>1, <2>2, <2>3 DEF Told
<1>12. OwnersDue'
  BY <1>1 DEF OwnersDue
<1>13. LocksStep
  <2>1. Locks!Enqueue(v, c)
    BY Mapped DEF Locks!Enqueue, holder, queue, HolderIn, QueueIn, Watched, LockOf
  <2> QED
    BY <1>2, <2>1, Mapped DEF LocksStep, Locks!Next
<1>14. RootKeptStep /\ Served
  BY NothingHandedOn, Facts DEF FullInv
<1> QED
  BY <1>8, <1>9, <1>10, <1>11, <1>12, <1>13, <1>14 DEF Right, PortInv

\* The port of a waiter dies before its turn comes.
LEMMA LeaveRight ==
    ASSUME FullInv, NEW c \in dead, NEW v \in Watched, holder[v] # c,
           NEW i \in 1..Len(queue[v]), queue[v][i] = c,
           holder' = holder, queue' = [queue EXCEPT ![v] = RemoveAt(@, i)], owed' = owed,
           Watched' = Watched, Proper(sFsysWatchDict)',
           sReplyPorts' = sReplyPorts \ {c},
           portInfo' = [portInfo EXCEPT ![c] = "none"],
           dead' = dead \ {c},
           UNCHANGED <<reply, target, sRebootLock, sRebootWaiter, ownersIgnored>>
    PROVE  Right
<1>1. OnePlace /\ Shutdown /\ RepliesOwed /\ Told /\ OwnersDue
  BY DEF FullInv, PortInv
<1>2. v \in Vols /\ c \in Clients /\ c # NoPort
  BY Facts
<1>3. \A u \in Vols : /\ queue[u] \in Seq(Helpers) /\ Distinct(queue[u])
                      /\ queue'[u] = IF u = v THEN RemoveAt(queue[v], i) ELSE queue[u]
  BY <1>1 DEF OnePlace
<1>4. /\ RemoveAt(queue[v], i) \in Seq(Helpers)
      /\ Distinct(RemoveAt(queue[v], i))
      /\ ToSet(RemoveAt(queue[v], i)) = ToSet(queue[v]) \ {c}
  <2>1. queue[v] \in Seq(Helpers) /\ Distinct(queue[v])
    BY <1>2, <1>3
  <2> QED
    BY <2>1, RemoveAtMembers
<1>5. c \in Queued(v)
  <2>1. queue[v] \in Seq(Helpers)
    BY <1>2, <1>3
  <2> QED
    BY <2>1, Members DEF Queued
<1>6. c \in Helpers /\ portInfo[c] = v
  BY <1>1, <1>2, <1>5, Facts DEF OnePlace
<1>7. \A u \in Vols : Queued(u)' = Queued(u) \ {c}
  <2>1. \A u \in Vols : Queued(u)' = ToSet(queue'[u]) /\ Queued(u) = ToSet(queue[u])
    BY DEF Queued
  <2>2. \A u \in Vols : c \in Queued(u) => u = v
    BY <1>1, <1>2, <1>6 DEF OnePlace
  <2> QED
    BY <1>2, <1>3, <1>4, <2>1, <2>2
<1>8. \A u \in Vols : holder[u] # c
  BY <1>1, <1>2, <1>6 DEF OnePlace
<1>9. \A k \in Clients : portInfo'[k] = IF k = c THEN "none" ELSE portInfo[k]
  BY Facts
<1>10. c # sRebootWaiter /\ c # sRebootLock
  BY <1>1, <1>2, <1>6, Facts DEF Shutdown
<1>11. OnePlace'
  <2>1. holder' \in [Vols -> Helpers \cup {NoPort}]
    BY <1>1 DEF OnePlace
  <2>2. queue' \in [Vols -> Seq(Helpers)]
    BY <1>1, <1>4 DEF OnePlace
  <2>3. ASSUME NEW u \in Vols PROVE Distinct(queue'[u]) /\ holder'[u] \notin Queued(u)'
    <3>1. holder[u] \notin Queued(u)
      BY <1>1 DEF OnePlace
    <3> QED
      BY <1>3, <1>4, <1>7, <3>1
  <2>4. ASSUME NEW k \in Clients, NEW u \in Vols
        PROVE  portInfo'[k] = u <=> k = holder'[u] \/ k \in Queued(u)'
    <3>1. portInfo[k] = u <=> k = holder[u] \/ k \in Queued(u)
      BY <1>1 DEF OnePlace
    <3> QED
      BY <1>7, <1>8, <1>9, <3>1, Facts
  <2>5. \A k \in Rebooters : portInfo'[k] # "freed"
    BY <1>1, <1>2, <1>9, Facts DEF OnePlace
  <2> QED
    BY <2>1, <2>2, <2>3, <2>4, <2>5 DEF OnePlace
<1>12. Shutdown'
  BY <1>1, <1>6, <1>9, <1>10, Facts DEF Shutdown
<1>13. RepliesOwed'
  <2>1. ASSUME NEW k \in Clients
        PROVE  k \in sReplyPorts' <=> (\E u \in Vols : k \in Queued(u)') \/ k = sRebootWaiter'
    <3>1. k \in sReplyPorts <=> (\E u \in Vols : k \in Queued(u)) \/ k = sRebootWaiter
      BY <1>1 DEF RepliesOwed
    <3> QED
      BY <1>7, <1>10, <3>1
  <2>2. reply[c] = "none"
    BY <1>1 DEF Told
  <2>3. \A k \in Clients : reply'[k] = "blocked" => k \in sReplyPorts'
    BY <1>1, <2>2 DEF RepliesOwed
  <2> QED
    BY <2>1, <2>3 DEF RepliesOwed
<1>14. Told'
  <2>1. \A k \in dead' : reply'[k] = "none" /\ portInfo'[k] # "none"
    BY <1>1, <1>9, Facts DEF Told
  <2>2. ASSUME NEW u \in Vols
        PROVE  /\ holder'[u] \notin dead' \cup {NoPort} =>
                    reply'[holder'[u]] = "OK" /\ target'[holder'[u]] = u
               /\ \A k \in Queued(u)' \ dead' : reply'[k] = "blocked" /\ target'[k] = u
    BY <1>1, <1>7, <1>8 DEF Told
  <2>3. ASSUME NEW k \in Helpers \ dead'
        PROVE  /\ reply'[k] = "OK" => portInfo'[k] = "freed" \/ holder'[target'[k]] = k
               /\ portInfo'[k] = "freed" => reply'[k] = "OK" /\ target'[k] # Root
    <3>1. reply[c] = "none"
      BY <1>1 DEF Told
    <3> QED
      BY <1>1, <1>9, <3>1, Facts DEF Told
  <2> QED
    BY <2>1, <2>2, <2>3 DEF Told
<1>15. OwnersDue'
  BY <1>1 DEF OwnersDue
<1>16. LocksStep
  <2>1. Locks!Leave(v, i)
    <3>1. /\ Locks!Leave(v, i) <=> /\ queue' = [queue EXCEPT ![v] = RemoveAt(@, i)]
                                   /\ holder' = holder /\ sRebootLock' = sRebootLock
      BY DEF Locks!Leave, Locks!RemoveAt, RemoveAt, holder, queue, HolderIn, QueueIn, Watched, LockOf
    <3> QED
      BY <3>1
  <2>2. i \in DOMAIN queue[v]
    <3>1. queue[v] \in Seq(Helpers)
      BY <1>2, <1>3
    <3> QED
      BY <3>1, Members
  <2> QED
    BY <1>2, <2>1, <2>2, Mapped DEF LocksStep, Locks!Next, queue, QueueIn, Watched
<1>17. RootKeptStep /\ Served
  BY NothingHandedOn, Facts DEF FullInv
<1> QED
  BY <1>11, <1>12, <1>13, <1>14, <1>15, <1>16, <1>17 DEF Right, PortInv

\* The reboot lock is granted, over volumes that nobody holds.
LEMMA ShutDownRight ==
    ASSUME FullInv, NEW c \in Rebooters \ dead, portInfo[c] = "none", sRebootLock = NoPort,
           SameLocks(sFsysWatchDict, sFsysWatchDict'), Proper(sFsysWatchDict)',
           \A v \in Vols : holder'[v] = NoPort,
           sRebootLock' = c,
           portInfo' = [portInfo EXCEPT ![c] = "reboot"],
           reply' = [reply EXCEPT ![c] = "OK"],
           UNCHANGED <<sReplyPorts, target, dead, sRebootWaiter, ownersIgnored>>
    PROVE  Right
<1>1. holder' = holder /\ queue' = queue /\ owed' = owed /\ Watched \subseteq Watched'
  BY SameSees
<1>2. OnePlace /\ Shutdown /\ RepliesOwed /\ Told /\ OwnersDue
  BY DEF FullInv, PortInv
<1>3. c \in Clients /\ c \notin Helpers
  BY Facts
<1>4. \A k \in Clients : /\ portInfo'[k] = IF k = c THEN "reboot" ELSE portInfo[k]
                         /\ reply'[k] = IF k = c THEN "OK" ELSE reply[k]
  BY Facts
<1>5. \A u \in Vols : Queued(u)' = Queued(u)
  BY <1>1 DEF Queued
<1>6. OnePlace'
  <2>1. ASSUME NEW k \in Clients, NEW u \in Vols
        PROVE  portInfo'[k] = u <=> k = holder'[u] \/ k \in Queued(u)'
    <3>1. portInfo[k] = u <=> k = holder[u] \/ k \in Queued(u)
      BY <1>2 DEF OnePlace
    <3> QED
      BY <1>1, <1>4, <1>5, <3>1, Facts
  <2>2. \A k \in Rebooters : portInfo'[k] # "freed"
    BY <1>2, <1>4, Facts DEF OnePlace
  <2> QED
    BY <1>1, <1>2, <1>5, <2>1, <2>2 DEF OnePlace
<1>7. Shutdown'
  BY <1>2, <1>3, <1>4, Facts DEF Shutdown
<1>8. RepliesOwed'
  BY <1>2, <1>4, <1>5 DEF RepliesOwed
<1>9. Told'
  <2>1. \A k \in dead' : reply'[k] = "none" /\ portInfo'[k] # "none"
    BY <1>2, <1>4, Facts DEF Told
  <2>2. ASSUME NEW v \in Vols
        PROVE  /\ holder'[v] \notin dead' \cup {NoPort} =>
                    reply'[holder'[v]] = "OK" /\ target'[holder'[v]] = v
               /\ \A k \in Queued(v)' \ dead' : reply'[k] = "blocked" /\ target'[k] = v
    <3>1. \A k \in Queued(v) \ dead : k # c /\ reply[k] = "blocked" /\ target[k] = v
      BY <1>2, <1>3, Facts DEF Told
    <3> QED
      BY <1>4, <1>5, <3>1, Facts
  <2>3. ASSUME NEW k \in Helpers \ dead'
        PROVE  /\ reply'[k] = "OK" => portInfo'[k] = "freed" \/ holder'[target'[k]] = k
               /\ portInfo'[k] = "freed" => reply'[k] = "OK" /\ target'[k] # Root
    BY <1>1, <1>2, <1>3, <1>4, Facts DEF Told
  <2> QED
    BY <2>1, <2>2, <2>3 DEF Told
<1>10. OwnersDue'
  BY <1>1, <1>2 DEF OwnersDue
<1>11. LocksStep
  <2>1. Locks!ShutDown(c)
    BY <1>1, Mapped DEF Locks!ShutDown, Locks!AllFree, holder, queue, HolderIn, QueueIn,
       Watched, LockOf
  <2> QED
    BY <2>1 DEF LocksStep, Locks!Next
<1>12. RootKeptStep /\ Served
  BY <1>1, NothingHandedOn, Facts DEF FullInv
<1> QED
  BY <1>6, <1>7, <1>8, <1>9, <1>10, <1>11, <1>12 DEF Right, PortInv

\* The reboot lock is waited for.
LEMMA AwaitRight ==
    ASSUME FullInv, NEW c \in Rebooters \ dead, portInfo[c] = "none", sRebootWaiter = NoPort,
           SameLocks(sFsysWatchDict, sFsysWatchDict'), Proper(sFsysWatchDict)',
           sRebootWaiter' = c,
           sReplyPorts' = sReplyPorts \cup {c},
           portInfo' = [portInfo EXCEPT ![c] = "reboot"],
           reply' = [reply EXCEPT ![c] = "blocked"],
           UNCHANGED <<target, dead, sRebootLock, ownersIgnored>>
    PROVE  Right
<1>1. holder' = holder /\ queue' = queue /\ owed' = owed /\ Watched \subseteq Watched'
  BY SameSees
<1>2. OnePlace /\ Shutdown /\ RepliesOwed /\ Told /\ OwnersDue
  BY DEF FullInv, PortInv
<1>3. c \in Clients /\ c \notin Helpers
  BY Facts
<1>4. \A k \in Clients : /\ portInfo'[k] = IF k = c THEN "reboot" ELSE portInfo[k]
                         /\ reply'[k] = IF k = c THEN "blocked" ELSE reply[k]
  BY Facts
<1>5. \A u \in Vols : Queued(u)' = Queued(u)
  BY <1>1 DEF Queued
<1>6. OnePlace'
  <2>1. ASSUME NEW k \in Clients, NEW u \in Vols
        PROVE  portInfo'[k] = u <=> k = holder'[u] \/ k \in Queued(u)'
    <3>1. portInfo[k] = u <=> k = holder[u] \/ k \in Queued(u)
      BY <1>2 DEF OnePlace
    <3> QED
      BY <1>1, <1>4, <1>5, <3>1, Facts
  <2>2. \A k \in Rebooters : portInfo'[k] # "freed"
    BY <1>2, <1>4, Facts DEF OnePlace
  <2> QED
    BY <1>1, <1>2, <1>5, <2>1, <2>2 DEF OnePlace
<1>7. Shutdown'
  BY <1>2, <1>3, <1>4, Facts DEF Shutdown
<1>8. RepliesOwed'
  <2>1. ASSUME NEW k \in Clients
        PROVE  k \in sReplyPorts' <=> (\E u \in Vols : k \in Queued(u)') \/ k = sRebootWaiter'
    <3>1. k \in sReplyPorts <=> (\E u \in Vols : k \in Queued(u)) \/ k = sRebootWaiter
      BY <1>2 DEF RepliesOwed
    <3> QED
      BY <1>3, <1>5, <3>1, Facts
  <2> QED
    BY <1>2, <1>4, <2>1 DEF RepliesOwed
<1>9. Told'
  <2>1. \A k \in dead' : reply'[k] = "none" /\ portInfo'[k] # "none"
    BY <1>2, <1>4, Facts DEF Told
  <2>2. ASSUME NEW v \in Vols
        PROVE  /\ holder'[v] \notin dead' \cup {NoPort} =>
                    reply'[holder'[v]] = "OK" /\ target'[holder'[v]] = v
               /\ \A k \in Queued(v)' \ dead' : reply'[k] = "blocked" /\ target'[k] = v
    <3>1. \A k \in Queued(v) \ dead : k \in Clients /\ reply[k] = "blocked" /\ target[k] = v
      BY <1>2, Facts DEF Told
    <3>2. holder[v] \in Helpers \cup {NoPort}
      BY <1>2 DEF OnePlace
    <3>3. holder[v] \notin dead \cup {NoPort} => reply[holder[v]] = "OK" /\ target[holder[v]] = v
      BY <1>2 DEF Told
    <3> QED
      BY <1>1, <1>3, <1>4, <1>5, <3>1, <3>2, <3>3, Facts
  <2>3. ASSUME NEW k \in Helpers \ dead'
        PROVE  /\ reply'[k] = "OK" => portInfo'[k] = "freed" \/ holder'[target'[k]] = k
               /\ portInfo'[k] = "freed" => reply'[k] = "OK" /\ target'[k] # Root
    BY <1>1, <1>2, <1>3, <1>4, Facts DEF Told
  <2> QED
    BY <2>1, <2>2, <2>3 DEF Told
<1>10. OwnersDue'
  BY <1>1, <1>2 DEF OwnersDue
<1>11. LocksStep
  BY <1>1, Mapped DEF LocksStep
<1>12. RootKeptStep /\ Served
  BY <1>1, NothingHandedOn, Facts DEF FullInv
<1> QED
  BY <1>6, <1>7, <1>8, <1>9, <1>10, <1>11, <1>12 DEF Right, PortInv

\* The port of a client that has no volume dies: shutdown's, or one whose volume
\* went while it held it.
LEMMA GoneRight ==
    ASSUME FullInv, NEW c \in dead, portInfo[c] \notin Vols,
           sFsysWatchDict' = sFsysWatchDict,
           sRebootLock' = (IF sRebootLock = c THEN NoPort ELSE sRebootLock),
           sRebootWaiter' = (IF sRebootWaiter = c THEN NoPort ELSE sRebootWaiter),
           sReplyPorts' = sReplyPorts \ {c},
           portInfo' = [portInfo EXCEPT ![c] = "none"],
           dead' = dead \ {c},
           UNCHANGED <<reply, target, ownersIgnored>>
    PROVE  Right
<1>1. holder' = holder /\ queue' = queue /\ owed' = owed /\ Watched' = Watched
  BY DEF holder, queue, owed, HolderIn, QueueIn, OwedIn, Watched
<1>2. OnePlace /\ Shutdown /\ RepliesOwed /\ Told /\ OwnersDue /\ Proper(sFsysWatchDict)
  BY DEF FullInv, PortInv
<1>3. c \in Clients /\ reply[c] = "none" /\ c # NoPort
  BY <1>2, Facts DEF Told
<1>4. \A k \in Clients : portInfo'[k] = IF k = c THEN "none" ELSE portInfo[k]
  BY Facts
<1>5. \A u \in Vols : Queued(u)' = Queued(u)
  BY <1>1 DEF Queued
<1>6. \A u \in Vols : c # holder[u] /\ c \notin Queued(u)
  BY <1>2, <1>3 DEF OnePlace
<1>7. OnePlace'
  <2>1. ASSUME NEW k \in Clients, NEW u \in Vols
        PROVE  portInfo'[k] = u <=> k = holder'[u] \/ k \in Queued(u)'
    <3>1. portInfo[k] = u <=> k = holder[u] \/ k \in Queued(u)
      BY <1>2 DEF OnePlace
    <3> QED
      BY <1>1, <1>4, <1>5, <1>6, <3>1, Facts
  <2>2. \A k \in Rebooters : portInfo'[k] # "freed"
    BY <1>2, <1>4, Facts DEF OnePlace
  <2> QED
    BY <1>1, <1>2, <1>5, <2>1, <2>2 DEF OnePlace
<1>8. Shutdown'
  BY <1>2, <1>3, <1>4, Facts DEF Shutdown
<1>9. RepliesOwed'
  <2>1. ASSUME NEW k \in Clients
        PROVE  k \in sReplyPorts' <=> (\E u \in Vols : k \in Queued(u)') \/ k = sRebootWaiter'
    <3>1. k \in sReplyPorts <=> (\E u \in Vols : k \in Queued(u)) \/ k = sRebootWaiter
      BY <1>2 DEF RepliesOwed
    <3> QED
      BY <1>3, <1>5, <1>6, <3>1, Facts
  <2> QED
    BY <1>2, <1>3, <2>1 DEF RepliesOwed
<1>10. Told'
  <2>1. \A k \in dead' : reply'[k] = "none" /\ portInfo'[k] # "none"
    BY <1>2, <1>4, Facts DEF Told
  <2>2. ASSUME NEW v \in Vols
        PROVE  /\ holder'[v] \notin dead' \cup {NoPort} =>
                    reply'[holder'[v]] = "OK" /\ target'[holder'[v]] = v
               /\ \A k \in Queued(v)' \ dead' : reply'[k] = "blocked" /\ target'[k] = v
    BY <1>1, <1>2, <1>5, <1>6 DEF Told
  <2>3. ASSUME NEW k \in Helpers \ dead'
        PROVE  /\ reply'[k] = "OK" => portInfo'[k] = "freed" \/ holder'[target'[k]] = k
               /\ portInfo'[k] = "freed" => reply'[k] = "OK" /\ target'[k] # Root
    BY <1>1, <1>2, <1>3, <1>4, Facts DEF Told
  <2> QED
    BY <2>1, <2>2, <2>3 DEF Told
<1>11. OwnersDue' /\ Proper(sFsysWatchDict)'
  BY <1>1, <1>2 DEF OwnersDue, Proper, Within
<1>12. LocksStep
  <2>1. CASE sRebootLock = c
    <3>1. Locks!Resume
      BY <1>1, <2>1, Mapped DEF Locks!Resume, holder, queue, HolderIn, QueueIn, Watched, LockOf
    <3> QED
      BY <3>1 DEF LocksStep, Locks!Next
  <2>2. CASE sRebootLock # c
    BY <1>1, <2>2, Mapped DEF LocksStep
  <2> QED
    BY <2>1, <2>2
<1>13. RootKeptStep /\ Served
  BY <1>1, NothingHandedOn, Facts DEF FullInv
<1> QED
  BY <1>7, <1>8, <1>9, <1>10, <1>11, <1>12, <1>13 DEF Right, PortInv

(***************************************************************************)
(* Handing a lock on: the i-th waiter gets it, those in front being dead.  *)
(***************************************************************************)
NextIn(q, i) == IF i \in DOMAIN q THEN q[i] ELSE NoPort
RestOf(q, i) == SubSeq(q, i + 1, Len(q))
FirstOf(q, i) == /\ i \in 1..(Len(q) + 1)
                 /\ \A j \in 1..(i - 1) : q[j] \in dead
                 /\ i \in DOMAIN q => q[i] \notin dead

LEMMA Popped ==
    ASSUME NEW q \in Seq(Helpers), Distinct(q), NEW i, FirstOf(q, i)
    PROVE  /\ RestOf(q, i) \in Seq(Helpers) /\ Distinct(RestOf(q, i))
           /\ ToSet(RestOf(q, i)) \subseteq ToSet(q)
           /\ NextIn(q, i) \notin ToSet(RestOf(q, i))
           /\ NextIn(q, i) \in (ToSet(q) \ dead) \cup {NoPort}
           /\ (ToSet(q) \ ToSet(RestOf(q, i))) \ {NextIn(q, i)} \subseteq dead
<1>1. /\ Len(q) \in Nat /\ DOMAIN q = 1..Len(q) /\ ToSet(q) \subseteq Helpers
      /\ \A x : x \in ToSet(q) <=> \E j \in 1..Len(q) : q[j] = x
  BY Members
<1>2. NoPort \notin Helpers
  BY WatchVolAssumption DEF Clients
<1>3. CASE i \in 1..Len(q)
  <2>1. NextIn(q, i) = q[i] /\ q[i] \in ToSet(q) /\ q[i] \notin dead
    BY <1>1, <1>3 DEF NextIn, FirstOf
  <2>2. /\ RestOf(q, i) \in Seq(Helpers) /\ Distinct(RestOf(q, i))
        /\ ToSet(RestOf(q, i)) \subseteq ToSet(q) /\ q[i] \notin ToSet(RestOf(q, i))
        /\ \A x \in ToSet(q) \ ToSet(RestOf(q, i)) : \E j \in 1..i : x = q[j]
    BY <1>3, RestMembers DEF RestOf
  <2>3. ASSUME NEW x \in (ToSet(q) \ ToSet(RestOf(q, i))) \ {q[i]}
        PROVE  x \in dead
    <3>1. PICK j \in 1..i : x = q[j]
      BY <2>2, <2>3
    <3>2. j \in 1..(i - 1)
      BY <1>1, <1>3, <2>3, <3>1
    <3> QED
      BY <3>1, <3>2 DEF FirstOf
  <2> QED
    BY <2>1, <2>2, <2>3
<1>4. CASE i \notin 1..Len(q)
  <2>1. i = Len(q) + 1
    BY <1>1, <1>4 DEF FirstOf
  <2>2. RestOf(q, i) = <<>>
    <3>1. SubSeq(q, i + 1, Len(q)) \in Seq(Helpers) /\ Len(SubSeq(q, i + 1, Len(q))) = 0
      BY <1>1, <2>1, SubSeqProperties
    <3> QED
      BY <3>1, EmptySeq DEF RestOf
  <2>3. ToSet(<<>>) = {} /\ Distinct(<<>>) /\ <<>> \in Seq(Helpers)
    BY EmptySeq DEF ToSet, Distinct
  <2>4. \A x \in ToSet(q) : x \in dead
    BY <1>1, <2>1 DEF FirstOf
  <2>5. NextIn(q, i) = NoPort
    BY <1>1, <1>4 DEF NextIn
  <2> QED
    BY <2>2, <2>3, <2>4, <2>5
<1> QED
  BY <1>3, <1>4

\* What handleWatchedHandoff does with a watchedVol.
LEMMA HandoffPops ==
    ASSUME NEW w \in WatchedVol
    PROVE  \E i : /\ FirstOf(w.waiters, i)
                  /\ Handoff(w) = [w EXCEPT !.lock = NextIn(w.waiters, i),
                                            !.waiters = RestOf(w.waiters, i)]
<1>1. /\ w.waiters \in Seq(Clients) /\ Len(w.waiters) \in Nat
      /\ DOMAIN w.waiters = 1..Len(w.waiters)
      /\ \A x : x \in ToSet(w.waiters) <=> \E j \in 1..Len(w.waiters) : w.waiters[j] = x
  BY Members DEF WatchedVol
<1>2. CASE AllDead(w)
  <2> DEFINE i == Len(w.waiters) + 1
  <2>1. FirstOf(w.waiters, i)
    BY <1>1, <1>2 DEF FirstOf, AllDead, WaiterSet
  <2>2. NextIn(w.waiters, i) = NoPort
    BY <1>1 DEF NextIn
  <2>3. RestOf(w.waiters, i) = <<>>
    <3>1. SubSeq(w.waiters, i + 1, Len(w.waiters)) \in Seq(Clients)
          /\ Len(SubSeq(w.waiters, i + 1, Len(w.waiters))) = 0
      BY <1>1, SubSeqProperties
    <3> QED
      BY <3>1, EmptySeq DEF RestOf
  <2>4. Handoff(w) = [w EXCEPT !.lock = NoPort, !.waiters = <<>>]
    BY <1>2 DEF Handoff
  <2> QED
    BY <2>1, <2>2, <2>3, <2>4
<1>3. CASE ~AllDead(w)
  <2> DEFINE i == FirstLive(w)
  <2>1. i \in 1..Len(w.waiters) /\ w.waiters[i] \notin dead
        /\ \A j \in 1..(i - 1) : w.waiters[j] \in dead
    BY <1>3, FirstLiveExists
  <2>2. Handoff(w) = [w EXCEPT !.lock = w.waiters[i],
                               !.waiters = SubSeq(w.waiters, i + 1, Len(w.waiters))]
    BY <1>3 DEF Handoff
  <2> HIDE DEF i
  <2>3. FirstOf(w.waiters, i) /\ NextIn(w.waiters, i) = w.waiters[i]
    BY <1>1, <2>1 DEF FirstOf, NextIn
  <2> QED
    BY <2>2, <2>3 DEF RestOf
<1> QED
  BY <1>2, <1>3

\* c, v's holder, has unlocked or is dead: the lock is handed on to h, leaving
\* the queue r; the ports in gone are dropped, the clients told get an answer,
\* and the shutdown that waits is let through if nothing is held any more: free.
HandedOn(c, v, i, h, r, gone, told, free, ok) ==
    /\ FirstOf(queue[v], i)
    /\ h = NextIn(queue[v], i) /\ r = RestOf(queue[v], i)
    /\ gone = ({c} \cup (Queued(v) \ ToSet(r))) \ {NoPort, h}
    /\ told = {h} \cup (IF free THEN {sRebootWaiter} ELSE {})
    /\ holder' = [holder EXCEPT ![v] = h]
    /\ queue' = [queue EXCEPT ![v] = r]
    /\ owed' = [owed EXCEPT ![v] = FALSE]
    /\ Watched' = Watched /\ Proper(sFsysWatchDict)'
    /\ free => sRebootWaiter # NoPort /\ \A u \in Vols : holder'[u] = NoPort
    /\ sRebootLock' = IF free /\ sRebootWaiter \notin dead THEN sRebootWaiter
                                                           ELSE sRebootLock
    /\ sRebootWaiter' = IF free THEN NoPort ELSE sRebootWaiter
    /\ sReplyPorts' = sReplyPorts \ (gone \cup told)
    /\ portInfo' = [k \in Clients |-> IF k \in gone THEN "none" ELSE portInfo[k]]
    /\ dead' = dead \ gone
    /\ \A k \in Clients : reply'[k] = IF k = c THEN "none"
                                       ELSE IF k \in told \ dead THEN "OK" ELSE reply[k]
    /\ target' = target
    /\ ownersIgnored' = [ownersIgnored EXCEPT ![v] = IF owed[v] /\ ok THEN TRUE ELSE @]

LEMMA HandedOnRight ==
    ASSUME FullInv, NEW c \in Helpers, NEW v \in Watched, holder[v] = c,
           sRebootLock = NoPort, NEW i, NEW ok \in MountOutcomes, NEW free \in BOOLEAN,
           NEW h, NEW r, NEW gone, NEW told,
           HandedOn(c, v, i, h, r, gone, told, free, ok)
    PROVE  Right
<1> USE DEF HandedOn
<1> DEFINE W == Queued(v)
           R == ToSet(r)
<1>1. OnePlace /\ Shutdown /\ RepliesOwed /\ Told /\ OwnersDue
  BY DEF FullInv, PortInv
<1>2. v \in Vols /\ c \in Clients /\ c # NoPort /\ W \subseteq Helpers /\ Helpers \subseteq Clients
      /\ NoPort \notin Helpers
  BY Facts
<1>3. /\ r \in Seq(Helpers) /\ Distinct(r)
      /\ R \subseteq W /\ h \notin R
      /\ h \in (W \ dead) \cup {NoPort}
      /\ (W \ R) \ {h} \subseteq dead
  <2>1. queue[v] \in Seq(Helpers) /\ Distinct(queue[v])
    BY <1>1, <1>2 DEF OnePlace
  <2> QED
    BY <2>1, Popped DEF Queued
<1>4. c \notin W
  BY <1>1, <1>2 DEF OnePlace
<1>5. \A u \in Vols : /\ holder'[u] = IF u = v THEN h ELSE holder[u]
                      /\ queue'[u] = IF u = v THEN r ELSE queue[u]
  BY <1>1 DEF OnePlace
<1>6. \A u \in Vols : Queued(u)' = IF u = v THEN R ELSE Queued(u)
  <2>1. \A u \in Vols : Queued(u)' = ToSet(queue'[u]) /\ Queued(u) = ToSet(queue[u])
    BY DEF Queued
  <2> QED
    BY <1>5, <2>1
<1>7. \A k : k \in gone <=> k = c \/ (k \in W /\ k \notin R /\ k # h)
  BY <1>2, <1>3, <1>4
<1>8. \A k \in Clients : portInfo[k] = v <=> k = c \/ k \in W
  BY <1>1, <1>2 DEF OnePlace
<1>9. \A k \in Clients : portInfo'[k] = IF k \in gone THEN "none" ELSE portInfo[k]
  OBVIOUS
<1>10. gone \subseteq Helpers /\ (\A k \in gone : k = c \/ k \in dead)
  BY <1>2, <1>3, <1>7
<1>11. sRebootWaiter \in Rebooters \cup {NoPort} /\ sRebootWaiter \notin Helpers
  BY <1>1, <1>2, Facts DEF Shutdown
<1>12. \A k \in Helpers : k \in told => k = h
  BY <1>11
<1> HIDE DEF W, R
<1>13. OnePlace'
  <2>1. holder' \in [Vols -> Helpers \cup {NoPort}]
    BY <1>1, <1>2, <1>3 DEF OnePlace
  <2>2. queue' \in [Vols -> Seq(Helpers)]
    BY <1>1, <1>3 DEF OnePlace
  <2>3. ASSUME NEW u \in Vols PROVE Distinct(queue'[u]) /\ holder'[u] \notin Queued(u)'
    <3>1. Distinct(queue[u]) /\ holder[u] \notin Queued(u)
      BY <1>1 DEF OnePlace
    <3> QED
      BY <1>3, <1>5, <1>6, <3>1
  <2>4. ASSUME NEW k \in Clients, NEW u \in Vols
        PROVE  portInfo'[k] = u <=> k = holder'[u] \/ k \in Queued(u)'
    <3>1. portInfo[k] = u <=> k = holder[u] \/ k \in Queued(u)
      BY <1>1 DEF OnePlace
    <3>2. CASE u = v
      <4>1. portInfo'[k] = v <=> (k = c \/ k \in W) /\ k \notin gone
        BY <1>2, <1>8, <1>9, Facts
      <4>2. k # NoPort
        BY Facts
      <4> QED
        BY <1>3, <1>4, <1>5, <1>6, <1>7, <3>2, <4>1, <4>2
    <3>3. CASE u # v
      <4>1. portInfo[k] = u => k \notin gone
        BY <1>7, <1>8, <3>3
      <4>2. portInfo'[k] = u <=> portInfo[k] = u
        BY <1>9, <4>1, Facts
      <4> QED
        BY <1>5, <1>6, <3>1, <3>3, <4>2
    <3> QED
      BY <3>2, <3>3
  <2>5. \A k \in Rebooters : portInfo'[k] # "freed"
    BY <1>1, <1>9, Facts DEF OnePlace
  <2> QED
    BY <2>1, <2>2, <2>3, <2>4, <2>5 DEF OnePlace
<1>14. Shutdown'
  <2>1. /\ sRebootLock' \in Rebooters \cup {NoPort}
        /\ sRebootWaiter' \in Rebooters \cup {NoPort}
    BY <1>11
  <2>2. ASSUME NEW k \in Clients
        PROVE  /\ portInfo'[k] = "reboot" => k \in Rebooters
                                             /\ k \in {sRebootLock', sRebootWaiter'} \cup dead'
               /\ k \in {sRebootLock', sRebootWaiter'} => portInfo'[k] = "reboot"
    <3>1. /\ portInfo[k] = "reboot" => k \in Rebooters
                                       /\ k \in {sRebootLock, sRebootWaiter} \cup dead
          /\ k \in {sRebootLock, sRebootWaiter} => portInfo[k] = "reboot"
          /\ k # NoPort
      BY <1>1, Facts DEF Shutdown
    <3>2. k \in Rebooters => k \notin gone
      BY <1>10, Facts
    <3>3. portInfo'[k] = "reboot" <=> portInfo[k] = "reboot"
      BY <1>9, <3>1, <3>2
    <3> QED
      BY <3>1, <3>2, <3>3
  <2> QED
    BY <2>1, <2>2 DEF Shutdown
<1>15. RepliesOwed'
  <2>1. ASSUME NEW k \in Clients
        PROVE  k \in sReplyPorts' <=> (\E u \in Vols : k \in Queued(u)') \/ k = sRebootWaiter'
    <3>1. k \in sReplyPorts <=> (\E u \in Vols : k \in Queued(u)) \/ k = sRebootWaiter
      BY <1>1 DEF RepliesOwed
    <3>2. CASE k = sRebootWaiter
      <4>1. k \notin Helpers /\ k # NoPort
        BY <1>11, <3>2, Facts
      <4>2. \A u \in Vols : k \notin Queued(u) /\ k \notin Queued(u)'
        <5>1. \A u \in Vols : Queued(u) \subseteq Helpers
          BY Facts
        <5> QED
          BY <1>3, <1>6, <4>1, <5>1 DEF W
      <4>3. k # h /\ k \notin gone
        BY <1>2, <1>3, <1>10, <4>1
      <4> QED
        BY <3>1, <3>2, <4>1, <4>2, <4>3
    <3>3. CASE k # sRebootWaiter /\ k \notin W
      <4>1. k \in gone => k = c
        BY <1>7, <3>3
      <4>2. \A u \in Vols : c \notin Queued(u)
        BY <1>1, <1>2, <1>4, <1>8 DEF OnePlace, W
      <4>3. (\E u \in Vols : k \in Queued(u)') <=> (\E u \in Vols : k \in Queued(u))
        BY <1>3, <1>6, <3>3 DEF W
      <4>4. k # h /\ k # sRebootWaiter'
        BY <1>3, <3>3, Facts
      <4> QED
        BY <3>1, <3>3, <4>1, <4>2, <4>3, <4>4
    <3>4. CASE k \in W
      <4>1. k \in sReplyPorts /\ k # c /\ k \in Helpers
        BY <1>2, <1>4, <3>1, <3>4 DEF W
      <4>2. \A u \in Vols : k \in Queued(u) => u = v
        BY <1>1, <1>8, <3>4 DEF OnePlace
      <4>3. (\E u \in Vols : k \in Queued(u)') <=> k \in R
        BY <1>2, <1>6, <4>2
      <4>4. k \in told <=> k = h
        BY <1>12, <4>1
      <4>5. k # sRebootWaiter'
        BY <1>2, <1>11, <4>1
      <4> QED
        BY <1>3, <1>7, <3>4, <4>1, <4>3, <4>4, <4>5
    <3> QED
      BY <3>2, <3>3, <3>4
  <2>2. ASSUME NEW k \in Clients, reply'[k] = "blocked" PROVE k \in sReplyPorts'
    <3>1. k # c /\ k \notin told \ dead /\ reply[k] = "blocked"
      BY <2>2
    <3>2. k \in sReplyPorts /\ k \notin dead
      BY <1>1, <3>1 DEF RepliesOwed, Told
    <3> QED
      BY <1>10, <3>1, <3>2
  <2> QED
    BY <2>1, <2>2 DEF RepliesOwed
<1>16. Told'
  <2>1. \A k \in dead' : reply'[k] = "none" /\ portInfo'[k] # "none"
    BY <1>1, <1>9, Facts DEF Told
  <2>2. ASSUME NEW u \in Vols
        PROVE  /\ holder'[u] \notin dead' \cup {NoPort} =>
                    reply'[holder'[u]] = "OK" /\ target'[holder'[u]] = u
               /\ \A k \in Queued(u)' \ dead' : reply'[k] = "blocked" /\ target'[k] = u
    <3>1. /\ holder[u] \notin dead \cup {NoPort} =>
                reply[holder[u]] = "OK" /\ target[holder[u]] = u
          /\ \A k \in Queued(u) \ dead : reply[k] = "blocked" /\ target[k] = u
      BY <1>1 DEF Told
    <3>2. holder[u] \in Helpers \cup {NoPort} /\ Queued(u) \subseteq Helpers
      BY <1>1, Facts DEF OnePlace
    <3>3. CASE u = v
      <4>1. h # NoPort => h \in Clients \ dead /\ h # c /\ target[h] = v /\ reply'[h] = "OK"
        BY <1>2, <1>3, <1>4, <3>1, <3>3 DEF W
      <4>2. ASSUME NEW k \in R \ dead' PROVE reply'[k] = "blocked" /\ target'[k] = v
        <5>1. k \in W /\ k # c /\ k # h /\ k \in Helpers /\ k \in Clients
          BY <1>2, <1>3, <1>4
        <5>2. k \notin dead
          BY <1>7, <4>2, <5>1
        <5>3. k \notin told
          BY <1>12, <5>1
        <5> QED
          BY <3>1, <3>3, <5>1, <5>2, <5>3 DEF W
      <4> QED
        BY <1>5, <1>6, <3>3, <4>1, <4>2
    <3>4. CASE u # v
      <4>1. \A k \in Clients : k = holder[u] \/ k \in Queued(u) => k # c /\ k \notin gone /\ k # h
        <5>1. \A k \in Clients : portInfo[k] = u <=> k = holder[u] \/ k \in Queued(u)
          BY <1>1 DEF OnePlace
        <5>2. \A k \in Clients : k = h => k \in W
          BY <1>3, Facts
        <5> QED
          BY <1>7, <1>8, <3>4, <5>1, <5>2
      <4>2. ASSUME NEW k \in Helpers, k = holder[u] \/ k \in Queued(u)
            PROVE  /\ k \notin dead' => k \notin dead
                   /\ reply'[k] = reply[k]
        BY <1>2, <1>12, <4>1, <4>2
      <4> QED
        BY <1>5, <1>6, <3>1, <3>2, <3>4, <4>2
    <3> QED
      BY <3>3, <3>4
  <2>3. ASSUME NEW k \in Helpers \ dead'
        PROVE  /\ reply'[k] = "OK" => portInfo'[k] = "freed" \/ holder'[target'[k]] = k
               /\ portInfo'[k] = "freed" => reply'[k] = "OK" /\ target'[k] # Root
    <3>1. k \in Clients /\ target[k] \in Vols /\ k # NoPort
      BY Facts
    <3>2. CASE k \in gone
      <4>1. k # c => k \in dead
        BY <1>10, <3>2
      <4>2. reply'[k] = "none"
        BY <1>1, <3>1, <4>1 DEF Told
      <4> QED
        BY <1>9, <3>1, <3>2, <4>2
    <3>3. CASE k = h
      <4>1. k \in W /\ k \notin dead /\ target[k] = v
        BY <1>1, <1>2, <1>3, <3>1, <3>3 DEF Told, W
      <4>2. portInfo[k] = v
        BY <1>8, <3>1, <4>1
      <4>3. k \notin gone /\ k # c
        BY <1>4, <1>7, <3>3, <4>1
      <4>4. reply'[k] = "OK" /\ portInfo'[k] = v
        BY <1>9, <3>1, <3>3, <4>1, <4>2, <4>3
      <4> QED
        BY <1>2, <1>5, <3>3, <4>1, <4>4, Facts
    <3>4. CASE k \notin gone /\ k # h
      <4>1. k \notin dead /\ k # c
        BY <1>7, <3>4
      <4>2. reply'[k] = reply[k] /\ portInfo'[k] = portInfo[k]
        BY <1>9, <1>12, <3>1, <3>4, <4>1
      <4>3. /\ reply[k] = "OK" => portInfo[k] = "freed" \/ holder[target[k]] = k
            /\ portInfo[k] = "freed" => reply[k] = "OK" /\ target[k] # Root
        BY <1>1, <4>1 DEF Told
      <4> QED
        BY <1>5, <3>1, <4>1, <4>2, <4>3
    <3> QED
      BY <3>2, <3>3, <3>4
  <2> QED
    BY <2>1, <2>2, <2>3 DEF Told
<1>17. OwnersDue'
  <2>1. ASSUME MountOutcomes = {TRUE}
        PROVE  /\ Root \in NoOwnersVols <=> ownersIgnored'[Root] \/ owed'[Root]
               /\ owed'[Root] => holder'[Root] # NoPort
    <3>1. ok = TRUE
      BY <2>1
    <3>2. /\ Root \in NoOwnersVols <=> ownersIgnored[Root] \/ owed[Root]
          /\ owed[Root] => holder[Root] # NoPort
      BY <1>1, <2>1 DEF OwnersDue
    <3>3. CASE v = Root
      BY <1>2, <3>1, <3>2, <3>3, Facts
    <3>4. CASE v # Root
      BY <1>2, <1>5, <3>2, <3>4, Facts
    <3> QED
      BY <3>3, <3>4
  <2> QED
    BY <2>1 DEF OwnersDue
<1>18. LocksStep
  <2>1. /\ holder[v] # NoPort
        /\ holder' = [holder EXCEPT ![v] = IF i \in DOMAIN queue[v] THEN queue[v][i] ELSE NoPort]
        /\ queue' = [queue EXCEPT ![v] = SubSeq(@, i + 1, Len(@))]
    BY <1>2 DEF NextIn, RestOf
  <2>2. \/ sRebootLock' = sRebootLock
        \/ /\ sRebootLock = NoPort
           /\ \A u \in Vols : holder'[u] = NoPort
           /\ sRebootLock' \in Rebooters
    BY <1>11
  <2>3. Locks!PassOn(v, i)
    BY <2>1, <2>2 DEF Locks!PassOn, Locks!AllFree, holder, queue, HolderIn, QueueIn,
       Watched, LockOf
  <2>4. i \in 1..(Len(queue[v]) + 1)
    BY DEF FirstOf
  <2> QED
    BY <1>2, <2>3, <2>4 DEF LocksStep, Locks!Next, queue, QueueIn, Watched
<1>19. RootKeptStep
  <2>1. CASE v = Root
    <3>1. LockOf(Root) = c
      BY <1>2, <2>1, Seen DEF FullInv
    <3>2. c \in dead \/ (reply[c] = "OK" /\ reply'[c] = "none")
      BY <1>1, <1>2 DEF Told
    <3> QED
      BY <2>1, <3>1, <3>2 DEF RootKeptStep
  <2>2. CASE v # Root
    <3>1. holder'[Root] = holder[Root] /\ Root \in Vols
      BY <1>5, <2>2, Facts
    <3>2. Root \in Watched => holder[Root] = LockOf(Root) /\ holder'[Root] = LockOf(Root)'
      BY <3>1, Seen DEF FullInv
    <3> QED
      BY <3>1, <3>2 DEF RootKeptStep
  <2> QED
    BY <2>1, <2>2
<1>20. Served
  <2>1. SUFFICES ASSUME NEW u \in Watched, NEW k \in Clients, HandedTo(u, k)
                 PROVE  LET q == sFsysWatchDict[u].waiters IN
                        \E j \in DOMAIN q : q[j] = k /\ \A m \in 1..(j - 1) : q[m] \in dead
    BY DEF Served
  <2>2. u \in Vols /\ holder[u] = LockOf(u) /\ holder'[u] = LockOf(u)'
        /\ queue[u] = sFsysWatchDict[u].waiters
    BY <2>1, Seen, Facts DEF FullInv
  <2>3. u = v /\ k = h /\ k # NoPort
    BY <1>5, <2>1, <2>2, Facts DEF HandedTo
  <2>4. i \in DOMAIN queue[v] /\ queue[v][i] = h
    BY <2>3 DEF NextIn
  <2> QED
    BY <2>2, <2>3, <2>4 DEF FirstOf
<1> QED
  BY <1>13, <1>14, <1>15, <1>16, <1>17, <1>18, <1>19, <1>20 DEF Right, PortInv

(***************************************************************************)
(* Every action is of one of those kinds.                                  *)
(***************************************************************************)
LEMMA ProperNow ==
    ASSUME NEW e, Proper(e), sFsysWatchDict' = e
    PROVE  Proper(sFsysWatchDict)'
  BY DEF Proper, Within

LEMMA SameAsIs ==
    ASSUME FullInv, sFsysWatchDict' = sFsysWatchDict
    PROVE  SameLocks(sFsysWatchDict, sFsysWatchDict') /\ Proper(sFsysWatchDict)'
  BY ProperNow DEF FullInv, PortInv, SameLocks

\* To replace an entry is to put it.
LEMMA ExceptIsPut ==
    ASSUME NEW d, GoodDict(d), NEW v \in DOMAIN d, NEW w
    PROVE  [d EXCEPT ![v] = w] = Put(d, v, w)
<1>1. d \in [DOMAIN d -> WatchedVol] /\ DOMAIN d \cup {v} = DOMAIN d
  BY DEF GoodDict
<1>2. [d EXCEPT ![v] = w] = [u \in DOMAIN d |-> IF u = v THEN w ELSE d[u]]
  BY <1>1
<1> QED
  BY <1>1, <1>2 DEF Put

\* What FullInv says of a watched volume's entry.
LEMMA EntryFacts ==
    ASSUME FullInv, NEW v \in Watched
    PROVE  /\ v \in Vols \ UnwatchableVols
           /\ sFsysWatchDict[v] \in WatchedVol /\ Within(sFsysWatchDict[v])
           /\ v \in DOMAIN sFsysWatchDict
           /\ stale[v] \in SUBSET CacheKinds /\ hasBoots[v] \in BOOLEAN
           /\ sFsysWatchDict[v].lock = NoPort => sFsysWatchDict[v].waiters = <<>>
           /\ holder[v] = sFsysWatchDict[v].lock
           /\ queue[v] = sFsysWatchDict[v].waiters
           /\ owed[v] = sFsysWatchDict[v].origMntFlags
<1>1. v \in Vols
  BY Facts
<1>2. stale \in [Vols -> SUBSET CacheKinds] /\ hasBoots \in [Vols -> BOOLEAN]
  BY DEF FullInv, IInv, TypeOK, VolumeTypeOK
<1> QED
  BY <1>1, <1>2, Seen DEF FullInv, PortInv, IInv, LockInv, GoodDict, Proper, Watched, LockOf

\* A watched volume is checked: its entry is replaced by an alike one.
LEMMA PutRight ==
    ASSUME FullInv, NEW v \in Watched, NEW w \in WatchedVol, Alike(w, sFsysWatchDict[v]),
           sFsysWatchDict' = Put(sFsysWatchDict, v, w),
           UNCHANGED <<clients, sRebootLock, sRebootWaiter, ownersIgnored>>
    PROVE  Right
<1>1. GoodDict(sFsysWatchDict) /\ Proper(sFsysWatchDict) /\ v \in DOMAIN sFsysWatchDict
      /\ v \in Vols \ UnwatchableVols
  BY EntryFacts, Facts DEF FullInv, PortInv
<1>2. SameLocks(sFsysWatchDict, Put(sFsysWatchDict, v, w)) /\ Proper(Put(sFsysWatchDict, v, w))
  BY <1>1, PutSame
<1>3. Proper(sFsysWatchDict)'
  BY <1>2, ProperNow
<1> QED
  BY <1>2, <1>3, SameRight

\* The volume that vol_appeared adds is a fresh one.
LEMMA VolAppearedSame ==
    ASSUME TypeOK, NEW d, GoodDict(d), Proper(d), NEW v \in Vols, v \notin DOMAIN d,
           NEW st \in SUBSET CacheKinds, NEW o \in Outcome, VolAppeared(d, v, st, o)
    PROVE  SameLocks(d, sFsysWatchDict') /\ Proper(sFsysWatchDict)'
<1> DEFINE w == Appear(v, st, o).w
<1>1. Fresh(w) /\ w \in WatchedVol
  BY AppearFresh DEF Fresh
<1>2. sFsysWatchDict' = d \/ (v \notin UnwatchableVols /\ sFsysWatchDict' = Put(d, v, w))
  BY DEF VolAppeared
<1> HIDE DEF w
<1>3. CASE sFsysWatchDict' = d
  BY <1>3, ProperNow DEF SameLocks
<1>4. CASE v \notin UnwatchableVols /\ sFsysWatchDict' = Put(d, v, w)
  <2>1. SameLocks(d, Put(d, v, w)) /\ Proper(Put(d, v, w))
    BY <1>1, <1>4, PutSame
  <2> QED
    BY <1>4, <2>1, ProperNow
<1> QED
  BY <1>2, <1>3, <1>4

LEMMA ReappearRight ==
    ASSUME FullInv, NEW v \in Vols, NEW st \in SUBSET CacheKinds, NEW o \in Outcomes,
           Reappear(v, st, o),
           UNCHANGED <<target, sRebootLock, sRebootWaiter, ownersIgnored>>
    PROVE  Right
<1>1. CASE v = Root /\ v \in Watched
  <2>1. UNCHANGED <<sFsysWatchDict, clients>>
    BY <1>1 DEF Reappear, clients
  <2> QED
    BY <2>1, SameAsIs, SameRight
<1>2. CASE ~(v = Root /\ v \in Watched)
  <2> DEFINE d == Restrict(sFsysWatchDict, DOMAIN sFsysWatchDict \ {v})
  <2>1. StopWatching(v) /\ VolAppeared(d, v, st, o)
    BY <1>2 DEF Reappear, Watched
  <2>2. GoodDict(sFsysWatchDict) /\ Proper(sFsysWatchDict) /\ TypeOK /\ o \in Outcome
    BY Facts, OutcomesType DEF FullInv, PortInv, IInv
  <2>3. /\ GoodDict(d) /\ Proper(d) /\ DOMAIN d = DOMAIN sFsysWatchDict \ {v}
        /\ HolderIn(d) = [holder EXCEPT ![v] = NoPort]
        /\ QueueIn(d) = [queue EXCEPT ![v] = <<>>]
        /\ OwedIn(d) = [owed EXCEPT ![v] = FALSE]
    BY <2>2, DropSees DEF holder, queue, owed
  <2> HIDE DEF d
  <2>4. SameLocks(d, sFsysWatchDict') /\ Proper(sFsysWatchDict)'
    BY <2>1, <2>2, <2>3, VolAppearedSame
  <2>5. /\ holder' = [holder EXCEPT ![v] = NoPort]
        /\ queue' = [queue EXCEPT ![v] = <<>>]
        /\ owed' = [owed EXCEPT ![v] = FALSE]
        /\ Watched \ {v} \subseteq Watched'
    <3>1. /\ holder' = HolderIn(sFsysWatchDict') /\ queue' = QueueIn(sFsysWatchDict')
          /\ owed' = OwedIn(sFsysWatchDict')
      BY DEF holder, queue, owed, HolderIn, QueueIn, OwedIn
    <3> QED
      BY <2>3, <2>4, <3>1 DEF SameLocks, Watched
  <2> QED
    BY <1>2, <2>1, <2>4, <2>5, ForgetRight
<1> QED
  BY <1>1, <1>2

LEMMA VolDisappearedRight ==
    ASSUME FullInv, NEW v \in Vols, vol_disappeared(v)
    PROVE  Right
<1>1. UNCHANGED <<target, sRebootLock, sRebootWaiter, ownersIgnored>>
  BY DEF vol_disappeared, reboot
<1>2. CASE v = Root
  <2>1. UNCHANGED <<sFsysWatchDict, clients>>
    BY <1>1, <1>2 DEF vol_disappeared, clients
  <2> QED
    BY <1>1, <2>1, SameAsIs, SameRight
<1>3. CASE v # Root
  <2> DEFINE d == Restrict(sFsysWatchDict, DOMAIN sFsysWatchDict \ {v})
  <2>1. StopWatching(v) /\ sFsysWatchDict' = d
    BY <1>3 DEF vol_disappeared, Watched
  <2>2. GoodDict(sFsysWatchDict) /\ Proper(sFsysWatchDict)
    BY Facts DEF FullInv, PortInv
  <2>3. /\ Proper(d) /\ DOMAIN d = DOMAIN sFsysWatchDict \ {v}
        /\ HolderIn(d) = [holder EXCEPT ![v] = NoPort]
        /\ QueueIn(d) = [queue EXCEPT ![v] = <<>>]
        /\ OwedIn(d) = [owed EXCEPT ![v] = FALSE]
    BY <2>2, DropSees DEF holder, queue, owed
  <2> HIDE DEF d
  <2>4. /\ holder' = HolderIn(sFsysWatchDict') /\ queue' = QueueIn(sFsysWatchDict')
        /\ owed' = OwedIn(sFsysWatchDict')
    BY DEF holder, queue, owed, HolderIn, QueueIn, OwedIn
  <2>5. Proper(sFsysWatchDict)' /\ Watched \ {v} \subseteq Watched'
    BY <2>1, <2>3, ProperNow DEF Watched
  <2> QED
    BY <1>1, <1>3, <2>1, <2>3, <2>4, <2>5, ForgetRight
<1> QED
  BY <1>2, <1>3

LEMMA VolChangedRight ==
    ASSUME FullInv, NEW v \in Vols, NEW key, vol_changed(v, key)
    PROVE  Right
<1>1. UNCHANGED <<target, sRebootLock, sRebootWaiter, ownersIgnored>>
  BY DEF vol_changed, reboot
<1>2. stale[v] \in SUBSET CacheKinds
  BY DEF FullInv, IInv, TypeOK, VolumeTypeOK
<1>3. CASE \E o \in Outcomes : Reappear(v, stale[v], o)
  BY <1>1, <1>2, <1>3, ReappearRight
<1>4. ASSUME v \in Watched, NEW ok \in ForkOutcomes,
             sFsysWatchDict' = Put(sFsysWatchDict, v,
                CheckBootsSetNvram(sFsysWatchDict[v], stale[v], hasBoots[v], ok).w),
             UNCHANGED <<sReplyPorts, portInfo, reply, dead>>
      PROVE  Right
  <2> DEFINE r == CheckBootsSetNvram(sFsysWatchDict[v], stale[v], hasBoots[v], ok)
  <2>1. ok \in BOOLEAN
    BY WatchVolAssumption
  <2>2. Checks(r, sFsysWatchDict[v])
    BY <1>4, <2>1, EntryFacts, CheckBootsChecks
  <2> HIDE DEF r
  <2>3. r.w \in WatchedVol /\ Alike(r.w, sFsysWatchDict[v])
    BY <2>2, ChecksAlike DEF Checks, KeepsLock, CheckResult
  <2>4. sFsysWatchDict' = Put(sFsysWatchDict, v, r.w)
    BY <1>4 DEF r
  <2>5. UNCHANGED clients
    BY <1>1, <1>4 DEF clients
  <2> QED
    BY <1>1, <1>4, <2>3, <2>4, <2>5, PutRight
<1> QED
  BY <1>3, <1>4 DEF vol_changed

LEMMA DiskBusyRight ==
    ASSUME FullInv, NEW v \in Vols, is_dadisk_busy(v)
    PROVE  Right
<1>1. UNCHANGED <<clients, sRebootLock, sRebootWaiter, ownersIgnored>>
  BY DEF is_dadisk_busy, reboot, clients, clientVars
<1>2. PICK o \in Outcomes \X Outcomes :
        LET a == IF v \in Watched THEN Unchecked(sFsysWatchDict[v], stale[v])
                                  ELSE Appear(v, stale[v], o[1])
            r == IF v \in UnwatchableVols THEN a
                   ELSE DissentUnmount(v, a.w, a.stale, o[2])
        IN  sFsysWatchDict' = IF v \in UnwatchableVols THEN sFsysWatchDict
                                ELSE Put(sFsysWatchDict, v, r.w)
  BY DEF is_dadisk_busy
<1>3. o[1] \in Outcome /\ o[2] \in Outcome /\ stale[v] \in SUBSET CacheKinds /\ TypeOK
      /\ GoodDict(sFsysWatchDict) /\ Proper(sFsysWatchDict)
  BY OutcomesType, Facts DEF FullInv, PortInv, IInv, TypeOK, VolumeTypeOK
<1>4. CASE v \in UnwatchableVols
  BY <1>1, <1>2, <1>4, SameAsIs, SameRight
<1>5. CASE v \notin UnwatchableVols
  <2> DEFINE a == IF v \in Watched THEN Unchecked(sFsysWatchDict[v], stale[v])
                                   ELSE Appear(v, stale[v], o[1])
             r == DissentUnmount(v, a.w, a.stale, o[2])
  <2>1. sFsysWatchDict' = Put(sFsysWatchDict, v, r.w)
    BY <1>2, <1>5
  <2>2. CASE v \in Watched
    <3>1. Checks(a, sFsysWatchDict[v])
      BY <2>2, EntryFacts, UncheckedChecks
    <3> HIDE DEF a
    <3>2. a.w \in WatchedVol /\ a.stale \in SUBSET CacheKinds
      BY <3>1 DEF Checks, KeepsLock, CheckResult
    <3>3. Checks(r, a.w)
      BY <1>3, <3>2, DissentChecks
    <3> HIDE DEF r
    <3>4. r.w \in WatchedVol /\ Alike(r.w, sFsysWatchDict[v])
      BY <3>1, <3>3 DEF Checks, KeepsLock, CheckResult, Alike
    <3> QED
      BY <1>1, <2>1, <2>2, <3>4, PutRight
  <2>3. CASE v \notin Watched
    <3>1. a \in CheckResult /\ Fresh(a.w)
      BY <1>3, <2>3, AppearFresh
    <3> HIDE DEF a
    <3>2. a.w \in WatchedVol /\ a.stale \in SUBSET CacheKinds
      BY <3>1 DEF CheckResult
    <3>3. Checks(r, a.w)
      BY <1>3, <3>2, DissentChecks
    <3> HIDE DEF r
    <3>4. r.w \in WatchedVol /\ Fresh(r.w)
      BY <3>1, <3>3 DEF Checks, KeepsLock, CheckResult, Fresh
    <3>5. SameLocks(sFsysWatchDict, Put(sFsysWatchDict, v, r.w))
          /\ Proper(Put(sFsysWatchDict, v, r.w))
      <4>1. v \notin DOMAIN sFsysWatchDict
        BY <2>3 DEF Watched
      <4> QED
        BY <1>3, <1>5, <3>4, <4>1, PutSame
    <3>6. Proper(sFsysWatchDict)'
      BY <2>1, <3>5, ProperNow
    <3> QED
      BY <1>1, <2>1, <3>5, <3>6, SameRight
  <2> QED
    BY <2>2, <2>3
<1> QED
  BY <1>4, <1>5

LEMMA CheckScheduleUpdateRight ==
    ASSUME FullInv, NEW v \in Watched, NEW st \in SUBSET CacheKinds,
           CheckScheduleUpdate(v, st),
           UNCHANGED <<target, sRebootLock, sRebootWaiter, ownersIgnored>>
    PROVE  Right
<1>1. CASE \E o \in Outcomes : Reappear(v, st, o)
  BY <1>1, EntryFacts, ReappearRight
<1>2. CASE /\ sFsysWatchDict' =
                IF IgnoreChange(v) \/ sAutoUpdateDelayer THEN sFsysWatchDict
                  ELSE [sFsysWatchDict EXCEPT ![v].delayer = TRUE]
           /\ UNCHANGED <<sReplyPorts, portInfo, reply, dead>>
  <2> DEFINE w == [sFsysWatchDict[v] EXCEPT !.delayer = TRUE]
  <2>1. UNCHANGED clients
    BY <1>2 DEF clients
  <2>2. w \in WatchedVol /\ Alike(w, sFsysWatchDict[v])
    BY EntryFacts DEF WatchedVol, Alike, Within
  <2>3. [sFsysWatchDict EXCEPT ![v].delayer = TRUE] = Put(sFsysWatchDict, v, w)
    BY EntryFacts, Facts, ExceptIsPut
  <2> HIDE DEF w
  <2>4. CASE sFsysWatchDict' = sFsysWatchDict
    BY <2>1, <2>4, SameAsIs, SameRight
  <2>5. CASE sFsysWatchDict' = Put(sFsysWatchDict, v, w)
    BY <2>1, <2>2, <2>5, PutRight
  <2> QED
    BY <1>2, <2>3, <2>4, <2>5
<1> QED
  BY <1>1, <1>2 DEF CheckScheduleUpdate

LEMMA FsysChangedRight ==
    ASSUME FullInv, NEW v \in Vols, fsys_changed(v)
    PROVE  Right
<1>1. v \in Watched /\ CheckScheduleUpdate(v, stale[v])
      /\ UNCHANGED <<target, sRebootLock, sRebootWaiter, ownersIgnored>>
  BY DEF fsys_changed, reboot
<1> QED
  BY <1>1, EntryFacts, CheckScheduleUpdateRight

LEMMA UpdateVolForMediaRight ==
    ASSUME FullInv, NEW v \in Vols, NEW inv, updateVolForMedia(v, inv)
    PROVE  Right
<1> DEFINE st == IF inv THEN stale[v] \cup {"boot"} ELSE stale[v]
<1>1. v \in Watched /\ CheckScheduleUpdate(v, st)
      /\ UNCHANGED <<target, sRebootLock, sRebootWaiter, ownersIgnored>>
  BY DEF updateVolForMedia, reboot
<1>2. st \in SUBSET CacheKinds
  BY <1>1, EntryFacts DEF CacheKinds
<1> QED
  BY <1>1, <1>2, CheckScheduleUpdateRight

LEMMA CheckNowRight ==
    ASSUME FullInv, NEW v \in Vols, check_now(v)
    PROVE  Right
<1>1. PICK o \in Outcomes :
        sFsysWatchDict' = Put(sFsysWatchDict, v,
                              CheckRebuild(sFsysWatchDict[v], stale[v], hasBoots[v], o).w)
  BY DEF check_now
<1> DEFINE r == CheckRebuild(sFsysWatchDict[v], stale[v], hasBoots[v], o)
<1>2. v \in Watched /\ UNCHANGED <<clients, sRebootLock, sRebootWaiter, ownersIgnored>>
  BY DEF check_now, reboot, clients, clientVars
<1>3. Checks(r, sFsysWatchDict[v])
  BY <1>2, EntryFacts, OutcomesType, CheckRebuildChecks
<1>4. sFsysWatchDict' = Put(sFsysWatchDict, v, r.w)
  BY <1>1
<1> HIDE DEF r
<1>5. r.w \in WatchedVol /\ Alike(r.w, sFsysWatchDict[v])
  BY <1>3, ChecksAlike DEF Checks, KeepsLock, CheckResult
<1> QED
  BY <1>2, <1>4, <1>5, PutRight

\* Checks of a whole dictionary.
LEMMA CheckAllAlike ==
    ASSUME TypeOK, NEW d, GoodDict(d), NEW s \in [Vols -> SUBSET CacheKinds],
           NEW o, \A v \in DOMAIN d : o[v] \in Outcome
    PROVE  /\ GoodResults(CheckAll(d, s, o)) /\ DOMAIN CheckAll(d, s, o) = DOMAIN d
           /\ \A v \in DOMAIN d : Alike(CheckAll(d, s, o)[v].w, d[v])
<1>1. ASSUME NEW v \in DOMAIN d PROVE Alike(CheckAll(d, s, o)[v].w, d[v])
  <2>1. d[v] \in WatchedVol /\ s[v] \in SUBSET CacheKinds /\ hasBoots[v] \in BOOLEAN
        /\ o[v] \in Outcome
    BY DEF GoodDict, TypeOK, VolumeTypeOK
  <2>2. CheckAll(d, s, o)[v] = CheckVolBusy(d[v], s[v], hasBoots[v], o[v])
    BY DEF CheckAll
  <2>3. Checks(CheckAll(d, s, o)[v], d[v])
    BY <2>1, <2>2, CheckVolBusyChecks
  <2> QED
    BY <2>3, ChecksAlike
<1> QED
  BY <1>1, CheckAllGood

LEMMA CheckAutoUpdateRight ==
    ASSUME FullInv, checkAutoUpdate
    PROVE  Right
<1>1. PICK o \in [Watched -> Outcomes] :
        sFsysWatchDict' = DictOf(CheckAll(sFsysWatchDict, stale, o))
  BY DEF checkAutoUpdate
<1>2. UNCHANGED <<clients, sRebootLock, sRebootWaiter, ownersIgnored>>
  BY DEF checkAutoUpdate, reboot, clients, clientVars
<1> DEFINE all == CheckAll(sFsysWatchDict, stale, o)
<1>3. TypeOK /\ GoodDict(sFsysWatchDict) /\ Proper(sFsysWatchDict)
      /\ stale \in [Vols -> SUBSET CacheKinds]
      /\ \A v \in DOMAIN sFsysWatchDict : o[v] \in Outcome
  BY OutcomesType, Facts DEF FullInv, PortInv, IInv, TypeOK, VolumeTypeOK, Watched
<1>4. /\ GoodResults(all) /\ DOMAIN all = DOMAIN sFsysWatchDict
      /\ \A v \in DOMAIN sFsysWatchDict : Alike(all[v].w, sFsysWatchDict[v])
  BY <1>3, CheckAllAlike
<1>5. sFsysWatchDict' = DictOf(all)
  BY <1>1
<1> HIDE DEF all
<1>6. SameLocks(sFsysWatchDict, DictOf(all)) /\ Proper(DictOf(all))
  BY <1>3, <1>4, DictOfSame
<1>7. Proper(sFsysWatchDict)'
  BY <1>5, <1>6, ProperNow
<1> QED
  BY <1>2, <1>5, <1>6, <1>7, SameRight

LEMMA FirstOfUnique ==
    ASSUME NEW q \in Seq(Clients), NEW i, FirstOf(q, i), NEW j, FirstOf(q, j)
    PROVE  i = j
<1>1. Len(q) \in Nat /\ DOMAIN q = 1..Len(q)
  BY Members
<1>2. i \in Nat /\ j \in Nat /\ ~(i < j) /\ ~(j < i)
  BY <1>1 DEF FirstOf
<1> QED
  BY <1>2

\* handleWatchedHandoff, and what follows it.
LEMMA HandOnRight ==
    ASSUME FullInv, NEW c \in Helpers, NEW v \in Watched, holder[v] = c,
           NEW w \in WatchedVol, w.lock = c, w.waiters = queue[v], Within(w),
           NEW s \in [Vols -> SUBSET CacheKinds], NEW o \in [Watched -> Outcomes],
           HandOn(c, v, w, s, o),
           NEW ok \in MountOutcomes, RestoreOwners(v, ok), target' = target
    PROVE  Right
<1> DEFINE u    == [w EXCEPT !.origMntFlags = FALSE]
           w2   == Handoff(u)
           d    == Put(sFsysWatchDict, v, w2)
           try  == sRebootLock = NoPort /\ sRebootWaiter # NoPort
           all  == IF try THEN CheckAll(d, s, o)
                          ELSE [x \in DOMAIN d |-> Unchecked(d[x], s[x])]
           free == try /\ ~AnyBusy(all)
           told == {w2.lock} \cup (IF free THEN {sRebootWaiter} ELSE {})
           gone == Dropped(w)
           h    == w2.lock
           r    == w2.waiters
<1>1. /\ sFsysWatchDict' = DictOf(all)
      /\ sRebootLock' = IF free /\ sRebootWaiter \notin dead THEN sRebootWaiter
                                                             ELSE sRebootLock
      /\ sRebootWaiter' = IF free THEN NoPort ELSE sRebootWaiter
      /\ sReplyPorts' = sReplyPorts \ (gone \cup told)
      /\ portInfo' = [k \in Clients |-> IF k \in gone THEN "none" ELSE portInfo[k]]
      /\ dead' = dead \ gone
      /\ reply' = [k \in Clients |-> CASE k = c -> "none"
                                       [] k \in told \ dead -> "OK"
                                       [] OTHER -> reply[k]]
  BY DEF HandOn
<1>2. /\ TypeOK /\ GoodDict(sFsysWatchDict) /\ Proper(sFsysWatchDict)
      /\ v \in Vols \ UnwatchableVols /\ v \in DOMAIN sFsysWatchDict
      /\ w.waiters \in Seq(Clients)
      /\ owed[v] = sFsysWatchDict[v].origMntFlags /\ sFsysWatchDict[v].lock = c
  BY EntryFacts DEF FullInv, PortInv, IInv, LockInv, WatchedVol
<1>3. PICK i : /\ FirstOf(queue[v], i)
               /\ w2 = [u EXCEPT !.lock = NextIn(queue[v], i), !.waiters = RestOf(queue[v], i)]
  <2>1. u \in WatchedVol /\ u.waiters = queue[v]
    BY DEF WatchedVol
  <2> HIDE DEF u
  <2> QED
    BY <2>1, HandoffPops
<1>4. /\ w2 \in WatchedVol /\ Within(w2) /\ w2.origMntFlags = FALSE
      /\ h = NextIn(queue[v], i) /\ r = RestOf(queue[v], i)
  <2>1. u \in WatchedVol /\ u.updtattempts = w.updtattempts /\ u.origMntFlags = FALSE
    BY DEF WatchedVol
  <2> HIDE DEF u
  <2>2. w2 \in WatchedVol
    BY <2>1, HandoffServes
  <2> QED
    BY <1>3, <2>1, <2>2 DEF WatchedVol, Within
<1>5. gone = ({c} \cup (Queued(v) \ ToSet(r))) \ {NoPort, h}
  <2>1. PICK j : /\ FirstOf(w.waiters, j)
                 /\ Handoff(w) = [w EXCEPT !.lock = NextIn(w.waiters, j),
                                           !.waiters = RestOf(w.waiters, j)]
    BY HandoffPops
  <2>2. i = j
    BY <1>2, <1>3, <2>1, FirstOfUnique
  <2>3. Handoff(w).lock = h /\ Handoff(w).waiters = r
    BY <1>4, <2>1, <2>2 DEF WatchedVol
  <2> QED
    BY <2>3 DEF Dropped, WaiterSet, Queued
<1> HIDE DEF u, w2, gone
<1>6. /\ GoodDict(d) /\ Proper(d) /\ DOMAIN d = Watched
      /\ HolderIn(d) = [holder EXCEPT ![v] = h]
      /\ QueueIn(d) = [queue EXCEPT ![v] = r]
      /\ OwedIn(d) = [owed EXCEPT ![v] = FALSE]
  <2>1. GoodDict(d)
    <3>1. w2.lock = NoPort => w2.waiters = <<>>
      <4>1. u \in WatchedVol
        BY DEF u, WatchedVol
      <4> QED
        BY <4>1, HandoffServes DEF w2
    <3> QED
      BY <1>2, <1>4, <3>1, PutGood
  <2>2. /\ DOMAIN d = DOMAIN sFsysWatchDict /\ Proper(d)
        /\ HolderIn(d) = [HolderIn(sFsysWatchDict) EXCEPT ![v] = w2.lock]
        /\ QueueIn(d) = [QueueIn(sFsysWatchDict) EXCEPT ![v] = w2.waiters]
        /\ OwedIn(d) = [OwedIn(sFsysWatchDict) EXCEPT ![v] = w2.origMntFlags]
    BY <1>2, <1>4, PutSees
  <2> HIDE DEF d
  <2> QED
    BY <1>4, <2>1, <2>2 DEF holder, queue, owed, Watched
<1> HIDE DEF d
<1>7. /\ GoodResults(all) /\ DOMAIN all = DOMAIN d
      /\ \A x \in DOMAIN d : Alike(all[x].w, d[x])
  <2>1. CASE try
    <3>1. \A x \in DOMAIN d : o[x] \in Outcome
      BY <1>6, OutcomesType
    <3> QED
      BY <1>2, <1>6, <2>1, <3>1, CheckAllAlike
  <2>2. CASE ~try
    <3>1. \A x \in DOMAIN d : Checks(Unchecked(d[x], s[x]), d[x])
      BY <1>6, UncheckedChecks DEF GoodDict
    <3>2. all = [x \in DOMAIN d |-> Unchecked(d[x], s[x])]
      BY <2>2
    <3> HIDE DEF all
    <3> QED
      BY <1>6, <3>1, <3>2, ChecksAlike DEF GoodResults, GoodDict, Checks, KeepsLock
  <2> QED
    BY <2>1, <2>2
<1> HIDE DEF all
<1>8. SameLocks(d, DictOf(all)) /\ Proper(DictOf(all))
  BY <1>6, <1>7, DictOfSame
<1>9. /\ holder' = [holder EXCEPT ![v] = h]
      /\ queue' = [queue EXCEPT ![v] = r]
      /\ owed' = [owed EXCEPT ![v] = FALSE]
  <2>1. /\ holder' = HolderIn(sFsysWatchDict') /\ queue' = QueueIn(sFsysWatchDict')
        /\ owed' = OwedIn(sFsysWatchDict')
    BY DEF holder, queue, owed, HolderIn, QueueIn, OwedIn
  <2> QED
    BY <1>1, <1>6, <1>8, <2>1 DEF SameLocks
<1>10. Watched' = Watched /\ Proper(sFsysWatchDict)'
  <2>1. DOMAIN DictOf(all) = DOMAIN all \ UnwatchableVols
    BY DEF DictOf
  <2> QED
    BY <1>1, <1>6, <1>7, <1>8, <2>1, ProperNow DEF Watched, Proper
<1>11. free => sRebootWaiter # NoPort /\ \A x \in Vols : holder'[x] = NoPort
  <2>1. SUFFICES ASSUME free, NEW x \in Vols PROVE holder'[x] = NoPort
    OBVIOUS
  <2>2. \A y \in DOMAIN all : all[y].w.lock = NoPort
    BY <2>1 DEF AnyBusy
  <2>3. holder'[x] = IF x \in DOMAIN DictOf(all) THEN DictOf(all)[x].lock ELSE NoPort
    BY <1>1 DEF holder, HolderIn
  <2> QED
    BY <2>2, <2>3 DEF DictOf
<1>12. sRebootLock = NoPort
  <2>1. c # NoPort
    BY Facts
  <2> QED
    BY <1>2, <2>1 DEF FullInv, IInv, LockInv, Free
<1>13. \A k \in Clients : reply'[k] = IF k = c THEN "none"
                                      ELSE IF k \in told \ dead THEN "OK" ELSE reply[k]
  <2>1. SUFFICES ASSUME NEW k \in Clients
                 PROVE  reply'[k] = IF k = c THEN "none"
                                    ELSE IF k \in told \ dead THEN "OK" ELSE reply[k]
    OBVIOUS
  <2>2. reply'[k] = CASE k = c -> "none"
                      [] k \in told \ dead -> "OK"
                      [] OTHER -> reply[k]
    BY <1>1
  <2> HIDE DEF told
  <2>3. CASE k = c
    <3>1. c \in told \ dead => FALSE
      <4>1. c # sRebootWaiter /\ c # h
        <5>1. sRebootWaiter \in Rebooters \cup {NoPort} /\ c \notin Queued(v)
          BY <1>2 DEF FullInv, PortInv, Shutdown, OnePlace
        <5>2. h \in Queued(v) \cup {NoPort}
          BY <1>2, <1>3, <1>4, Popped DEF FullInv, PortInv, OnePlace, Queued
        <5> QED
          BY <5>1, <5>2, Facts
      <4> QED
        BY <4>1 DEF told
    <3>2. reply'[k] = "none"
      BY <2>2, <2>3, <3>1, Zenon
    <3> QED
      BY <2>3, <3>2
  <2>4. CASE k # c /\ k \in told \ dead
    <3>1. reply'[k] = "OK"
      BY <2>2, <2>4, Zenon
    <3> QED
      BY <2>4, <3>1
  <2>5. CASE k # c /\ k \notin told \ dead
    <3>1. reply'[k] = reply[k]
      BY <2>2, <2>5, Zenon
    <3> QED
      BY <2>5, <3>1
  <2> QED
    BY <2>3, <2>4, <2>5
<1>14. ownersIgnored' = [ownersIgnored EXCEPT ![v] = IF owed[v] /\ ok THEN TRUE ELSE @]
  BY <1>2 DEF RestoreOwners
<1>15. free \in BOOLEAN
  OBVIOUS
<1> HIDE DEF try, free, h, r
<1>16. told = {h} \cup (IF free THEN {sRebootWaiter} ELSE {})
  BY DEF h
<1> HIDE DEF told
<1>17. HandedOn(c, v, i, h, r, gone, told, free, ok)
  BY <1>1, <1>3, <1>4, <1>5, <1>9, <1>10, <1>11, <1>13, <1>14, <1>16 DEF HandedOn
<1> QED
  BY <1>12, <1>15, <1>17, HandedOnRight

LEMMA PortDiedRight ==
    ASSUME FullInv, NEW c \in Clients, port_died(c)
    PROVE  Right
<1>1. target' = target /\ c \in dead
  BY DEF port_died
<1>2. OnePlace /\ Shutdown /\ RepliesOwed
  BY DEF FullInv, PortInv
<1>3. CASE portInfo[c] = "reboot"
  <2>1. /\ sRebootLock' = IF sRebootLock = c THEN NoPort ELSE sRebootLock
        /\ sRebootWaiter' = IF sRebootWaiter = c THEN NoPort ELSE sRebootWaiter
        /\ sReplyPorts' = sReplyPorts \ {c}
        /\ portInfo' = [portInfo EXCEPT ![c] = "none"]
        /\ dead' = dead \ {c}
        /\ UNCHANGED <<sFsysWatchDict, reply, ownersIgnored>>
    BY <1>3 DEF port_died
  <2> QED
    BY <1>1, <1>3, <2>1, Facts, GoneRight
<1>4. CASE portInfo[c] # "reboot" /\ portInfo[c] \notin Watched
  <2>1. /\ portInfo' = [portInfo EXCEPT ![c] = "none"]
        /\ dead' = dead \ {c}
        /\ UNCHANGED <<sFsysWatchDict, sReplyPorts, sRebootLock, sRebootWaiter, reply,
                       ownersIgnored>>
    BY <1>4 DEF port_died, reboot
  <2>2. \A u \in Vols : c # holder[u] /\ c \notin Queued(u)
    <3>1. ASSUME NEW u \in Vols, c = holder[u] \/ c \in Queued(u) PROVE FALSE
      <4>1. portInfo[c] = u
        BY <1>2, <3>1 DEF OnePlace
      <4>2. holder[u] = NoPort /\ queue[u] = <<>>
        BY <1>4, <4>1, Seen DEF FullInv
      <4>3. Queued(u) = {}
        BY <4>2 DEF Queued, ToSet
      <4> QED
        BY <3>1, <4>2, <4>3, Facts
    <3> QED
      BY <3>1
  <2>3. portInfo[c] \notin Vols /\ c # sRebootLock /\ c # sRebootWaiter
    BY <1>2, <1>4, <2>2 DEF OnePlace, Shutdown
  <2>4. c \notin sReplyPorts
    BY <1>2, <2>2, <2>3 DEF RepliesOwed
  <2> QED
    BY <1>1, <2>1, <2>3, <2>4, GoneRight
<1>5. CASE portInfo[c] # "reboot" /\ portInfo[c] \in Watched
  <2> DEFINE v == portInfo[c]
             w == sFsysWatchDict[v]
  <2>1. \/ /\ Holds(w, c)
           /\ \E o \in [Watched -> Outcomes] :
                HandOn(c, v, [w EXCEPT !.updterrs = Bump(@)], stale, o)
           /\ \E ok \in MountOutcomes : RestoreOwners(v, ok)
        \/ /\ ~Holds(w, c)
           /\ \E i \in DOMAIN w.waiters :
                /\ w.waiters[i] = c
                /\ sFsysWatchDict' =
                     [sFsysWatchDict EXCEPT ![v].waiters = RemoveAt(@, i)]
           /\ sReplyPorts' = sReplyPorts \ {c}
           /\ portInfo' = [portInfo EXCEPT ![c] = "none"]
           /\ dead' = dead \ {c}
           /\ UNCHANGED <<sRebootLock, sRebootWaiter, reply, ownersIgnored>>
    BY <1>5 DEF port_died, reboot
  <2>2. v \in Watched
    BY <1>5
  <2> HIDE DEF v
  <2>3. /\ w \in WatchedVol /\ Within(w) /\ v \in Vols
        /\ w.lock = holder[v] /\ w.waiters = queue[v]
        /\ w.lock = NoPort => w.waiters = <<>>
    BY <2>2, EntryFacts
  <2>4. CASE Holds(w, c)
    <3> DEFINE x == [w EXCEPT !.updterrs = Bump(@)]
    <3>1. /\ x \in WatchedVol /\ x.lock = w.lock /\ x.waiters = w.waiters
          /\ x.updtattempts = w.updtattempts
      BY <2>3, ErrorCounted DEF WatchedVol
    <3>2. PICK o \in [Watched -> Outcomes] : HandOn(c, v, x, stale, o)
      BY <2>1, <2>4
    <3>3. PICK ok \in MountOutcomes : RestoreOwners(v, ok)
      BY <2>1, <2>4
    <3>4. holder[v] = c /\ c \in Helpers
      <4>1. holder[v] = c
        BY <2>3, <2>4 DEF Holds
      <4> QED
        BY <1>2, <2>3, <4>1, Facts DEF OnePlace
    <3>5. Within(x) /\ stale \in [Vols -> SUBSET CacheKinds]
      BY <2>3, <3>1 DEF Within, FullInv, IInv, TypeOK, VolumeTypeOK
    <3> HIDE DEF x, w
    <3> QED
      BY <1>1, <2>2, <2>3, <3>1, <3>2, <3>3, <3>4, <3>5, HandOnRight
  <2>5. CASE ~Holds(w, c)
    <3>1. PICK i \in DOMAIN w.waiters :
            /\ w.waiters[i] = c
            /\ sFsysWatchDict' =
                 [sFsysWatchDict EXCEPT ![v].waiters = RemoveAt(@, i)]
      BY <2>1, <2>5
    <3> DEFINE q == RemoveAt(w.waiters, i)
               x == [w EXCEPT !.waiters = q]
    <3>2. w.waiters \in Seq(Clients) /\ i \in 1..Len(w.waiters)
      BY <2>3, LenProperties DEF WatchedVol
    <3>3. q \in Seq(Clients)
      BY <3>2, RemoveAtType
    <3>4. sFsysWatchDict' = Put(sFsysWatchDict, v, x)
      <4>1. sFsysWatchDict' = [sFsysWatchDict EXCEPT ![v] = x]
        BY <3>1
      <4> HIDE DEF x
      <4> QED
        BY <2>2, <4>1, EntryFacts, Facts, ExceptIsPut
    <3> HIDE DEF q
    <3>5. /\ x \in WatchedVol /\ Within(x) /\ x.lock = holder[v] /\ x.waiters = q
          /\ x.origMntFlags = w.origMntFlags
      BY <2>3, <3>3 DEF WatchedVol, Within
    <3> HIDE DEF x, w
    <3>6. GoodDict(sFsysWatchDict) /\ Proper(sFsysWatchDict) /\ v \in DOMAIN sFsysWatchDict
      BY <2>2, EntryFacts, Facts DEF FullInv, PortInv
    <3>7. LET e == Put(sFsysWatchDict, v, x)
          IN  /\ DOMAIN e = DOMAIN sFsysWatchDict /\ Proper(e)
              /\ HolderIn(e) = [HolderIn(sFsysWatchDict) EXCEPT ![v] = x.lock]
              /\ QueueIn(e) = [QueueIn(sFsysWatchDict) EXCEPT ![v] = x.waiters]
              /\ OwedIn(e) = [OwedIn(sFsysWatchDict) EXCEPT ![v] = x.origMntFlags]
      BY <3>5, <3>6, PutSees
    <3>8. /\ holder' = HolderIn(sFsysWatchDict') /\ queue' = QueueIn(sFsysWatchDict')
          /\ owed' = OwedIn(sFsysWatchDict')
      BY DEF holder, queue, owed, HolderIn, QueueIn, OwedIn
    <3>9. /\ holder' = [holder EXCEPT ![v] = holder[v]]
          /\ queue' = [queue EXCEPT ![v] = q]
          /\ owed' = [owed EXCEPT ![v] = owed[v]]
      <4>1. w.origMntFlags = owed[v]
        BY <2>2, EntryFacts DEF w
      <4> QED
        BY <3>4, <3>5, <3>7, <3>8, <4>1 DEF holder, queue, owed
    <3>10. holder' = holder /\ owed' = owed
      BY <1>2, <3>9, Facts DEF OnePlace
    <3>11. Watched' = Watched /\ Proper(sFsysWatchDict)'
      BY <3>4, <3>7, ProperNow DEF Watched
    <3>12. i \in 1..Len(queue[v]) /\ queue[v][i] = c /\ q = RemoveAt(queue[v], i)
           /\ holder[v] # c
      BY <2>3, <2>5, <3>1, <3>2 DEF q, Holds
    <3>13. queue' = [queue EXCEPT ![v] = RemoveAt(@, i)]
      BY <3>9, <3>12
    <3> QED
      BY <1>1, <2>1, <2>2, <2>5, <3>10, <3>11, <3>12, <3>13, LeaveRight
  <2> QED
    BY <2>4, <2>5
<1> QED
  BY <1>3, <1>4, <1>5

LEMMA ExitAccountingLocks ==
    ASSUME NEW w \in WatchedVol, Within(w), NEW exitstatus
    PROVE  LET x == ExitAccounting(w, exitstatus)
           IN  x \in WatchedVol /\ Within(x) /\ x.lock = w.lock /\ x.waiters = w.waiters
<1> DEFINE x == ExitAccounting(w, exitstatus)
<1>1. /\ [w EXCEPT !.updterrs = 0, !.updtattempts = 0].updtattempts = 0
      /\ [w EXCEPT !.updterrs = Bump(@)].updtattempts = w.updtattempts
  BY DEF WatchedVol
<1>2. x \in {w, [w EXCEPT !.updterrs = 0, !.updtattempts = 0],
                [w EXCEPT !.updterrs = Bump(@)]}
  BY ExitAccountingCases
<1>3. x \in WatchedVol
  BY ExitAccountingType
<1> HIDE DEF x
<1>4. x.lock = w.lock /\ x.waiters = w.waiters
  BY <1>2 DEF WatchedVol
<1>5. Within(x)
  <2>1. x.updtattempts = w.updtattempts \/ x.updtattempts = 0
    BY <1>1, <1>2
  <2> QED
    BY <2>1, WatchVolAssumption DEF Within
<1> QED
  BY <1>3, <1>4, <1>5 DEF x

LEMMA UnlockVolumeRight ==
    ASSUME FullInv, NEW c \in Clients, NEW exitstatus,
           _kextmanager_unlock_volume(c, exitstatus)
    PROVE  Right
<1> DEFINE v == target[c]
           s == [stale EXCEPT ![v] = StaleAfter(c, exitstatus)]
<1>1. /\ c \in Helpers \ dead /\ reply[c] = "OK" /\ target' = target /\ v \in Vols
  BY Facts DEF _kextmanager_unlock_volume
<1>2. IF v \in Watched /\ Holds(sFsysWatchDict[v], c)
          THEN /\ \E o \in [Watched -> Outcomes] :
                    HandOn(c, v, ExitAccounting(sFsysWatchDict[v], exitstatus),
                           s, o)
               /\ \E ok \in MountOutcomes : RestoreOwners(v, ok)
          ELSE /\ dead' = dead \cup {c}
               /\ reply' = [reply EXCEPT ![c] = "none"]
               /\ UNCHANGED <<sFsysWatchDict, sReplyPorts, sRebootLock, sRebootWaiter,
                              portInfo, ownersIgnored>>
  BY DEF _kextmanager_unlock_volume, reboot
<1>4. s \in [Vols -> SUBSET CacheKinds]
  BY StaleAfterType DEF FullInv, IInv
<1> HIDE DEF v, s
<1>5. CASE v \in Watched /\ Holds(sFsysWatchDict[v], c)
  <2> DEFINE w == ExitAccounting(sFsysWatchDict[v], exitstatus)
  <2>1. PICK o \in [Watched -> Outcomes] : HandOn(c, v, w, s, o)
    BY <1>2, <1>5
  <2>2. PICK ok \in MountOutcomes : RestoreOwners(v, ok)
    BY <1>2, <1>5
  <2>3. /\ sFsysWatchDict[v] \in WatchedVol /\ Within(sFsysWatchDict[v])
        /\ holder[v] = c /\ sFsysWatchDict[v].lock = c
        /\ sFsysWatchDict[v].waiters = queue[v]
    BY <1>5, EntryFacts DEF Holds
  <2>4. w \in WatchedVol /\ Within(w) /\ w.lock = c /\ w.waiters = queue[v]
    BY <2>3, ExitAccountingLocks
  <2> HIDE DEF w
  <2> QED
    BY <1>1, <1>4, <1>5, <2>1, <2>2, <2>3, <2>4, HandOnRight
<1>6. CASE ~(v \in Watched /\ Holds(sFsysWatchDict[v], c))
  <2>1. portInfo[c] = "freed"
    <3>1. portInfo[c] = "freed" \/ holder[v] = c
      BY <1>1 DEF FullInv, PortInv, Told, v
    <3>2. holder[v] # c
      <4>1. c # NoPort
        BY Facts
      <4> QED
        BY <1>1, <1>6, <4>1, Seen DEF FullInv, Holds, LockOf
    <3> QED
      BY <3>1, <3>2
  <2>2. dead' = IF portInfo[c] = "none" THEN dead ELSE dead \cup {c}
    BY <1>2, <1>6, <2>1
  <2>3. /\ reply' = [reply EXCEPT ![c] = "none"]
        /\ UNCHANGED <<sFsysWatchDict, sReplyPorts, sRebootLock, sRebootWaiter,
                       portInfo, ownersIgnored>>
    BY <1>2, <1>6
  <2> QED
    BY <1>1, <2>2, <2>3, DiesRight
<1> QED
  BY <1>5, <1>6

\* What needUpdates() finds is kextcache's own.
LEMMA NeedUpdatesRight ==
    ASSUME FullInv, NEW c \in Clients, needUpdates(c)
    PROVE  Right
<1>1. UNCHANGED <<sFsysWatchDict, clients, sRebootLock, sRebootWaiter, ownersIgnored>>
  BY DEF needUpdates, kextdVars, clients
<1> QED
  BY <1>1, SameAsIs, SameRight

LEMMA FinishUnlockedRight ==
    ASSUME FullInv, NEW c \in Clients, FinishUnlocked(c)
    PROVE  Right
<1>1. /\ c \in Helpers /\ reply[c] = "ENOENT"
      /\ reply' = [reply EXCEPT ![c] = "none"]
      /\ UNCHANGED <<sFsysWatchDict, sReplyPorts, portInfo, target, dead, sRebootLock,
                     sRebootWaiter, ownersIgnored>>
  BY DEF FinishUnlocked, kextdVars
<1>2. c \notin dead
  BY <1>1 DEF FullInv, PortInv, Told
<1>3. "none" \in Replies \ {"OK", "blocked"}
  BY DEF Replies
<1>4. SameLocks(sFsysWatchDict, sFsysWatchDict') /\ Proper(sFsysWatchDict)'
  BY <1>1, SameAsIs
<1> QED
  BY <1>1, <1>2, <1>3, <1>4, AnsweredRight

LEMMA ClientDiesRight ==
    ASSUME FullInv, NEW c \in Clients, ClientDies(c)
    PROVE  Right
  BY DiesRight DEF ClientDies, kextdVars

LEMMA ReconsiderAlike ==
    ASSUME TypeOK, NEW d, NEW all, GoodResults(all), DOMAIN all = DOMAIN d,
           \A v \in DOMAIN d : d[v] \in WatchedVol /\ Alike(all[v].w, d[v]),
           NEW s \in [Vols -> SUBSET CacheKinds], NEW o \in [Vols -> Outcomes]
    PROVE  LET R == Reconsider(all, s, o)
           IN  /\ GoodResults(R) /\ DOMAIN d \subseteq DOMAIN R
               /\ \A v \in DOMAIN R : IF v \in DOMAIN d THEN Alike(R[v].w, d[v])
                                                        ELSE Fresh(R[v].w)
<1> DEFINE R == Reconsider(all, s, o)
           D == DOMAIN all \cup {u \in Vols : Eligible(u)}
           b(v) == CheckBootsSetNvram(all[v].w, s[v], hasBoots[v], o[v][1])
<1>1. GoodResults(R)
  BY ReconsiderGood
<1>2. DOMAIN R = D /\ D \subseteq Vols
  BY DEF Reconsider, GoodResults
<1>3. ASSUME NEW v \in D
      PROVE  IF v \in DOMAIN d THEN Alike(R[v].w, d[v]) ELSE Fresh(R[v].w)
  <2>1. v \in Vols /\ o[v] \in Outcome /\ o[v][1] \in BOOLEAN /\ s[v] \in SUBSET CacheKinds
        /\ hasBoots[v] \in BOOLEAN
    BY <1>2, OutcomesType DEF Outcome, TypeOK, VolumeTypeOK
  <2>2. R[v] = CASE v \in DOMAIN all /\ mounted[v] -> [b(v) EXCEPT !.launched = FALSE]
                 [] v \in DOMAIN all /\ ~mounted[v] -> all[v]
                 [] OTHER -> Appear(v, s[v], o[v])
    BY DEF Reconsider
  <2>3. CASE v \in DOMAIN all /\ mounted[v]
    <3>1. all[v].w \in WatchedVol /\ Alike(all[v].w, d[v])
      BY <2>3 DEF GoodResults, CheckResult
    <3>2. Checks(b(v), all[v].w)
      BY <2>1, <3>1, CheckBootsChecks
    <3>3. R[v] = [b(v) EXCEPT !.launched = FALSE]
      BY <2>2, <2>3, Zenon
    <3> HIDE DEF b, R
    <3>4. R[v].w = b(v).w
      BY <3>2, <3>3 DEF Checks, KeepsLock, CheckResult
    <3> QED
      BY <2>3, <3>1, <3>2, <3>4 DEF Checks, KeepsLock, Alike
  <2>4. CASE v \in DOMAIN all /\ ~mounted[v]
    <3>1. R[v] = all[v]
      BY <2>2, <2>4, Zenon
    <3> QED
      BY <2>4, <3>1
  <2>5. CASE v \notin DOMAIN all
    <3>1. R[v] = Appear(v, s[v], o[v])
      BY <2>2, <2>5, Zenon
    <3> HIDE DEF R, b, D
    <3>2. Fresh(Appear(v, s[v], o[v]).w)
      BY <2>1, AppearFresh
    <3> QED
      BY <2>5, <3>1, <3>2
  <2> QED
    BY <2>3, <2>4, <2>5
<1> HIDE DEF R
<1>4. DOMAIN d \subseteq DOMAIN R
  BY <1>2
<1> QED
  BY <1>1, <1>2, <1>3, <1>4 DEF R

LEMMA LockRebootRight ==
    ASSUME FullInv, NEW c \in Clients, NEW wait, _kextmanager_lock_reboot(c, wait)
    PROVE  Right
<1>1. /\ c \in Rebooters /\ c \in Clients \ dead /\ portInfo[c] = "none"
      /\ reply[c] # "blocked" /\ c \notin Helpers
      /\ UNCHANGED <<target, dead, ownersIgnored>>
  BY Facts DEF _kextmanager_lock_reboot, Idle
<1>2. {"EPERM", "EALREADY", "EBUSY"} \subseteq Replies \ {"OK", "blocked"}
  BY DEF Replies
<1>3. CASE c \in NonRoot \/ sRebootLock # NoPort
  <2> DEFINE x == IF c \in NonRoot THEN "EPERM" ELSE "EALREADY"
  <2>1. /\ reply' = [reply EXCEPT ![c] = x]
        /\ UNCHANGED <<sFsysWatchDict, sReplyPorts, portInfo, sRebootLock, sRebootWaiter>>
    BY <1>3 DEF _kextmanager_lock_reboot, reboot
  <2>2. x \in Replies \ {"OK", "blocked"}
    BY <1>2
  <2> HIDE DEF x
  <2>3. SameLocks(sFsysWatchDict, sFsysWatchDict') /\ Proper(sFsysWatchDict)'
    BY <2>1, SameAsIs
  <2> QED
    BY <1>1, <2>1, <2>2, <2>3, AnsweredRight
<1>4. CASE ~(c \in NonRoot \/ sRebootLock # NoPort)
  <2>1. PICK o \in [Vols -> Outcomes] :
          LET all == CheckAll(sFsysWatchDict, stale, o)
              s   == StaleOf(all, stale)
          IN  LockReboot(c, wait, IF AnyBusy(all) THEN all ELSE Reconsider(all, s, o))
    BY <1>4 DEF _kextmanager_lock_reboot
  <2> DEFINE d   == sFsysWatchDict
             chk == CheckAll(d, stale, o)
             s   == StaleOf(chk, stale)
             all == IF AnyBusy(chk) THEN chk ELSE Reconsider(chk, s, o)
  <2>2. /\ TypeOK /\ GoodDict(d) /\ Proper(d) /\ stale \in [Vols -> SUBSET CacheKinds]
        /\ \A v \in DOMAIN d : o[v] \in Outcome /\ d[v] \in WatchedVol
    BY OutcomesType, Facts DEF FullInv, PortInv, IInv, TypeOK, VolumeTypeOK, GoodDict
  <2>3. /\ GoodResults(chk) /\ DOMAIN chk = DOMAIN d
        /\ \A v \in DOMAIN d : Alike(chk[v].w, d[v])
    BY <2>2, CheckAllAlike
  <2>4. LockReboot(c, wait, all)
    BY <2>1
  <2> HIDE DEF chk
  <2>5. s \in [Vols -> SUBSET CacheKinds]
    BY <2>2, <2>3, StaleOfType
  <2> HIDE DEF s
  <2>6. /\ GoodResults(all) /\ DOMAIN d \subseteq DOMAIN all
        /\ \A v \in DOMAIN all : IF v \in DOMAIN d THEN Alike(all[v].w, d[v])
                                                   ELSE Fresh(all[v].w)
    <3>1. CASE AnyBusy(chk)
      BY <2>3, <3>1
    <3>2. CASE ~AnyBusy(chk)
      <4>1. all = Reconsider(chk, s, o)
        BY <3>2
      <4> HIDE DEF d, all
      <4> QED
        BY <2>2, <2>3, <2>5, <4>1, ReconsiderAlike
    <3> QED
      BY <3>1, <3>2
  <2> HIDE DEF all
  <2>7. SameLocks(d, DictOf(all)) /\ Proper(DictOf(all))
    BY <2>2, <2>6, DictOfSame
  <2>8. sFsysWatchDict' = DictOf(all)
    BY <2>4 DEF LockReboot
  <2>9. SameLocks(sFsysWatchDict, sFsysWatchDict') /\ Proper(sFsysWatchDict)'
    BY <2>7, <2>8, ProperNow
  <2>10. CASE ~AnyBusy(all)
    <3>1. /\ sRebootLock' = c
          /\ portInfo' = [portInfo EXCEPT ![c] = "reboot"]
          /\ reply' = [reply EXCEPT ![c] = "OK"]
          /\ UNCHANGED <<sRebootWaiter, sReplyPorts>>
      BY <2>4, <2>10, Zenon DEF LockReboot
    <3>2. \A v \in Vols : holder'[v] = NoPort
      <4>1. SUFFICES ASSUME NEW v \in Vols PROVE holder'[v] = NoPort
        OBVIOUS
      <4>2. \A y \in DOMAIN all : all[y].w.lock = NoPort
        BY <2>10 DEF AnyBusy
      <4>3. holder'[v] = IF v \in DOMAIN DictOf(all) THEN DictOf(all)[v].lock ELSE NoPort
        BY <2>8 DEF holder, HolderIn
      <4> QED
        BY <4>2, <4>3 DEF DictOf
    <3> QED
      BY <1>1, <1>4, <2>9, <3>1, <3>2, ShutDownRight
  <2>11. CASE AnyBusy(all) /\ wait /\ sRebootWaiter = NoPort
    <3>1. /\ sRebootWaiter' = c
          /\ portInfo' = [portInfo EXCEPT ![c] = "reboot"]
          /\ sReplyPorts' = sReplyPorts \cup {c}
          /\ reply' = [reply EXCEPT ![c] = "blocked"]
          /\ UNCHANGED sRebootLock
      BY <2>4, <2>11, Zenon DEF LockReboot
    <3> QED
      BY <1>1, <2>9, <2>11, <3>1, AwaitRight
  <2>12. CASE AnyBusy(all) /\ ~(wait /\ sRebootWaiter = NoPort)
    <3>1. /\ reply' = [reply EXCEPT ![c] = "EBUSY"]
          /\ UNCHANGED <<reboot, sReplyPorts, portInfo>>
      BY <2>4, <2>12, Zenon DEF LockReboot
    <3>2. UNCHANGED <<sRebootLock, sRebootWaiter, sReplyPorts, portInfo>>
      BY <3>1 DEF reboot
    <3> QED
      BY <1>1, <1>2, <2>9, <3>1, <3>2, AnsweredRight
  <2> QED
    BY <2>10, <2>11, <2>12
<1> QED
  BY <1>3, <1>4

LEMMA LockVolumeRight ==
    ASSUME FullInv, NEW c \in Clients, NEW v \in Vols, NEW wait \in BOOLEAN,
           _kextmanager_lock_volume(c, v, wait)
    PROVE  Right
<1>1. /\ c \in Helpers \ dead /\ portInfo[c] = "none"
      /\ reply[c] # "blocked" /\ target' = [target EXCEPT ![c] = v]
      /\ UNCHANGED <<dead, sRebootLock, sRebootWaiter>>
  BY DEF _kextmanager_lock_volume, Idle, reboot
<1>2. reply[c] # "OK"
  <2>1. holder[target[c]] # c
    <3>1. target[c] \in Vols /\ "none" \notin Vols
      BY Facts
    <3> QED
      BY <1>1, <3>1 DEF FullInv, PortInv, OnePlace
  <2> QED
    BY <1>1, <2>1 DEF FullInv, PortInv, Told
<1>3. CASE /\ \E x \in Replies \ {"OK", "blocked"} : reply' = [reply EXCEPT ![c] = x]
           /\ UNCHANGED <<sFsysWatchDict, sReplyPorts, portInfo, ownersIgnored>>
  <2>1. PICK x \in Replies \ {"OK", "blocked"} : reply' = [reply EXCEPT ![c] = x]
    BY <1>3
  <2>2. SameLocks(sFsysWatchDict, sFsysWatchDict') /\ Proper(sFsysWatchDict)'
    BY <1>3, SameAsIs
  <2>3. \A k \in Clients \ {c} : target'[k] = target[k]
    BY <1>1, Facts
  <2> QED
    BY <1>1, <1>2, <1>3, <2>1, <2>2, <2>3, AnsweredRight
<1>4. CASE c \in NonRoot \/ sRebootLock # NoPort \/ v \notin Watched
  <2>1. \/ /\ reply' = [reply EXCEPT ![c] = "EPERM"]
           /\ UNCHANGED <<sFsysWatchDict, sReplyPorts, portInfo, ownersIgnored>>
        \/ /\ reply' = [reply EXCEPT ![c] = "ENOLCK"]
           /\ UNCHANGED <<sFsysWatchDict, sReplyPorts, portInfo, ownersIgnored>>
        \/ /\ reply' = [reply EXCEPT ![c] = "ENOENT"]
           /\ UNCHANGED <<sFsysWatchDict, sReplyPorts, portInfo, ownersIgnored>>
    BY <1>4, Zenon DEF _kextmanager_lock_volume
  <2> QED
    BY <1>3, <2>1 DEF Replies
<1>5. CASE ~(c \in NonRoot \/ sRebootLock # NoPort \/ v \notin Watched)
  <2> DEFINE w == sFsysWatchDict[v]
  <2>1. /\ w \in WatchedVol /\ Within(w) /\ v \in Watched /\ sRebootLock = NoPort
        /\ holder[v] = w.lock /\ queue[v] = w.waiters /\ owed[v] = w.origMntFlags
        /\ w.lock = NoPort => w.waiters = <<>>
    BY <1>5, EntryFacts
  <2>2. \/ /\ sFsysWatchDict[v].lock = NoPort
           /\ \E ok \in MountOutcomes :
                ownersIgnored' = [ownersIgnored EXCEPT ![v] = @ /\ ~ok]
           /\ sFsysWatchDict' =
                [sFsysWatchDict EXCEPT
                   ![v] = Granted(sFsysWatchDict[v], c, ownersIgnored[v])]
           /\ portInfo' = [portInfo EXCEPT ![c] = v]
           /\ reply' = [reply EXCEPT ![c] = "OK"]
           /\ UNCHANGED sReplyPorts
        \/ /\ sFsysWatchDict[v].lock # NoPort
           /\ wait
           /\ sFsysWatchDict' =
                [sFsysWatchDict EXCEPT ![v].waiters = Append(@, c)]
           /\ sReplyPorts' = sReplyPorts \cup {c}
           /\ portInfo' = [portInfo EXCEPT ![c] = v]
           /\ reply' = [reply EXCEPT ![c] = "blocked"]
           /\ UNCHANGED ownersIgnored
        \/ /\ sFsysWatchDict[v].lock # NoPort
           /\ ~wait
           /\ reply' = [reply EXCEPT ![c] = "EBUSY"]
           /\ UNCHANGED <<sFsysWatchDict, sReplyPorts, portInfo, ownersIgnored>>
    BY <1>5, Zenon DEF _kextmanager_lock_volume
  <2>3. ASSUME NEW x \in WatchedVol, Within(x), sFsysWatchDict' = Put(sFsysWatchDict, v, x)
        PROVE  /\ holder' = [holder EXCEPT ![v] = x.lock]
               /\ queue' = [queue EXCEPT ![v] = x.waiters]
               /\ owed' = [owed EXCEPT ![v] = x.origMntFlags]
               /\ Watched' = Watched /\ Proper(sFsysWatchDict)'
    <3>1. GoodDict(sFsysWatchDict) /\ Proper(sFsysWatchDict) /\ v \in DOMAIN sFsysWatchDict
      BY <2>1, EntryFacts, Facts DEF FullInv, PortInv
    <3>2. LET e == Put(sFsysWatchDict, v, x)
          IN  /\ DOMAIN e = DOMAIN sFsysWatchDict /\ Proper(e)
              /\ HolderIn(e) = [HolderIn(sFsysWatchDict) EXCEPT ![v] = x.lock]
              /\ QueueIn(e) = [QueueIn(sFsysWatchDict) EXCEPT ![v] = x.waiters]
              /\ OwedIn(e) = [OwedIn(sFsysWatchDict) EXCEPT ![v] = x.origMntFlags]
      BY <2>3, <3>1, PutSees
    <3>3. /\ holder' = HolderIn(sFsysWatchDict') /\ queue' = QueueIn(sFsysWatchDict')
          /\ owed' = OwedIn(sFsysWatchDict')
      BY DEF holder, queue, owed, HolderIn, QueueIn, OwedIn
    <3>4. Watched' = Watched /\ Proper(sFsysWatchDict)'
      BY <2>3, <3>2, ProperNow DEF Watched
    <3> QED
      BY <2>3, <3>2, <3>3, <3>4 DEF holder, queue, owed
  <2>4. \A x : [sFsysWatchDict EXCEPT ![v] = x] = Put(sFsysWatchDict, v, x)
    BY <2>1, EntryFacts, Facts DEF Put, GoodDict
  <2>5. OnePlace
    BY DEF FullInv, PortInv
  <2>6. CASE sFsysWatchDict[v].lock = NoPort
    <3> DEFINE g == Granted(w, c, ownersIgnored[v])
    <3>1. ownersIgnored[v] \in BOOLEAN /\ c \in Clients
      BY Facts
    <3>2. /\ g \in WatchedVol /\ Within(g) /\ g.lock = c /\ g.waiters = queue[v]
          /\ g.origMntFlags = (owed[v] \/ ownersIgnored[v])
      BY <2>1, <3>1 DEF WatchedVol, Granted, Within
    <3>3. /\ sFsysWatchDict' = [sFsysWatchDict EXCEPT ![v] = g]
          /\ portInfo' = [portInfo EXCEPT ![c] = v]
          /\ reply' = [reply EXCEPT ![c] = "OK"]
          /\ UNCHANGED sReplyPorts
      BY <2>2, <2>6
    <3>4. PICK ok \in MountOutcomes :
            ownersIgnored' = [ownersIgnored EXCEPT ![v] = @ /\ ~ok]
      BY <2>2, <2>6
    <3> HIDE DEF g
    <3>5. /\ holder' = [holder EXCEPT ![v] = c]
          /\ queue' = [queue EXCEPT ![v] = queue[v]]
          /\ owed' = [owed EXCEPT ![v] = owed[v] \/ ownersIgnored[v]]
          /\ Watched' = Watched /\ Proper(sFsysWatchDict)'
      BY <2>3, <2>4, <3>2, <3>3
    <3>6. queue' = queue
      BY <2>5, <3>5 DEF OnePlace
    <3>7. holder[v] = NoPort
      BY <2>1, <2>6
    <3> QED
      BY <1>1, <2>1, <3>3, <3>4, <3>5, <3>6, <3>7, LockRight
  <2>7. CASE sFsysWatchDict[v].lock # NoPort /\ wait
    <3> DEFINE q == Append(w.waiters, c)
               x == [w EXCEPT !.waiters = q]
    <3>1. q \in Seq(Clients)
      BY <2>1, AppendProperties DEF WatchedVol
    <3>2. /\ sFsysWatchDict' = [sFsysWatchDict EXCEPT ![v] = x]
          /\ sReplyPorts' = sReplyPorts \cup {c}
          /\ portInfo' = [portInfo EXCEPT ![c] = v]
          /\ reply' = [reply EXCEPT ![c] = "blocked"]
          /\ UNCHANGED ownersIgnored
      BY <2>2, <2>7
    <3> HIDE DEF q
    <3>3. /\ x \in WatchedVol /\ Within(x) /\ x.lock = holder[v] /\ x.waiters = q
          /\ x.origMntFlags = owed[v]
      BY <2>1, <3>1 DEF WatchedVol, Within
    <3> HIDE DEF x
    <3>4. /\ holder' = [holder EXCEPT ![v] = holder[v]]
          /\ queue' = [queue EXCEPT ![v] = q]
          /\ owed' = [owed EXCEPT ![v] = owed[v]]
          /\ Watched' = Watched /\ Proper(sFsysWatchDict)'
      BY <2>3, <2>4, <3>2, <3>3
    <3>5. holder' = holder /\ owed' = owed
      BY <2>5, <3>4, Facts DEF OnePlace
    <3>6. queue' = [queue EXCEPT ![v] = Append(@, c)]
      BY <2>1, <3>4 DEF q
    <3>7. holder[v] # NoPort
      BY <2>1, <2>7
    <3> QED
      BY <1>1, <2>1, <3>2, <3>4, <3>5, <3>6, <3>7, EnqueueRight
  <2>8. CASE sFsysWatchDict[v].lock # NoPort /\ ~wait
    BY <1>3, <2>2, <2>8 DEF Replies
  <2> QED
    BY <2>6, <2>7, <2>8
<1> QED
  BY <1>4, <1>5

\* The environment touches no lock; a mount decides whether owners are ignored.
LEMMA EnvironmentRight ==
    ASSUME FullInv, NEW v \in Vols, EnvironmentStep(v)
    PROVE  Right
<1>1. UNCHANGED <<sFsysWatchDict, clients, sRebootLock, sRebootWaiter>>
  BY DEF EnvironmentStep, Mount, Unmount, Touch, ChangePlist, ChangeBoots,
     InstallerStarts, InstallerEnds, LaunchedQuits, kextdVars, clientVars, clients
<1>2. \/ ownersIgnored' = [ownersIgnored EXCEPT ![v] = v \in NoOwnersVols]
      \/ ownersIgnored' = ownersIgnored
  BY DEF EnvironmentStep, Mount, Unmount, Touch, ChangePlist, ChangeBoots,
     InstallerStarts, InstallerEnds, LaunchedQuits
<1>3. ownersIgnored'[Root] = ownersIgnored[Root] \/ ownersIgnored'[Root] = (Root \in NoOwnersVols)
  BY <1>2, Facts
<1> QED
  BY <1>1, <1>3, SameAsIs, SameRight

(***************************************************************************)
(* Every step preserves the invariant and is right.                        *)
(***************************************************************************)
LEMMA NextRight == FullInv /\ [Next]_vars => Right
<1> SUFFICES ASSUME FullInv, [Next]_vars PROVE Right
  OBVIOUS
<1>1. CASE VolumeCallback
  <2>1. PICK v \in Vols :
           \/ vol_appeared(v)
           \/ vol_disappeared(v)
           \/ \E key \in {"VolumePath", "MediaContent"} : vol_changed(v, key)
           \/ fsys_changed(v)
           \/ check_now(v)
    BY <1>1 DEF VolumeCallback
  <2>2. CASE vol_appeared(v)
    <3>1. PICK o \in Outcomes : /\ Reappear(v, stale[v], o)
                                /\ UNCHANGED <<target, sRebootLock, sRebootWaiter, ownersIgnored>>
      BY <2>2 DEF vol_appeared, reboot
    <3>2. stale[v] \in SUBSET CacheKinds
      BY DEF FullInv, IInv, TypeOK, VolumeTypeOK
    <3> QED
      BY <3>1, <3>2, ReappearRight
  <2> QED
    BY <2>1, <2>2, VolDisappearedRight, VolChangedRight, FsysChangedRight, CheckNowRight
<1>2. CASE checkAutoUpdate
  BY <1>2, CheckAutoUpdateRight
<1>3. CASE \E c \in Clients : port_died(c)
  BY <1>3, PortDiedRight
<1>4. CASE ClientCall
  BY <1>4, LockRebootRight, LockVolumeRight, UnlockVolumeRight, FinishUnlockedRight,
     NeedUpdatesRight, ClientDiesRight DEF ClientCall
<1>5. CASE VolumeEvent
  <2>1. PICK v \in Vols :
           \/ is_dadisk_busy(v)
           \/ \E inv \in BOOLEAN : updateVolForMedia(v, inv)
           \/ EnvironmentStep(v)
    BY <1>5 DEF VolumeEvent, EnvironmentStep
  <2> QED
    BY <2>1, DiskBusyRight, UpdateVolForMediaRight, EnvironmentRight
<1>6. CASE UNCHANGED vars
  <2>1. UNCHANGED <<sFsysWatchDict, clients, sRebootLock, sRebootWaiter, ownersIgnored>>
    BY <1>6 DEF vars, kextdVars, clientVars, clients
  <2> QED
    BY <2>1, SameAsIs, SameRight
<1> QED
  BY <1>1, <1>2, <1>3, <1>4, <1>5, <1>6 DEF Next, KextdCallback

LEMMA NextFullInv == FullInv /\ [Next]_vars => FullInv'
<1>1. FullInv /\ [Next]_vars => IInv'
  BY NextInv DEF FullInv
<1> QED
  BY <1>1, NextRight DEF FullInv, Right

\* At first nothing is watched and no client is known.
LEMMA InitFullInv == Init => FullInv /\ Locks!Init
<1> SUFFICES ASSUME Init PROVE FullInv /\ Locks!Init
  OBVIOUS
<1>1. /\ DOMAIN sFsysWatchDict = {} /\ sReplyPorts = {} /\ dead = {}
      /\ sRebootLock = NoPort /\ sRebootWaiter = NoPort
      /\ portInfo = [c \in Clients |-> "none"] /\ reply = [c \in Clients |-> "none"]
      /\ ownersIgnored = [v \in Vols |-> v \in NoOwnersVols]
  BY DEF Init
<1>2. /\ holder = [v \in Vols |-> NoPort] /\ queue = [v \in Vols |-> <<>>]
      /\ owed = [v \in Vols |-> FALSE]
  BY <1>1 DEF holder, queue, owed, HolderIn, QueueIn, OwedIn
<1>3. \A v \in Vols : Queued(v) = {} /\ Distinct(queue[v]) /\ queue[v] = <<>>
  BY <1>2 DEF Queued, ToSet, Distinct
<1>4. NoPort \notin Clients /\ Vols \cap {"none", "reboot", "freed"} = {} /\ Root \in Vols
      /\ Clients = Helpers \cup Rebooters
  BY WatchVolAssumption DEF Clients
<1>5. Proper(sFsysWatchDict)
  BY <1>1 DEF Proper
<1>6. OnePlace
  <2>1. queue \in [Vols -> Seq(Helpers)]
    BY <1>2, EmptySeq
  <2>2. \A c \in Clients, v \in Vols : portInfo[c] # v /\ c # holder[v] /\ c \notin Queued(v)
    BY <1>1, <1>2, <1>3, <1>4
  <2>3. \A c \in Rebooters : portInfo[c] # "freed"
    BY <1>1, <1>4
  <2> QED
    BY <1>2, <1>3, <2>1, <2>2, <2>3 DEF OnePlace
<1>7. Shutdown /\ RepliesOwed
  BY <1>1, <1>3, <1>4 DEF Shutdown, RepliesOwed
<1>8. Told
  BY <1>1, <1>2, <1>3, <1>4 DEF Told
<1>9. OwnersDue
  BY <1>1, <1>2, <1>4 DEF OwnersDue
<1>10. Locks!Init
  BY <1>1, <1>2 DEF Locks!Init, holder, queue, HolderIn, QueueIn, Watched, LockOf
<1> QED
  BY <1>5, <1>6, <1>7, <1>8, <1>9, <1>10, InitInv DEF FullInv, PortInv

(***************************************************************************)
(* What the invariant implies.                                             *)
(***************************************************************************)
\* The watched volumes as the properties see them.
LEMMA WatchedSeen ==
    ASSUME FullInv, NEW v \in Watched
    PROVE  v \in Vols /\ LockOf(v) = holder[v] /\ WaitersFor(v) = Queued(v)
  BY Seen, Facts DEF FullInv, WaitersFor, WaiterSet, Queued

\* A volume that somebody holds or waits for is watched.
LEMMA SomebodyThere ==
    ASSUME FullInv, NEW v \in Vols, v \notin Watched
    PROVE  holder[v] = NoPort /\ Queued(v) = {}
<1>1. holder[v] = NoPort /\ queue[v] = <<>>
  BY Seen DEF FullInv
<1> QED
  BY <1>1 DEF Queued, ToSet

LEMMA ImpliesPortsAgree == FullInv => PortsAgree
<1> SUFFICES ASSUME FullInv PROVE PortsAgree
  OBVIOUS
<1>1. OnePlace /\ Shutdown /\ RepliesOwed /\ Told
  BY DEF FullInv, PortInv
<1>2. ReplyPortsMatchWaiters
  <2>1. \A c : c \in sReplyPorts <=>
                  \/ \E v \in Watched : c \in WaitersFor(v)
                  \/ c \in {sRebootWaiter} \ {NoPort}
    <3>1. ASSUME NEW c
          PROVE  (\E v \in Watched : c \in WaitersFor(v)) <=> \E v \in Vols : c \in Queued(v)
      BY WatchedSeen, SomebodyThere
    <3>2. ASSUME NEW c \in sReplyPorts
          PROVE  (\E v \in Vols : c \in Queued(v)) \/ c \in {sRebootWaiter} \ {NoPort}
      BY <1>1, Facts DEF RepliesOwed
    <3>3. ASSUME NEW c, (\E v \in Vols : c \in Queued(v)) \/ c \in {sRebootWaiter} \ {NoPort}
          PROVE  c \in sReplyPorts
      <4>1. c \in Clients
        BY <1>1, <3>3, Facts DEF Shutdown
      <4> QED
        BY <1>1, <3>3, <4>1 DEF RepliesOwed
    <3> QED
      BY <3>1, <3>2, <3>3
  <2>2. sReplyPorts = (UNION {WaitersFor(v) : v \in Watched}) \cup ({sRebootWaiter} \ {NoPort})
    BY <2>1
  <2>3. ASSUME NEW u \in Watched, NEW v \in Watched, u # v,
               NEW c \in WaitersFor(u) \cap WaitersFor(v)
        PROVE  FALSE
    <3>1. u \in Vols /\ v \in Vols /\ c \in Queued(u) /\ c \in Queued(v) /\ c \in Clients
      BY <2>3, WatchedSeen, Facts
    <3> QED
      BY <1>1, <2>3, <3>1 DEF OnePlace
  <2> QED
    BY <1>1, <2>2, <2>3 DEF ReplyPortsMatchWaiters, RepliesOwed
<1>3. PortsTracked
  <2>1. SUFFICES ASSUME NEW c \in Clients
                 PROVE  /\ portInfo[c] \in Vols =>
                              /\ portInfo[c] \in Watched
                              /\ c = LockOf(portInfo[c]) \/ c \in WaitersFor(portInfo[c])
                        /\ portInfo[c] = "reboot" => c \in {sRebootLock, sRebootWaiter} \cup dead
                        /\ \A v \in Watched :
                              c = LockOf(v) \/ c \in WaitersFor(v) => portInfo[c] = v
    BY DEF PortsTracked
  <2>2. ASSUME NEW v \in Vols, portInfo[c] = v
        PROVE  v \in Watched /\ (c = LockOf(v) \/ c \in WaitersFor(v))
    <3>1. c = holder[v] \/ c \in Queued(v)
      BY <1>1, <2>2 DEF OnePlace
    <3>2. v \in Watched
      BY <3>1, SomebodyThere, Facts
    <3> QED
      BY <3>1, <3>2, WatchedSeen
  <2>3. ASSUME NEW v \in Watched, c = LockOf(v) \/ c \in WaitersFor(v)
        PROVE  portInfo[c] = v
    BY <1>1, <2>3, WatchedSeen DEF OnePlace
  <2>4. portInfo[c] = "reboot" => c \in {sRebootLock, sRebootWaiter} \cup dead
    BY <1>1 DEF Shutdown
  <2> QED
    BY <2>2, <2>3, <2>4
<1>4. LockersWereTold
  <2>1. ASSUME NEW v \in Watched, LockOf(v) \in Clients \ dead
        PROVE  reply[LockOf(v)] = "OK" /\ target[LockOf(v)] = v
    BY <1>1, <2>1, WatchedSeen, Facts DEF Told
  <2>2. ASSUME NEW c \in Helpers \ dead, reply[c] = "OK", portInfo[c] # "freed"
        PROVE  target[c] \in Watched /\ LockOf(target[c]) = c
    <3>1. holder[target[c]] = c /\ target[c] \in Vols /\ c # NoPort
      BY <1>1, <2>2, Facts DEF Told
    <3> QED
      BY <3>1, SomebodyThere, WatchedSeen
  <2> QED
    BY <2>1, <2>2 DEF LockersWereTold
<1> QED
  BY <1>2, <1>3, <1>4 DEF PortsAgree

LEMMA ImpliesRootLockHonest == FullInv => RootLockHonest
<1> SUFFICES ASSUME FullInv PROVE RootLockHonest
  OBVIOUS
<1>1. OnePlace /\ Told /\ OwnersDue
  BY DEF FullInv, PortInv
<1>2. OneUpdaterOfRoot
  <2>1. SUFFICES ASSUME NEW c \in Helpers \ dead, target[c] = Root, reply[c] = "OK"
                 PROVE  Root \in Watched /\ LockOf(Root) = c
    BY DEF OneUpdaterOfRoot, UpdatersOf
  <2>2. holder[Root] = c /\ c # NoPort /\ Root \in Vols
    BY <1>1, <2>1, Facts DEF Told
  <2> QED
    BY <2>2, SomebodyThere, WatchedSeen
<1>3. OwnersRestored
  <2>1. SUFFICES ASSUME MountOutcomes = {TRUE}, Root \in Watched => LockOf(Root) = NoPort
                 PROVE  ownersIgnored[Root] <=> Root \in NoOwnersVols
    BY DEF OwnersRestored
  <2>2. holder[Root] = NoPort
    BY <2>1, SomebodyThere, WatchedSeen, Facts
  <2> QED
    BY <1>1, <2>1, <2>2 DEF OwnersDue
<1> QED
  BY <1>2, <1>3 DEF RootLockHonest

(***************************************************************************)
(* The theorems.                                                           *)
(***************************************************************************)
\* kextd's bookkeeping of ports never goes wrong: it holds the reply ports of the
\* clients it owes an answer and no others, port_died() finds each port where its
\* context says, and each locker was told (signalWaiter, reassignContext,
\* port_died, handleWatchedHandoff).
THEOREM PortsAlwaysAgree == Spec => []PortsAgree
<1> QED
  BY ImpliesPortsAgree, InitFullInv, NextFullInv, PTL DEF Spec

\* One kextcache at a time works on "/" under its lock, and when none does its
\* owners are as it was mounted (_kextmanager_lock_volume, _kextmanager_unlock_volume,
\* vol_disappeared).
THEOREM RootLockIsHonest == Spec => []RootLockHonest
<1> QED
  BY ImpliesRootLockHonest, InitFullInv, NextFullInv, PTL DEF Spec

\* No volume is updated more than two times past the limit (check_rebuild).
THEOREM AttemptsAreBounded == Spec => []AttemptsBounded
<1>1. FullInv => AttemptsBounded
  BY DEF FullInv, PortInv, Proper, Within, AttemptsBounded, Watched
<1> QED
  BY <1>1, InitFullInv, NextFullInv, PTL DEF Spec

\* "/" is never taken off the watch list, its lock is never torn from a locker
\* that lives, and every volume's waiters are served in the order they came
\* (vol_disappeared, handleWatchedHandoff).
THEOREM RootIsInOrder == Spec => RootInOrder
<1>1. FullInv /\ [Next]_vars => [RootKeptStep]_vars
  BY NextRight DEF Right
<1>2. FullInv /\ [Next]_vars => [Served]_vars
  BY NextRight DEF Right
<1>3. Spec => RootKept
  BY <1>1, InitFullInv, NextFullInv, PTL DEF Spec, RootKept
<1>4. Spec => FirstComeFirstServed
  BY <1>2, InitFullInv, NextFullInv, PTL DEF Spec, FirstComeFirstServed, Served
<1> QED
  BY <1>3, <1>4 DEF RootInOrder

\* kextd implements UpdateLocks: each of its steps is a step of that arbiter or
\* leaves its locks, queues and shutdown alone.
THEOREM LocksImplemented == Spec => ImplementsLocks
<1>1. FullInv /\ [Next]_vars => [Locks!Next]_(Locks!vars)
  BY NextRight DEF Right, LocksStep
<1>2. Init => Locks!Init
  BY InitFullInv
<1> QED
  BY <1>1, <1>2, InitFullInv, NextFullInv, PTL DEF Spec, ImplementsLocks, Locks!Spec
=============================================================================
