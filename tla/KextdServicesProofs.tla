------------------------- MODULE KextdServicesProofs -------------------------
(***************************************************************************)
(* Proofs about KextdAlerts, by itself and as KextdExtensions composes it  *)
(* with the service of kexts and personalities, for any kexts, users and   *)
(* bounds.                                                                 *)
(***************************************************************************)
EXTENDS KextdExtensions, TLAPS

(***************************************************************************)
(* The alerts.  Each time a kext is shown or about to be is paid for: once *)
(* by its entry in the file, and once by each failure to write the file.   *)
(***************************************************************************)
One(P) == IF P THEN 1 ELSE 0

Paid(t, k) ==
    file[t] # "torn" =>
        shown[t][k] + One(k \in pended[t]) <= unwritten[t] + One(k \in sent[t])
Accounted(t, k) ==
    k \in sent[t] => k \in pended[t] \/ shown[t][k] > 0 \/ <<t, k>> \in lost

AlertsIInv ==
    /\ AlertsTypeOK
    /\ \A t \in OnceTypes, k \in Kexts : Paid(t, k) /\ Accounted(t, k)

LEMMA OnceTypesAre ==
    /\ OnceTypes \subseteq AlertTypes /\ OnceTypes \subseteq Files
    /\ "nonsecure" \in AlertTypes \ OnceTypes /\ "revoked" \in AlertTypes \ OnceTypes
  BY DEF OnceTypes, AlertTypes, Files

LEMMA AlertsIInvImplies ==
    ASSUME AlertsIInv
    PROVE  ToldProperly
<1>1. ASSUME NEW t \in OnceTypes, NEW k \in Kexts, file[t] # "torn"
      PROVE  shown[t][k] <= 1 + unwritten[t]
  <2>1. shown[t][k] \in Nat /\ unwritten[t] \in Nat
    BY OnceTypesAre DEF AlertsIInv, AlertsTypeOK
  <2>2. shown[t][k] + One(k \in pended[t]) <= unwritten[t] + One(k \in sent[t])
    BY <1>1 DEF AlertsIInv, Paid
  <2>3. One(k \in pended[t]) \in {0, 1} /\ One(k \in sent[t]) \in {0, 1}
    BY DEF One
  <2> HIDE DEF One
  <2> QED
    BY <2>1, <2>2, <2>3
<1>2. SentAreAccounted
  <2>1. \A t \in OnceTypes : sent[t] \subseteq Kexts
    BY OnceTypesAre DEF AlertsIInv, AlertsTypeOK
  <2> QED
    BY <2>1 DEF AlertsIInv, Accounted, SentAreAccounted
<1> QED
  BY <1>1, <1>2 DEF ToldOnce, ToldProperly

LEMMA AlertsInitHolds ==
    ASSUME AlertsInit
    PROVE  AlertsIInv
<1>1. AlertsTypeOK
  <2>1. spent \in [notes : 0..MaxNotes, sessions : 0..MaxSessions, faults : 0..MaxFaults]
    BY AlertsAssumption DEF AlertsInit
  <2>2. /\ pended \in [AlertTypes -> SUBSET Kexts] /\ dialog \in [AlertTypes -> SUBSET Kexts]
        /\ notified \in SUBSET Kexts /\ blocks \in SUBSET Notes
    BY DEF AlertsInit, NoAlerts
  <2>3. /\ file \in [Files -> {"absent", "good", "torn"}] /\ sent \in [Files -> SUBSET Kexts]
        /\ \A t \in Files : file[t] # "good" => sent[t] = {}
    BY DEF AlertsInit
  <2>4. /\ shown \in [OnceTypes -> [Kexts -> Nat]] /\ lost \in SUBSET (OnceTypes \X Kexts)
        /\ unwritten \in [Files -> Nat]
    BY DEF AlertsInit
  <2>5. {console, user} \subseteq Users \cup {Nobody} /\ sessionNote \in BOOLEAN /\ signalled \in BOOLEAN
    BY DEF AlertsInit
  <2> QED
    BY <2>1, <2>2, <2>3, <2>4, <2>5 DEF AlertsTypeOK
<1>2. \A t \in OnceTypes, k \in Kexts : Paid(t, k) /\ Accounted(t, k)
  BY OnceTypesAre DEF AlertsInit, Paid, Accounted, One, NoAlerts
<1> QED
  BY <1>1, <1>2 DEF AlertsIInv

\* Whatever only takes alerts off the queue, and counts those as lost.
LEMMA ForgettingKeeps ==
    ASSUME AlertsIInv, AlertsTypeOK', UNCHANGED <<file, sent, shown, unwritten>>,
           lost \subseteq lost',
           \A t \in OnceTypes : /\ pended'[t] \subseteq pended[t]
                                /\ \A k \in pended[t] \ pended'[t] : <<t, k>> \in lost'
    PROVE  AlertsIInv'
<1> SUFFICES ASSUME NEW t \in OnceTypes, NEW k \in Kexts
             PROVE  Paid(t, k)' /\ Accounted(t, k)'
  BY DEF AlertsIInv
<1>1. shown[t][k] \in Nat /\ unwritten[t] \in Nat
  BY OnceTypesAre DEF AlertsIInv, AlertsTypeOK
<1>2. Paid(t, k) /\ Accounted(t, k)
  BY DEF AlertsIInv
<1>3. Paid(t, k)'
  BY <1>1, <1>2 DEF Paid, One
<1> QED
  BY <1>2, <1>3 DEF Accounted

\* Nothing the promise is about.
LEMMA OtherAlertsKeep ==
    ASSUME AlertsIInv, AlertsTypeOK', UNCHANGED <<file, sent, shown, unwritten, lost>>,
           \A t \in OnceTypes : pended'[t] = pended[t]
    PROVE  AlertsIInv'
  BY ForgettingKeeps

LEMMA FaultType ==
    ASSUME AlertsTypeOK, Fault \/ UNCHANGED spent
    PROVE  spent' \in [notes : 0..MaxNotes, sessions : 0..MaxSessions, faults : 0..MaxFaults]
  BY AlertsAssumption DEF AlertsTypeOK, Fault

LEMMA QueuedType ==
    ASSUME AlertsTypeOK, NEW types \in SUBSET AlertTypes
    PROVE  /\ lost \cup Queued(types) \in SUBSET (OnceTypes \X Kexts)
           /\ \A t \in OnceTypes \cap types : \A k \in pended[t] : <<t, k>> \in Queued(types)
  BY DEF AlertsTypeOK, Queued, AlertTypes

LEMMA PostNoteKeeps ==
    ASSUME AlertsIInv, NEW t \in Files \cup {"revoked"}, NEW ks \in SUBSET Kexts, PostNote(t, ks)
    PROVE  AlertsIInv'
<1>1. spent' \in [notes : 0..MaxNotes, sessions : 0..MaxSessions, faults : 0..MaxFaults]
  BY AlertsAssumption DEF AlertsIInv, AlertsTypeOK, PostNote
<1>2. blocks' \in SUBSET Notes
  BY DEF AlertsIInv, AlertsTypeOK, PostNote, Notes
<1>3. UNCHANGED <<sessionVars, queueVars, fileVars, historyVars>>
  BY DEF PostNote
<1> QED
  BY <1>1, <1>2, <1>3, OtherAlertsKeep
     DEF AlertsIInv, AlertsTypeOK, sessionVars, queueVars, fileVars, historyVars

LEMMA ChangeUserKeeps ==
    ASSUME AlertsIInv, NEW u \in Users \cup {Nobody}, ChangeUser(u)
    PROVE  AlertsIInv'
<1>1. spent' \in [notes : 0..MaxNotes, sessions : 0..MaxSessions, faults : 0..MaxFaults]
  BY AlertsAssumption DEF AlertsIInv, AlertsTypeOK, ChangeUser
<1>2. /\ UNCHANGED <<user, queueVars, blocks, fileVars, historyVars>>
      /\ console' \in Users \cup {Nobody} /\ sessionNote' \in BOOLEAN
  BY DEF ChangeUser
<1> QED
  BY <1>1, <1>2, OtherAlertsKeep DEF AlertsIInv, AlertsTypeOK, queueVars, fileVars, historyVars

LEMMA SessionDidChangeKeeps ==
    ASSUME AlertsIInv, SessionDidChange
    PROVE  AlertsIInv'
<1>1. /\ UNCHANGED <<console, blocks, fileVars, shown, unwritten, spent>>
      /\ user' \in Users \cup {Nobody} /\ sessionNote' \in BOOLEAN
  BY DEF SessionDidChange, AlertsIInv, AlertsTypeOK
<1>2. CASE Reset(TRUE) /\ UNCHANGED signalled
  <2>1. NoAlerts \in [AlertTypes -> SUBSET Kexts] /\ \A t \in OnceTypes : NoAlerts[t] = {}
    BY OnceTypesAre DEF NoAlerts
  <2>2. lost' \in SUBSET (OnceTypes \X Kexts)
    BY <1>2, QueuedType DEF Reset, AlertsIInv
  <2>3. AlertsTypeOK'
    BY <1>1, <1>2, <2>1, <2>2 DEF AlertsIInv, AlertsTypeOK, Reset, fileVars
  <2>4. \A t \in OnceTypes : \A k \in pended[t] : <<t, k>> \in lost'
    BY <1>2, QueuedType, OnceTypesAre DEF Reset, AlertsIInv
  <2> QED
    BY <1>1, <1>2, <2>1, <2>3, <2>4, ForgettingKeeps DEF Reset, fileVars
<1>3. CASE UNCHANGED <<pended, dialog, notified, lost>> /\ signalled' = (signalled \/ Wakes)
  BY <1>1, <1>3, OtherAlertsKeep DEF AlertsIInv, AlertsTypeOK, fileVars, Wakes
<1> QED
  BY <1>2, <1>3 DEF SessionDidChange

\* The dialogs that are due: what was queued is shown, or lost.
LEMMA RaiseKeeps ==
    ASSUME AlertsIInv, NEW first \in Kexts, NEW raised \in BOOLEAN, Raise(first, raised),
           "nonsecure" \in Due => first \in pended["nonsecure"],
           UNCHANGED <<sessionVars, notified, blocks, fileVars, unwritten>>,
           signalled' \in BOOLEAN, Fault \/ UNCHANGED spent
    PROVE  AlertsIInv'
<1>1. /\ dialog' \in [AlertTypes -> SUBSET Kexts] /\ pended' \in [AlertTypes -> SUBSET Kexts]
  BY DEF Raise, ToShow, LeavePended, AlertsIInv, AlertsTypeOK
<1>2. shown' \in [OnceTypes -> [Kexts -> Nat]]
  <2>1. \A t \in OnceTypes, k \in Kexts :
           (IF t \in Due /\ raised /\ k \in pended[t] THEN shown[t][k] + 1 ELSE shown[t][k]) \in Nat
    BY DEF AlertsIInv, AlertsTypeOK
  <2> QED
    BY <2>1 DEF Raise
<1>3. Due \in SUBSET AlertTypes
  BY DEF Due
<1>4. lost' \in SUBSET (OnceTypes \X Kexts) /\ lost \subseteq lost'
  BY <1>3, QueuedType DEF Raise, AlertsIInv, AlertsTypeOK
<1>5. AlertsTypeOK'
  BY <1>1, <1>2, <1>4, FaultType DEF AlertsIInv, AlertsTypeOK, sessionVars, fileVars
<1> SUFFICES ASSUME NEW t \in OnceTypes, NEW k \in Kexts
             PROVE  Paid(t, k)' /\ Accounted(t, k)'
  BY <1>5 DEF AlertsIInv
<1>6. /\ t \in AlertTypes /\ t # "nonsecure" /\ t # "revoked"
      /\ shown[t][k] \in Nat /\ unwritten[t] \in Nat
  BY OnceTypesAre DEF AlertsIInv, AlertsTypeOK
<1>7. Paid(t, k) /\ Accounted(t, k)
  BY DEF AlertsIInv
<1>8. UNCHANGED <<file, sent, unwritten>>
  BY DEF fileVars
<1>9. CASE t \notin Due
  <2>1. pended'[t] = pended[t] /\ shown'[t][k] = shown[t][k]
    BY <1>6, <1>9 DEF Raise
  <2> QED
    BY <1>4, <1>7, <1>8, <2>1 DEF Paid, Accounted
<1>10. CASE t \in Due
  <2>1. pended'[t] = {}
    BY <1>6, <1>10 DEF Raise, LeavePended, ToShow
  <2>2. shown'[t][k] = IF raised /\ k \in pended[t] THEN shown[t][k] + 1 ELSE shown[t][k]
    BY <1>10 DEF Raise
  <2>3. k \in pended[t] /\ ~ raised => <<t, k>> \in lost'
    BY <1>3, <1>10, QueuedType DEF Raise, AlertsIInv
  <2>4. Paid(t, k)'
    BY <1>6, <1>7, <1>8, <2>1, <2>2 DEF Paid, One
  <2>5. Accounted(t, k)'
    BY <1>4, <1>6, <1>7, <1>8, <2>1, <2>2, <2>3 DEF Accounted
  <2> QED
    BY <2>4, <2>5
<1> QED
  BY <1>9, <1>10

LEMMA CheckNotificationQueueKeeps ==
    ASSUME AlertsIInv, CheckNotificationQueue
    PROVE  AlertsIInv'
<1>1. UNCHANGED <<sessionVars, notified, blocks, fileVars, unwritten>> /\ signalled' = FALSE
  BY DEF CheckNotificationQueue
<1>2. CASE UNCHANGED <<pended, dialog, shown, lost, spent>>
  BY <1>1, <1>2, OtherAlertsKeep DEF AlertsIInv, AlertsTypeOK, sessionVars, fileVars
<1>3. ASSUME NEW first \in Kexts, "nonsecure" \in Due => first \in pended["nonsecure"],
             \/ Raise(first, TRUE) /\ UNCHANGED spent
             \/ Raise(first, FALSE) /\ Fault
      PROVE  AlertsIInv'
  BY <1>1, <1>3, RaiseKeeps
<1> QED
  BY <1>2, <1>3 DEF CheckNotificationQueue

LEMMA NotificationDismissedKeeps ==
    ASSUME AlertsIInv, NEW t \in AlertTypes, NotificationDismissed(t)
    PROVE  AlertsIInv'
<1>1. /\ UNCHANGED <<sessionVars, notified, blocks, fileVars, historyVars, spent>>
      /\ signalled' = TRUE
      /\ dialog' \in [AlertTypes -> SUBSET Kexts] /\ pended' \in [AlertTypes -> SUBSET Kexts]
  BY DEF NotificationDismissed, LeaveDismissed, AlertsIInv, AlertsTypeOK
<1>2. \A s \in OnceTypes : pended'[s] = pended[s]
  BY OnceTypesAre DEF NotificationDismissed, LeaveDismissed, AlertsIInv, AlertsTypeOK
<1> QED
  BY <1>1, <1>2, OtherAlertsKeep DEF AlertsIInv, AlertsTypeOK, sessionVars, fileVars, historyVars

\* A block writes the file of its kind, and pends what it did not hold.
LEMMA WritePlistKeeps ==
    ASSUME AlertsIInv, NEW b \in Notes, b.type # "revoked", WritePlist(b),
           blocks' \in SUBSET Notes,
           UNCHANGED <<sessionVars, dialog, notified, shown, lost>>
    PROVE  AlertsIInv'
<1> DEFINE s == b.type
           new == NotSent(b)
<1>1. /\ s \in Files /\ b.kexts \in SUBSET Kexts /\ new \in SUBSET Kexts
      /\ new = b.kexts \ sent[s]
  BY DEF Notes, NotSent
<1>2. ASSUME NEW ks \in SUBSET Kexts, Tell(s, ks)
      PROVE  /\ pended' \in [AlertTypes -> SUBSET Kexts] /\ signalled' \in BOOLEAN
             /\ \A t \in OnceTypes : pended'[t] = IF t = s THEN pended[t] \cup ks ELSE pended[t]
  <2>1. CASE s \in OnceTypes
    <3>1. pended' = [pended EXCEPT ![s] = pended[s] \cup ks] /\ s \in AlertTypes
      BY <1>2, <2>1, OnceTypesAre DEF Tell
    <3>2. signalled' \in BOOLEAN
      BY <1>2, <2>1 DEF Tell, AlertsIInv, AlertsTypeOK
    <3> QED
      BY <3>1, <3>2, OnceTypesAre DEF AlertsIInv, AlertsTypeOK
  <2>2. CASE s \notin OnceTypes
    BY <1>2, <2>2 DEF Tell, AlertsIInv, AlertsTypeOK
  <2> QED
    BY <2>1, <2>2
<1>3. /\ spent' \in [notes : 0..MaxNotes, sessions : 0..MaxSessions, faults : 0..MaxFaults]
  BY FaultType DEF WritePlist, AlertsIInv
\* What becomes of the file.
<1> DEFINE Kept == UNCHANGED <<fileVars, unwritten>>
           Written(ks) == /\ sent' = [sent EXCEPT ![s] = @ \cup ks] /\ UNCHANGED unwritten
                          /\ file' \in {file, [file EXCEPT ![s] = "good"]} /\ file'[s] = "good"
                          /\ file[s] # "torn"
           Failed == unwritten' = [unwritten EXCEPT ![s] = @ + 1] /\ UNCHANGED fileVars
           Untold == UNCHANGED <<pended, signalled>>
<1>4. \/ Kept /\ Untold
      \/ Failed /\ Untold
      \/ Failed /\ Tell(s, new)
      \/ \E ks \in SUBSET Kexts : Written(ks) /\ Tell(s, ks) /\ ks \cap sent[s] = {}
  <2>1. CASE /\ file[s] = "good" /\ Tell(s, new)
             /\ sent' = [sent EXCEPT ![s] = @ \cup new] /\ UNCHANGED <<file, unwritten, spent>>
    <3>1. Written(new) /\ new \cap sent[s] = {}
      BY <1>1, <2>1
    <3> QED
      BY <1>1, <2>1, <3>1
  <2>2. CASE /\ file[s] = "absent" /\ file' = [file EXCEPT ![s] = "good"]
             /\ sent' = [sent EXCEPT ![s] = b.kexts] /\ Tell(s, b.kexts) /\ UNCHANGED unwritten
    <3>1. sent[s] = {} /\ file'[s] = "good" /\ sent' = [sent EXCEPT ![s] = @ \cup b.kexts]
      BY <1>1, <2>2 DEF AlertsIInv, AlertsTypeOK
    <3> QED
      BY <1>1, <2>2, <3>1
  <2>3. CASE \/ Failed /\ Untold
             \/ Failed /\ Tell(s, new)
    BY <2>3
  <2>4. CASE Kept /\ Untold
    BY <2>4
  <2> HIDE DEF s, new
  <2> QED
    BY <2>1, <2>2, <2>3, <2>4 DEF WritePlist, s, new
<1> HIDE DEF s, new
<1>5. CASE Kept /\ Untold
  BY <1>3, <1>5, OtherAlertsKeep DEF AlertsIInv, AlertsTypeOK, sessionVars, fileVars
<1>6. CASE Failed /\ (Untold \/ Tell(s, new))
  <2>1. /\ pended' \in [AlertTypes -> SUBSET Kexts] /\ signalled' \in BOOLEAN
        /\ \A t \in OnceTypes : pended'[t] \in {pended[t], IF t = s THEN pended[t] \cup new ELSE pended[t]}
    BY <1>1, <1>2, <1>6 DEF AlertsIInv, AlertsTypeOK
  <2>2. unwritten' \in [Files -> Nat] /\ \A t \in Files :
           unwritten'[t] = IF t = s THEN unwritten[t] + 1 ELSE unwritten[t]
    BY <1>1, <1>6 DEF AlertsIInv, AlertsTypeOK
  <2>3. AlertsTypeOK'
    BY <1>3, <1>6, <2>1, <2>2 DEF AlertsIInv, AlertsTypeOK, sessionVars, fileVars
  <2>4. ASSUME NEW t \in OnceTypes, NEW k \in Kexts
        PROVE  Paid(t, k)' /\ Accounted(t, k)'
    <3>1. shown[t][k] \in Nat /\ unwritten[t] \in Nat /\ t \in Files
      BY OnceTypesAre DEF AlertsIInv, AlertsTypeOK
    <3>2. Paid(t, k) /\ Accounted(t, k)
      BY DEF AlertsIInv
    <3>3. pended[t] \subseteq pended'[t] /\ (t # s => pended'[t] = pended[t])
      BY <2>1
    <3>4. CASE t = s
      BY <1>6, <2>2, <3>1, <3>2, <3>3, <3>4 DEF Paid, Accounted, One, fileVars
    <3>5. CASE t # s
      BY <1>6, <2>2, <3>1, <3>2, <3>3, <3>5 DEF Paid, Accounted, One, fileVars
    <3> QED
      BY <3>4, <3>5
  <2> QED
    BY <2>3, <2>4 DEF AlertsIInv
<1>7. ASSUME NEW ks \in SUBSET Kexts, Written(ks), Tell(s, ks), ks \cap sent[s] = {}
      PROVE  AlertsIInv'
  <2>1. /\ pended' \in [AlertTypes -> SUBSET Kexts] /\ signalled' \in BOOLEAN
        /\ \A t \in OnceTypes : pended'[t] = IF t = s THEN pended[t] \cup ks ELSE pended[t]
    BY <1>2, <1>7
  <2>2. /\ sent' \in [Files -> SUBSET Kexts]
        /\ \A t \in Files : sent'[t] = IF t = s THEN sent[t] \cup ks ELSE sent[t]
    BY <1>1, <1>7 DEF AlertsIInv, AlertsTypeOK
  <2>3. /\ file' \in [Files -> {"absent", "good", "torn"}]
        /\ \A t \in Files : t # s => file'[t] = file[t]
    BY <1>1, <1>7 DEF AlertsIInv, AlertsTypeOK
  <2>4. \A t \in Files : file'[t] # "good" => sent'[t] = {}
    BY <1>7, <2>2, <2>3 DEF AlertsIInv, AlertsTypeOK
  <2>5. AlertsTypeOK'
    BY <1>3, <1>7, <2>1, <2>2, <2>3, <2>4 DEF AlertsIInv, AlertsTypeOK, sessionVars
  <2>6. ASSUME NEW t \in OnceTypes, NEW k \in Kexts
        PROVE  Paid(t, k)' /\ Accounted(t, k)'
    <3>1. shown[t][k] \in Nat /\ unwritten[t] \in Nat /\ t \in Files
      BY OnceTypesAre DEF AlertsIInv, AlertsTypeOK
    <3>2. Paid(t, k) /\ Accounted(t, k)
      BY DEF AlertsIInv
    <3>3. CASE t # s
      BY <1>7, <2>1, <2>2, <2>3, <3>1, <3>2, <3>3 DEF Paid, Accounted
    <3>4. CASE t = s
      <4>1. Accounted(t, k)'
        BY <1>7, <2>1, <2>2, <3>1, <3>2, <3>4 DEF Accounted
      <4>2. Paid(t, k)'
        <5>1. file[t] # "torn" => shown[t][k] + One(k \in pended[t]) <= unwritten[t] + One(k \in sent[t])
          BY <3>2 DEF Paid
        <5>2. UNCHANGED unwritten /\ shown'[t][k] = shown[t][k] /\ file[t] # "torn"
          BY <1>7, <3>4
        <5>3. CASE k \in ks
          <6>1. k \notin sent[t] /\ k \in sent'[t]
            BY <1>7, <2>2, <3>1, <3>4, <5>3
          <6> QED
            BY <3>1, <5>1, <5>2, <6>1 DEF Paid, One
        <5>4. CASE k \notin ks
          <6>1. (k \in sent'[t] <=> k \in sent[t]) /\ (k \in pended'[t] <=> k \in pended[t])
            BY <2>1, <2>2, <3>1, <3>4, <5>4
          <6> QED
            BY <3>1, <5>1, <5>2, <6>1 DEF Paid, One
        <5> QED
          BY <5>3, <5>4
      <4> QED
        BY <4>1, <4>2
    <3> QED
      BY <3>3, <3>4
  <2> QED
    BY <2>5, <2>6 DEF AlertsIInv
<1> QED
  BY <1>4, <1>5, <1>6, <1>7

LEMMA RunBlockKeeps ==
    ASSUME AlertsIInv, NEW b \in blocks, RunBlock(b)
    PROVE  AlertsIInv'
<1>1. /\ b \in Notes /\ blocks' \in SUBSET Notes
      /\ UNCHANGED <<sessionVars, dialog, notified, shown, lost>>
  BY DEF RunBlock, AlertsIInv, AlertsTypeOK
<1>2. CASE UNCHANGED <<fileVars, pended, signalled, unwritten, spent>>
  BY <1>1, <1>2, OtherAlertsKeep DEF AlertsIInv, AlertsTypeOK, sessionVars, fileVars
<1>3. CASE PendRevoked(b)
  <2>1. /\ pended' \in [AlertTypes -> SUBSET Kexts] /\ signalled' = TRUE
        /\ \A t \in OnceTypes : pended'[t] = pended[t]
    BY <1>1, <1>3, OnceTypesAre DEF PendRevoked, Notes, AlertsIInv, AlertsTypeOK
  <2> QED
    BY <1>1, <1>3, <2>1, OtherAlertsKeep DEF PendRevoked, AlertsIInv, AlertsTypeOK, sessionVars, fileVars
<1>4. CASE b.type # "revoked" /\ WritePlist(b)
  BY <1>1, <1>4, WritePlistKeeps
<1> QED
  BY <1>2, <1>3, <1>4 DEF RunBlock

\* A crash takes the queue along, and maybe the file being written.
LEMMA ForgetAlertsFacts ==
    ASSUME AlertsIInv, ForgetAlerts
    PROVE  /\ pended' \in [AlertTypes -> SUBSET Kexts] /\ dialog' \in [AlertTypes -> SUBSET Kexts]
           /\ \A t \in OnceTypes : pended'[t] = {}
           /\ lost \subseteq lost' /\ lost' \in SUBSET (OnceTypes \X Kexts)
           /\ \A t \in OnceTypes : \A k \in pended[t] : <<t, k>> \in lost'
           /\ user' \in Users \cup {Nobody} /\ notified' = {} /\ blocks' = {}
           /\ sessionNote' = FALSE /\ signalled' = FALSE
<1>1. NoAlerts \in [AlertTypes -> SUBSET Kexts] /\ \A t \in OnceTypes : NoAlerts[t] = {}
  BY OnceTypesAre DEF NoAlerts
<1>2. lost' \in SUBSET (OnceTypes \X Kexts) /\ lost \subseteq lost'
  BY QueuedType DEF ForgetAlerts, AlertsIInv
<1>3. \A t \in OnceTypes : \A k \in pended[t] : <<t, k>> \in lost'
  BY QueuedType, OnceTypesAre DEF ForgetAlerts, AlertsIInv
<1>4. user' \in Users \cup {Nobody}
  BY DEF ForgetAlerts, AlertsIInv, AlertsTypeOK
<1> QED
  BY <1>1, <1>2, <1>3, <1>4 DEF ForgetAlerts

LEMMA CrashAlertsKeeps ==
    ASSUME AlertsIInv, CrashAlerts
    PROVE  AlertsIInv'
<1>1. UNCHANGED <<console, fileVars, shown, unwritten>> /\ ForgetAlerts /\ Fault
  BY DEF CrashAlerts
<1>2. AlertsTypeOK'
  BY <1>1, ForgetAlertsFacts, FaultType DEF AlertsIInv, AlertsTypeOK, fileVars
<1> QED
  BY <1>1, <1>2, ForgetAlertsFacts, ForgettingKeeps DEF fileVars

LEMMA CrashWritingKeeps ==
    ASSUME AlertsIInv, NEW b \in blocks, CrashWriting(b)
    PROVE  AlertsIInv'
<1>1. UNCHANGED <<console, shown, unwritten>> /\ ForgetAlerts /\ Fault /\ b.type \in Files
  BY DEF CrashWriting, AlertsIInv, AlertsTypeOK, Notes
<1>2. /\ file' \in [Files -> {"absent", "good", "torn"}] /\ sent' \in [Files -> SUBSET Kexts]
      /\ \A t \in Files : /\ file'[t] = IF t = b.type THEN "torn" ELSE file[t]
                          /\ sent'[t] = IF t = b.type THEN {} ELSE sent[t]
  BY <1>1 DEF CrashWriting, AlertsIInv, AlertsTypeOK
<1>3. AlertsTypeOK'
  BY <1>1, <1>2, ForgetAlertsFacts, FaultType DEF AlertsIInv, AlertsTypeOK
<1>4. ASSUME NEW t \in OnceTypes, NEW k \in Kexts
      PROVE  Paid(t, k)' /\ Accounted(t, k)'
  <2>1. shown[t][k] \in Nat /\ unwritten[t] \in Nat /\ t \in Files
    BY OnceTypesAre DEF AlertsIInv, AlertsTypeOK
  <2>2. Paid(t, k) /\ Accounted(t, k)
    BY DEF AlertsIInv
  <2>3. pended'[t] = {} /\ (k \in pended[t] => <<t, k>> \in lost') /\ lost \subseteq lost'
    BY <1>1, ForgetAlertsFacts
  <2>4. Paid(t, k)'
    BY <1>1, <1>2, <2>1, <2>2, <2>3 DEF Paid, One
  <2>5. Accounted(t, k)'
    BY <1>1, <1>2, <2>1, <2>2, <2>3 DEF Accounted
  <2> QED
    BY <2>4, <2>5
<1> QED
  BY <1>3, <1>4 DEF AlertsIInv

\* What kextd records itself while it scans or loads is told of once, too, but
\* without a file.
LEMMA RecordKeeps ==
    ASSUME AlertsIInv, NEW ks \in SUBSET Kexts, RecordNonsecureKexts(ks),
           blocks' \in SUBSET Notes, UNCHANGED <<sessionVars, dialog, fileVars, historyVars, spent>>
    PROVE  AlertsIInv'
<1>1. /\ pended' \in [AlertTypes -> SUBSET Kexts] /\ notified' \in SUBSET Kexts
      /\ signalled' \in BOOLEAN
      /\ \A t \in OnceTypes : pended'[t] = pended[t]
  BY OnceTypesAre DEF RecordNonsecureKexts, AlertsIInv, AlertsTypeOK
<1> QED
  BY <1>1, OtherAlertsKeep DEF AlertsIInv, AlertsTypeOK, sessionVars, fileVars, historyVars

LEMMA AlertsStepKeeps ==
    ASSUME AlertsIInv, AlertsStep
    PROVE  AlertsIInv'
  BY SessionDidChangeKeeps, CheckNotificationQueueKeeps, NotificationDismissedKeeps, RunBlockKeeps
     DEF AlertsStep

LEMMA UnchangedAlertsKeep ==
    ASSUME AlertsIInv, UNCHANGED alertVars
    PROVE  AlertsIInv'
  BY OtherAlertsKeep DEF AlertsIInv, AlertsTypeOK, alertVars, sessionVars, queueVars, fileVars, historyVars

LEMMA AlertsNextKeeps ==
    ASSUME AlertsIInv, [AlertsNext]_alertVars
    PROVE  AlertsIInv'
<1>1. CASE AlertsEnvironment
  BY <1>1, PostNoteKeeps, ChangeUserKeeps DEF AlertsEnvironment
<1>2. CASE AlertsFault
  BY <1>2, CrashAlertsKeeps, CrashWritingKeeps DEF AlertsFault
<1> QED
  BY <1>1, <1>2, AlertsStepKeeps, UnchangedAlertsKeep DEF AlertsNext

\* ToldProperly of the alerts by themselves: however tools, users, dialogs,
\* files and crashes interleave, no kext is shown in a dialog of its kind twice
\* without a failure to write the file that remembers it (the "alert only once"
\* policy), and none is remembered that was neither shown, queued nor discarded.
THEOREM AlertsToldOnce == AlertsSpec => []ToldProperly
<1>1. AlertsInit => AlertsIInv
  BY AlertsInitHolds
<1>2. AlertsIInv /\ [AlertsNext]_alertVars => AlertsIInv'
  BY AlertsNextKeeps
<1>3. AlertsIInv => ToldProperly
  BY AlertsIInvImplies
<1> QED
  BY <1>1, <1>2, <1>3, PTL DEF AlertsSpec

-----------------------------------------------------------------------------
(***************************************************************************)
(* The service.  What kextd knows is fresh while the time it remembers is  *)
(* the folders'; a request it is at is waited for and will not be fetched  *)
(* again; and the kernel waits to launch driver extensions only, so that   *)
(* taking back the personalities of a kext ends no other request.          *)
(***************************************************************************)
OfItsKind(r) == r[1] # "resource" => (r[1] = "launch" <=> r[2] \in dexts)

FoldersTyped ==
    /\ dexts \subseteq Kexts
    /\ disk \in [Kexts -> Statuses \cup {"absent"}]
    /\ changes \in 0..MaxChanges /\ mtime \in 1..(changes + 1)
KnownTyped ==
    /\ allKexts \in [Kexts -> Statuses \cup {"absent"}]
    /\ read \in BOOLEAN /\ lastMod \in 0..mtime
OpTyped ==
    /\ op \in [what : {"none", "start", "rescan", "request"},
               on : Requests \cup {<<>>},
               step : {"idle", "stat", "scan", "send", "cache", "helpers", "serve"}]
    /\ op.what = "request" => op.on \in waiting \ asked
    /\ op.step = "serve" => op.what = "request"
CacheTyped ==
    /\ persCache.time \in 0..mtime /\ persCache.kexts \subseteq Kexts
    /\ helperTime \in 0..mtime
    /\ builder \in [busy : BOOLEAN, kexts : SUBSET Kexts]
KernelTyped ==
    /\ catalogue \subseteq Kexts /\ loaded \subseteq Kexts /\ refused \subseteq Kexts
    /\ waiting \subseteq Requests /\ orphaned \subseteq Requests
    /\ asked \subseteq waiting
    /\ \A r \in waiting : OfItsKind(r)
RescanTyped == watch \in BOOLEAN /\ misled \in BOOLEAN /\ sentFor \in 0..mtime

ServiceIInv ==
    /\ AlertsIInv
    /\ FoldersTyped /\ KnownTyped /\ ViewIsFresh
    /\ OpTyped /\ CacheTyped /\ KernelTyped /\ RescanTyped

LEMMA ServiceIInvImplies ==
    ASSUME ServiceIInv
    PROVE  ServiceInv
<1>1. AlertsTypeOK /\ ViewIsFresh
  BY DEF ServiceIInv, AlertsIInv
<1>2. mtime \in 1..(MaxChanges + 1) /\ changes \in 0..MaxChanges
  BY ExtensionsAssumption DEF ServiceIInv, FoldersTyped
<1>3. {lastMod, helperTime, sentFor, persCache.time} \subseteq 0..mtime
  BY DEF ServiceIInv, KnownTyped, CacheTyped, RescanTyped
<1>4. /\ op.what \in {"none", "start", "rescan", "request"} /\ op.on \in Requests \cup {<<>>}
      /\ op.step \in {"idle", "stat", "scan", "send", "cache", "helpers", "serve"}
  BY DEF ServiceIInv, OpTyped
<1>5. /\ {catalogue, loaded, refused} \subseteq SUBSET Kexts
      /\ {waiting, asked, orphaned} \subseteq SUBSET Requests /\ asked \subseteq waiting
  BY DEF ServiceIInv, KernelTyped
<1>6. /\ dexts \subseteq Kexts /\ disk \in [Kexts -> Statuses \cup {"absent"}]
      /\ allKexts \in [Kexts -> Statuses \cup {"absent"}] /\ read \in BOOLEAN
      /\ persCache.kexts \subseteq Kexts /\ builder \in [busy : BOOLEAN, kexts : SUBSET Kexts]
      /\ {watch, misled} \subseteq BOOLEAN
  BY DEF ServiceIInv, FoldersTyped, KnownTyped, CacheTyped, RescanTyped
<1> QED
  BY <1>1, <1>2, <1>3, <1>4, <1>5, <1>6 DEF ServiceInv, TypeOK

LEMMA ServiceInitHolds ==
    ASSUME Init
    PROVE  ServiceIInv
<1>1. AlertsIInv
  BY AlertsInitHolds DEF Init
<1>2. FoldersTyped /\ KnownTyped /\ ViewIsFresh /\ RescanTyped
  <2>1. dexts \subseteq Kexts /\ disk \in [Kexts -> Statuses \cup {"absent"}]
    BY DEF Init
  <2>2. changes \in 0..MaxChanges /\ mtime \in 1..(changes + 1)
    BY ExtensionsAssumption DEF Init
  <2>3. KnownTyped /\ ViewIsFresh /\ RescanTyped
    <3>1. /\ allKexts = NoKexts /\ read = FALSE /\ lastMod = 0 /\ mtime = 1
          /\ watch = FALSE /\ sentFor = 0 /\ misled = FALSE
      BY DEF Init
    <3>2. ViewIsFresh
      BY <3>1 DEF ViewIsFresh
    <3>3. read \in BOOLEAN /\ watch \in BOOLEAN /\ misled \in BOOLEAN
      BY <3>1, Zenon
    <3>4. allKexts \in [Kexts -> Statuses \cup {"absent"}] /\ {lastMod, sentFor} \subseteq 0..mtime
      BY <3>1 DEF NoKexts
    <3> QED
      BY <3>2, <3>3, <3>4 DEF KnownTyped, RescanTyped
  <2> QED
    BY <2>1, <2>2, <2>3 DEF FoldersTyped
<1>3. OpTyped /\ KernelTyped
  BY DEF Init, Op, OpTyped, KernelTyped
<1>4. CacheTyped
  BY DEF Init, NoBuilder, AuthenticIn, CacheTyped
<1> QED
  BY <1>1, <1>2, <1>3, <1>4 DEF ServiceIInv

\* What a step leaves alone.
LEMMA FrameFolders ==
    ASSUME FoldersTyped, UNCHANGED folderVars
    PROVE  FoldersTyped' /\ mtime' = mtime /\ disk' = disk
  BY DEF FoldersTyped, folderVars
LEMMA FrameKnown ==
    ASSUME KnownTyped, ViewIsFresh, UNCHANGED folderVars, UNCHANGED knownVars
    PROVE  KnownTyped' /\ ViewIsFresh'
  BY DEF KnownTyped, ViewIsFresh, folderVars, knownVars
LEMMA FrameCache ==
    ASSUME CacheTyped, UNCHANGED mtime, UNCHANGED cacheVars
    PROVE  CacheTyped'
  BY DEF CacheTyped, cacheVars
LEMMA FrameKernel ==
    ASSUME KernelTyped, UNCHANGED dexts, UNCHANGED kernelVars
    PROVE  KernelTyped'
  BY DEF KernelTyped, OfItsKind, kernelVars
LEMMA FrameRescan ==
    ASSUME RescanTyped, UNCHANGED mtime, UNCHANGED rescanVars
    PROVE  RescanTyped'
  BY DEF RescanTyped, rescanVars
LEMMA FrameOp ==
    ASSUME OpTyped, UNCHANGED op, UNCHANGED <<waiting, asked>>
    PROVE  OpTyped'
  BY DEF OpTyped

\* A step that leaves the alerts, the folders, what is known and the plist
\* caches alone.
LEMMA FrameMost ==
    ASSUME ServiceIInv, UNCHANGED <<alertVars, folderVars, knownVars, cacheVars>>
    PROVE  /\ AlertsIInv' /\ FoldersTyped' /\ KnownTyped' /\ ViewIsFresh' /\ CacheTyped'
           /\ mtime' = mtime /\ dexts' = dexts
  BY UnchangedAlertsKeep, FrameFolders, FrameKnown, FrameCache DEF ServiceIInv, folderVars

LEMMA ChangeFolderKeeps ==
    ASSUME ServiceIInv, NEW k \in Kexts, NEW s \in Statuses, ChangeFolder(k, s)
    PROVE  ServiceIInv'
<1>1. UNCHANGED <<alertVars, dexts, knownVars, op, cacheVars, kernelVars, sentFor, misled>>
  BY DEF ChangeFolder
<1>2. AlertsIInv' /\ KernelTyped' /\ OpTyped'
  BY <1>1, UnchangedAlertsKeep, FrameKernel, FrameOp DEF ServiceIInv, kernelVars
<1>3. mtime \in Nat /\ mtime' = mtime + 1 /\ lastMod \in 0..mtime
  BY DEF ServiceIInv, FoldersTyped, KnownTyped, ChangeFolder
<1>4. /\ dexts' \subseteq Kexts /\ disk' \in [Kexts -> Statuses \cup {"absent"}]
  BY <1>1 DEF ServiceIInv, FoldersTyped, ChangeFolder
<1>5. changes' \in 0..MaxChanges /\ mtime' \in 1..(changes' + 1)
  BY ExtensionsAssumption DEF ServiceIInv, FoldersTyped, ChangeFolder
<1>6. KnownTyped'
  BY <1>1, <1>3 DEF ServiceIInv, KnownTyped, knownVars
<1>7. ViewIsFresh'
  BY <1>1, <1>3 DEF ViewIsFresh, knownVars
<1>8. CacheTyped'
  BY <1>1, <1>3 DEF ServiceIInv, CacheTyped, cacheVars
<1>9. RescanTyped'
  <2>1. watch' \in BOOLEAN /\ misled' \in BOOLEAN
    BY <1>1 DEF ServiceIInv, RescanTyped, ChangeFolder
  <2>2. sentFor' \in 0..mtime'
    BY <1>1, <1>3 DEF ServiceIInv, RescanTyped
  <2> QED
    BY <2>1, <2>2 DEF RescanTyped
<1> QED
  BY <1>2, <1>4, <1>5, <1>6, <1>7, <1>8, <1>9 DEF ServiceIInv, FoldersTyped

LEMMA KextcacheKeeps ==
    ASSUME ServiceIInv, KextcacheScan \/ KextcacheWrite
    PROVE  ServiceIInv'
<1>1. UNCHANGED <<alertVars, folderVars, knownVars, op, kernelVars, rescanVars>>
  BY DEF KextcacheScan, KextcacheWrite
<1>2. /\ AlertsIInv' /\ FoldersTyped' /\ KnownTyped' /\ ViewIsFresh'
      /\ KernelTyped' /\ OpTyped' /\ RescanTyped' /\ mtime' = mtime
  BY <1>1, UnchangedAlertsKeep, FrameFolders, FrameKnown, FrameKernel, FrameOp, FrameRescan
     DEF ServiceIInv, kernelVars, folderVars
<1>3. mtime \in Nat
  BY DEF ServiceIInv, FoldersTyped
<1>4. CASE KextcacheScan
  <2>1. builder' \in [busy : BOOLEAN, kexts : SUBSET Kexts] /\ UNCHANGED <<persCache, helperTime>>
    BY <1>4 DEF KextcacheScan, AuthenticIn
  <2> QED
    BY <1>2, <2>1 DEF ServiceIInv, CacheTyped
<1>5. CASE KextcacheWrite
  <2>1. builder' \in [busy : BOOLEAN, kexts : SUBSET Kexts]
    BY <1>5 DEF KextcacheWrite, NoBuilder
  <2>2. persCache'.time = mtime /\ persCache'.kexts \subseteq Kexts /\ helperTime' = mtime
    BY <1>5 DEF KextcacheWrite, ServiceIInv, CacheTyped
  <2> QED
    BY <1>2, <1>3, <2>1, <2>2 DEF ServiceIInv, CacheTyped
<1> QED
  BY <1>4, <1>5

LEMMA RequestIsPair ==
    ASSUME NEW r \in Requests
    PROVE  /\ r = <<r[1], r[2]>> /\ r[2] \in Kexts /\ r # <<>>
           /\ r[1] \in {"load", "launch", "resource"}
  BY DEF Requests

LEMMA KernelAsksKeeps ==
    ASSUME ServiceIInv, NEW r \in Requests, KernelAsks(r)
    PROVE  ServiceIInv'
<1>1. UNCHANGED <<alertVars, folderVars, knownVars, op, cacheVars, rescanVars,
                  catalogue, loaded, refused, orphaned>>
  BY DEF KernelAsks
<1>2. /\ AlertsIInv' /\ FoldersTyped' /\ KnownTyped' /\ ViewIsFresh' /\ CacheTyped'
      /\ RescanTyped' /\ dexts' = dexts
  BY <1>1, FrameMost, FrameRescan DEF ServiceIInv
<1>3. /\ r \notin waiting /\ waiting' = waiting \cup {r} /\ asked' = asked \cup {r}
      /\ OfItsKind(r)
  BY DEF KernelAsks, OfItsKind
<1>4. KernelTyped'
  BY <1>1, <1>2, <1>3 DEF ServiceIInv, KernelTyped, OfItsKind
<1>5. OpTyped'
  BY <1>1, <1>3 DEF ServiceIInv, OpTyped
<1> QED
  BY <1>2, <1>4, <1>5 DEF ServiceIInv

LEMMA TakeRequestKeeps ==
    ASSUME ServiceIInv, NEW r \in Requests, TakeRequest(r)
    PROVE  ServiceIInv'
<1>1. UNCHANGED <<alertVars, folderVars, knownVars, cacheVars, rescanVars,
                  catalogue, loaded, waiting, refused, orphaned>>
  BY DEF TakeRequest
<1>2. /\ AlertsIInv' /\ FoldersTyped' /\ KnownTyped' /\ ViewIsFresh' /\ CacheTyped'
      /\ RescanTyped' /\ dexts' = dexts
  BY <1>1, FrameMost, FrameRescan DEF ServiceIInv
<1>3. r \in waiting /\ asked' = asked \ {r} /\ op' = [what |-> "request", on |-> r, step |-> "stat"]
  BY DEF TakeRequest, Fetched, Op, ServiceIInv, KernelTyped
<1>4. KernelTyped'
  BY <1>1, <1>2, <1>3 DEF ServiceIInv, KernelTyped, OfItsKind
<1>5. OpTyped'
  BY <1>1, <1>3 DEF OpTyped
<1> QED
  BY <1>2, <1>4, <1>5 DEF ServiceIInv

\* An operation goes on, or ends.
LEMMA ToStepKeeps ==
    ASSUME OpTyped, NEW s \in {"idle", "stat", "scan", "send", "cache", "helpers", "serve"},
           ToStep(s), s = "serve" => op.what = "request", UNCHANGED <<waiting, asked>>
    PROVE  OpTyped' /\ op'.what = op.what
  BY DEF OpTyped, ToStep

LEMMA IdleIsTyped ==
    ASSUME op' \in {Idle, Op("start", <<>>), Op("rescan", <<>>)}
    PROVE  OpTyped'
  BY DEF OpTyped, Idle, Op

LEMMA FinishKeeps ==
    ASSUME OpTyped, RescanTyped, NEW s \in {"idle", "helpers"}, Finish(s), UNCHANGED <<waiting, asked>>
    PROVE  OpTyped' /\ watch' \in BOOLEAN
<1>1. CASE s = "idle"
  <2>1. op' = Idle /\ watch' \in BOOLEAN
    BY <1>1 DEF Finish, RescanTyped
  <2> QED
    BY <2>1, IdleIsTyped
<1>2. CASE s # "idle"
  BY <1>2, ToStepKeeps DEF Finish, RescanTyped
<1> QED
  BY <1>1, <1>2

LEMMA FaultKeeps ==
    ASSUME AlertsIInv, Fault \/ UNCHANGED spent,
           UNCHANGED <<sessionVars, queueVars, blocks, fileVars, historyVars>>
    PROVE  AlertsIInv'
<1>1. spent' \in [notes : 0..MaxNotes, sessions : 0..MaxSessions, faults : 0..MaxFaults]
  BY FaultType DEF AlertsIInv
<1> QED
  BY <1>1, OtherAlertsKeep
     DEF AlertsIInv, AlertsTypeOK, sessionVars, queueVars, fileVars, historyVars

\* The stat: what stays known was as new as the folders.
LEMMA StatFoldersKeeps ==
    ASSUME ServiceIInv, StatFolders
    PROVE  ServiceIInv'
<1>1. UNCHANGED <<sessionVars, queueVars, blocks, fileVars, historyVars,
                  folderVars, cacheVars, kernelVars, rescanVars>>
  BY DEF StatFolders
<1>2. AlertsIInv'
  BY <1>1, FaultKeeps DEF StatFolders, ServiceIInv
<1>3. FoldersTyped' /\ CacheTyped' /\ KernelTyped' /\ RescanTyped' /\ mtime' = mtime /\ disk' = disk
  BY <1>1, FrameFolders, FrameCache, FrameKernel, FrameRescan DEF ServiceIInv, folderVars
<1>4. OpTyped'
  BY <1>1, ToStepKeeps DEF StatFolders, ServiceIInv, kernelVars
<1>5. allKexts' = (IF read' THEN allKexts ELSE NoKexts) /\ NoKexts \in [Kexts -> Statuses \cup {"absent"}]
  BY DEF StatFolders, NoKexts
<1>6. allKexts' \in [Kexts -> Statuses \cup {"absent"}]
  BY <1>5 DEF ServiceIInv, KnownTyped
<1>7. mtime \in Nat
  BY DEF ServiceIInv, FoldersTyped
<1>8. CASE lastMod' = mtime /\ read' = (read /\ ~ FoldersChanged /\ op.what # "rescan")
  <2>1. read' \in BOOLEAN
    BY <1>8 DEF ServiceIInv, KnownTyped
  <2>2. lastMod' \in 0..mtime'
    BY <1>3, <1>7, <1>8
  <2>3. read' => read /\ lastMod = mtime
    BY <1>8 DEF FoldersChanged
  <2>4. ViewIsFresh'
    BY <1>3, <1>5, <2>3 DEF ServiceIInv, ViewIsFresh
  <2> QED
    BY <1>2, <1>3, <1>4, <1>6, <2>1, <2>2, <2>4 DEF ServiceIInv, KnownTyped
<1>9. CASE read' = FALSE /\ UNCHANGED lastMod
  <2>1. ViewIsFresh' /\ read' \in BOOLEAN
    BY <1>9 DEF ViewIsFresh
  <2>2. lastMod' \in 0..mtime'
    BY <1>3, <1>9 DEF ServiceIInv, KnownTyped
  <2> QED
    BY <1>2, <1>3, <1>4, <1>6, <2>1, <2>2 DEF ServiceIInv, KnownTyped
<1> QED
  BY <1>8, <1>9 DEF StatFolders

LEMMA ScanFoldersKeeps ==
    ASSUME ServiceIInv, ScanFolders
    PROVE  ServiceIInv'
<1>1. UNCHANGED <<alertVars, folderVars, lastMod, cacheVars, kernelVars, rescanVars>>
  BY DEF ScanFolders
<1>2. /\ AlertsIInv' /\ FoldersTyped' /\ CacheTyped' /\ KernelTyped' /\ RescanTyped'
      /\ mtime' = mtime /\ disk' = disk
  BY <1>1, UnchangedAlertsKeep, FrameFolders, FrameCache, FrameKernel, FrameRescan
     DEF ServiceIInv, folderVars
<1>3. OpTyped'
  BY <1>1, ToStepKeeps DEF ScanFolders, AfterScan, ServiceIInv, kernelVars
<1>4. read' = TRUE
  BY DEF ScanFolders
<1>5. CASE read
  <2>1. allKexts' = allKexts
    BY <1>5 DEF ScanFolders
  <2>2. KnownTyped'
    BY <1>1, <1>2, <1>4, <2>1 DEF ServiceIInv, KnownTyped
  <2>3. ViewIsFresh'
    BY <1>1, <1>2, <1>5, <2>1 DEF ServiceIInv, ViewIsFresh
  <2> QED
    BY <1>2, <1>3, <2>2, <2>3 DEF ServiceIInv
<1>6. CASE ~ read
  <2>1. allKexts' = [k \in Kexts |-> IF disk[k] = "unstageable" THEN "absent" ELSE disk[k]]
    BY <1>6 DEF ScanFolders
  <2>2. allKexts' \in [Kexts -> Statuses \cup {"absent"}]
    BY <2>1 DEF ServiceIInv, FoldersTyped
  <2>3. KnownTyped'
    BY <1>1, <1>2, <1>4, <2>2 DEF ServiceIInv, KnownTyped
  <2>4. ViewIsFresh'
    BY <1>2, <2>1 DEF ViewIsFresh
  <2> QED
    BY <1>2, <1>3, <2>3, <2>4 DEF ServiceIInv
<1> QED
  BY <1>5, <1>6

LEMMA ReleaseExtensionsKeeps ==
    ASSUME ServiceIInv, ReleaseExtensions
    PROVE  ServiceIInv'
<1>1. UNCHANGED <<alertVars, folderVars, lastMod, op, cacheVars, kernelVars, rescanVars>>
  BY DEF ReleaseExtensions
<1>2. /\ AlertsIInv' /\ FoldersTyped' /\ CacheTyped' /\ KernelTyped' /\ RescanTyped' /\ OpTyped'
      /\ mtime' = mtime
  BY <1>1, UnchangedAlertsKeep, FrameFolders, FrameCache, FrameKernel, FrameRescan, FrameOp
     DEF ServiceIInv, folderVars, kernelVars
<1>3. ViewIsFresh' /\ read' \in BOOLEAN
  BY DEF ReleaseExtensions, ViewIsFresh
<1>4. allKexts' \in [Kexts -> Statuses \cup {"absent"}]
  BY DEF ReleaseExtensions, NoKexts
<1>5. KnownTyped'
  BY <1>1, <1>2, <1>3, <1>4 DEF ServiceIInv, KnownTyped
<1> QED
  BY <1>2, <1>3, <1>5 DEF ServiceIInv

\* The catalogue gets kexts that are kexts, of a time the folders have had.
LEMMA SendKeeps ==
    ASSUME ServiceIInv, NEW ks \in SUBSET Kexts, NEW time \in 0..mtime, NEW wrong \in BOOLEAN,
           Send(ks, time, wrong), UNCHANGED folderVars
    PROVE  /\ KernelTyped' /\ UNCHANGED <<waiting, asked>>
           /\ sentFor' \in 0..mtime' /\ misled' \in BOOLEAN
<1>1. UNCHANGED <<dexts, mtime, loaded, waiting, asked, orphaned>>
  BY DEF Send, folderVars
<1>2. catalogue' \subseteq Kexts /\ refused' \subseteq Kexts
  BY DEF Send, ServiceIInv, KernelTyped
<1>3. KernelTyped'
  BY <1>1, <1>2 DEF ServiceIInv, KernelTyped, OfItsKind
<1>4. sentFor' \in 0..mtime'
  BY <1>1 DEF Send, ServiceIInv, RescanTyped
<1>5. misled' \in BOOLEAN
  BY DEF Send, ServiceIInv, RescanTyped
<1> QED
  BY <1>1, <1>3, <1>4, <1>5

LEMMA AfterSendType == AfterSend \in {"idle", "helpers"}
  BY DEF AfterSend

LEMMA SendCachedKeeps ==
    ASSUME ServiceIInv, SendCached
    PROVE  ServiceIInv'
<1>1. UNCHANGED <<alertVars, folderVars, knownVars, cacheVars>>
  BY DEF SendCached
<1>2. AlertsIInv' /\ FoldersTyped' /\ KnownTyped' /\ ViewIsFresh' /\ CacheTyped'
  BY <1>1, FrameMost
<1>3. persCache.kexts \in SUBSET Kexts /\ mtime \in 0..mtime
  BY DEF ServiceIInv, CacheTyped, FoldersTyped
<1>4. Send(persCache.kexts, mtime, persCache.kexts # AuthenticIn(disk)) /\ Finish(AfterSend)
  BY DEF SendCached
<1>5. /\ KernelTyped' /\ UNCHANGED <<waiting, asked>>
      /\ sentFor' \in 0..mtime' /\ misled' \in BOOLEAN
  BY <1>1, <1>3, <1>4, SendKeeps
<1>6. OpTyped' /\ watch' \in BOOLEAN
  BY <1>4, <1>5, AfterSendType, FinishKeeps DEF ServiceIInv
<1> QED
  BY <1>2, <1>5, <1>6 DEF ServiceIInv, RescanTyped

LEMMA SendFromKextsKeeps ==
    ASSUME ServiceIInv, SendFromKexts
    PROVE  ServiceIInv'
<1> DEFINE gone == {k \in Kexts : allKexts[k] # "absent" /\ disk[k] \in {"absent", "unstageable"}}
<1>1. UNCHANGED <<sessionVars, dialog, blocks, fileVars, historyVars, spent,
                  folderVars, knownVars, cacheVars, watch>>
  BY DEF SendFromKexts
<1>2. FoldersTyped' /\ KnownTyped' /\ ViewIsFresh' /\ CacheTyped'
  BY <1>1, FrameFolders, FrameKnown, FrameCache DEF ServiceIInv, folderVars
<1>3. AlertsIInv'
  <2>1. gone \in SUBSET Kexts /\ RecordNonsecureKexts(gone) /\ blocks' \in SUBSET Notes
    BY <1>1 DEF SendFromKexts, ServiceIInv, AlertsIInv, AlertsTypeOK
  <2> QED
    BY <1>1, <2>1, RecordKeeps DEF ServiceIInv
<1>4. AuthenticIn(allKexts) \in SUBSET Kexts /\ lastMod \in 0..mtime
  BY DEF AuthenticIn, ServiceIInv, KnownTyped
<1>5. Send(AuthenticIn(allKexts), lastMod, FALSE) /\ ToStep("cache")
  BY DEF SendFromKexts
<1>6. /\ KernelTyped' /\ UNCHANGED <<waiting, asked>>
      /\ sentFor' \in 0..mtime' /\ misled' \in BOOLEAN
  BY <1>1, <1>4, <1>5, SendKeeps
<1>7. OpTyped'
  BY <1>5, <1>6, ToStepKeeps DEF ServiceIInv
<1> QED
  BY <1>1, <1>2, <1>3, <1>6, <1>7 DEF ServiceIInv, RescanTyped

LEMMA WriteCacheKeeps ==
    ASSUME ServiceIInv, WriteCache
    PROVE  ServiceIInv'
<1>1. UNCHANGED <<alertVars, folderVars, knownVars, helperTime, builder, kernelVars, sentFor, misled>>
  BY DEF WriteCache
<1>2. /\ AlertsIInv' /\ FoldersTyped' /\ KnownTyped' /\ ViewIsFresh' /\ KernelTyped'
      /\ mtime' = mtime /\ UNCHANGED <<waiting, asked>>
  BY <1>1, UnchangedAlertsKeep, FrameFolders, FrameKnown, FrameKernel
     DEF ServiceIInv, folderVars, kernelVars
<1>3. persCache'.time = mtime /\ persCache'.kexts \subseteq Kexts /\ mtime \in 0..mtime
  BY DEF WriteCache, AuthenticIn, ServiceIInv, FoldersTyped
<1>4. CacheTyped'
  BY <1>1, <1>2, <1>3 DEF ServiceIInv, CacheTyped
<1>5. OpTyped' /\ watch' \in BOOLEAN
  BY <1>2, AfterSendType, FinishKeeps DEF WriteCache, ServiceIInv
<1> QED
  BY <1>1, <1>2, <1>4, <1>5 DEF ServiceIInv, RescanTyped

LEMMA UpdateHelpersKeeps ==
    ASSUME ServiceIInv, UpdateHelpers
    PROVE  ServiceIInv'
<1>1. UNCHANGED <<alertVars, folderVars, knownVars, persCache, builder, kernelVars, sentFor, misled>>
  BY DEF UpdateHelpers
<1>2. /\ AlertsIInv' /\ FoldersTyped' /\ KnownTyped' /\ ViewIsFresh' /\ KernelTyped'
      /\ mtime' = mtime /\ UNCHANGED <<waiting, asked>>
  BY <1>1, UnchangedAlertsKeep, FrameFolders, FrameKnown, FrameKernel
     DEF ServiceIInv, folderVars, kernelVars
<1>3. helperTime' = mtime /\ mtime \in 0..mtime
  BY DEF UpdateHelpers, ServiceIInv, FoldersTyped
<1>4. CacheTyped'
  BY <1>1, <1>2, <1>3 DEF ServiceIInv, CacheTyped
<1>5. OpTyped' /\ watch' \in BOOLEAN
  BY <1>2, FinishKeeps DEF UpdateHelpers, ServiceIInv
<1> QED
  BY <1>1, <1>2, <1>4, <1>5 DEF ServiceIInv, RescanTyped

\* A rescan clears the queue of alerts, and counts what it clears as lost.
LEMMA RescanKeeps ==
    ASSUME ServiceIInv, Rescan, UNCHANGED <<mtime, dexts>>, Fault \/ UNCHANGED spent
    PROVE  /\ AlertsIInv' /\ CacheTyped' /\ KernelTyped' /\ OpTyped'
           /\ UNCHANGED <<knownVars, sentFor>>
<1>1. /\ UNCHANGED <<sessionVars, signalled, blocks, fileVars, shown, unwritten,
                     knownVars, cacheVars, kernelVars, sentFor>>
      /\ op' = Op("rescan", <<>>) /\ Reset(FALSE)
  BY DEF Rescan
<1>2. NoAlerts \in [AlertTypes -> SUBSET Kexts] /\ \A t \in OnceTypes : NoAlerts[t] = {}
  BY OnceTypesAre DEF NoAlerts
<1>3. lost' \in SUBSET (OnceTypes \X Kexts) /\ lost \subseteq lost'
  BY <1>1, QueuedType DEF Reset, ServiceIInv, AlertsIInv
<1>4. spent' \in [notes : 0..MaxNotes, sessions : 0..MaxSessions, faults : 0..MaxFaults]
  BY FaultType DEF ServiceIInv, AlertsIInv
<1>5. pended' = NoAlerts /\ UNCHANGED dialog /\ notified' = {}
  BY <1>1 DEF Reset
<1>6. AlertsTypeOK'
  BY <1>1, <1>2, <1>3, <1>4, <1>5 DEF ServiceIInv, AlertsIInv, AlertsTypeOK, sessionVars, fileVars
<1>7. \A t \in OnceTypes : \A k \in pended[t] : <<t, k>> \in lost'
  BY <1>1, QueuedType, OnceTypesAre DEF Reset, ServiceIInv, AlertsIInv
<1>8. AlertsIInv'
  BY <1>1, <1>2, <1>3, <1>5, <1>6, <1>7, ForgettingKeeps DEF ServiceIInv, fileVars
<1>9. CacheTyped' /\ KernelTyped' /\ OpTyped'
  BY <1>1, FrameCache, FrameKernel, IdleIsTyped DEF ServiceIInv
<1> QED
  BY <1>1, <1>8, <1>9

LEMMA WatcherChecksKeeps ==
    ASSUME ServiceIInv, WatcherChecks
    PROVE  ServiceIInv'
<1>1. CASE Rescan /\ UNCHANGED <<folderVars, misled, spent>>
  <2>1. AlertsIInv' /\ CacheTyped' /\ KernelTyped' /\ OpTyped' /\ UNCHANGED <<knownVars, sentFor>>
    BY <1>1, RescanKeeps DEF folderVars
  <2>2. FoldersTyped' /\ KnownTyped' /\ ViewIsFresh' /\ mtime' = mtime
    BY <1>1, <2>1, FrameFolders, FrameKnown DEF ServiceIInv, folderVars
  <2>3. watch' \in BOOLEAN
    BY DEF WatcherChecks
  <2>4. RescanTyped'
    BY <1>1, <2>1, <2>2, <2>3 DEF ServiceIInv, RescanTyped
  <2> QED
    BY <2>1, <2>2, <2>4 DEF ServiceIInv
<1>2. CASE /\ misled' = (misled \/ sentFor # mtime)
           /\ UNCHANGED <<alertVars, folderVars, knownVars, op, cacheVars, kernelVars, sentFor>>
  <2>1. AlertsIInv' /\ FoldersTyped' /\ KnownTyped' /\ ViewIsFresh' /\ CacheTyped' /\ mtime' = mtime
    BY <1>2, FrameMost
  <2>2. KernelTyped' /\ OpTyped'
    BY <1>2, FrameKernel, FrameOp DEF ServiceIInv, kernelVars, folderVars
  <2>3. watch' \in BOOLEAN /\ misled' \in BOOLEAN
    BY <1>2 DEF WatcherChecks, ServiceIInv, RescanTyped
  <2>4. sentFor' \in 0..mtime'
    BY <1>2, <2>1 DEF ServiceIInv, RescanTyped
  <2> QED
    BY <2>1, <2>2, <2>3, <2>4 DEF ServiceIInv, RescanTyped
<1> QED
  BY <1>1, <1>2 DEF WatcherChecks

LEMMA HangUpKeeps ==
    ASSUME ServiceIInv, HangUp
    PROVE  ServiceIInv'
<1>1. Rescan /\ UNCHANGED <<spent, dexts, disk, mtime, watch, misled>>
  BY DEF HangUp
<1>2. AlertsIInv' /\ CacheTyped' /\ KernelTyped' /\ OpTyped' /\ UNCHANGED <<knownVars, sentFor>>
  BY <1>1, RescanKeeps
<1>3. FoldersTyped'
  <2>1. changes' \in 0..MaxChanges /\ mtime' \in 1..(changes' + 1)
    BY <1>1, ExtensionsAssumption DEF HangUp, ServiceIInv, FoldersTyped
  <2> QED
    BY <1>1, <2>1 DEF ServiceIInv, FoldersTyped
<1>4. KnownTyped' /\ ViewIsFresh'
  BY <1>1, <1>2 DEF ServiceIInv, KnownTyped, ViewIsFresh, knownVars
<1>5. RescanTyped'
  BY <1>1, <1>2 DEF ServiceIInv, RescanTyped
<1> QED
  BY <1>2, <1>3, <1>4, <1>5 DEF ServiceIInv

\* No other request of the kernel for this kext is waited for: one that is
\* loaded by the kernel is not launched.
LEMMA RemovePersonalitiesKeeps ==
    ASSUME ServiceIInv, op.what = "request", RemovePersonalities(op.on[2]),
           op.on[1] # "resource", UNCHANGED <<loaded, asked, orphaned, dexts>>
    PROVE  KernelTyped'
<1> DEFINE k == op.on[2]
<1>1. op.on \in waiting \ asked /\ op.on \in Requests /\ OfItsKind(op.on)
  BY DEF ServiceIInv, OpTyped, KernelTyped
<1>2. /\ op.on = <<op.on[1], k>> /\ k \in Kexts
      /\ op.on[1] \in {"load", "launch"}
  BY <1>1, RequestIsPair
<1>3. ASSUME NEW r \in asked
      PROVE  r \in waiting'
  <2>1. r \in waiting /\ r # op.on /\ OfItsKind(r) /\ r \in Requests
    BY <1>1, <1>3 DEF ServiceIInv, KernelTyped
  <2>2. r = <<r[1], r[2]>>
    BY <2>1, RequestIsPair
  <2>3. r # <<"load", k>> /\ r # <<"launch", k>>
    BY <1>1, <1>2, <2>1, <2>2 DEF OfItsKind
  <2> QED
    BY <2>1, <2>3 DEF RemovePersonalities
<1>4. /\ catalogue' \subseteq Kexts /\ refused' \subseteq Kexts /\ waiting' \subseteq waiting
  BY <1>2 DEF RemovePersonalities, ServiceIInv, KernelTyped
<1> QED
  BY <1>3, <1>4 DEF ServiceIInv, KernelTyped, OfItsKind

LEMMA AnsweredKeeps ==
    ASSUME ServiceIInv, op.what = "request", Answered, loaded' \subseteq Kexts,
           UNCHANGED <<catalogue, refused, asked, orphaned, dexts>>
    PROVE  KernelTyped'
<1>1. op.on \notin asked
  BY DEF ServiceIInv, OpTyped
<1> QED
  BY <1>1 DEF Answered, ServiceIInv, KernelTyped, OfItsKind

LEMMA ServeKeeps ==
    ASSUME ServiceIInv, Serve
    PROVE  ServiceIInv'
<1> DEFINE k == op.on[2]
<1>1. /\ UNCHANGED <<sessionVars, dialog, fileVars, historyVars, spent,
                     folderVars, knownVars, cacheVars, asked, orphaned, rescanVars>>
      /\ op.step = "serve" /\ op' = Idle
  BY DEF Serve
<1>2. /\ FoldersTyped' /\ KnownTyped' /\ ViewIsFresh' /\ CacheTyped' /\ RescanTyped' /\ OpTyped'
      /\ dexts' = dexts
  BY <1>1, FrameFolders, FrameKnown, FrameCache, FrameRescan, IdleIsTyped DEF ServiceIInv, folderVars
<1>3. /\ op.what = "request" /\ k \in Kexts
  <2>1. op.what = "request" /\ op.on \in Requests
    BY <1>1 DEF ServiceIInv, OpTyped, KernelTyped
  <2> QED
    BY <2>1, RequestIsPair
<1>4. /\ {[type |-> "loads", kexts |-> {k}]} \subseteq Notes
  BY <1>3 DEF Notes, Files
<1>5. ASSUME UNCHANGED <<pended, notified, signalled, blocks>>
      PROVE  AlertsIInv'
  BY <1>1, <1>5, UnchangedAlertsKeep DEF ServiceIInv, alertVars, queueVars
<1>6. CASE op.on[1] = "load" /\ LoadKext(k)
  <2>1. blocks' \in SUBSET Notes /\ UNCHANGED <<pended, notified, signalled>>
    BY <1>4, <1>6 DEF LoadKext, ServiceIInv, AlertsIInv, AlertsTypeOK
  <2>2. AlertsTypeOK'
    BY <1>1, <2>1 DEF ServiceIInv, AlertsIInv, AlertsTypeOK, sessionVars, fileVars, historyVars
  <2>3. AlertsIInv'
    BY <1>1, <2>1, <2>2, OtherAlertsKeep DEF ServiceIInv, fileVars, historyVars
  <2>4. KernelTyped'
    BY <1>1, <1>2, <1>3, <1>6, AnsweredKeeps DEF LoadKext, ServiceIInv, KernelTyped
  <2> QED
    BY <1>2, <2>3, <2>4 DEF ServiceIInv
<1>7. CASE op.on[1] = "load" /\ RefuseKext(k)
  <2>1. blocks' \in SUBSET Notes
    BY <1>4, <1>7 DEF RefuseKext, ServiceIInv, AlertsIInv, AlertsTypeOK
  <2>2. AlertsIInv'
    <3>1. CASE RecordNonsecureKexts({k})
      BY <1>1, <1>3, <2>1, <3>1, RecordKeeps DEF ServiceIInv
    <3>2. CASE UNCHANGED <<pended, notified, signalled>>
      <4>1. AlertsTypeOK'
        BY <1>1, <2>1, <3>2 DEF ServiceIInv, AlertsIInv, AlertsTypeOK, sessionVars, fileVars, historyVars
      <4> QED
        BY <1>1, <3>2, <4>1, OtherAlertsKeep DEF ServiceIInv, fileVars, historyVars
    <3> QED
      BY <1>7, <3>1, <3>2 DEF RefuseKext
  <2>3. KernelTyped'
    BY <1>1, <1>2, <1>3, <1>7, RemovePersonalitiesKeeps DEF RefuseKext
  <2> QED
    BY <1>2, <2>2, <2>3 DEF ServiceIInv
<1>8. CASE op.on[1] = "launch" /\ LaunchDext(k)
  <2>1. UNCHANGED <<pended, notified, signalled, blocks>>
    BY <1>8 DEF LaunchDext
  <2>2. KernelTyped'
    <3>1. CASE loaded' = loaded \cup {k} /\ Answered /\ UNCHANGED <<catalogue, refused>>
      BY <1>1, <1>2, <1>3, <3>1, AnsweredKeeps DEF ServiceIInv, KernelTyped
    <3>2. CASE RemovePersonalities(k) /\ UNCHANGED loaded
      BY <1>1, <1>2, <1>3, <1>8, <3>2, RemovePersonalitiesKeeps
    <3>3. CASE UNCHANGED <<catalogue, refused, waiting, loaded>>
      BY <1>1, <1>2, <3>3, FrameKernel DEF ServiceIInv, kernelVars
    <3> QED
      BY <1>8, <3>1, <3>2, <3>3 DEF LaunchDext
  <2> QED
    BY <1>2, <1>5, <2>1, <2>2 DEF ServiceIInv
<1>9. CASE SendResource
  <2>1. KernelTyped' /\ UNCHANGED <<pended, notified, signalled, blocks>>
    BY <1>1, <1>2, <1>3, <1>9, AnsweredKeeps DEF SendResource, ServiceIInv, KernelTyped
  <2> QED
    BY <1>2, <1>5, <2>1 DEF ServiceIInv
<1> QED
  BY <1>6, <1>7, <1>8, <1>9 DEF Serve

LEMMA ServiceAlertsKeep ==
    ASSUME ServiceIInv, Alerts
    PROVE  ServiceIInv'
<1>1. AlertsStep /\ UNCHANGED <<folderVars, knownVars, op, cacheVars, kernelVars, rescanVars>>
  BY DEF Alerts, WhenIdle, Apart
<1> QED
  BY <1>1, AlertsStepKeeps, FrameFolders, FrameKnown, FrameCache, FrameKernel, FrameRescan, FrameOp
     DEF ServiceIInv, folderVars, kernelVars

\* kextd starts again: what it fetched is lost, what it did not is still asked.
LEMMA RestartedKeeps ==
    ASSUME ServiceIInv, NEW batch \in SUBSET asked, Restarted(batch), AlertsIInv'
    PROVE  ServiceIInv'
<1>1. UNCHANGED <<folderVars, cacheVars, catalogue, loaded, waiting, refused, watch, sentFor, misled>>
  BY DEF Restarted
<1>2. FoldersTyped' /\ CacheTyped' /\ RescanTyped' /\ OpTyped' /\ mtime' = mtime /\ dexts' = dexts
  BY <1>1, FrameFolders, FrameCache, FrameRescan, IdleIsTyped
     DEF ServiceIInv, Restarted, folderVars, rescanVars
<1>3. mtime \in Nat
  BY DEF ServiceIInv, FoldersTyped
<1>4. KnownTyped' /\ ViewIsFresh'
  <2>1. read' \in BOOLEAN /\ ViewIsFresh'
    BY DEF Restarted, ViewIsFresh
  <2>2. lastMod' \in 0..mtime'
    BY <1>2, <1>3 DEF Restarted
  <2>3. allKexts' \in [Kexts -> Statuses \cup {"absent"}]
    BY DEF Restarted, NoKexts
  <2> QED
    BY <2>1, <2>2, <2>3 DEF KnownTyped
<1>5. KernelTyped'
  <2>1. op.on \in Requests \cup {<<>>}
    BY DEF ServiceIInv, OpTyped
  <2>2. orphaned' \subseteq Requests /\ asked' \subseteq waiting'
    BY <1>1, <2>1 DEF Restarted, ServiceIInv, KernelTyped
  <2> QED
    BY <1>1, <1>2, <2>2 DEF ServiceIInv, KernelTyped, OfItsKind
<1> QED
  BY <1>2, <1>4, <1>5 DEF ServiceIInv

LEMMA CrashKeeps ==
    ASSUME ServiceIInv, Crash \/ CrashInWrite
    PROVE  ServiceIInv'
<1>1. CASE Crash
  <2>1. PICK batch \in SUBSET asked : Restarted(batch) /\ CrashAlerts
    BY <1>1 DEF Crash
  <2> QED
    BY <2>1, CrashAlertsKeeps, RestartedKeeps DEF ServiceIInv
<1>2. CASE CrashInWrite
  <2>1. PICK b \in blocks : Restarted({}) /\ CrashWriting(b)
    BY <1>2 DEF CrashInWrite
  <2> QED
    BY <2>1, CrashWritingKeeps, RestartedKeeps DEF ServiceIInv
<1> QED
  BY <1>1, <1>2

LEMMA ServiceNextKeeps ==
    ASSUME ServiceIInv, [Next]_vars
    PROVE  ServiceIInv'
<1>1. CASE Continue
  BY <1>1, StatFoldersKeeps, ScanFoldersKeeps, SendCachedKeeps, SendFromKextsKeeps,
     WriteCacheKeeps, UpdateHelpersKeeps, ServeKeeps DEF Continue
<1>2. CASE \/ \E k \in Kexts, s \in Statuses : ChangeFolder(k, s)
           \/ KextcacheScan \/ KextcacheWrite
           \/ \E r \in Requests : KernelAsks(r)
           \/ \E r \in Requests : TakeRequest(r)
  BY <1>2, ChangeFolderKeeps, KextcacheKeeps, KernelAsksKeeps, TakeRequestKeeps
<1>3. CASE WatcherChecks \/ HangUp \/ ReleaseExtensions \/ Alerts \/ Crash \/ CrashInWrite
  BY <1>3, WatcherChecksKeeps, HangUpKeeps, ReleaseExtensionsKeeps, ServiceAlertsKeep, CrashKeeps
<1>4. CASE UNCHANGED vars
  BY <1>4, FrameMost, FrameKernel, FrameRescan, FrameOp DEF vars, ServiceIInv, kernelVars
<1> QED
  BY <1>1, <1>2, <1>3, <1>4 DEF Next

\* The invariant of the composed daemon: the alerts', and that kextd's view is
\* fresh, with what each of its operations under way may rely on.
THEOREM SpecImpliesServiceIInv == Spec => []ServiceIInv
<1>1. Init => ServiceIInv
  BY ServiceInitHolds
<1>2. ServiceIInv /\ [Next]_vars => ServiceIInv'
  BY ServiceNextKeeps
<1> QED
  BY <1>1, <1>2, PTL DEF Spec

\* ServiceInv: however installers, a kextcache, the kernel's requests, the timer
\* that releases the kexts, SIGHUPs and restarts fall between the stat and the
\* scan of readExtensions(), kextd answers from kexts that are as the folders
\* were at the time it remembers.
THEOREM ServiceIsFresh == Spec => []ServiceInv
<1>1. ServiceIInv => ServiceInv
  BY ServiceIInvImplies
<1> QED
  BY <1>1, SpecImpliesServiceIInv, PTL

\* ToldProperly of the whole daemon: the rescans that clear the queue of alerts,
\* what kextd records itself as it scans and loads, and its restarts with a
\* request under way do not make it tell a kext twice, or forget one that the
\* file says was told of.
THEOREM DaemonToldOnce == Spec => []ToldProperly
<1>1. ServiceIInv => ToldProperly
  BY AlertsIInvImplies DEF ServiceIInv
<1> QED
  BY <1>1, SpecImpliesServiceIInv, PTL
=============================================================================
