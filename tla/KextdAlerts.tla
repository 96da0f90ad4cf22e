----------------------------- MODULE KextdAlerts -----------------------------
(***************************************************************************)
(* How kextd tells the user about kexts that cannot be used                *)
(* (kextd_usernotification.c, callbacks in kextd_main.c).                  *)
(*                                                                         *)
(* kextload, kextutil, kextcache and kextd post what they found; kextd's   *)
(* callback puts a block on the main queue.  The block looks the kexts up   *)
(* in a file, so that each is told once, and pends those it did not know.  *)
(* A run-loop source raises one dialog per kind of alert while a user is    *)
(* at the console; dismissing a dialog looks for more.                      *)
(*                                                                         *)
(* Abstracted: texts and paths; the order of kexts in an array (a set); the *)
(* order of the blocks (any); an allocation that fails (the code gives up). *)
(***************************************************************************)
EXTENDS Integers, FiniteSets

CONSTANTS
    Kexts,
    Users,
    Nobody,      \* sConsoleUser == -1
    MaxInKexts,  \* how many kexts one note may name (10 in the code)
    MaxNotes,    \* bound: notes posted by the tools
    MaxSessions, \* bound: logins, logouts and switches of user
    MaxFaults    \* bound: crashes of kextd, dialogs and files that fail

ASSUME AlertsAssumption ==
    /\ Nobody \notin Users
    /\ MaxInKexts \in Nat \ {0}
    /\ {MaxNotes, MaxSessions, MaxFaults} \subseteq Nat

OnceTypes == {"noload", "invalidsig", "excluded"}
AlertTypes == OnceTypes \cup {"nonsecure", "revoked"}
\* The kinds of note; "loads" are the loads traced in loadedkextmt.plist.
Files == OnceTypes \cup {"loads"}
Notes == [type : Files \cup {"revoked"}, kexts : SUBSET Kexts]

VARIABLES
    console,    \* who is at the console
    sessionNote,\* ... and did that change since _sessionDidChange() looked
    user,       \* sConsoleUser
    pended,     \* sPended...KextPaths
    dialog,     \* the kexts in s...Notification, none if it is NULL
    notified,   \* sNotifiedNonsecureKextPaths
    signalled,  \* sNotificationQueueRunLoopSource is signalled
    blocks,     \* on the main queue
    file,       \* each plist: absent, good, or torn by a crash
    sent,       \* "Alerts sent" of each plist
    shown,      \* history: how often a kext was in a dialog it should be in once
    lost,       \* history: such alerts discarded before they were shown
    unwritten,  \* history: files that could not be written
    spent       \* what the three bounds count

sessionVars == <<console, sessionNote, user>>
queueVars == <<pended, dialog, notified, signalled>>
fileVars == <<file, sent>>
historyVars == <<shown, lost, unwritten>>
alertVars == <<sessionVars, queueVars, blocks, fileVars, historyVars, spent>>

\* Every variable has its type, and a file that is not good names no kext.
AlertsTypeOK ==
    /\ {console, user} \subseteq Users \cup {Nobody}
    /\ sessionNote \in BOOLEAN /\ signalled \in BOOLEAN
    /\ pended \in [AlertTypes -> SUBSET Kexts]
    /\ dialog \in [AlertTypes -> SUBSET Kexts]
    /\ notified \in SUBSET Kexts
    /\ blocks \in SUBSET Notes
    /\ file \in [Files -> {"absent", "good", "torn"}]
    /\ sent \in [Files -> SUBSET Kexts]
    /\ \A t \in Files : file[t] # "good" => sent[t] = {}
    /\ shown \in [OnceTypes -> [Kexts -> Nat]]
    /\ lost \in SUBSET (OnceTypes \X Kexts)
    /\ unwritten \in [Files -> Nat]
    /\ spent \in [notes : 0..MaxNotes, sessions : 0..MaxSessions, faults : 0..MaxFaults]

NoAlerts == [t \in AlertTypes |-> {}]

AlertsInit ==
    /\ console \in {Nobody} \cup Users
    /\ sessionNote = FALSE
    /\ user = console
    /\ pended = NoAlerts /\ dialog = NoAlerts /\ notified = {} /\ signalled = FALSE
    /\ blocks = {}
    /\ file = [t \in Files |-> "absent"] /\ sent = [t \in Files |-> {}]
    /\ shown = [t \in OnceTypes |-> [k \in Kexts |-> 0]]
    /\ lost = {}
    /\ unwritten = [t \in Files |-> 0]
    /\ spent = [notes |-> 0, sessions |-> 0, faults |-> 0]

Fault == spent.faults < MaxFaults /\ spent' = [spent EXCEPT !.faults = @ + 1]

\* The queued alerts of the kinds in "types".
Queued(types) == {p \in (types \cap OnceTypes) \X Kexts : p[2] \in pended[p[1]]}

-----------------------------------------------------------------------------
(* The tools, the user. *)

\* addKextToAlertDict(), postNoteAboutKexts(): what a tool found, and the
\* callback of kextd that puts it on the main queue.
PostNote(t, ks) ==
    /\ spent.notes < MaxNotes
    /\ spent' = [spent EXCEPT !.notes = @ + 1]
    /\ blocks' = blocks \cup {[type |-> t, kexts |-> ks]}
    /\ UNCHANGED <<sessionVars, queueVars, fileVars, historyVars>>

ChangeUser(u) ==
    /\ u # console
    /\ spent.sessions < MaxSessions
    /\ spent' = [spent EXCEPT !.sessions = @ + 1]
    /\ console' = u
    /\ sessionNote' = TRUE
    /\ UNCHANGED <<user, queueVars, blocks, fileVars, historyVars>>

-----------------------------------------------------------------------------
(* The run loop of kextd. *)

\* What resetUserNotifications() forgets; its dialogs only if they are to go.
Reset(dismissAlert) ==
    /\ dialog' = IF dismissAlert THEN NoAlerts ELSE dialog
    /\ pended' = NoAlerts
    /\ notified' = {}
    /\ lost' = lost \cup Queued(AlertTypes)

WakesFirst == user # console /\ user # Nobody

\* Whoever logs in is shown what is queued.
Wakes == user # console

\* _sessionDidChange(): nothing is reset unless all users are logged out.
SessionDidChange ==
    /\ sessionNote
    /\ sessionNote' = FALSE
    /\ user' = console
    /\ \/ /\ console = Nobody
          /\ Reset(TRUE)
          /\ UNCHANGED signalled
       \/ /\ console # Nobody
          /\ signalled' = (signalled \/ Wakes)
          /\ UNCHANGED <<pended, dialog, notified, lost>>
    /\ UNCHANGED <<console, blocks, fileVars, shown, unwritten, spent>>

\* recordNonsecureKexts(): told once until the next reset.
RecordNonsecureKexts(ks) ==
    /\ pended' = [pended EXCEPT !["nonsecure"] = @ \cup (ks \ notified)]
    /\ notified' = notified \cup ks
    /\ signalled' = (signalled \/ ~ (ks \subseteq notified))

\* _checkNotificationQueue(): the kinds with something pended and no dialog.
Due == {t \in AlertTypes : pended[t] # {} /\ dialog[t] = {}}

\* Of the nonsecure kexts only the first is shown, of the others all.
ToShow(t, first) == IF t = "nonsecure" THEN {first} ELSE pended[t]

\* The revoked ones stay pended until their dialog is dismissed.
LeavePended(t, first) == IF t = "revoked" THEN pended[t] ELSE pended[t] \ ToShow(t, first)

\* Each kextd_raise_..._notification(): none during a system install
\* (createAlertDict()), or if the dialog cannot be created.
Raise(first, raised) ==
    /\ dialog' = [t \in AlertTypes |->
                    IF t \in Due /\ raised THEN ToShow(t, first) ELSE dialog[t]]
    /\ pended' = [t \in AlertTypes |->
                    IF t \in Due THEN LeavePended(t, first) ELSE pended[t]]
    /\ shown' = [t \in OnceTypes |-> [k \in Kexts |->
                    IF t \in Due /\ raised /\ k \in pended[t]
                    THEN shown[t][k] + 1 ELSE shown[t][k]]]
    /\ lost' = IF raised THEN lost ELSE lost \cup Queued(Due)

CheckNotificationQueue ==
    /\ signalled
    /\ signalled' = FALSE
    /\ \/ /\ user = Nobody
          /\ UNCHANGED <<pended, dialog, shown, lost, spent>>
       \/ /\ user # Nobody
          /\ \E first \in Kexts :
                /\ "nonsecure" \in Due => first \in pended["nonsecure"]
                /\ \/ Raise(first, TRUE) /\ UNCHANGED spent
                   \/ Due # {} /\ Raise(first, FALSE) /\ Fault
    /\ UNCHANGED <<sessionVars, notified, blocks, fileVars, unwritten>>

\* What stays queued when a dialog of kind t is dismissed.
LeaveDismissed(t) == IF t = "revoked" THEN {} ELSE pended[t]

\* _notificationDismissed().
NotificationDismissed(t) ==
    /\ dialog[t] # {} /\ console # Nobody
    /\ dialog' = [dialog EXCEPT ![t] = {}]
    /\ pended' = [pended EXCEPT ![t] = LeaveDismissed(t)]
    /\ signalled' = TRUE
    /\ UNCHANGED <<sessionVars, notified, blocks, fileVars, historyVars, spent>>

NotSentOrQueued(b) == b.kexts

\* isInAlertsSentArray().
NotSent(b) == b.kexts \ sent[b.type]

\* sendKextAlertNotifications(), for the kexts that are not in the file yet; a
\* file that is created tells of all.
Tell(t, ks) ==
    IF t \in OnceTypes
    THEN /\ pended' = [pended EXCEPT ![t] = @ \cup ks]
         /\ signalled' = (signalled \/ pended'[t] # {})
    ELSE UNCHANGED <<pended, signalled>>

\* writeKextAlertPlist() and writeKextLoadPlist().  The alerts are pended
\* before a file that exists is replaced, after one is created.
WritePlist(b) ==
    LET t == b.type
        new == NotSent(b) IN
    \/ /\ file[t] = "good"
       /\ Tell(t, new)
       /\ \/ /\ sent' = [sent EXCEPT ![t] = @ \cup new]
             /\ UNCHANGED <<file, unwritten, spent>>
          \/ /\ new # {}
             /\ Fault
             /\ unwritten' = [unwritten EXCEPT ![t] = @ + 1]
             /\ UNCHANGED fileVars
    \/ /\ file[t] = "absent"
       /\ \/ /\ file' = [file EXCEPT ![t] = "good"]
             /\ sent' = [sent EXCEPT ![t] = b.kexts]
             /\ Tell(t, b.kexts)
             /\ UNCHANGED <<unwritten, spent>>
          \/ /\ Fault
             /\ unwritten' = [unwritten EXCEPT ![t] = @ + 1]
             /\ UNCHANGED <<fileVars, pended, signalled>>
    \/ /\ file[t] = "torn"
       /\ UNCHANGED <<fileVars, pended, signalled, unwritten, spent>>

\* sendRevokedCertAlert(): no file.
PendRevoked(b) ==
    /\ pended' = [pended EXCEPT !["revoked"] = @ \cup b.kexts]
    /\ signalled' = TRUE
    /\ UNCHANGED <<fileVars, unwritten, spent>>

\* validateKextsAlertDict(): a note that names too many kexts is dropped.
ValidNote(b) == b.type = "loads" \/ Cardinality(b.kexts) \in 1..MaxInKexts

RunBlock(b) ==
    /\ b \in blocks
    /\ blocks' = blocks \ {b}
    /\ \/ ~ ValidNote(b) /\ UNCHANGED <<fileVars, pended, signalled, unwritten, spent>>
       \/ ValidNote(b) /\ b.type = "revoked" /\ PendRevoked(b)
       \/ ValidNote(b) /\ b.type # "revoked" /\ WritePlist(b)
    /\ UNCHANGED <<sessionVars, dialog, notified, shown, lost>>

-----------------------------------------------------------------------------
(* kextd crashes; launchd starts it again, startMonitoringConsoleUser(). *)

ForgetAlerts ==
    /\ user' = console /\ sessionNote' = FALSE
    /\ pended' = NoAlerts /\ dialog' = NoAlerts /\ notified' = {} /\ signalled' = FALSE
    /\ lost' = lost \cup Queued(AlertTypes)
    /\ blocks' = {}

CrashAlerts ==
    /\ Fault
    /\ ForgetAlerts
    /\ UNCHANGED <<console, fileVars, shown, unwritten>>

\* ... while a file that was emptied to be written again is not yet written.
CrashWriting(b) ==
    /\ b \in blocks /\ b.type # "revoked" /\ ValidNote(b)
    /\ file[b.type] = "absent" \/ (file[b.type] = "good" /\ ~ (b.kexts \subseteq sent[b.type]))
    /\ Fault
    /\ file' = [file EXCEPT ![b.type] = "torn"]
    /\ sent' = [sent EXCEPT ![b.type] = {}]
    /\ ForgetAlerts
    /\ UNCHANGED <<console, shown, unwritten>>

AlertsEnvironment ==
    \/ \E t \in Files \cup {"revoked"}, ks \in (SUBSET Kexts) \ {{}} : PostNote(t, ks)
    \/ \E u \in Users \cup {Nobody} : ChangeUser(u)

AlertsStep ==
    \/ SessionDidChange
    \/ CheckNotificationQueue
    \/ \E t \in AlertTypes : NotificationDismissed(t)
    \/ \E b \in blocks : RunBlock(b)

AlertsFault ==
    \/ CrashAlerts
    \/ \E b \in blocks : CrashWriting(b)

AlertsNext == AlertsEnvironment \/ AlertsStep \/ AlertsFault

\* The run loop comes to its sources; a user who is there reads a dialog.
AlertsSpec ==
    /\ AlertsInit /\ [][AlertsNext]_alertVars
    /\ WF_alertVars(SessionDidChange)
    /\ WF_alertVars(CheckNotificationQueue)
    /\ \A t \in AlertTypes : WF_alertVars(NotificationDismissed(t))

-----------------------------------------------------------------------------
(* What the alerts promise. *)

\* The "alert only once" policy: across logins, dismissals and restarts of
\* kextd a kext is in a dialog of its kind once, and once more for each time
\* the file that remembers it could not be written (writeKextAlertPlist(),
\* isInAlertsSentArray()) or was torn.
ToldOnce ==
    \A t \in OnceTypes, k \in Kexts :
        file[t] # "torn" => shown[t][k] <= 1 + unwritten[t]

\* A kext the file says was told of is told of, is about to be, or was
\* forgotten by one of the four things that clear the queue: a logout, a
\* rescan, a restart, a dialog that cannot be raised.
SentAreAccounted ==
    \A t \in OnceTypes : \A k \in sent[t] :
        k \in pended[t] \/ shown[t][k] > 0 \/ <<t, k>> \in lost

\* A kext is told of once, and not called told of without.
ToldProperly == ToldOnce /\ SentAreAccounted

\* No alert is stuck: with a user at the console whatever is pended leaves the
\* queue, since every way to pend, every login and every dismissal signals the
\* source.  The revoked ones are left out: a dialog that failed keeps them.
AlertsSurface ==
    \A t \in AlertTypes \ {"revoked"}, k \in Kexts :
        (k \in pended[t] /\ user # Nobody) ~> (k \notin pended[t] \/ user = Nobody)
=============================================================================
