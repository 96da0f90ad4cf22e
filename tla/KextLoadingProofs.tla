-------------------------- MODULE KextLoadingProofs --------------------------
(***************************************************************************)
(* Proofs about KextLoading, for any programs, bundles and commands, and   *)
(* whatever SIP allows.                                                    *)
(***************************************************************************)
EXTENDS KextLoading, TLAPS

(***************************************************************************)
(* The inductive invariant: the types, what is true of each task by        *)
(* itself, what a task at work may rely on as long as nobody has crossed   *)
(* it, and how kextd, its clients and its lock hang together.              *)
(***************************************************************************)
Copies == Contents \cup {NoBundle, Torn}

Tasks == [cmd : Commands \cup {NoCommand}, at : Steps, phase : {"none", "scan", "test", "load"},
          tmp : Copies, place : {"source", "staged"}, dext : BOOLEAN,
          opts : AuthOptions, conn : {"unset", "asks", "none"}, asked : BOOLEAN,
          saw : {"no", "loaded", "started"}, client : Procs \cup {Nobody},
          had : SUBSET (Contents \cup {NoBundle}), crossed : BOOLEAN]

Typed ==
    /\ source \in Contents \cup {NoBundle}
    /\ staged \in [bundle : Copies, whole : BOOLEAN]
    /\ loaded \in [bundle : Copies, started : BOOLEAN, crossed : BOOLEAN, asked : BOOLEAN,
                   early : BOOLEAN]
    /\ matching \in BOOLEAN /\ kextdUp \in BOOLEAN
    /\ syspolicyd \in BOOLEAN /\ abandoned \in BOOLEAN
    /\ approved \subseteq Contents
    /\ starts \in 0..MaxStarts /\ events \in 0..MaxEvents

\* A kextutil, and whether it is to load.
Util(p, t) == p # Kextd /\ t.cmd.tool = "kextutil"
Args(t) == KextutilArgs(t.cmd.opts)

\* Of the task t of p, whatever the others do.  The options always ask for the
\* files, the signature and the location, and kextutil's for the policy too if
\* it is to load.
Sound(p, t) ==
    /\ t.at = "idle" => t.cmd = NoCommand /\ t.client = Nobody
    /\ p # Kextd /\ t.at \notin {"idle", "cleaning"} => t.cmd.tool \in {"kextload", "kextutil"}
    /\ t.at = "cleaning" => t.cmd.tool # "kextutil"
    /\ t.phase # "none" => t.cmd.tool = "kextutil"
    /\ t.at = "lock" => t.phase = "scan"
    /\ t.opts.files /\ t.opts.signature /\ t.opts.location
    /\ p = Kextd \/ (Util(p, t) /\ Args(t).doLoad) => t.opts.policy
    /\ t.at \in {"begin", "netboot"} => t.cmd.tool = "kextload"
    /\ Util(p, t) /\ t.at \in {"approve", "load"} => t.phase = "load"
    /\ t.phase = "load" => Args(t).doLoad
    /\ Util(p, t) /\ t.at = "wait" => t.dext
    /\ t.at = "approve" => Args(t).interactive
    /\ t.at \in {"copying", "move"} => t.tmp \in t.had \cup {NoBundle, Torn}
    /\ t.at = "move" => t.tmp = NoBundle \/ kextBundleValidates(t.tmp)
    /\ isSIPDisabled => t.place = "source"
    /\ ~ isSIPDisabled /\ t.at \in {"policy", "approve", "load"} => t.place = "staged"

\* What t relies on while it has not been crossed: the copy in the staging area
\* is one of what it had, if all of it is there; once checked, it is still what
\* was checked.
Relies(t) ==
    t.at \in {"refresh", "lock", "check", "policy", "approve", "load"} /\ t.place = "staged" /\ ~ t.crossed
Checked(t) == ~ isInvalidSignatureAllowed /\ t.at \in {"policy", "approve", "load"}
Allowed(p, t, b, users) ==
    b.dext \/ t.conn = "none" \/ (p # Kextd /\ t.cmd.tool = "kextload") \/ (t.asked /\ b \in users)
Holds(p, t, copy, users) ==
    Relies(t) =>
        /\ copy # NotStaged
        /\ copy.whole \/ Checked(t) => copy.bundle \in t.had \cup {Torn}
        /\ Checked(t) => ~ copy.bundle.excluded /\ copy.bundle.owned
        /\ Checked(t) /\ t.at # "policy" => Allowed(p, t, copy.bundle, users)

\* kextd works for a client that waits; its lock is held by a kextutil on its
\* way to load.
ClientsWait ==
    task[Kextd].client # Nobody => task[task[Kextd].client].at = "wait"
LockHeld ==
    lock # Nobody => task[lock].cmd.tool = "kextutil" /\ task[lock].phase \in {"test", "load"}

\* The kextutil that will start or unload what it has loaded, if it does not
\* give up.
WillSettle(t) ==
    /\ ~ t.dext /\ Args(t).interactive /\ t.phase = "load"
    /\ \/ t.at \in {"reread", "start", "rollback"}
       \/ t.at \in {"symbols", "unload"} /\ t.saw # "started"
HalfStartedIsSettled ==
    (loaded # NotLoaded /\ ~ loaded.started) => abandoned \/ \E p \in Procs : WillSettle(task[p])

\* ApprovedAtLoad, of what is loaded and what the users approved.
Vetted(kext, users) ==
    kext # NotLoaded =>
        /\ ~ isSIPDisabled => SignatureAccepted(kext.bundle, FALSE)
        /\ ~ isInvalidSignatureAllowed =>
             \/ kext.crossed
             \/ /\ ~ kext.bundle.excluded /\ kext.bundle.owned
                /\ kext.bundle.dext \/ kext.early \/ (kext.asked /\ kext.bundle \in users)

TaskInv ==
    /\ task \in [Programs -> Tasks] /\ lock \in Procs \cup {Nobody}
    /\ \A p \in Programs : Sound(p, task[p])
    /\ \A p \in Programs : Holds(p, task[p], staged, approved)
    /\ \A p \in Programs : Active(p) => source \in task[p].had
    /\ ClientsWait /\ LockHeld

IInv ==
    /\ Typed /\ TaskInv
    /\ StagedIsValidated /\ HalfStartedIsSettled /\ Vetted(loaded, approved)

(***************************************************************************)
(* The policy's operators.                                                 *)
(***************************************************************************)

\* What passes with the network passes without it.
LEMMA ValidatesWithoutNetwork ==
    ASSUME NEW b, kextBundleValidates(b)
    PROVE  SignatureAccepted(b, FALSE)
  BY DEF kextBundleValidates, SignatureAccepted, checkKextSignature, SignedWell

\* A mixture of two versions is not signed.
LEMMA TornFails ==
    ASSUME NEW n \in BOOLEAN, ~ isInvalidSignatureAllowed
    PROVE  ~ SignatureAccepted(Torn, n)
  BY DEF Torn, SignatureAccepted, checkKextSignature, SignedWell, InExceptionList

LEMMA KextloadOptionsAsk ==
    ASSUME NEW early \in BOOLEAN
    PROVE  LET o == KextloadOptions(early) IN
           o \in AuthOptions /\ o.files /\ o.signature /\ o.location
  BY DEF KextloadOptions, AuthOptions

LEMMA KextutilOptionsAsk ==
    ASSUME NEW opts, NEW root \in BOOLEAN, ~ KextutilArgs(opts).skipAuthentication
    PROVE  LET o == KextutilOptions(KextutilArgs(opts), root) IN
           /\ o \in AuthOptions /\ o.files /\ o.signature /\ o.location
           /\ KextutilArgs(opts).doLoad => o.policy
  BY DEF KextutilOptions, KextutilArgs, AuthOptions

(***************************************************************************)
(* What a step of one program does to the others' tasks.                   *)
(***************************************************************************)

\* No other kextutil that has something to settle forgets it.
OthersGoOn(p) == \A q \in Procs \ {p} : WillSettle(task[q]) => WillSettle(task'[q])

LEMMA IdleIsSound ==
    ASSUME NEW p \in Programs, NEW copy, NEW users
    PROVE  Idle \in Tasks /\ Sound(p, Idle) /\ Holds(p, Idle, copy, users)
<1>1. KextdAuthenticationOptions \in AuthOptions
  BY DEF KextdAuthenticationOptions, AuthOptions
<1>2. Idle \in Tasks
  BY <1>1 DEF Idle, Tasks, Copies, Steps, NoCommand
<1>3. Sound(p, Idle)
  BY DEF Idle, Sound, Util, KextdAuthenticationOptions, NoCommand
<1>4. Holds(p, Idle, copy, users)
  BY DEF Idle, Holds, Relies
<1> QED
  BY <1>2, <1>3, <1>4

\* A program takes a step, and maybe kextd's lock: t is its task then.
LEMMA TaskKeeps ==
    ASSUME TaskInv, NEW p \in Programs, NEW t \in Tasks, task' = [task EXCEPT ![p] = t],
           lock' = lock \/ (lock' = p /\ p \in Procs /\ t.cmd.tool = "kextutil" /\ t.phase = "test"),
           UNCHANGED <<source, staged, approved>>,
           Sound(p, t), Holds(p, t, staged, approved), t.at # "idle" => source \in t.had,
           task[p].at # "wait", t.client = task[p].client, t.cmd = task[p].cmd,
           t.phase \in {task[p].phase, "test", "load"}
    PROVE  TaskInv' /\ OthersGoOn(p)
<1>1. task' \in [Programs -> Tasks] /\ lock' \in Procs \cup {Nobody}
  BY DEF TaskInv
<1>2. \A q \in Programs : task'[q] = IF q = p THEN t ELSE task[q]
  BY DEF TaskInv
<1>3. \A q \in Programs : Sound(q, task[q])'
  BY <1>2 DEF TaskInv
<1>4. \A q \in Programs : Holds(q, task[q], staged, approved)'
  BY <1>2 DEF TaskInv
<1>5. \A q \in Programs : (Active(q) => source \in task[q].had)'
  BY <1>2 DEF TaskInv, Active
<1>6. ClientsWait'
  <2> DEFINE c == task[Kextd].client
  <2>1. c \in Procs \cup {Nobody} /\ task'[Kextd].client = c
    BY <1>2 DEF TaskInv, Tasks, Programs
  <2>2. CASE c # Nobody
    <3>1. c \in Programs /\ task[c].at = "wait"
      BY <2>1, <2>2 DEF TaskInv, ClientsWait, Programs
    <3> QED
      BY <1>2, <2>1, <3>1 DEF ClientsWait
  <2> QED
    BY <2>1, <2>2 DEF ClientsWait
<1>7. LockHeld'
  <2>1. lock # Nobody => lock \in Programs
    BY DEF TaskInv, Programs
  <2> QED
    BY <1>2, <2>1 DEF TaskInv, LockHeld
<1>8. OthersGoOn(p)
  BY <1>2 DEF OthersGoOn, Programs
<1> QED
  BY <1>1, <1>3, <1>4, <1>5, <1>6, <1>7, <1>8 DEF TaskInv

LEMMA GoesKeeps ==
    ASSUME TaskInv, NEW p \in Programs, NEW t \in Tasks, Goes(p, t),
           UNCHANGED <<source, staged, approved>>,
           Sound(p, t), Holds(p, t, staged, approved), t.at # "idle" => source \in t.had,
           task[p].at # "wait", t.client = task[p].client, t.cmd = task[p].cmd,
           t.phase \in {task[p].phase, "test", "load"}
    PROVE  TaskInv' /\ OthersGoOn(p)
  BY TaskKeeps DEF Goes

\* t and u differ in crossed at most.
Same(t, u) ==
    /\ u.cmd = t.cmd /\ u.at = t.at /\ u.phase = t.phase /\ u.tmp = t.tmp /\ u.place = t.place
    /\ u.dext = t.dext /\ u.opts = t.opts /\ u.conn = t.conn /\ u.asked = t.asked
    /\ u.saw = t.saw /\ u.client = t.client /\ u.had = t.had

\* p writes in the staging area, which is copy then: the others have been crossed.
LEMMA WritesKeeps ==
    ASSUME TaskInv, NEW p \in Programs, NEW t \in Tasks, Writes(p, t),
           UNCHANGED <<source, approved>>,
           Sound(p, t), Holds(p, t, staged', approved), t.at # "idle" => source \in t.had,
           task[p].at # "wait", p # Kextd \/ t.client = task[p].client,
           lock # p \/ (t.cmd = task[p].cmd /\ t.phase = task[p].phase)
    PROVE  TaskInv' /\ OthersGoOn(p)
<1> DEFINE after(q) == IF q = p THEN t ELSE [task[q] EXCEPT !.crossed = @ \/ Active(q)]
<1>1. \A q \in Programs : task[q] \in Tasks /\ after(q) \in Tasks
  BY DEF TaskInv, Tasks, Active
<1>2. \A q \in Programs : task'[q] = after(q)
  BY DEF Writes
<1>3. task' \in [Programs -> Tasks] /\ lock' = lock /\ lock \in Procs \cup {Nobody}
  BY <1>1 DEF Writes, TaskInv
<1>4. \A q \in Programs \ {p} :
         /\ task'[q].crossed = (task[q].crossed \/ Active(q))
         /\ Same(task[q], task'[q])
  <2> SUFFICES ASSUME NEW q \in Programs \ {p}
               PROVE  /\ task'[q].crossed = (task[q].crossed \/ Active(q))
                      /\ Same(task[q], task'[q])
    OBVIOUS
  <2>1. task'[q] = [task[q] EXCEPT !.crossed = @ \/ Active(q)] /\ task[q] \in Tasks
    BY <1>1, <1>2
  <2> QED
    BY <2>1 DEF Tasks, Same
<1>5. \A q \in Programs : Sound(q, task[q])'
  <2> SUFFICES ASSUME NEW q \in Programs \ {p}
               PROVE  Sound(q, task'[q])
    BY <1>2
  <2>1. Same(task[q], task'[q]) /\ Sound(q, task[q])
    BY <1>4 DEF TaskInv
  <2> QED
    BY <2>1 DEF Same, Sound, Util, Args
<1>6. \A q \in Programs : Holds(q, task[q], staged, approved)'
  <2>1. \A q \in Programs \ {p} : ~ Relies(task'[q])
    BY <1>4 DEF Same, Relies, Active
  <2> QED
    BY <1>2, <2>1 DEF Holds
<1>7. \A q \in Programs : (Active(q) => source \in task[q].had)'
  BY <1>2, <1>4 DEF TaskInv, Same, Active
<1>8. ClientsWait'
  <2> DEFINE c == task[Kextd].client
  <2>1. c \in Procs \cup {Nobody} /\ task'[Kextd].client = c
    <3>1. task'[Kextd].client = c
      BY <1>2, <1>4 DEF Same, Programs
    <3>2. task[Kextd] \in Tasks
      BY <1>1 DEF Programs
    <3> QED
      BY <3>1, <3>2 DEF Tasks
  <2>2. CASE c # Nobody
    <3>1. c \in Programs \ {p} /\ task[c].at = "wait"
      BY <2>1, <2>2 DEF TaskInv, ClientsWait, Programs
    <3> QED
      BY <1>4, <2>1, <3>1 DEF Same, ClientsWait
  <2> QED
    BY <2>1, <2>2 DEF ClientsWait
<1>9. LockHeld'
  <2>1. lock # Nobody => lock \in Programs
    BY <1>3 DEF Programs
  <2> QED
    BY <1>2, <1>3, <1>4, <2>1 DEF TaskInv, Same, LockHeld
<1>10. OthersGoOn(p)
  BY <1>4 DEF Same, OthersGoOn, WillSettle, Args, Programs
<1> QED
  BY <1>3, <1>5, <1>6, <1>7, <1>8, <1>9, <1>10 DEF TaskInv

\* A program ends.  Of the copy in the staging area it may leave less.
LEMMA FinishKeeps ==
    ASSUME TaskInv, LoadingAssumption, NEW p \in Programs, NEW ok \in BOOLEAN, Finish(p, ok),
           UNCHANGED <<source, approved>>,
           \A q \in Programs : Holds(q, task[q], staged', approved),
           task[p].at # "wait" \/ task[Kextd].client = Nobody
    PROVE  TaskInv' /\ OthersGoOn(p)
<1> DEFINE c == task[Kextd].client
           rest == [Idle EXCEPT !.conn = IF task[Kextd].at \in {"check", "policy"}
                                         THEN Connection(Kextd) ELSE task[Kextd].conn]
           goesOn == p = Kextd /\ c # Nobody /\ ok /\ task[c].cmd.tool = "kextutil"
           after(q) == CASE q = p -> IF p = Kextd THEN rest ELSE Idle
                         [] p = Kextd /\ c # Nobody /\ q = c /\ q # p ->
                              IF goesOn THEN [task[c] EXCEPT !.at = "reread"] ELSE Idle
                         [] OTHER -> task[q]
<1>1. /\ \A q \in Programs : task[q] \in Tasks
      /\ c \in Procs \cup {Nobody} /\ (c # Nobody => c \in Programs /\ c # Kextd /\ task[c].at = "wait")
  BY DEF TaskInv, Tasks, ClientsWait, Programs, Nobody, Kextd
<1>2. task' = [q \in Programs |-> after(q)]
  <2>1. CASE p # Kextd
    <3>1. task' = [task EXCEPT ![p] = Idle]
      BY <2>1 DEF Finish
    <3> QED
      BY <2>1, <3>1 DEF TaskInv
  <2>2. CASE p = Kextd /\ c = Nobody
    <3>1. task' = [task EXCEPT ![p] = rest]
      BY <2>2 DEF Finish
    <3> QED
      BY <2>2, <3>1 DEF TaskInv
  <2>3. CASE goesOn
    <3>1. task' = [task EXCEPT ![p] = rest, ![c].at = "reread"]
      BY <2>3 DEF Finish
    <3> QED
      BY <1>1, <2>3, <3>1 DEF TaskInv
  <2>4. CASE p = Kextd /\ c # Nobody /\ ~ goesOn
    <3>1. task' = [task EXCEPT ![p] = rest, ![c] = Idle]
      BY <2>4 DEF Finish
    <3> QED
      BY <1>1, <2>4, <3>1 DEF TaskInv
  <2> QED
    BY <2>1, <2>2, <2>3, <2>4
<1>3. \A q \in Programs : after(q) \in Tasks /\ (q \notin {p, c} => after(q) = task[q])
  <2>1. Idle \in Tasks /\ task[Kextd].conn \in {"unset", "asks", "none"}
    BY <1>1, IdleIsSound DEF Tasks, Programs
  <2>2. Connection(Kextd) \in {"unset", "asks", "none"}
    BY <2>1 DEF Connection
  <2>3. rest \in Tasks
    BY <2>1, <2>2 DEF Tasks
  <2>4. c # Nobody => [task[c] EXCEPT !.at = "reread"] \in Tasks
    BY <1>1 DEF Tasks, Steps
  <2> QED
    BY <1>1, <2>1, <2>3, <2>4
<1>4. task' \in [Programs -> Tasks] /\ lock' \in {lock, Nobody}
  BY <1>2, <1>3 DEF TaskInv, Finish, Release
<1>5. /\ Idle.at = "idle" /\ rest.at = "idle" /\ rest.client = Nobody /\ Idle.client = Nobody
      /\ Sound(p, Idle) /\ Sound(p, rest)
      /\ ~ Relies(Idle) /\ ~ Relies(rest)
  <2>1. Idle \in Tasks /\ Sound(p, Idle)
    BY IdleIsSound
  <2>2. Same([rest EXCEPT !.conn = Idle.conn], Idle) /\ rest.at = "idle" /\ rest.client = Nobody
    BY DEF Idle, Same
  <2>3. Idle.at = "idle" /\ Idle.client = Nobody
    BY DEF Idle
  <2>4. /\ rest.cmd = Idle.cmd /\ rest.opts = Idle.opts /\ rest.phase = Idle.phase /\ rest.dext = Idle.dext
        /\ rest.tmp = Idle.tmp /\ rest.had = Idle.had /\ rest.place = Idle.place
    BY DEF Idle
  <2> QED
    BY <2>1, <2>2, <2>3, <2>4 DEF Sound, Relies, Util, Args
\* The client that goes on is a kextutil whose kext is a driver extension.
<1>6. goesOn => LET u == [task[c] EXCEPT !.at = "reread"] IN
                /\ u.at = "reread" /\ u.cmd = task[c].cmd /\ u.phase = task[c].phase
                /\ u.client = task[c].client /\ u.had = task[c].had /\ Sound(c, u) /\ ~ Relies(u)
  <2> SUFFICES ASSUME goesOn
               PROVE  LET u == [task[c] EXCEPT !.at = "reread"] IN
                      /\ u.at = "reread" /\ u.cmd = task[c].cmd /\ u.phase = task[c].phase
                      /\ u.client = task[c].client /\ u.had = task[c].had /\ Sound(c, u) /\ ~ Relies(u)
    OBVIOUS
  <2> DEFINE u == [task[c] EXCEPT !.at = "reread"]
  <2>1. task[c] \in Tasks /\ Sound(c, task[c]) /\ Util(c, task[c])
    BY <1>1 DEF TaskInv, Util
  <2>2. /\ u.at = "reread" /\ u.cmd = task[c].cmd /\ u.phase = task[c].phase /\ u.opts = task[c].opts
        /\ u.client = task[c].client /\ u.had = task[c].had /\ u.dext = task[c].dext
    BY <2>1 DEF Tasks
  <2>3. task[c].dext
    BY <1>1, <2>1 DEF Sound
  <2>4. Sound(c, u) /\ ~ Relies(u)
    BY <2>1, <2>2, <2>3 DEF Sound, Util, Args, Relies
  <2> QED
    BY <2>2, <2>4
<1> HIDE DEF rest
<1>7. \A q \in Programs :
         \/ task'[q] = task[q] /\ q # p
         \/ q = p /\ task'[q] \in {rest, Idle}
         \/ p = Kextd /\ q # p /\ q = c /\ ~ goesOn /\ task'[q] = Idle
         \/ p = Kextd /\ q # p /\ q = c /\ goesOn /\ task'[q] = [task[c] EXCEPT !.at = "reread"]
  BY <1>2
<1>8. \A q \in Programs : Sound(q, task[q])'
  BY <1>5, <1>6, <1>7, IdleIsSound DEF TaskInv
<1>9. \A q \in Programs : Holds(q, task[q], staged, approved)'
  BY <1>5, <1>6, <1>7 DEF Holds
<1>10. \A q \in Programs : (Active(q) => source \in task[q].had)'
  BY <1>1, <1>5, <1>6, <1>7 DEF TaskInv, Active
<1>11. ClientsWait'
  <2>1. CASE p = Kextd
    BY <1>5, <1>7, <2>1 DEF ClientsWait, Programs
  <2>2. CASE p # Kextd
    <3>1. task'[Kextd] = task[Kextd]
      BY <1>7, <2>2, <1>1 DEF Programs
    <3>2. c # Nobody => task'[c] = task[c]
      <4>1. c # Nobody => c # p
        BY <1>1
      <4> QED
        BY <1>2, <1>1, <2>2, <4>1
    <3> QED
      BY <1>1, <3>1, <3>2 DEF ClientsWait
  <2> QED
    BY <2>1, <2>2
<1>12. LockHeld'
  <2>1. lock \in Procs \cup {Nobody}
    BY DEF TaskInv
  <2>2. CASE lock' # Nobody
    <3>1. lock' = lock /\ lock \in Programs /\ lock # Kextd
      BY <1>4, <2>1, <2>2, LoadingAssumption DEF Programs, Nobody, Kextd
    <3>2. task[lock].cmd.tool = "kextutil" /\ task[lock].phase \in {"test", "load"}
      BY <3>1, <2>2 DEF TaskInv, LockHeld
    <3>3. lock # p
      BY <2>2, <3>1 DEF Finish, Release, Nobody, Kextd
    <3>4. lock = c /\ p = Kextd => goesOn
      BY <2>2, <3>1 DEF Finish, Release, Nobody, Kextd
    <3>5. \/ task'[lock] = task[lock]
          \/ lock = c /\ goesOn /\ task'[lock] = [task[c] EXCEPT !.at = "reread"]
      BY <1>2, <3>1, <3>3, <3>4
    <3> QED
      BY <1>6, <3>1, <3>2, <3>5 DEF LockHeld
  <2> QED
    BY <2>2 DEF LockHeld
<1>13. OthersGoOn(p)
  <2>1. c # Nobody => ~ WillSettle(task[c])
    BY <1>1 DEF WillSettle
  <2> QED
    BY <1>3, <1>2, <2>1, LoadingAssumption DEF OthersGoOn, Programs, Nobody
<1> QED
  BY <1>4, <1>8, <1>9, <1>10, <1>11, <1>12, <1>13 DEF TaskInv

(***************************************************************************)
(* What is left of the invariant, for a step that leaves the bundle, its   *)
(* copy and the kernel alone.                                              *)
(***************************************************************************)
LEMMA SettledKept ==
    ASSUME HalfStartedIsSettled, NEW p \in Programs, OthersGoOn(p), UNCHANGED loaded,
           abandoned => abandoned',
           WillSettle(task[p]) => WillSettle(task'[p]) \/ abandoned' \/ loaded.started
    PROVE  HalfStartedIsSettled'
<1> SUFFICES ASSUME loaded # NotLoaded, ~ loaded.started, ~ abandoned'
             PROVE  \E q \in Procs : WillSettle(task'[q])
  BY DEF HalfStartedIsSettled
<1>1. PICK q \in Procs : WillSettle(task[q])
  BY DEF HalfStartedIsSettled
<1>2. WillSettle(task'[q])
  BY <1>1 DEF OthersGoOn
<1> QED
  BY <1>2

World == <<source, staged, loaded, matching, abandoned, kextdUp, syspolicyd, approved, starts, events>>

LEMMA QuietStep ==
    ASSUME IInv, NEW p \in Programs, TaskInv', OthersGoOn(p), UNCHANGED World,
           WillSettle(task[p]) => WillSettle(task'[p]) \/ loaded.started
    PROVE  IInv'
<1>1. Typed'
  BY DEF IInv, Typed, World
<1>2. StagedIsValidated' /\ Vetted(loaded, approved)'
  BY DEF IInv, StagedIsValidated, World
<1>3. HalfStartedIsSettled'
  BY SettledKept DEF IInv, World
<1> QED
  BY <1>1, <1>2, <1>3 DEF IInv

\* A program that only ends.
LEMMA QuietFinish ==
    ASSUME IInv, NEW p \in Programs, NEW ok \in BOOLEAN, Finish(p, ok), UNCHANGED World,
           task[p].at \notin {"idle", "wait"}, ~ WillSettle(task[p]) \/ loaded.started
    PROVE  IInv'
<1>1. TaskInv' /\ OthersGoOn(p)
  BY FinishKeeps, LoadingAssumption DEF IInv, TaskInv, World
<1> QED
  BY <1>1, QuietStep

\* A program that only takes a step.
LEMMA QuietGoes ==
    ASSUME IInv, NEW p \in Programs, NEW t \in Tasks, Goes(p, t), UNCHANGED World,
           task[p].at \notin {"idle", "wait"},
           Sound(p, t), Holds(p, t, staged, approved), t.had = task[p].had,
           t.client = task[p].client, t.cmd = task[p].cmd, t.phase \in {task[p].phase, "test", "load"},
           WillSettle(task[p]) => WillSettle(t) \/ loaded.started
    PROVE  IInv'
<1>1. source \in t.had
  BY DEF IInv, TaskInv, Active
<1>2. TaskInv' /\ OthersGoOn(p)
  BY <1>1, GoesKeeps DEF IInv, World
<1>3. task'[p] = t
  BY DEF Goes, IInv, TaskInv
<1> QED
  BY <1>2, <1>3, QuietStep

\* The task of a program.
LEMMA TaskFacts ==
    ASSUME IInv, NEW p \in Programs
    PROVE  /\ task[p] \in Tasks /\ Sound(p, task[p]) /\ Holds(p, task[p], staged, approved)
           /\ Active(p) => source \in task[p].had
  BY DEF IInv, TaskInv

LEMMA BundleFacts ==
    ASSUME Typed, NEW p \in Programs
    PROVE  Object(p) \in Copies /\ Content(p) \in Copies
  BY DEF Object, Content, Typed, Copies

LEMMA DextIsBoolean ==
    ASSUME NEW b \in Copies, b # NoBundle
    PROVE  b.dext \in BOOLEAN
<1>1. b \in Bundles \/ b = Torn
  BY LoadingAssumption DEF Copies
<1>2. b \in Bundles => b.dext \in BOOLEAN
  BY DEF Bundles
<1>3. Torn.dext \in BOOLEAN
  BY DEF Torn
<1> QED
  BY <1>1, <1>2, <1>3

(***************************************************************************)
(* Staging.                                                                *)
(***************************************************************************)
LEMMA CompareKeeps ==
    ASSUME IInv, NEW p \in Programs, Compare(p)
    PROVE  IInv'
<1>1. PICK needed \in BOOLEAN :
         /\ NeedsStaging(needed)
         /\ Goes(p, [task[p] EXCEPT !.place = IF pathIsSecure("source") THEN "source" ELSE "staged",
                                    !.at = IF needed THEN "remove" ELSE "refresh"])
  BY DEF Compare
<1> DEFINE t == [task[p] EXCEPT !.place = IF pathIsSecure("source") THEN "source" ELSE "staged",
                                !.at = IF needed THEN "remove" ELSE "refresh"]
<1>2. task[p] \in Tasks /\ Sound(p, task[p]) /\ task[p].at = "compare" /\ source \in task[p].had
  BY TaskFacts DEF Compare, Active
<1>3. /\ t \in Tasks /\ t.at = IF needed THEN "remove" ELSE "refresh"
      /\ t.place = IF isSIPDisabled THEN "source" ELSE "staged"
      /\ t.cmd = task[p].cmd /\ t.phase = task[p].phase /\ t.opts = task[p].opts
      /\ t.client = task[p].client /\ t.had = task[p].had /\ t.crossed = task[p].crossed
  BY <1>2 DEF Tasks, Steps, pathIsSecure
<1>4. Sound(p, t)
  BY <1>2, <1>3 DEF Sound, Util, Args
<1>5. Holds(p, t, staged, approved)
  <2> SUFFICES ASSUME Relies(t)
               PROVE  staged # NotStaged /\ (staged.whole => staged.bundle \in t.had)
    BY <1>3 DEF Holds, Checked
  <2>1. ~ needed /\ ~ isSIPDisabled
    BY <1>3 DEF Relies
  <2> QED
    BY <1>1, <1>2, <1>3, <2>1 DEF NeedsStaging, pathIsSecure, NotStaged
<1>6. UNCHANGED World /\ Goes(p, t)
  BY <1>1 DEF Compare, World, stageVars, kernelVars
<1> QED
  BY <1>2, <1>3, <1>4, <1>5, <1>6, QuietGoes DEF WillSettle

\* A step that may change the copy in the staging area.
LEMMA StagingStep ==
    ASSUME IInv, NEW p \in Programs, TaskInv', OthersGoOn(p), ~ WillSettle(task[p]),
           UNCHANGED <<source, kernelVars, kextdUp, syspolicyd, approved, starts>>,
           events' \in 0..MaxEvents, staged' \in [bundle : Copies, whole : BOOLEAN],
           StagedIsValidated'
    PROVE  IInv'
<1>1. Typed'
  BY DEF IInv, Typed, kernelVars
<1>2. Vetted(loaded, approved)'
  BY DEF IInv, kernelVars
<1>3. HalfStartedIsSettled'
  BY SettledKept DEF IInv, kernelVars
<1> QED
  BY <1>1, <1>2, <1>3 DEF IInv

\* The copy that is whole may become less than that, without notice.
LEMMA LessIsHeld ==
    ASSUME IInv, staged # NotStaged, staged.whole, NEW w \in BOOLEAN
    PROVE  LET s == [staged EXCEPT !.whole = w] IN
           /\ s \in [bundle : Copies, whole : BOOLEAN] /\ s.bundle = staged.bundle /\ s # NotStaged
           /\ \A q \in Programs : Holds(q, task[q], s, approved)
<1> DEFINE s == [staged EXCEPT !.whole = w]
<1>1. s \in [bundle : Copies, whole : BOOLEAN] /\ s.bundle = staged.bundle
  BY DEF IInv, Typed
<1>2. staged.bundle # NoBundle
  BY DEF IInv, Typed, NotStaged
<1>3. s # NotStaged
  BY <1>1, <1>2 DEF NotStaged
<1>4. \A q \in Programs : Holds(q, task[q], s, approved)
  BY <1>1, <1>3 DEF IInv, TaskInv, Holds
<1> QED
  BY <1>1, <1>3, <1>4

LEMMA EventCounted ==
    ASSUME IInv, Event \/ NoEvent
    PROVE  events' \in 0..MaxEvents
  BY LoadingAssumption DEF IInv, Typed, Event, NoEvent

LEMMA RemoveKeeps ==
    ASSUME IInv, NEW p \in Programs, Remove(p)
    PROVE  IInv'
<1>1. task[p] \in Tasks /\ Sound(p, task[p]) /\ task[p].at = "remove" /\ source \in task[p].had
  BY TaskFacts DEF Remove, Active
<1>2. CASE staged = NotStaged
  <2> DEFINE t == [task[p] EXCEPT !.at = "copy"]
  <2>1. Goes(p, t) /\ UNCHANGED World
    BY <1>2 DEF Remove, GoesTo, World, kernelVars
  <2>2. /\ t \in Tasks /\ t.at = "copy" /\ t.cmd = task[p].cmd /\ t.phase = task[p].phase
        /\ t.opts = task[p].opts /\ t.client = task[p].client /\ t.had = task[p].had /\ t.place = task[p].place
    BY <1>1 DEF Tasks, Steps
  <2>3. Sound(p, t) /\ Holds(p, t, staged, approved)
    BY <1>1, <2>2 DEF Sound, Util, Args, Holds, Relies
  <2> QED
    BY <1>1, <2>1, <2>2, <2>3, QuietGoes DEF WillSettle
<1>3. CASE staged # NotStaged
  <2> DEFINE t == [task[p] EXCEPT !.at = "removing"]
  <2>1. staged' = [staged EXCEPT !.whole = FALSE] /\ Writes(p, t) /\ UNCHANGED <<source, approved>>
    BY <1>3 DEF Remove
  <2>2. /\ t \in Tasks /\ t.at = "removing" /\ t.cmd = task[p].cmd /\ t.phase = task[p].phase
        /\ t.opts = task[p].opts /\ t.client = task[p].client /\ t.had = task[p].had /\ t.place = task[p].place
    BY <1>1 DEF Tasks, Steps
  <2>3. Sound(p, t) /\ Holds(p, t, staged', approved)
    BY <1>1, <2>2 DEF Sound, Util, Args, Holds, Relies
  <2>4. TaskInv' /\ OthersGoOn(p)
    BY <1>1, <2>1, <2>2, <2>3, WritesKeeps DEF IInv
  <2>5. staged' \in [bundle : Copies, whole : BOOLEAN] /\ staged'.bundle = staged.bundle
    BY <2>1 DEF IInv, Typed
  <2>6. StagedIsValidated'
    BY <1>3, <2>5 DEF IInv, StagedIsValidated
  <2> QED
    BY <1>1, <2>4, <2>5, <2>6, StagingStep DEF Remove, WillSettle, IInv, Typed
<1> QED
  BY <1>2, <1>3

LEMMA RemovedKeeps ==
    ASSUME IInv, NEW p \in Programs, Removed(p)
    PROVE  IInv'
<1>1. task[p] \in Tasks /\ Sound(p, task[p]) /\ task[p].at = "removing" /\ source \in task[p].had
  BY TaskFacts DEF Removed, Active
<1>2. CASE Finish(p, FALSE) /\ UNCHANGED staged
  BY <1>1, <1>2, QuietFinish DEF Removed, World, kernelVars, WillSettle
<1>3. CASE staged' = NotStaged /\ Writes(p, [task[p] EXCEPT !.at = "copy"])
  <2> DEFINE t == [task[p] EXCEPT !.at = "copy"]
  <2>1. /\ t \in Tasks /\ t.at = "copy" /\ t.cmd = task[p].cmd /\ t.phase = task[p].phase
        /\ t.opts = task[p].opts /\ t.client = task[p].client /\ t.had = task[p].had /\ t.place = task[p].place
    BY <1>1 DEF Tasks, Steps
  <2>2. Sound(p, t) /\ Holds(p, t, staged', approved)
    BY <1>1, <2>1 DEF Sound, Util, Args, Holds, Relies
  <2>3. TaskInv' /\ OthersGoOn(p)
    BY <1>1, <1>3, <2>1, <2>2, WritesKeeps DEF IInv, Removed
  <2>4. staged' \in [bundle : Copies, whole : BOOLEAN] /\ StagedIsValidated'
    BY <1>3 DEF NotStaged, Copies, StagedIsValidated
  <2> QED
    BY <1>1, <2>3, <2>4, StagingStep DEF Removed, WillSettle, IInv, Typed
<1>4. CASE /\ staged # NotStaged /\ staged.whole /\ Finish(p, FALSE)
           /\ \E w \in BOOLEAN : staged' = [staged EXCEPT !.whole = w]
  <2>1. /\ staged' \in [bundle : Copies, whole : BOOLEAN] /\ staged'.bundle = staged.bundle
        /\ \A q \in Programs : Holds(q, task[q], staged', approved)
    BY <1>4, LessIsHeld
  <2>2. TaskInv' /\ OthersGoOn(p)
    BY <1>1, <1>4, <2>1, FinishKeeps, LoadingAssumption DEF IInv, Removed
  <2>3. StagedIsValidated'
    BY <1>4, <2>1 DEF IInv, StagedIsValidated
  <2> QED
    BY <1>1, <2>1, <2>2, <2>3, StagingStep DEF Removed, WillSettle, IInv, Typed
<1> QED
  BY <1>2, <1>3, <1>4 DEF Removed

LEMMA CopyKeeps ==
    ASSUME IInv, NEW p \in Programs, Copy(p)
    PROVE  IInv'
<1>1. task[p] \in Tasks /\ Sound(p, task[p]) /\ task[p].at = "copy" /\ source \in task[p].had
  BY TaskFacts DEF Copy, Active
<1>2. UNCHANGED World
  BY DEF Copy, World, stageVars, kernelVars
<1>3. CASE Finish(p, FALSE)
  BY <1>1, <1>2, <1>3, QuietFinish DEF WillSettle
<1>4. CASE Goes(p, [task[p] EXCEPT !.tmp = source, !.at = "copying"])
  <2> DEFINE t == [task[p] EXCEPT !.tmp = source, !.at = "copying"]
  <2>1. /\ t \in Tasks /\ t.at = "copying" /\ t.tmp = source /\ t.cmd = task[p].cmd
        /\ t.phase = task[p].phase /\ t.opts = task[p].opts /\ t.client = task[p].client
        /\ t.had = task[p].had /\ t.place = task[p].place
    BY <1>1 DEF Tasks, Steps, Copies, IInv, Typed
  <2>2. Sound(p, t) /\ Holds(p, t, staged, approved)
    BY <1>1, <2>1 DEF Sound, Util, Args, Holds, Relies
  <2> QED
    BY <1>1, <1>2, <1>4, <2>1, <2>2, QuietGoes DEF WillSettle
<1> QED
  BY <1>3, <1>4 DEF Copy

LEMMA ValidateKeeps ==
    ASSUME IInv, NEW p \in Programs, Validate(p)
    PROVE  IInv'
<1>1. task[p] \in Tasks /\ Sound(p, task[p]) /\ task[p].at = "copying"
  BY TaskFacts DEF Validate
<1>2. UNCHANGED World
  BY DEF Validate, World, stageVars, kernelVars
<1>3. CASE Finish(p, FALSE)
  BY <1>1, <1>2, <1>3, QuietFinish DEF WillSettle
<1>4. CASE GoesTo(p, "move") /\ kextBundleValidates(task[p].tmp)
  <2> DEFINE t == [task[p] EXCEPT !.at = "move"]
  <2>1. /\ t \in Tasks /\ t.at = "move" /\ t.tmp = task[p].tmp /\ t.cmd = task[p].cmd
        /\ t.phase = task[p].phase /\ t.opts = task[p].opts /\ t.client = task[p].client
        /\ t.had = task[p].had /\ t.place = task[p].place
    BY <1>1 DEF Tasks, Steps
  <2>2. Sound(p, t) /\ Holds(p, t, staged, approved)
    BY <1>1, <1>4, <2>1 DEF Sound, Util, Args, Holds, Relies
  <2> QED
    BY <1>1, <1>2, <1>4, <2>1, <2>2, QuietGoes DEF WillSettle, GoesTo
<1> QED
  BY <1>3, <1>4 DEF Validate

LEMMA MoveKeeps ==
    ASSUME IInv, NEW p \in Programs, Move(p)
    PROVE  IInv'
<1>1. task[p] \in Tasks /\ Sound(p, task[p]) /\ task[p].at = "move" /\ source \in task[p].had
  BY TaskFacts DEF Move, Active
<1>2. events' \in 0..MaxEvents
  BY EventCounted DEF Move
<1>3. CASE /\ task[p].tmp # NoBundle /\ staged' = [bundle |-> task[p].tmp, whole |-> TRUE]
           /\ Writes(p, [task[p] EXCEPT !.tmp = NoBundle, !.at = "refresh"])
  <2> DEFINE t == [task[p] EXCEPT !.tmp = NoBundle, !.at = "refresh"]
  <2>1. /\ t \in Tasks /\ t.at = "refresh" /\ t.cmd = task[p].cmd /\ t.phase = task[p].phase
        /\ t.opts = task[p].opts /\ t.client = task[p].client /\ t.had = task[p].had /\ t.place = task[p].place
    BY <1>1 DEF Tasks, Steps, Copies
  <2>2. /\ staged' \in [bundle : Copies, whole : BOOLEAN] /\ staged' # NotStaged
        /\ kextBundleValidates(staged'.bundle) /\ staged'.bundle \in t.had \cup {Torn}
    BY <1>1, <1>3, <2>1 DEF Tasks, NotStaged, Sound
  <2>3. Sound(p, t) /\ Holds(p, t, staged', approved)
    BY <1>1, <2>1, <2>2 DEF Sound, Util, Args, Holds, Relies, Checked
  <2>4. TaskInv' /\ OthersGoOn(p)
    BY <1>1, <1>3, <2>1, <2>3, WritesKeeps DEF IInv, Move
  <2>5. StagedIsValidated'
    BY <2>2 DEF StagedIsValidated
  <2> QED
    BY <1>1, <1>2, <2>2, <2>4, <2>5, StagingStep DEF Move, WillSettle
<1>4. CASE Finish(p, FALSE) /\ UNCHANGED staged
  <2>1. TaskInv' /\ OthersGoOn(p)
    BY <1>1, <1>4, FinishKeeps, LoadingAssumption DEF IInv, TaskInv, Move
  <2> QED
    BY <1>1, <1>2, <1>4, <2>1, StagingStep DEF Move, WillSettle, IInv, Typed, StagedIsValidated
<1> QED
  BY <1>3, <1>4 DEF Move

LEMMA RefreshKeeps ==
    ASSUME IInv, NEW p \in Programs, Refresh(p)
    PROVE  IInv'
<1>1. task[p] \in Tasks /\ Sound(p, task[p]) /\ Holds(p, task[p], staged, approved) /\ task[p].at = "refresh"
  BY TaskFacts DEF Refresh
<1>2. UNCHANGED World
  BY DEF Refresh, World, stageVars, kernelVars
<1>3. CASE Finish(p, FALSE)
  BY <1>1, <1>2, <1>3, QuietFinish DEF WillSettle
<1> DEFINE t == [task[p] EXCEPT !.dext = Content(p).dext,
                                !.at = IF task[p].phase = "scan" THEN "lock" ELSE "check"]
<1>4. CASE Goes(p, t) /\ Content(p) # NoBundle
  <2>1. Content(p).dext \in BOOLEAN
    BY <1>4, BundleFacts, DextIsBoolean DEF IInv
  <2>2. /\ t \in Tasks /\ t.at \in {"lock", "check"} /\ t.cmd = task[p].cmd
        /\ t.phase = task[p].phase /\ t.opts = task[p].opts /\ t.client = task[p].client
        /\ t.had = task[p].had /\ t.crossed = task[p].crossed /\ t.place = task[p].place
    BY <1>1, <2>1 DEF Tasks, Steps
  <2>3. Sound(p, t) /\ Holds(p, t, staged, approved)
    BY <1>1, <2>2 DEF Sound, Util, Args, Holds, Relies, Checked
  <2> HIDE DEF t
  <2> QED
    BY <1>1, <1>2, <1>4, <2>2, <2>3, QuietGoes DEF WillSettle
<1> QED
  BY <1>3, <1>4 DEF Refresh

(***************************************************************************)
(* Authentication.                                                         *)
(***************************************************************************)

\* What passes the checks or the policy goes on to be loaded, or to kextutil's
\* next phase.
LEMMA AuthenticKeeps ==
    ASSUME IInv, NEW p \in Programs, task[p].at \in {"check", "policy"},
           NEW conn \in {"unset", "asks", "none"}, NEW asked \in BOOLEAN,
           Authentic(p, conn, asked), UNCHANGED World,
           ~ isSIPDisabled => task[p].place = "staged",
           Relies(task[p]) /\ ~ isInvalidSignatureAllowed =>
             LET b == staged.bundle IN
             /\ b \in task[p].had \cup {Torn} /\ ~ b.excluded /\ b.owned
             /\ task[p].opts.policy => b.dext \/ conn = "none" \/ (asked /\ b \in approved)
    PROVE  IInv'
<1>1. task[p] \in Tasks /\ Sound(p, task[p]) /\ Holds(p, task[p], staged, approved)
  BY TaskFacts
<1>2. CASE Finish(p, TRUE)
  BY <1>2, QuietFinish DEF WillSettle
<1>3. ASSUME NEW t \in Tasks, Goes(p, t),
             t.at \in {"load", "approve", "compare", "symbols", "match"}, t.phase \in {task[p].phase, "load"},
             t.place = task[p].place, t.dext = task[p].dext, t.tmp = task[p].tmp,
             t.cmd = task[p].cmd, t.opts = task[p].opts, t.client = task[p].client,
             t.had = task[p].had, t.crossed = task[p].crossed, t.conn = conn, t.asked = asked,
             Util(p, t) /\ t.at \in {"approve", "load"} => t.phase = "load",
             t.phase = "load" => Args(t).doLoad, t.phase # "none" => t.cmd.tool = "kextutil",
             t.at = "approve" => Args(t).interactive
      PROVE  IInv'
  <2>1. Sound(p, t)
    BY <1>1, <1>3 DEF Sound, Util, Args
  <2>2. Relies(t) => Relies(task[p]) /\ t.at \in {"load", "approve"}
    BY <1>3 DEF Relies
  <2>3. ASSUME Relies(t), ~ isInvalidSignatureAllowed
        PROVE  Allowed(p, t, staged.bundle, approved)
    <3>1. Util(p, t) => t.opts.policy
      BY <1>3, <2>1, <2>2, <2>3 DEF Sound
    <3>2. p = Kextd => t.opts.policy
      BY <2>1 DEF Sound
    <3>3. p = Kextd \/ Util(p, t) \/ t.cmd.tool = "kextload"
      BY <1>3, <2>1 DEF Sound, Util
    <3> QED
      BY <1>3, <2>2, <2>3, <3>1, <3>2, <3>3 DEF Allowed
  <2>4. Holds(p, t, staged, approved)
    BY <1>1, <1>3, <2>2, <2>3 DEF Holds, Checked
  <2> QED
    BY <1>3, <2>1, <2>4, QuietGoes DEF WillSettle
<1>4. CASE task[p].cmd.tool # "kextutil" \/ p = Kextd
  <2> DEFINE t == [[task[p] EXCEPT !.conn = conn, !.asked = asked] EXCEPT !.at = "load"]
  <2>1. Goes(p, t)
    BY <1>4 DEF Authentic
  <2>2. /\ t \in Tasks /\ t.at = "load" /\ t.phase = task[p].phase /\ t.place = task[p].place
        /\ t.dext = task[p].dext /\ t.tmp = task[p].tmp
        /\ t.cmd = task[p].cmd /\ t.opts = task[p].opts /\ t.client = task[p].client
        /\ t.had = task[p].had /\ t.place = task[p].place /\ t.crossed = task[p].crossed /\ t.conn = conn /\ t.asked = asked
    BY <1>1 DEF Tasks, Steps
  <2>3. (t.phase = "load" => Args(t).doLoad) /\ (t.phase # "none" => t.cmd.tool = "kextutil") /\ ~ Util(p, t)
    BY <1>1, <1>4, <2>2 DEF Sound, Args, Util
  <2> QED
    BY <1>3, <2>1, <2>2, <2>3
<1>5. CASE Util(p, task[p]) /\ ~ Finish(p, TRUE)
  <2> DEFINE t == [Next_kextutil(p) EXCEPT !.conn = conn, !.asked = asked]
             step == IF task[p].phase = "load" THEN IF util(p).interactive THEN "approve" ELSE "load"
                     ELSE IF util(p).doLoad THEN "compare"
                     ELSE IF util(p).symbols THEN "symbols" ELSE "match"
             phase == IF task[p].phase # "load" /\ util(p).doLoad THEN "load" ELSE task[p].phase
  <2>1. Goes(p, t)
    BY <1>5 DEF Authentic, Util
  <2>2. /\ Next_kextutil(p) = [task[p] EXCEPT !.phase = phase, !.at = step]
        /\ step \in Steps /\ phase \in {"none", "scan", "test", "load"}
    BY <1>1 DEF Next_kextutil, Tasks, Steps
  <2> HIDE DEF phase, step
  <2>3. /\ t \in Tasks /\ t.at = step /\ t.phase = phase /\ t.place = task[p].place
        /\ t.dext = task[p].dext /\ t.tmp = task[p].tmp
        /\ t.cmd = task[p].cmd /\ t.opts = task[p].opts /\ t.client = task[p].client
        /\ t.had = task[p].had /\ t.place = task[p].place /\ t.crossed = task[p].crossed /\ t.conn = conn /\ t.asked = asked
    <3>1. task[p] \in Tasks /\ conn \in {"unset", "asks", "none"} /\ asked \in BOOLEAN
      BY <1>1
    <3>2. t \in Tasks
      BY <2>2, <3>1 DEF Tasks
    <3> QED
      BY <2>2, <3>1, <3>2 DEF Tasks
  <2>4. /\ step \in {"load", "approve", "compare", "symbols", "match"} /\ phase \in {task[p].phase, "load"}
        /\ step \in {"approve", "load"} => phase = "load"
        /\ phase = "load" => Args(t).doLoad
        /\ step = "approve" => Args(t).interactive
        /\ t.cmd.tool = "kextutil"
    BY <1>1, <1>5, <2>3 DEF Util, Sound, Args, util, step, phase
  <2> HIDE DEF t
  <2> QED
    BY <1>3, <2>1, <2>3, <2>4
<1> QED
  BY <1>2, <1>4, <1>5 DEF Util

LEMMA CheckKeeps ==
    ASSUME IInv, NEW p \in Programs, Check(p)
    PROVE  IInv'
<1> DEFINE b == Content(p)
<1>1. /\ task[p] \in Tasks /\ Sound(p, task[p]) /\ Holds(p, task[p], staged, approved)
      /\ task[p].at = "check"
  BY TaskFacts DEF Check
<1>2. UNCHANGED World
  BY DEF Check, World, stageVars, kernelVars
<1>3. CASE Finish(p, FALSE)
  BY <1>1, <1>2, <1>3, QuietFinish DEF WillSettle
<1>4. ASSUME PassesChecks(b, task[p].opts, task[p].place)
      PROVE  /\ ~ isSIPDisabled => task[p].place = "staged"
             /\ Relies(task[p]) /\ ~ isInvalidSignatureAllowed =>
                  /\ b = staged.bundle /\ b \in task[p].had \cup {Torn} /\ ~ b.excluded /\ b.owned
  <2>1. ~ isSIPDisabled => task[p].place = "staged"
    BY <1>1, <1>4 DEF Sound, PassesChecks, pathIsSecure
  <2>2. ASSUME Relies(task[p]), ~ isInvalidSignatureAllowed
        PROVE  b = staged.bundle /\ b \in task[p].had \cup {Torn} /\ ~ b.excluded /\ b.owned
    <3>1. SignatureAccepted(b, task[p].opts.network) /\ ~ b.excluded /\ b.owned
      BY <1>1, <1>4 DEF Sound, PassesChecks
    <3>2. task[p].opts.network \in BOOLEAN
      BY <1>1 DEF Tasks, AuthOptions
    <3>3. b # Torn
      BY <2>2, <3>1, <3>2, TornFails
    <3>4. staged.whole /\ b = staged.bundle
      BY <2>2, <3>3 DEF Content, Object, Relies
    <3> QED
      BY <1>1, <2>2, <3>1, <3>4 DEF Holds
  <2> QED
    BY <2>1, <2>2
<1>5. CASE GoesTo(p, "policy") /\ PassesChecks(b, task[p].opts, task[p].place)
  <2> DEFINE t == [task[p] EXCEPT !.at = "policy"]
  <2>1. /\ t \in Tasks /\ t.at = "policy" /\ t.phase = task[p].phase /\ t.place = task[p].place
        /\ t.cmd = task[p].cmd /\ t.opts = task[p].opts /\ t.client = task[p].client
        /\ t.had = task[p].had /\ t.place = task[p].place /\ t.crossed = task[p].crossed
    BY <1>1 DEF Tasks, Steps
  <2>2. Sound(p, t)
    BY <1>1, <1>4, <1>5, <2>1 DEF Sound, Util, Args
  <2>3. Holds(p, t, staged, approved)
    <3>1. Relies(t) => Relies(task[p])
      BY <1>1, <2>1 DEF Relies
    <3> QED
      BY <1>1, <1>4, <1>5, <2>1, <3>1 DEF Holds, Checked
  <2> QED
    BY <1>1, <1>2, <1>5, <2>1, <2>2, <2>3, QuietGoes DEF WillSettle, GoesTo
<1>6. CASE /\ PassesChecks(b, task[p].opts, task[p].place) /\ ~ AsksPolicy(b, task[p].opts)
           /\ Authentic(p, task[p].conn, FALSE)
  <2>1. task[p].conn \in {"unset", "asks", "none"}
    BY <1>1 DEF Tasks
  <2>2. task[p].opts.policy => b.dext
    BY <1>6 DEF AsksPolicy
  <2> HIDE DEF b
  <2> QED
    BY <1>1, <1>2, <1>4, <1>6, <2>1, <2>2, AuthenticKeeps
<1> QED
  BY <1>3, <1>5, <1>6 DEF Check

LEMMA AskPolicyKeeps ==
    ASSUME IInv, NEW p \in Programs, AskPolicy(p)
    PROVE  IInv'
<1> DEFINE b == Content(p)
           c == Connection(p)
<1>1. /\ task[p] \in Tasks /\ Sound(p, task[p]) /\ Holds(p, task[p], staged, approved)
      /\ task[p].at = "policy"
  BY TaskFacts DEF AskPolicy
<1>2. UNCHANGED World
  BY DEF AskPolicy, World, stageVars, kernelVars
<1>3. CASE Finish(p, FALSE)
  BY <1>1, <1>2, <1>3, QuietFinish DEF WillSettle
<1>4. CASE (c = "none" \/ (syspolicyd /\ b \in approved)) /\ Authentic(p, c, c = "asks")
  <2>1. c \in {"asks", "none"}
    BY <1>1 DEF Connection, Tasks
  <2>2. ~ isSIPDisabled => task[p].place = "staged"
    BY <1>1 DEF Sound
  <2>3. Relies(task[p]) /\ b \in approved => staged.bundle \in approved
    BY LoadingAssumption DEF Relies, Content, Object, IInv, Typed
  <2>4. Relies(task[p]) /\ ~ isInvalidSignatureAllowed =>
          /\ staged.bundle \in task[p].had \cup {Torn}
          /\ ~ staged.bundle.excluded /\ staged.bundle.owned
    BY <1>1 DEF Holds, Checked
  <2> HIDE DEF b, c
  <2> QED
    BY <1>1, <1>2, <1>4, <2>1, <2>2, <2>3, <2>4, AuthenticKeeps
<1> QED
  BY <1>3, <1>4 DEF AskPolicy

(***************************************************************************)
(* Loading.                                                                *)
(***************************************************************************)

\* A step that changes what the kernel has.
LEMMA KernelStep ==
    ASSUME IInv, TaskInv', UNCHANGED <<stageVars, kextdUp, syspolicyd, approved>>,
           starts' \in 0..MaxStarts, events' \in 0..MaxEvents,
           matching' \in BOOLEAN, abandoned' \in BOOLEAN,
           loaded' \in [bundle : Copies, started : BOOLEAN, crossed : BOOLEAN, asked : BOOLEAN,
                        early : BOOLEAN],
           Vetted(loaded', approved), HalfStartedIsSettled'
    PROVE  IInv'
<1>1. Typed'
  BY DEF IInv, Typed, stageVars
<1>2. StagedIsValidated'
  BY DEF IInv, StagedIsValidated, stageVars
<1> QED
  BY <1>1, <1>2 DEF IInv

LEMMA NotLoadedFacts ==
    /\ NotLoaded \in [bundle : Copies, started : BOOLEAN, crossed : BOOLEAN, asked : BOOLEAN,
                      early : BOOLEAN]
    /\ NotLoaded.bundle = NoBundle /\ ~ NotLoaded.started
    /\ \A users : Vetted(NotLoaded, users)
  BY DEF NotLoaded, Copies, Vetted

\* A loaded kext is started.
LEMMA StartedIsVetted ==
    ASSUME IInv, loaded.bundle # NoBundle, NEW s \in BOOLEAN
    PROVE  LET kext == [loaded EXCEPT !.started = s] IN
           /\ kext \in [bundle : Copies, started : BOOLEAN, crossed : BOOLEAN, asked : BOOLEAN,
                        early : BOOLEAN]
           /\ Vetted(kext, approved) /\ kext.started = s /\ kext # NotLoaded
<1> DEFINE kext == [loaded EXCEPT !.started = s]
<1>1. /\ kext \in [bundle : Copies, started : BOOLEAN, crossed : BOOLEAN, asked : BOOLEAN,
                   early : BOOLEAN]
      /\ kext.bundle = loaded.bundle /\ kext.crossed = loaded.crossed /\ kext.asked = loaded.asked
      /\ kext.early = loaded.early /\ kext.started = s
  BY DEF IInv, Typed
<1>2. loaded # NotLoaded /\ kext # NotLoaded
  BY <1>1, NotLoadedFacts
<1>3. Vetted(kext, approved)
  BY <1>1, <1>2 DEF IInv, Vetted
<1> QED
  BY <1>1, <1>2, <1>3

LEMMA UserAnswersLoadKeeps ==
    ASSUME IInv, NEW p \in Procs, UserAnswersLoad(p)
    PROVE  IInv'
<1>1. PICK yes \in BOOLEAN : GoesTo(p, IF yes THEN "load" ELSE "reread")
  BY DEF UserAnswersLoad
<1>2. /\ task[p] \in Tasks /\ Sound(p, task[p]) /\ Holds(p, task[p], staged, approved)
      /\ task[p].at = "approve" /\ p \in Programs
  BY TaskFacts DEF UserAnswersLoad, Programs
<1>3. UNCHANGED World
  BY DEF UserAnswersLoad, World, stageVars, kernelVars
<1> DEFINE t == [task[p] EXCEPT !.at = IF yes THEN "load" ELSE "reread"]
<1>4. /\ t \in Tasks /\ t.at \in {"load", "reread"} /\ t.phase = task[p].phase
      /\ t.place = task[p].place /\ t.dext = task[p].dext /\ t.conn = task[p].conn
      /\ t.asked = task[p].asked
      /\ t.cmd = task[p].cmd /\ t.opts = task[p].opts /\ t.client = task[p].client
      /\ t.had = task[p].had /\ t.place = task[p].place /\ t.crossed = task[p].crossed
  BY <1>2 DEF Tasks, Steps
<1>5. Goes(p, t)
  BY <1>1 DEF GoesTo
<1> HIDE DEF t
<1>6. Sound(p, t)
  BY <1>2, <1>4 DEF Sound, Util, Args
<1>7. Holds(p, t, staged, approved)
  <2>1. Relies(t) => Relies(task[p])
    BY <1>2, <1>4 DEF Relies
  <2> QED
    BY <1>2, <1>4, <2>1 DEF Holds, Checked, Allowed
<1> QED
  BY <1>2, <1>3, <1>4, <1>5, <1>6, <1>7, QuietGoes DEF WillSettle

\* What the kernel takes was vetted.
LEMMA KernelLoadsVetted ==
    ASSUME IInv, NEW p \in Programs, task[p].at = "load", NEW start \in BOOLEAN,
           KernelLoads(p, start)
    PROVE  /\ loaded' \in [bundle : Copies, started : BOOLEAN, crossed : BOOLEAN, asked : BOOLEAN,
                           early : BOOLEAN]
           /\ Vetted(loaded', approved)
           /\ start => loaded'.started
<1> DEFINE b == Object(p)
           new == [bundle |-> b, started |-> start, crossed |-> task[p].crossed,
                   asked |-> task[p].asked,
                   early |-> task[p].conn = "none" \/ (p # Kextd /\ task[p].cmd.tool = "kextload")]
<1>1. task[p] \in Tasks /\ Sound(p, task[p]) /\ Holds(p, task[p], staged, approved)
  BY TaskFacts
<1>2. b \in Copies /\ b # NoBundle
  BY BundleFacts DEF KernelLoads, IInv
<1>3. CASE loaded.bundle = b
  <2>1. loaded' = [loaded EXCEPT !.started = loaded.started \/ start]
    BY <1>3 DEF KernelLoads, IInv, Typed
  <2>2. (loaded.started \/ start) \in BOOLEAN
    BY DEF IInv, Typed
  <2> QED
    BY <1>2, <1>3, <2>1, <2>2, StartedIsVetted
<1>4. CASE loaded.bundle # b
  <2>1. loaded' = new
    BY <1>4 DEF KernelLoads
  <2>2. new \in [bundle : Copies, started : BOOLEAN, crossed : BOOLEAN, asked : BOOLEAN,
                 early : BOOLEAN]
    BY <1>1, <1>2 DEF Tasks
  <2>3. /\ new.bundle = b /\ new.crossed = task[p].crossed /\ new.asked = task[p].asked
        /\ new.started = start
        /\ new.early = (task[p].conn = "none" \/ (p # Kextd /\ task[p].cmd.tool = "kextload"))
    OBVIOUS
  <2> HIDE DEF new
  <2>4. ~ isSIPDisabled => task[p].place = "staged" /\ b = staged.bundle
    BY <1>1 DEF Sound, Object
  <2>5. ASSUME ~ isSIPDisabled
        PROVE  SignatureAccepted(b, FALSE)
    <3>1. staged # NotStaged
      BY <1>2, <2>4, <2>5 DEF NotStaged
    <3>2. kextBundleValidates(b)
      BY <2>4, <2>5, <3>1 DEF IInv, StagedIsValidated
    <3> QED
      BY <3>2, ValidatesWithoutNetwork
  <2>6. ASSUME ~ isInvalidSignatureAllowed, ~ task[p].crossed
        PROVE  ~ b.excluded /\ b.owned /\ (b.dext \/ new.early \/ (task[p].asked /\ b \in approved))
    <3>1. ~ isSIPDisabled
      BY <2>6 DEF isSIPDisabled, isInvalidSignatureAllowed
    <3>2. Relies(task[p]) /\ Checked(task[p]) /\ b = staged.bundle
      BY <2>4, <2>6, <3>1 DEF Relies, Checked
    <3> QED
      BY <1>1, <2>3, <3>2 DEF Holds, Allowed
  <2>7. Vetted(new, approved)
    BY <2>3, <2>5, <2>6 DEF Vetted
  <2> QED
    BY <2>1, <2>2, <2>3, <2>7
<1> QED
  BY <1>3, <1>4

LEMMA LoadKeeps ==
    ASSUME IInv, NEW p \in Programs, Load(p)
    PROVE  IInv'
<1> DEFINE tool == IF p = Kextd THEN "kextd" ELSE task[p].cmd.tool
           interactive == tool = "kextutil" /\ util(p).interactive
           rereads == interactive \/ (tool = "kextutil" /\ util(p).symbols)
           match == tool = "kextutil" => util(p).doStartMatching /\ ~ interactive
<1>1. /\ task[p] \in Tasks /\ Sound(p, task[p]) /\ Holds(p, task[p], staged, approved)
      /\ task[p].at = "load"
  BY TaskFacts DEF Load
<1>2. events' \in 0..MaxEvents
  BY EventCounted DEF Load
<1>3. CASE /\ tool = "kextutil" /\ task[p].dext /\ NoEvent /\ UNCHANGED <<loaded, matching>>
           /\ IF kextdUp THEN GoesTo(p, "wait") ELSE Finish(p, FALSE)
  <2>1. UNCHANGED World
    BY <1>3 DEF Load, World, stageVars, NoEvent
  <2>2. CASE Finish(p, FALSE)
    BY <1>1, <2>1, <2>2, QuietFinish DEF WillSettle
  <2>3. CASE GoesTo(p, "wait")
    <3> DEFINE t == [task[p] EXCEPT !.at = "wait"]
    <3>1. /\ t \in Tasks /\ t.at = "wait" /\ t.phase = task[p].phase /\ t.dext = task[p].dext
          /\ t.cmd = task[p].cmd /\ t.opts = task[p].opts /\ t.client = task[p].client
          /\ t.had = task[p].had /\ t.place = task[p].place
      BY <1>1 DEF Tasks, Steps
    <3>2. Sound(p, t) /\ Holds(p, t, staged, approved)
      BY <1>1, <1>3, <3>1 DEF Sound, Util, Args, Holds, Relies
    <3> QED
      BY <1>1, <2>1, <2>3, <3>1, <3>2, QuietGoes DEF WillSettle, GoesTo
  <2> QED
    BY <1>3, <2>2, <2>3
<1>4. CASE /\ ~ (tool = "kextutil" /\ task[p].dext)
           /\ KernelLoads(p, ~ interactive) /\ matching' = (matching \/ match)
           /\ IF rereads THEN GoesTo(p, "reread") ELSE Finish(p, TRUE)
  <2>1. /\ loaded' \in [bundle : Copies, started : BOOLEAN, crossed : BOOLEAN, asked : BOOLEAN,
                        early : BOOLEAN]
        /\ Vetted(loaded', approved) /\ (~ interactive => loaded'.started)
    BY <1>1, <1>4, KernelLoadsVetted
  <2>2. CASE rereads
    <3> DEFINE t == [task[p] EXCEPT !.at = "reread"]
    <3>1. /\ t \in Tasks /\ t.at = "reread" /\ t.phase = task[p].phase /\ t.dext = task[p].dext
          /\ t.cmd = task[p].cmd /\ t.opts = task[p].opts /\ t.client = task[p].client
          /\ t.had = task[p].had /\ t.place = task[p].place
      BY <1>1 DEF Tasks, Steps
    <3>2. Sound(p, t) /\ Holds(p, t, staged, approved)
      BY <1>1, <2>2, <3>1 DEF Sound, Util, Args, util, Holds, Relies
    <3>3. Goes(p, t) /\ source \in t.had
      BY <1>1, <1>4, <2>2, <3>1, TaskFacts DEF GoesTo, Active
    <3>4. TaskInv'
      BY <1>1, <3>1, <3>2, <3>3, GoesKeeps DEF IInv, Load, stageVars
    <3>5. ASSUME interactive
          PROVE  p \in Procs /\ task'[p] = t /\ WillSettle(t)
      BY <1>1, <1>4, <3>1, <3>3, <3>5
         DEF WillSettle, Sound, Util, Args, util, Programs, Goes, IInv, TaskInv, Tasks
    <3>6. HalfStartedIsSettled'
      BY <2>1, <3>5 DEF HalfStartedIsSettled
    <3> QED
      BY <1>2, <1>4, <2>1, <3>4, <3>6, KernelStep DEF Load, IInv, Typed
  <2>3. CASE ~ rereads
    <3>1. TaskInv'
      BY <1>1, <1>4, <2>3, FinishKeeps, LoadingAssumption DEF IInv, TaskInv, Load, stageVars
    <3>2. HalfStartedIsSettled'
      BY <2>1, <2>3 DEF HalfStartedIsSettled
    <3> QED
      BY <1>2, <1>4, <2>1, <3>1, <3>2, KernelStep DEF Load, IInv, Typed
  <2> QED
    BY <2>2, <2>3
<1>5. CASE Finish(p, FALSE) /\ UNCHANGED <<loaded, matching>>
  <2>1. TaskInv' /\ OthersGoOn(p)
    BY <1>1, <1>5, FinishKeeps, LoadingAssumption DEF IInv, TaskInv, Load, stageVars
  <2>2. HalfStartedIsSettled'
    BY <1>1, <1>5, <2>1, SettledKept DEF IInv, Load, WillSettle
  <2> QED
    BY <1>2, <1>5, <2>1, <2>2, KernelStep DEF Load, IInv, Typed
<1> QED
  BY <1>3, <1>4, <1>5 DEF Load

\* What kextutil goes on to, or gives up, between the load and the start.
LEMMA StartsAndSendsKeeps ==
    ASSUME IInv, NEW p \in Procs, task[p].at \in {"reread", "symbols"}, UNCHANGED World,
           NEW t \in Tasks, StartsAndSends(p, t),
           t.phase = task[p].phase, t.dext = task[p].dext, t.cmd = task[p].cmd, t.opts = task[p].opts,
           t.client = task[p].client, t.had = task[p].had, t.place = task[p].place,
           WillSettle(task[p]) => (t.saw = "started" => loaded.started)
    PROVE  IInv'
<1>1. task[p] \in Tasks /\ Sound(p, task[p]) /\ p \in Programs
  BY TaskFacts DEF Programs
<1>2. CASE ~ util(p).interactive /\ Finish(p, TRUE)
  <2>1. ~ WillSettle(task[p])
    BY <1>2 DEF WillSettle, Args, util
  <2> QED
    BY <1>1, <1>2, <2>1, QuietFinish
<1> DEFINE step == IF util(p).interactive /\ util(p).doLoad /\ ~ t.dext /\ t.saw # "started"
                   THEN "start" ELSE "match"
           u == [t EXCEPT !.at = step]
<1>3. CASE Goes(p, u)
  <2>1. step \in {"start", "match"}
    OBVIOUS
  <2>2. WillSettle(task[p]) => step = "start" \/ loaded.started
    BY <1>1 DEF WillSettle, Sound, Args, util
  <2> HIDE DEF step
  <2>3. /\ u \in Tasks /\ u.phase = task[p].phase /\ u.dext = task[p].dext /\ u.at = step
        /\ u.cmd = task[p].cmd /\ u.opts = task[p].opts /\ u.client = task[p].client
        /\ u.had = task[p].had /\ u.place = task[p].place
    BY <2>1 DEF Tasks, Steps
  <2> HIDE DEF u
  <2>4. Sound(p, u) /\ Holds(p, u, staged, approved)
    BY <1>1, <2>1, <2>3 DEF Sound, Util, Args, Holds, Relies
  <2>5. WillSettle(task[p]) => WillSettle(u) \/ loaded.started
    BY <2>2, <2>3 DEF WillSettle, Args
  <2> QED
    BY <1>1, <1>3, <2>3, <2>4, <2>5, QuietGoes
<1> QED
  BY <1>2, <1>3 DEF StartsAndSends

LEMMA GivesUpKeeps ==
    ASSUME IInv, NEW p \in Procs, task[p].at \notin {"idle", "wait"}, GivesUp(p), Event \/ NoEvent,
           UNCHANGED <<stageVars, loaded, matching, kextdUp, syspolicyd, approved, starts>>
    PROVE  IInv'
<1>1. task[p] \in Tasks /\ p \in Programs
  BY TaskFacts DEF Programs
<1>2. TaskInv' /\ OthersGoOn(p)
  BY <1>1, FinishKeeps, LoadingAssumption DEF GivesUp, IInv, TaskInv, stageVars
<1>3. events' \in 0..MaxEvents
  BY EventCounted
<1>4. /\ abandoned' \in BOOLEAN /\ (abandoned => abandoned')
      /\ WillSettle(task[p]) => abandoned'
  BY DEF GivesUp, WillSettle, Args, util, IInv, Typed
<1>5. HalfStartedIsSettled'
  BY <1>1, <1>2, <1>4, SettledKept DEF IInv
<1> QED
  BY <1>2, <1>3, <1>4, <1>5, KernelStep DEF IInv, Typed

LEMMA RereadKeeps ==
    ASSUME IInv, NEW p \in Procs, Reread(p)
    PROVE  IInv'
<1>1. /\ task[p] \in Tasks /\ Sound(p, task[p]) /\ task[p].at = "reread" /\ p \in Programs
  BY TaskFacts DEF Reread, Programs
<1>2. UNCHANGED <<stageVars, loaded, matching, kextdUp, syspolicyd, approved, starts>>
  BY DEF Reread
<1> DEFINE seen == [task[p] EXCEPT !.saw = LoadInfo]
<1>3. LoadInfo \in {"no", "loaded", "started"} /\ (LoadInfo = "started" => loaded.started)
  BY DEF LoadInfo
<1>4. CASE util(p).symbols /\ Goes(p, [seen EXCEPT !.at = "symbols"]) /\ NoEvent /\ UNCHANGED abandoned
  <2> DEFINE t == [seen EXCEPT !.at = "symbols"]
  <2>1. /\ t \in Tasks /\ t.phase = task[p].phase /\ t.dext = task[p].dext /\ t.at = "symbols"
        /\ t.cmd = task[p].cmd /\ t.opts = task[p].opts /\ t.client = task[p].client
        /\ t.had = task[p].had /\ t.place = task[p].place /\ t.saw = LoadInfo
    BY <1>1, <1>3 DEF Tasks, Steps
  <2> HIDE DEF t
  <2>2. Sound(p, t) /\ Holds(p, t, staged, approved)
    BY <1>1, <2>1 DEF Sound, Util, Args, Holds, Relies
  <2>3. WillSettle(task[p]) => WillSettle(t) \/ loaded.started
    BY <1>1, <1>3, <2>1 DEF WillSettle, Args
  <2>4. Goes(p, t) /\ UNCHANGED World
    BY <1>2, <1>4 DEF World, stageVars, NoEvent, t
  <2> QED
    BY <1>1, <2>1, <2>2, <2>3, <2>4, QuietGoes
<1> DEFINE told == IF util(p).interactive THEN seen ELSE task[p]
<1>5. CASE StartsAndSends(p, told) /\ NoEvent /\ UNCHANGED abandoned
  <2>1. /\ told \in Tasks /\ told.phase = task[p].phase /\ told.dext = task[p].dext
        /\ told.cmd = task[p].cmd /\ told.opts = task[p].opts /\ told.client = task[p].client
        /\ told.had = task[p].had /\ told.place = task[p].place
        /\ util(p).interactive => told.saw = LoadInfo
    BY <1>1, <1>3 DEF Tasks
  <2> HIDE DEF told
  <2>2. WillSettle(task[p]) => (told.saw = "started" => loaded.started)
    BY <1>3, <2>1 DEF WillSettle, Args, util
  <2>3. UNCHANGED World
    BY <1>2, <1>5 DEF World, stageVars, NoEvent
  <2> QED
    BY <1>1, <1>5, <2>1, <2>2, <2>3, StartsAndSendsKeeps
<1>6. CASE Event /\ GivesUp(p)
  BY <1>1, <1>2, <1>6, GivesUpKeeps
<1> QED
  BY <1>4, <1>5, <1>6 DEF Reread

LEMMA GenerateSymbolsKeeps ==
    ASSUME IInv, NEW p \in Procs, GenerateSymbols(p)
    PROVE  IInv'
<1>1. task[p] \in Tasks /\ task[p].at = "symbols" /\ p \in Programs
  BY TaskFacts DEF GenerateSymbols, Programs
<1>2. UNCHANGED <<stageVars, loaded, matching, kextdUp, syspolicyd, approved, starts>>
  BY DEF GenerateSymbols
<1>3. CASE StartsAndSends(p, task[p]) /\ NoEvent /\ UNCHANGED abandoned
  <2>1. WillSettle(task[p]) => (task[p].saw = "started" => loaded.started)
    BY <1>1 DEF WillSettle
  <2>2. UNCHANGED World
    BY <1>2, <1>3 DEF World, stageVars, NoEvent
  <2> QED
    BY <1>1, <1>3, <2>1, <2>2, StartsAndSendsKeeps
<1>4. CASE (Event \/ NoEvent) /\ GivesUp(p)
  BY <1>1, <1>2, <1>4, GivesUpKeeps
<1> QED
  BY <1>3, <1>4 DEF GenerateSymbols

LEMMA StartKeeps ==
    ASSUME IInv, NEW p \in Procs, Start(p)
    PROVE  IInv'
<1>1. /\ task[p] \in Tasks /\ Sound(p, task[p]) /\ task[p].at = "start" /\ p \in Programs
      /\ source \in task[p].had
  BY TaskFacts DEF Start, Programs, Active
<1>2. UNCHANGED <<stageVars, matching, kextdUp, syspolicyd, approved, starts>>
  BY DEF Start
<1>3. ASSUME NEW step \in {"match", "rollback"}, GoesTo(p, step)
      PROVE  LET t == [task[p] EXCEPT !.at = step] IN
             /\ t \in Tasks /\ Goes(p, t) /\ t.at = step /\ t.phase = task[p].phase
             /\ t.dext = task[p].dext /\ t.cmd = task[p].cmd /\ t.client = task[p].client
             /\ t.had = task[p].had /\ t.place = task[p].place /\ Sound(p, t) /\ Holds(p, t, staged, approved)
  <2> DEFINE t == [task[p] EXCEPT !.at = step]
  <2>1. /\ t \in Tasks /\ t.at = step /\ t.phase = task[p].phase /\ t.dext = task[p].dext
        /\ t.cmd = task[p].cmd /\ t.opts = task[p].opts /\ t.client = task[p].client
        /\ t.had = task[p].had /\ t.place = task[p].place
    BY <1>1, <1>3 DEF Tasks, Steps
  <2>2. Sound(p, t) /\ Holds(p, t, staged, approved)
    BY <1>1, <1>3, <2>1 DEF Sound, Util, Args, Holds, Relies
  <2> QED
    BY <1>3, <2>1, <2>2 DEF GoesTo
<1>4. CASE /\ loaded.bundle # NoBundle /\ loaded' = [loaded EXCEPT !.started = TRUE]
           /\ GoesTo(p, "match") /\ NoEvent /\ UNCHANGED abandoned
  <2>1. TaskInv'
    BY <1>1, <1>2, <1>3, <1>4, GoesKeeps DEF IInv, stageVars
  <2>2. /\ loaded' \in [bundle : Copies, started : BOOLEAN, crossed : BOOLEAN, asked : BOOLEAN,
                        early : BOOLEAN]
        /\ Vetted(loaded', approved) /\ loaded'.started
    BY <1>4, StartedIsVetted
  <2> QED
    BY <1>2, <1>4, <2>1, <2>2, KernelStep DEF IInv, Typed, HalfStartedIsSettled, NoEvent
<1>5. CASE GoesTo(p, "rollback") /\ NoEvent /\ UNCHANGED <<loaded, abandoned>>
  BY <1>1, <1>2, <1>3, <1>5, QuietGoes DEF World, stageVars, WillSettle, Args, NoEvent
<1>6. CASE Event /\ GivesUp(p) /\ UNCHANGED loaded
  BY <1>1, <1>2, <1>6, GivesUpKeeps
<1> QED
  BY <1>4, <1>5, <1>6 DEF Start

LEMMA SendPersonalitiesKeeps ==
    ASSUME IInv, NEW p \in Procs, SendPersonalities(p)
    PROVE  IInv'
<1>1. /\ task[p] \in Tasks /\ Sound(p, task[p]) /\ task[p].at = "match" /\ p \in Programs
      /\ source \in task[p].had /\ ~ WillSettle(task[p])
  BY TaskFacts DEF SendPersonalities, Programs, Active, WillSettle
<1>2. /\ UNCHANGED <<stageVars, loaded, abandoned, kextdUp, syspolicyd, approved, starts>>
      /\ events' \in 0..MaxEvents /\ matching' \in BOOLEAN
  BY EventCounted DEF SendPersonalities, IInv, Typed
<1>3. ASSUME TaskInv', OthersGoOn(p)
      PROVE  IInv'
  <2>1. HalfStartedIsSettled'
    BY <1>1, <1>2, <1>3, SettledKept DEF IInv
  <2> QED
    BY <1>2, <1>3, <2>1, KernelStep DEF IInv, Typed
<1>4. CASE Finish(p, TRUE) \/ Finish(p, FALSE)
  BY <1>1, <1>2, <1>3, <1>4, FinishKeeps, LoadingAssumption DEF IInv, TaskInv, stageVars
<1>5. CASE GoesTo(p, "rollback")
  <2> DEFINE t == [task[p] EXCEPT !.at = "rollback"]
  <2>1. /\ t \in Tasks /\ t.at = "rollback" /\ t.phase = task[p].phase /\ t.dext = task[p].dext
        /\ t.cmd = task[p].cmd /\ t.opts = task[p].opts /\ t.client = task[p].client
        /\ t.had = task[p].had /\ t.place = task[p].place
    BY <1>1 DEF Tasks, Steps
  <2>2. Sound(p, t) /\ Holds(p, t, staged, approved)
    BY <1>1, <2>1 DEF Sound, Util, Args, Holds, Relies
  <2> QED
    BY <1>1, <1>2, <1>3, <1>5, <2>1, <2>2, GoesKeeps DEF IInv, stageVars, GoesTo
<1> QED
  BY <1>4, <1>5 DEF SendPersonalities

LEMMA RollbackReadsKeeps ==
    ASSUME IInv, NEW p \in Procs, RollbackReads(p)
    PROVE  IInv'
<1>1. /\ task[p] \in Tasks /\ Sound(p, task[p]) /\ task[p].at = "rollback" /\ p \in Programs
  BY TaskFacts DEF RollbackReads, Programs
<1>2. UNCHANGED World
  BY DEF RollbackReads, World, stageVars, kernelVars
<1> DEFINE t == [task[p] EXCEPT !.saw = LoadInfo, !.at = "unload"]
<1>3. Goes(p, t)
  BY DEF RollbackReads
<1>4. LoadInfo \in {"no", "loaded", "started"} /\ (LoadInfo = "started" => loaded.started)
  BY DEF LoadInfo
<1>5. /\ t \in Tasks /\ t.phase = task[p].phase /\ t.dext = task[p].dext /\ t.at = "unload"
      /\ t.cmd = task[p].cmd /\ t.opts = task[p].opts /\ t.client = task[p].client
      /\ t.had = task[p].had /\ t.place = task[p].place /\ t.saw = LoadInfo
  BY <1>1, <1>4 DEF Tasks, Steps
<1> HIDE DEF t
<1>6. Sound(p, t) /\ Holds(p, t, staged, approved)
  BY <1>1, <1>5 DEF Sound, Util, Args, Holds, Relies
<1>7. WillSettle(task[p]) => WillSettle(t) \/ loaded.started
  BY <1>4, <1>5 DEF WillSettle, Args
<1> QED
  BY <1>1, <1>2, <1>3, <1>5, <1>6, <1>7, QuietGoes

LEMMA RollbackUnloadsKeeps ==
    ASSUME IInv, NEW p \in Procs, RollbackUnloads(p)
    PROVE  IInv'
<1>1. task[p] \in Tasks /\ task[p].at = "unload" /\ p \in Programs /\ Finish(p, FALSE)
  BY TaskFacts DEF RollbackUnloads, Programs
<1>2. /\ UNCHANGED <<stageVars, kextdUp, syspolicyd, approved, starts>>
      /\ events' \in 0..MaxEvents
  BY EventCounted DEF RollbackUnloads
<1>3. TaskInv' /\ OthersGoOn(p)
  BY <1>1, <1>2, FinishKeeps, LoadingAssumption DEF IInv, TaskInv, stageVars
<1>4. CASE task[p].saw = "started" /\ UNCHANGED kernelVars
  <2>1. ~ WillSettle(task[p])
    BY <1>1, <1>4 DEF WillSettle
  <2>2. HalfStartedIsSettled'
    BY <1>1, <1>3, <1>4, <2>1, SettledKept DEF IInv, kernelVars
  <2> QED
    BY <1>2, <1>3, <1>4, <2>2, KernelStep DEF IInv, Typed, kernelVars
<1>5. CASE loaded' = NotLoaded /\ matching' = FALSE /\ UNCHANGED abandoned
  BY <1>2, <1>3, <1>5, KernelStep, NotLoadedFacts DEF IInv, Typed, HalfStartedIsSettled
<1>6. CASE abandoned' = TRUE /\ UNCHANGED <<loaded, matching>>
  BY <1>2, <1>3, <1>6, KernelStep DEF IInv, Typed, HalfStartedIsSettled
<1> QED
  BY <1>4, <1>5, <1>6 DEF RollbackUnloads

(***************************************************************************)
(* The programs.                                                           *)
(***************************************************************************)

\* A program starts.
LEMMA StartsKeeps ==
    ASSUME TaskInv, NEW p \in Procs, NEW t \in Tasks, Goes(p, t), task[p].at = "idle",
           UNCHANGED <<source, staged, approved>>,
           Sound(p, t), Holds(p, t, staged, approved), source \in t.had
    PROVE  TaskInv' /\ OthersGoOn(p)
<1>1. task' \in [Programs -> Tasks] /\ lock' = lock /\ lock \in Procs \cup {Nobody} /\ p \in Programs
  BY DEF TaskInv, Goes, Programs
<1>2. \A q \in Programs : task'[q] = IF q = p THEN t ELSE task[q]
  BY DEF TaskInv, Goes
<1>3. /\ \A q \in Programs : Sound(q, task'[q]) /\ Holds(q, task'[q], staged, approved)
      /\ \A q \in Programs : task'[q].at # "idle" => source \in task'[q].had
  BY <1>2 DEF TaskInv, Active
<1>4. ClientsWait'
  <2> DEFINE c == task[Kextd].client
  <2>1. task'[Kextd] = task[Kextd] /\ c \in Procs \cup {Nobody}
    BY <1>2, LoadingAssumption DEF Programs, Kextd, TaskInv, Tasks
  <2>2. c # Nobody => c # p /\ c \in Programs
    BY <2>1 DEF TaskInv, ClientsWait, Programs
  <2> QED
    BY <1>2, <2>1, <2>2 DEF TaskInv, ClientsWait
<1>5. LockHeld'
  <2>1. lock # p
    <3>1. task[p].cmd = NoCommand /\ p # Nobody
      BY <1>1, LoadingAssumption DEF TaskInv, Sound, Nobody
    <3> QED
      BY <3>1 DEF TaskInv, LockHeld, NoCommand
  <2> QED
    BY <1>1, <1>2, <2>1 DEF TaskInv, LockHeld, Programs
<1>6. OthersGoOn(p)
  BY <1>2 DEF OthersGoOn, Programs
<1> QED
  BY <1>1, <1>3, <1>4, <1>5, <1>6 DEF TaskInv, Active

LEMMA NewTask ==
    ASSUME IInv, NEW p \in Procs, NEW cmd \in Commands, NEW opts \in AuthOptions,
           NEW at \in {"wait", "begin", "compare", "lock"}, NEW phase \in {"none", "scan"},
           opts.files, opts.signature, opts.location,
           /\ cmd.tool = "kextload" /\ phase = "none" /\ at # "lock"
           \/ /\ cmd.tool = "kextutil" /\ phase = "scan" /\ at \in {"compare", "lock"}
              /\ KextutilArgs(cmd.opts).doLoad => opts.policy
    PROVE  LET t == Task(cmd, at, phase, opts) IN
           /\ t \in Tasks /\ Sound(p, t) /\ Holds(p, t, staged, approved) /\ source \in t.had
<1> DEFINE t == Task(cmd, at, phase, opts)
<1>1. Idle \in Tasks /\ source \in Contents \cup {NoBundle}
  BY IdleIsSound DEF Programs, IInv, Typed
<1>2. /\ t.cmd = cmd /\ t.at = at /\ t.phase = phase /\ t.opts = opts /\ t.had = {source}
      /\ t.place = "source" /\ t.client = Nobody
  BY DEF Task, Idle
<1>3. t \in Tasks
  BY <1>1 DEF Task, Tasks, Steps
<1> HIDE DEF t
<1>4. Sound(p, t)
  <2>1. p # Kextd
    BY LoadingAssumption DEF Kextd
  <2> QED
    BY <1>2, <2>1 DEF Sound, Util, Args
<1>5. Holds(p, t, staged, approved)
  BY <1>2 DEF Holds, Relies
<1> QED
  BY <1>2, <1>3, <1>4, <1>5 DEF t

\* A program that starts, or a tool that is done at once.
LEMMA BeginStep ==
    ASSUME IInv, NEW p \in Procs, Begin(p)
    PROVE  /\ starts' \in 0..MaxStarts /\ UNCHANGED <<kextdUp, syspolicyd, approved, events>>
           /\ task[p].at = "idle" /\ ~ WillSettle(task[p]) /\ p \in Programs
<1>1. starts' \in 0..MaxStarts
  BY LoadingAssumption DEF Begin, IInv, Typed
<1> QED
  BY <1>1 DEF Begin, WillSettle, Programs

LEMMA StartsProgram ==
    ASSUME IInv, NEW p \in Procs, Begin(p), NEW cmd \in Commands,
           \/ StartKextload(p, cmd) /\ cmd.tool = "kextload"
           \/ StartKextutil(p, cmd) /\ cmd.tool = "kextutil"
    PROVE  IInv'
<1>1. /\ starts' \in 0..MaxStarts /\ UNCHANGED <<kextdUp, syspolicyd, approved, events>>
      /\ task[p].at = "idle" /\ ~ WillSettle(task[p]) /\ p \in Programs
  BY BeginStep
<1>2. UNCHANGED <<stageVars, kernelVars>>
  BY DEF StartKextload, StartKextutil
<1>3. ASSUME NEW t \in Tasks, Goes(p, t), Sound(p, t), Holds(p, t, staged, approved), source \in t.had
      PROVE  IInv'
  <2>1. TaskInv' /\ OthersGoOn(p)
    BY <1>1, <1>2, <1>3, StartsKeeps DEF IInv, stageVars
  <2>2. HalfStartedIsSettled'
    BY <1>1, <1>2, <2>1, SettledKept DEF IInv, kernelVars
  <2> QED
    BY <1>1, <1>2, <2>1, <2>2, KernelStep DEF IInv, Typed, kernelVars
<1>4. CASE StartKextload(p, cmd) /\ cmd.tool = "kextload"
  <2> DEFINE o == KextloadOptions(TRUE)
             at == IF kextdUp THEN "wait" ELSE "begin"
  <2>1. o \in AuthOptions /\ o.files /\ o.signature /\ o.location
    BY KextloadOptionsAsk
  <2>2. Goes(p, Task(cmd, at, "none", o)) /\ at \in {"wait", "begin"}
    BY <1>4 DEF StartKextload
  <2> HIDE DEF o, at
  <2> QED
    BY <1>3, <1>4, <2>1, <2>2, NewTask
<1>5. CASE StartKextutil(p, cmd) /\ cmd.tool = "kextutil"
  <2> DEFINE o == KextutilOptions(KextutilArgs(cmd.opts), cmd.root)
             at == IF cmd.root THEN "compare" ELSE "lock"
  <2>1. cmd.root \in BOOLEAN /\ ~ KextutilArgs(cmd.opts).skipAuthentication
    BY <1>5 DEF StartKextutil, Commands
  <2>2. /\ o \in AuthOptions /\ o.files /\ o.signature /\ o.location
        /\ KextutilArgs(cmd.opts).doLoad => o.policy
    BY <2>1, KextutilOptionsAsk
  <2>3. Goes(p, Task(cmd, at, "scan", o)) /\ at \in {"compare", "lock"}
    BY <1>5 DEF StartKextutil
  <2> HIDE DEF o, at
  <2> QED
    BY <1>3, <1>5, <2>2, <2>3, NewTask
<1> QED
  BY <1>4, <1>5

LEMMA KextunloadKeeps ==
    ASSUME IInv, NEW p \in Procs, Begin(p), NEW cmd, Kextunload(p, cmd) \/ Extension(p, cmd)
    PROVE  IInv'
<1>1. starts' \in 0..MaxStarts /\ UNCHANGED <<kextdUp, syspolicyd, approved, events>>
  BY BeginStep
<1>2. /\ UNCHANGED <<stageVars, abandoned, task, lock>>
      /\ loaded' \in {loaded, NotLoaded} /\ matching' \in BOOLEAN
  BY DEF Kextunload, Extension
<1>3. TaskInv'
  BY <1>1, <1>2 DEF IInv, TaskInv, ClientsWait, LockHeld, Active, stageVars
<1>4. /\ loaded' \in [bundle : Copies, started : BOOLEAN, crossed : BOOLEAN, asked : BOOLEAN,
                      early : BOOLEAN]
      /\ Vetted(loaded', approved)
  BY <1>2, NotLoadedFacts DEF IInv, Typed
<1>5. HalfStartedIsSettled'
  BY <1>2 DEF IInv, HalfStartedIsSettled
<1> QED
  BY <1>1, <1>2, <1>3, <1>4, <1>5, KernelStep DEF IInv, Typed

LEMMA CleanStagingKeeps ==
    ASSUME IInv, NEW p \in Procs, Begin(p), NEW cmd \in Commands, cmd.tool \in {"clear", "prune"},
           CleanStaging(p, cmd)
    PROVE  IInv'
<1>1. /\ starts' \in 0..MaxStarts /\ UNCHANGED <<kextdUp, syspolicyd, approved, events>>
      /\ ~ WillSettle(task[p]) /\ p \in Programs /\ task[p].at = "idle" /\ p # Kextd /\ lock # p
  <2>1. p # Nobody /\ p # Kextd
    BY LoadingAssumption DEF Nobody, Kextd
  <2>2. task[p].cmd = NoCommand
    BY BeginStep DEF IInv, TaskInv, Sound
  <2>3. lock # p
    BY <2>1, <2>2 DEF IInv, TaskInv, LockHeld, NoCommand
  <2> QED
    BY <2>1, <2>3, BeginStep
<1> DEFINE cleans == staged # NotStaged /\ (cmd.tool = "clear" \/ source = NoBundle)
           others(q) == [task[q] EXCEPT !.tmp = IF cmd.tool = "clear" THEN NoBundle ELSE @,
                                        !.crossed = @ \/ (Active(q) /\ cleans)]
           new == Task(cmd, "cleaning", "none", Idle.opts)
<1>2. /\ UNCHANGED <<source, lock, kernelVars>>
      /\ staged' = IF cleans THEN [staged EXCEPT !.whole = FALSE] ELSE staged
      /\ task' = [q \in Programs |-> IF q = p /\ cleans THEN new ELSE others(q)]
  BY DEF CleanStaging
<1>3. /\ new \in Tasks /\ Sound(p, new) /\ ~ Relies(new) /\ source \in new.had
  <2>1. Idle \in Tasks /\ Sound(p, Idle) /\ source \in Contents \cup {NoBundle}
    BY <1>1, IdleIsSound DEF IInv, Typed
  <2>2. /\ new.cmd = cmd /\ new.at = "cleaning" /\ new.phase = "none" /\ new.opts = Idle.opts
        /\ new.had = {source} /\ new.place = Idle.place /\ new.client = Nobody /\ new.dext = Idle.dext
    BY DEF Task, Idle
  <2>3. new \in Tasks
    BY <2>1 DEF Task, Tasks, Steps
  <2> HIDE DEF new
  <2>4. Sound(p, new)
    BY <1>1, <2>1, <2>2 DEF Sound, Util, Args
  <2> QED
    BY <2>2, <2>3, <2>4 DEF Relies
<1> HIDE DEF new
\* Their temporary copies may be gone; they have been crossed if the staged copy goes.
<1>4. \A q \in Programs : LET t == task[q]  u == others(q) IN
         /\ u \in Tasks
         /\ u.cmd = t.cmd /\ u.at = t.at /\ u.phase = t.phase /\ u.place = t.place /\ u.dext = t.dext
         /\ u.opts = t.opts /\ u.conn = t.conn /\ u.asked = t.asked /\ u.saw = t.saw
         /\ u.client = t.client /\ u.had = t.had /\ u.tmp \in {t.tmp, NoBundle}
         /\ u.crossed = (t.crossed \/ (Active(q) /\ cleans))
  <2> SUFFICES ASSUME NEW q \in Programs
               PROVE  LET t == task[q]  u == others(q) IN
                      /\ u \in Tasks
                      /\ u.cmd = t.cmd /\ u.at = t.at /\ u.phase = t.phase /\ u.place = t.place
                      /\ u.dext = t.dext
                      /\ u.opts = t.opts /\ u.conn = t.conn /\ u.asked = t.asked /\ u.saw = t.saw
                      /\ u.client = t.client /\ u.had = t.had /\ u.tmp \in {t.tmp, NoBundle}
                      /\ u.crossed = (t.crossed \/ (Active(q) /\ cleans))
    OBVIOUS
  <2>1. task[q] \in Tasks /\ NoBundle \in Copies /\ cleans \in BOOLEAN /\ Active(q) \in BOOLEAN
    BY DEF IInv, TaskInv, Copies, Active
  <2> HIDE DEF cleans
  <2> QED
    BY <2>1 DEF Tasks
<1>5. \A q \in Programs : Sound(q, others(q))
  <2> SUFFICES ASSUME NEW q \in Programs
               PROVE  Sound(q, others(q))
    OBVIOUS
  <2> DEFINE u == others(q)
  <2>1. /\ Sound(q, task[q]) /\ u.tmp \in {task[q].tmp, NoBundle}
        /\ u.cmd = task[q].cmd /\ u.at = task[q].at /\ u.phase = task[q].phase
        /\ u.place = task[q].place /\ u.dext = task[q].dext /\ u.opts = task[q].opts
        /\ u.client = task[q].client /\ u.had = task[q].had
    BY <1>4 DEF IInv, TaskInv
  <2> HIDE DEF u
  <2>2. Sound(q, u)
    BY <2>1 DEF Sound, Util, Args
  <2> QED
    BY <2>2 DEF u
<1>6. \A q \in Programs : Holds(q, others(q), staged', approved')
  <2> SUFFICES ASSUME NEW q \in Programs, Relies(others(q))
               PROVE  Holds(q, others(q), staged', approved')
    BY DEF Holds
  <2>1. ~ cleans /\ Relies(task[q]) /\ Holds(q, task[q], staged, approved)
    BY <1>4 DEF Relies, Active, IInv, TaskInv
  <2> QED
    BY <1>1, <1>2, <1>4, <2>1 DEF Holds, Checked, Allowed
<1> HIDE DEF others, cleans
<1>7. \A q \in Programs : task'[q] = IF q = p /\ cleans THEN new ELSE others(q)
  BY <1>2
<1>8. TaskInv'
  <2>1. task' \in [Programs -> Tasks] /\ lock' \in Procs \cup {Nobody}
    BY <1>2, <1>3, <1>4 DEF IInv, TaskInv
  <2>2. \A q \in Programs : Sound(q, task'[q]) /\ Holds(q, task'[q], staged', approved')
    BY <1>3, <1>5, <1>6, <1>7 DEF Holds
  <2>3. \A q \in Programs : (Active(q) => source \in task[q].had)'
    BY <1>2, <1>3, <1>4, <1>7 DEF Active, IInv, TaskInv
  <2>4. ClientsWait'
    <3> DEFINE c == task[Kextd].client
    <3>1. Kextd \in Programs /\ c \in Procs \cup {Nobody} /\ task'[Kextd].client = c
      BY <1>1, <1>4, <1>7 DEF Programs, Tasks, IInv, TaskInv
    <3>2. c # Nobody => c \in Programs \ {p} /\ task[c].at = "wait"
      BY <1>1, <3>1 DEF Programs, IInv, TaskInv, ClientsWait
    <3> QED
      BY <1>4, <1>7, <3>1, <3>2 DEF ClientsWait
  <2>5. LockHeld'
    <3>1. lock # Nobody => lock \in Programs \ {p}
      BY <1>1 DEF Programs, IInv, TaskInv
    <3> QED
      BY <1>2, <1>4, <1>7, <3>1 DEF IInv, TaskInv, LockHeld
  <2> QED
    BY <2>1, <2>2, <2>3, <2>4, <2>5 DEF TaskInv
<1>9. OthersGoOn(p)
  BY <1>4, <1>7 DEF OthersGoOn, WillSettle, Args, Programs
<1>10. staged' \in [bundle : Copies, whole : BOOLEAN] /\ StagedIsValidated'
  <2>1. [staged EXCEPT !.whole = FALSE].bundle = staged.bundle
    BY DEF IInv, Typed
  <2> QED
    BY <1>2, <2>1 DEF IInv, Typed, StagedIsValidated, cleans
<1>11. HalfStartedIsSettled'
  BY <1>1, <1>2, <1>9, SettledKept DEF IInv, kernelVars
<1>12. Typed' /\ Vetted(loaded, approved)'
  BY <1>1, <1>2, <1>10 DEF IInv, Typed, kernelVars
<1> QED
  BY <1>8, <1>10, <1>11, <1>12 DEF IInv

LEMMA CleanedKeeps ==
    ASSUME IInv, NEW p \in Procs, Cleaned(p)
    PROVE  IInv'
<1>1. /\ task[p] \in Tasks /\ Sound(p, task[p]) /\ task[p].at = "cleaning" /\ p \in Programs
      /\ p # Kextd /\ ~ WillSettle(task[p])
  BY TaskFacts, LoadingAssumption DEF Cleaned, Programs, Kextd, WillSettle
<1>2. CASE Finish(p, TRUE) /\ UNCHANGED staged
  BY <1>1, <1>2, QuietFinish DEF Cleaned, World, kernelVars
<1>3. CASE staged' = NotStaged /\ Writes(p, Idle)
  <2>1. lock # p
    BY <1>1, LoadingAssumption DEF Sound, IInv, TaskInv, LockHeld, Nobody
  <2>2. Idle \in Tasks /\ Sound(p, Idle) /\ Holds(p, Idle, staged', approved) /\ Idle.at = "idle"
    BY <1>1, IdleIsSound DEF Idle
  <2>3. TaskInv' /\ OthersGoOn(p)
    BY <1>1, <1>3, <2>1, <2>2, WritesKeeps DEF IInv, Cleaned
  <2>4. staged' \in [bundle : Copies, whole : BOOLEAN] /\ StagedIsValidated'
    BY <1>3 DEF NotStaged, Copies, StagedIsValidated
  <2> QED
    BY <1>1, <2>3, <2>4, StagingStep DEF Cleaned, IInv, Typed
<1>4. CASE /\ staged # NotStaged /\ staged.whole /\ Finish(p, TRUE)
           /\ \E w \in BOOLEAN : staged' = [staged EXCEPT !.whole = w]
  <2>1. /\ staged' \in [bundle : Copies, whole : BOOLEAN] /\ staged'.bundle = staged.bundle
        /\ \A q \in Programs : Holds(q, task[q], staged', approved)
    BY <1>4, LessIsHeld
  <2>2. TaskInv' /\ OthersGoOn(p)
    BY <1>1, <1>4, <2>1, FinishKeeps, LoadingAssumption DEF IInv, Cleaned
  <2>3. StagedIsValidated'
    BY <1>4, <2>1 DEF IInv, StagedIsValidated
  <2> QED
    BY <1>1, <2>1, <2>2, <2>3, StagingStep DEF Cleaned, IInv, Typed
<1> QED
  BY <1>2, <1>3, <1>4 DEF Cleaned

LEMMA BeginKeeps ==
    ASSUME IInv, NEW p \in Procs, Begin(p)
    PROVE  IInv'
<1>1. PICK cmd \in Given[p] :
         \/ cmd.tool = "kextload" /\ StartKextload(p, cmd)
         \/ cmd.tool = "kextutil" /\ StartKextutil(p, cmd)
         \/ cmd.tool = "kextunload" /\ Kextunload(p, cmd)
         \/ cmd.tool \in {"clear", "prune"} /\ CleanStaging(p, cmd)
         \/ cmd.tool \in {"stop", "enable", "disable"} /\ Extension(p, cmd)
  BY DEF Begin
<1>2. cmd \in Commands
  BY LoadingAssumption
<1>3. CASE cmd.tool = "kextload" /\ StartKextload(p, cmd)
  BY <1>2, <1>3, StartsProgram
<1>4. CASE cmd.tool = "kextutil" /\ StartKextutil(p, cmd)
  BY <1>2, <1>4, StartsProgram
<1>5. CASE cmd.tool = "kextunload" /\ Kextunload(p, cmd)
  BY <1>5, KextunloadKeeps
<1>6. CASE cmd.tool \in {"clear", "prune"} /\ CleanStaging(p, cmd)
  BY <1>2, <1>6, CleanStagingKeeps
<1>7. CASE cmd.tool \in {"stop", "enable", "disable"} /\ Extension(p, cmd)
  BY <1>7, KextunloadKeeps
<1> QED
  BY <1>1, <1>3, <1>4, <1>5, <1>6, <1>7

LEMMA ServeKeeps ==
    ASSUME IInv, NEW p \in Procs, Serve(p)
    PROVE  IInv'
<1>1. /\ p \in Programs /\ Kextd \in Programs /\ p # Kextd /\ task[p].at = "wait"
      /\ task[Kextd].at = "idle" /\ task[Kextd].client = Nobody /\ task[Kextd] \in Tasks
      /\ ~ WillSettle(task[p]) /\ ~ WillSettle(task[Kextd])
  BY LoadingAssumption, TaskFacts DEF Serve, Programs, Kextd, Sound, WillSettle
<1>2. UNCHANGED World
  BY DEF Serve, World, stageVars, kernelVars
<1>3. CASE task' = [task EXCEPT ![p] = Idle] /\ Release(p)
  <2>1. Finish(p, FALSE)
    BY <1>1, <1>3 DEF Finish
  <2>2. TaskInv' /\ OthersGoOn(p)
    BY <1>1, <1>2, <2>1, FinishKeeps, LoadingAssumption DEF IInv, TaskInv, World
  <2> QED
    BY <1>1, <1>2, <2>2, QuietStep
<1> DEFINE t == [Idle EXCEPT !.at = "compare", !.conn = task[Kextd].conn,
                             !.client = p, !.had = {source}]
<1>4. CASE Goes(Kextd, t)
  <2>1. Idle \in Tasks /\ Sound(Kextd, Idle) /\ source \in Contents \cup {NoBundle}
    BY <1>1, IdleIsSound DEF IInv, Typed
  <2>2. /\ t.at = "compare" /\ t.client = p /\ t.had = {source}
        /\ t.cmd = Idle.cmd /\ t.opts = Idle.opts /\ t.phase = Idle.phase /\ t.dext = Idle.dext
        /\ t.tmp = Idle.tmp /\ t.place = Idle.place
    BY DEF Idle
  <2>3. t \in Tasks
    BY <1>1, <2>1 DEF Tasks, Steps
  <2> HIDE DEF t
  <2>4. Sound(Kextd, t) /\ ~ Relies(t)
    BY <2>1, <2>2 DEF Sound, Util, Args, Relies
  <2>5. \A q \in Programs : task'[q] = IF q = Kextd THEN t ELSE task[q]
    BY <1>4 DEF Goes, IInv, TaskInv
  <2>6. /\ task' \in [Programs -> Tasks] /\ lock' = lock
        /\ \A q \in Programs : Sound(q, task'[q]) /\ Holds(q, task'[q], staged, approved)
        /\ \A q \in Programs : task'[q].at # "idle" => source \in task'[q].had
    BY <1>4, <2>2, <2>3, <2>4, <2>5 DEF Goes, IInv, TaskInv, Active, Holds
  <2>7. ClientsWait'
    BY <1>1, <2>2, <2>5 DEF ClientsWait
  <2>8. LockHeld'
    <3>1. lock # Nobody => lock \in Programs /\ lock # Kextd
      BY DEF IInv, TaskInv, Programs, Nobody, Kextd
    <3> QED
      BY <2>5, <2>6, <3>1 DEF IInv, TaskInv, LockHeld
  <2>9. TaskInv'
    BY <1>2, <2>6, <2>7, <2>8 DEF IInv, TaskInv, Active, World
  <2>10. OthersGoOn(Kextd)
    BY <2>5 DEF OthersGoOn, Programs
  <2> QED
    BY <1>1, <1>2, <2>9, <2>10, QuietStep
<1> QED
  BY <1>3, <1>4 DEF Serve

LEMMA KextloadBeginsKeeps ==
    ASSUME IInv, NEW p \in Procs, KextloadBegins(p)
    PROVE  IInv'
<1>1. /\ task[p] \in Tasks /\ Sound(p, task[p]) /\ task[p].at \in {"begin", "netboot"}
      /\ p \in Programs /\ p # Kextd /\ ~ WillSettle(task[p])
  BY TaskFacts, LoadingAssumption DEF KextloadBegins, Programs, Kextd, WillSettle
<1>2. UNCHANGED World
  BY DEF KextloadBegins, World, stageVars, kernelVars
<1>3. CASE Finish(p, FALSE)
  BY <1>1, <1>2, <1>3, QuietFinish
<1>4. ASSUME NEW o \in AuthOptions, o.files, o.signature, o.location,
             NEW step \in {"compare", "netboot"},
             Goes(p, [task[p] EXCEPT !.opts = o, !.at = step])
      PROVE  IInv'
  <2> DEFINE t == [task[p] EXCEPT !.opts = o, !.at = step]
  <2>1. /\ t \in Tasks /\ t.at = step /\ t.phase = task[p].phase /\ t.opts = o
        /\ t.cmd = task[p].cmd /\ t.client = task[p].client /\ t.had = task[p].had /\ t.place = task[p].place
    BY <1>1, <1>4 DEF Tasks, Steps
  <2>2. Sound(p, t)
    BY <1>1, <1>4, <2>1 DEF Sound, Util, Args
  <2>3. Holds(p, t, staged, approved)
    BY <1>1, <1>4, <2>1 DEF Holds, Relies
  <2> QED
    BY <1>1, <1>2, <1>4, <2>1, <2>2, <2>3, QuietGoes
<1>5. CASE task[p].at = "netboot"
  <2> DEFINE o == task[p].opts
  <2>1. o \in AuthOptions /\ o.files /\ o.signature /\ o.location
    BY <1>1 DEF Tasks, Sound
  <2>2. Goes(p, [task[p] EXCEPT !.opts = o, !.at = IF o.location THEN "compare" ELSE "check"])
    BY <1>5 DEF KextloadBegins, RestoredOptions
  <2>3. (IF o.location THEN "compare" ELSE "check") = "compare"
    BY <2>1
  <2> HIDE DEF o
  <2> QED
    BY <1>4, <2>1, <2>2, <2>3
<1>6. CASE task[p].at = "begin"
  <2>1. (~ kextdUp) \in BOOLEAN
    OBVIOUS
  <2>2. LET o == KextloadOptions(~ kextdUp) IN
        o \in AuthOptions /\ o.files /\ o.signature /\ o.location
    BY <2>1, KextloadOptionsAsk
  <2> QED
    BY <1>1, <1>3, <1>4, <1>6, <2>2 DEF KextloadBegins
<1> QED
  BY <1>1, <1>5, <1>6

LEMMA TakeLockKeeps ==
    ASSUME IInv, NEW p \in Procs, TakeLock(p)
    PROVE  IInv'
<1>1. /\ task[p] \in Tasks /\ Sound(p, task[p]) /\ task[p].at = "lock" /\ source \in task[p].had
      /\ Holds(p, task[p], staged, approved) /\ p \in Programs /\ ~ WillSettle(task[p])
  BY TaskFacts DEF TakeLock, Programs, Active, WillSettle
<1>2. UNCHANGED World
  BY DEF TakeLock, World, stageVars, kernelVars
<1> DEFINE t == [task[p] EXCEPT !.phase = "test",
                                !.at = IF task[p].cmd.root THEN "compare" ELSE "check"]
<1>3. CASE Finish(p, FALSE)
  BY <1>1, <1>2, <1>3, QuietFinish
<1>4. CASE task' = [task EXCEPT ![p] = t] /\ lock' \in {lock, p}
  <2>1. /\ t \in Tasks /\ t.phase = "test" /\ t.opts = task[p].opts /\ t.place = task[p].place
        /\ t.at = IF task[p].cmd.root THEN "compare" ELSE "check"
        /\ t.cmd = task[p].cmd /\ t.client = task[p].client /\ t.had = task[p].had /\ t.place = task[p].place
        /\ t.crossed = task[p].crossed
    BY <1>1 DEF Tasks, Steps
  <2> HIDE DEF t
  <2>2. Sound(p, t) /\ Holds(p, t, staged, approved) /\ t.cmd.tool = "kextutil"
    BY <1>1, <2>1 DEF Sound, Util, Args, Holds, Relies, Checked
  <2>3. TaskInv' /\ OthersGoOn(p)
    BY <1>1, <1>2, <1>4, <2>1, <2>2, TaskKeeps DEF IInv, World
  <2> QED
    BY <1>1, <1>2, <2>3, QuietStep
<1> QED
  BY <1>3, <1>4 DEF TakeLock, Goes

(***************************************************************************)
(* Installers, the user, faults.                                           *)
(***************************************************************************)
LEMMA InstallKeeps ==
    ASSUME IInv, NEW b \in Contents \cup {NoBundle}, Install(b)
    PROVE  IInv'
<1>1. PICK copy \in {source, b, Torn} :
         task' = [q \in Programs |->
                    [task[q] EXCEPT !.had = IF Active(q) THEN @ \cup {b} ELSE @,
                                    !.tmp = IF task[q].at = "copying" /\ @ = source
                                            THEN copy ELSE @]]
  BY DEF Install
<1>2. /\ source' = b /\ UNCHANGED <<staged, kernelVars, kextdUp, lock, syspolicyd, approved, starts>>
      /\ events' \in 0..MaxEvents
  BY EventCounted DEF Install
<1>3. \A q \in Programs : LET t == task[q]  u == task'[q] IN
         /\ u \in Tasks
         /\ u.cmd = t.cmd /\ u.at = t.at /\ u.phase = t.phase /\ u.place = t.place /\ u.dext = t.dext
         /\ u.opts = t.opts /\ u.conn = t.conn /\ u.asked = t.asked /\ u.saw = t.saw
         /\ u.client = t.client /\ u.crossed = t.crossed
         /\ u.had = IF Active(q) THEN t.had \cup {b} ELSE t.had
         /\ u.tmp = IF t.at = "copying" /\ t.tmp = source THEN copy ELSE t.tmp
  <2> SUFFICES ASSUME NEW q \in Programs
               PROVE  LET t == task[q]  u == task'[q] IN
                      /\ u \in Tasks
                      /\ u.cmd = t.cmd /\ u.at = t.at /\ u.phase = t.phase /\ u.place = t.place
                      /\ u.dext = t.dext
                      /\ u.opts = t.opts /\ u.conn = t.conn /\ u.asked = t.asked /\ u.saw = t.saw
                      /\ u.client = t.client /\ u.crossed = t.crossed
                      /\ u.had = IF Active(q) THEN t.had \cup {b} ELSE t.had
                      /\ u.tmp = IF t.at = "copying" /\ t.tmp = source THEN copy ELSE t.tmp
    OBVIOUS
  <2> DEFINE h == IF Active(q) THEN task[q].had \cup {b} ELSE task[q].had
             m == IF task[q].at = "copying" /\ task[q].tmp = source THEN copy ELSE task[q].tmp
  <2>1. task[q] \in Tasks /\ task'[q] = [task[q] EXCEPT !.had = h, !.tmp = m]
    BY <1>1 DEF IInv, TaskInv
  <2>2. h \in SUBSET (Contents \cup {NoBundle}) /\ m \in Copies
    BY <2>1 DEF Tasks, Copies, IInv, Typed
  <2> HIDE DEF h, m
  <2>3. LET t == task[q]  u == task'[q] IN
        /\ u \in Tasks
        /\ u.cmd = t.cmd /\ u.at = t.at /\ u.phase = t.phase /\ u.place = t.place
        /\ u.dext = t.dext
        /\ u.opts = t.opts /\ u.conn = t.conn /\ u.asked = t.asked /\ u.saw = t.saw
        /\ u.client = t.client /\ u.crossed = t.crossed
        /\ u.had = h /\ u.tmp = m
    BY <2>1, <2>2 DEF Tasks
  <2> QED
    BY <2>3 DEF h, m
<1>4. \A q \in Programs : Sound(q, task'[q])
  <2> SUFFICES ASSUME NEW q \in Programs
               PROVE  Sound(q, task'[q])
    OBVIOUS
  <2>1. Sound(q, task[q]) /\ (Active(q) => source \in task[q].had)
    BY DEF IInv, TaskInv
  <2>2. task'[q].at \in {"copying", "move"} => task'[q].tmp \in task'[q].had \cup {NoBundle, Torn}
    <3>1. CASE task[q].at = "copying" /\ task[q].tmp = source
      BY <1>3, <2>1, <3>1 DEF Active
    <3>2. CASE task[q].at \in {"copying", "move"} /\ task'[q].tmp = task[q].tmp
      BY <1>3, <2>1, <3>2 DEF Sound
    <3> QED
      BY <1>3, <3>1, <3>2
  <2>3. task'[q].at = "move" => task'[q].tmp = NoBundle \/ kextBundleValidates(task'[q].tmp)
    BY <1>3, <2>1 DEF Sound
  <2> DEFINE u == task'[q]
  <2>4. LET t == task[q] IN
        /\ u.cmd = t.cmd /\ u.at = t.at /\ u.phase = t.phase /\ u.place = t.place /\ u.dext = t.dext
        /\ u.opts = t.opts /\ u.client = t.client
    BY <1>3
  <2> HIDE DEF u
  <2>5. Sound(q, u)
    <3>1. u.at \in {"copying", "move"} => u.tmp \in u.had \cup {NoBundle, Torn}
      BY <2>2 DEF u
    <3>2. u.at = "move" => u.tmp = NoBundle \/ kextBundleValidates(u.tmp)
      BY <2>3 DEF u
    <3> QED
      BY <2>1, <2>4, <3>1, <3>2 DEF Sound, Util, Args
  <2> QED
    BY <2>5 DEF u
<1>5. \A q \in Programs : Holds(q, task'[q], staged', approved')
  <2> SUFFICES ASSUME NEW q \in Programs
               PROVE  Holds(q, task'[q], staged', approved')
    OBVIOUS
  <2>1. Holds(q, task[q], staged, approved) /\ task[q].had \subseteq task'[q].had
    BY <1>3 DEF IInv, TaskInv
  <2> QED
    BY <1>2, <1>3, <2>1 DEF Holds, Relies, Checked, Allowed
<1>6. \A q \in Programs : (Active(q) => source \in task[q].had)'
  BY <1>2, <1>3 DEF Active
<1>7. ClientsWait'
  <2> DEFINE c == task[Kextd].client
  <2>1. Kextd \in Programs /\ c \in Procs \cup {Nobody} /\ task'[Kextd].client = c
    BY <1>3 DEF IInv, TaskInv, Programs, Tasks
  <2>2. c # Nobody => c \in Programs /\ task[c].at = "wait"
    BY <2>1 DEF Programs, IInv, TaskInv, ClientsWait
  <2> QED
    BY <1>3, <2>1, <2>2 DEF ClientsWait
<1>8. LockHeld'
  BY <1>2, <1>3 DEF Programs, IInv, TaskInv, LockHeld
<1>9. task' \in [Programs -> Tasks]
  BY <1>1, <1>3
<1>10. TaskInv'
  BY <1>2, <1>4, <1>5, <1>6, <1>7, <1>8, <1>9 DEF IInv, TaskInv
<1>11. HalfStartedIsSettled'
  BY <1>2, <1>3 DEF IInv, HalfStartedIsSettled, WillSettle, Args, kernelVars, Programs
<1>12. Typed' /\ Vetted(loaded, approved)' /\ StagedIsValidated'
  BY <1>2 DEF IInv, Typed, kernelVars, StagedIsValidated
<1> QED
  BY <1>10, <1>11, <1>12 DEF IInv

LEMMA ApproveKeeps ==
    ASSUME IInv, Approve
    PROVE  IInv'
<1>1. /\ UNCHANGED <<stageVars, kernelVars, kextdUp, lock, syspolicyd, task, starts>>
      /\ approved \subseteq approved' /\ approved' \subseteq Contents
  BY DEF Approve, IInv, Typed
<1>2. events' \in 0..MaxEvents
  BY EventCounted DEF Approve
<1>3. \A q \in Programs : Holds(q, task[q], staged, approved')
  BY <1>1 DEF IInv, TaskInv, Holds, Allowed
<1>4. TaskInv'
  BY <1>1, <1>3 DEF IInv, TaskInv, ClientsWait, LockHeld, Active, stageVars
<1>5. Vetted(loaded, approved)'
  BY <1>1 DEF IInv, Vetted, kernelVars
<1> QED
  BY <1>1, <1>2, <1>4, <1>5 DEF IInv, Typed, StagedIsValidated, HalfStartedIsSettled, stageVars, kernelVars

LEMMA ServiceStartsKeeps ==
    ASSUME IInv, KextdStarts \/ SyspolicydStarts \/ UNCHANGED vars
    PROVE  IInv'
<1>1. /\ UNCHANGED <<stageVars, kernelVars, lock, approved, task, starts, events>>
      /\ kextdUp' \in BOOLEAN /\ syspolicyd' \in BOOLEAN
  BY DEF KextdStarts, SyspolicydStarts, vars, stageVars, kernelVars, IInv, Typed
<1>2. TaskInv'
  BY <1>1 DEF IInv, TaskInv, ClientsWait, LockHeld, Active, stageVars
<1> QED
  BY <1>1, <1>2 DEF IInv, Typed, StagedIsValidated, HalfStartedIsSettled, stageVars, kernelVars

LEMMA KillKeeps ==
    ASSUME IInv, NEW p \in Procs, Kill(p)
    PROVE  IInv'
<1>1. /\ UNCHANGED <<stageVars, loaded, matching, kextdUp, syspolicyd, approved, starts>>
      /\ events' \in 0..MaxEvents /\ lock' \in {lock, Nobody} /\ (lock' # p \/ lock' = Nobody)
      /\ abandoned' \in BOOLEAN /\ (abandoned => abandoned')
      /\ WillSettle(task[p]) => abandoned'
  BY EventCounted DEF Kill, Release, IInv, Typed, WillSettle
<1> DEFINE after(q) == [task[q] EXCEPT !.client = IF @ = p THEN Nobody ELSE @]
<1>2. /\ p \in Programs /\ p # Kextd /\ p # Nobody
      /\ \A q \in Programs : task'[q] = IF q = p THEN Idle ELSE after(q)
  BY LoadingAssumption DEF Kill, Programs, Kextd, Nobody
<1>3. Idle \in Tasks /\ Sound(p, Idle) /\ ~ Relies(Idle) /\ Idle.at = "idle"
  BY <1>2, IdleIsSound DEF Relies, Idle
<1>4. \A q \in Programs \ {p} : LET t == task[q]  u == task'[q] IN
         /\ u \in Tasks
         /\ u.cmd = t.cmd /\ u.at = t.at /\ u.phase = t.phase /\ u.place = t.place /\ u.dext = t.dext
         /\ u.opts = t.opts /\ u.conn = t.conn /\ u.asked = t.asked /\ u.saw = t.saw
         /\ u.tmp = t.tmp /\ u.crossed = t.crossed /\ u.had = t.had
         /\ u.client \in {t.client, Nobody} /\ u.client # p
  <2> SUFFICES ASSUME NEW q \in Programs \ {p}
               PROVE  LET t == task[q]  u == task'[q] IN
                      /\ u \in Tasks
                      /\ u.cmd = t.cmd /\ u.at = t.at /\ u.phase = t.phase /\ u.place = t.place
                      /\ u.dext = t.dext
                      /\ u.opts = t.opts /\ u.conn = t.conn /\ u.asked = t.asked /\ u.saw = t.saw
                      /\ u.tmp = t.tmp /\ u.crossed = t.crossed /\ u.had = t.had
                      /\ u.client \in {t.client, Nobody} /\ u.client # p
    OBVIOUS
  <2>1. task'[q] = after(q) /\ task[q] \in Tasks
    BY <1>2 DEF IInv, TaskInv
  <2> QED
    BY <1>2, <2>1 DEF Tasks
<1>5. \A q \in Programs : Sound(q, task'[q])
  <2> SUFFICES ASSUME NEW q \in Programs \ {p}
               PROVE  Sound(q, task'[q])
    BY <1>2, <1>3
  <2>1. Sound(q, task[q])
    BY DEF IInv, TaskInv
  <2> QED
    BY <1>4, <2>1 DEF Sound, Util, Args
<1>6. \A q \in Programs : Holds(q, task'[q], staged', approved')
  <2> SUFFICES ASSUME NEW q \in Programs \ {p}
               PROVE  Holds(q, task'[q], staged', approved')
    BY <1>2, <1>3 DEF Holds
  <2>1. Holds(q, task[q], staged, approved)
    BY DEF IInv, TaskInv
  <2> QED
    BY <1>1, <1>4, <2>1 DEF Holds, Relies, Checked, Allowed, stageVars
<1>7. \A q \in Programs : (Active(q) => source \in task[q].had)'
  BY <1>1, <1>2, <1>3, <1>4 DEF Active, IInv, TaskInv, stageVars
<1>8. ClientsWait'
  <2> DEFINE c == task'[Kextd].client
  <2>1. c \in {task[Kextd].client, Nobody} /\ c # p /\ task[Kextd].client \in Procs \cup {Nobody}
    BY <1>2, <1>4 DEF IInv, TaskInv, Programs, Tasks
  <2>2. c # Nobody => c \in Programs \ {p} /\ task[c].at = "wait"
    BY <2>1 DEF Programs, IInv, TaskInv, ClientsWait
  <2> QED
    BY <1>4, <2>2 DEF ClientsWait
<1>9. LockHeld'
  <2>1. lock' # Nobody => lock' = lock /\ lock \in Programs \ {p}
    BY <1>1 DEF IInv, TaskInv, Programs
  <2> QED
    BY <1>4, <2>1 DEF IInv, TaskInv, LockHeld
<1>10. TaskInv'
  <2>1. task' \in [Programs -> Tasks]
    BY <1>2, <1>3, <1>4 DEF Kill
  <2> QED
    BY <1>1, <1>5, <1>6, <1>7, <1>8, <1>9, <2>1 DEF IInv, TaskInv
<1>11. HalfStartedIsSettled'
  <2>1. OthersGoOn(p)
    BY <1>4 DEF OthersGoOn, WillSettle, Args, Programs
  <2> QED
    BY <1>1, <1>2, <2>1, SettledKept DEF IInv
<1>12. Typed' /\ Vetted(loaded, approved)' /\ StagedIsValidated'
  BY <1>1 DEF IInv, Typed, StagedIsValidated, stageVars
<1> QED
  BY <1>10, <1>11, <1>12 DEF IInv

LEMMA KextdDiesKeeps ==
    ASSUME IInv, KextdDies
    PROVE  IInv'
<1>1. /\ UNCHANGED <<stageVars, kernelVars, syspolicyd, approved, starts>>
      /\ events' \in 0..MaxEvents /\ lock' = Nobody /\ kextdUp' = FALSE
  BY EventCounted DEF KextdDies
<1>2. /\ Kextd \in Programs
      /\ \A q \in Programs : task'[q] = IF q = Kextd \/ task[q].at = "wait" THEN Idle ELSE task[q]
  BY DEF KextdDies, Programs
<1>3. \A q \in Programs : /\ Idle \in Tasks /\ Sound(q, Idle) /\ ~ Relies(Idle)
                          /\ Idle.at = "idle" /\ Idle.client = Nobody
  BY IdleIsSound DEF Relies, Idle
<1>4. /\ task' \in [Programs -> Tasks]
      /\ \A q \in Programs : Sound(q, task'[q]) /\ Holds(q, task'[q], staged, approved)
  BY <1>2, <1>3 DEF KextdDies, IInv, TaskInv, Holds
<1>5. \A q \in Programs : (Active(q) => source \in task[q].had)'
  BY <1>1, <1>2, <1>3 DEF Active, IInv, TaskInv, stageVars
<1>6. ClientsWait' /\ LockHeld'
  BY <1>1, <1>2, <1>3 DEF ClientsWait, LockHeld
<1>7. TaskInv'
  BY <1>1, <1>4, <1>5, <1>6 DEF IInv, TaskInv, stageVars
<1>8. \A q \in Procs : WillSettle(task[q]) => WillSettle(task'[q])
  BY <1>2, LoadingAssumption DEF Programs, Kextd, WillSettle
<1>9. HalfStartedIsSettled'
  BY <1>1, <1>8 DEF IInv, HalfStartedIsSettled, kernelVars
<1> QED
  BY <1>1, <1>7, <1>9 DEF IInv, Typed, StagedIsValidated, stageVars, kernelVars

(***************************************************************************)
(* The invariant is inductive.                                             *)
(***************************************************************************)
LEMMA InitImpliesIInv ==
    ASSUME Init
    PROVE  IInv
<1>1. staged \in [bundle : Copies, whole : BOOLEAN] /\ StagedIsValidated
  <2>1. CASE staged = NotStaged
    BY <2>1 DEF NotStaged, Copies, StagedIsValidated
  <2>2. CASE staged \in [bundle : Staged, whole : {TRUE}]
    BY <2>2, LoadingAssumption DEF Copies, StagedIsValidated
  <2> QED
    BY <2>1, <2>2 DEF Init
<1>2. loaded = NotLoaded /\ Vetted(loaded, approved) /\ HalfStartedIsSettled
  BY DEF Init, Vetted, HalfStartedIsSettled
<1>3. NotLoaded \in [bundle : Copies, started : BOOLEAN, crossed : BOOLEAN, asked : BOOLEAN,
                     early : BOOLEAN]
  BY DEF NotLoaded, Copies
<1>4. Typed
  <2>1. source \in Contents \cup {NoBundle} /\ approved \subseteq Contents
    BY LoadingAssumption DEF Init
  <2>2. starts \in 0..MaxStarts /\ events \in 0..MaxEvents
    BY LoadingAssumption DEF Init
  <2>3. matching \in BOOLEAN /\ kextdUp \in BOOLEAN /\ syspolicyd \in BOOLEAN /\ abandoned \in BOOLEAN
    BY DEF Init
  <2> QED
    BY <1>1, <1>2, <1>3, <2>1, <2>2, <2>3 DEF Typed
<1>5. task = [p \in Programs |-> Idle] /\ lock = Nobody /\ Kextd \in Programs
  BY DEF Init, Programs
<1>6. Idle.at = "idle" /\ Idle.client = Nobody
  BY DEF Idle
<1>7. TaskInv
  BY <1>5, <1>6, IdleIsSound DEF TaskInv, ClientsWait, LockHeld, Active
<1> QED
  BY <1>1, <1>2, <1>4, <1>7 DEF IInv

LEMMA WorksKeeps ==
    ASSUME IInv, NEW p \in Programs, Works(p)
    PROVE  IInv'
<1>1. CASE Stage(p)
  BY <1>1, CompareKeeps, RemoveKeeps, RemovedKeeps, CopyKeeps, ValidateKeeps, MoveKeeps, RefreshKeeps
     DEF Stage
<1>2. CASE Check(p) \/ AskPolicy(p) \/ Load(p)
  BY <1>2, CheckKeeps, AskPolicyKeeps, LoadKeeps
<1> QED
  BY <1>1, <1>2 DEF Works

LEMMA NextKeepsIInv ==
    ASSUME IInv, [Next]_vars
    PROVE  IInv'
<1>1. CASE \E p \in Procs : Begin(p) \/ Runs(p) \/ Kill(p)
  <2>1. PICK p \in Procs : Begin(p) \/ Runs(p) \/ Kill(p)
    BY <1>1
  <2>2. CASE Begin(p) \/ Kill(p)
    BY <2>2, BeginKeeps, KillKeeps
  <2>3. CASE Works(p)
    BY <2>3, WorksKeeps DEF Programs
  <2>4. CASE Serve(p) \/ KextloadBegins(p) \/ TakeLock(p) \/ UserAnswersLoad(p)
    BY <2>4, ServeKeeps, KextloadBeginsKeeps, TakeLockKeeps, UserAnswersLoadKeeps
  <2>5. CASE \/ Reread(p) \/ GenerateSymbols(p) \/ Start(p) \/ SendPersonalities(p)
             \/ RollbackReads(p) \/ RollbackUnloads(p) \/ Cleaned(p)
    BY <2>5, RereadKeeps, GenerateSymbolsKeeps, StartKeeps, SendPersonalitiesKeeps,
       RollbackReadsKeeps, RollbackUnloadsKeeps, CleanedKeeps
  <2> QED
    BY <2>1, <2>2, <2>3, <2>4, <2>5 DEF Runs
<1>2. CASE Works(Kextd)
  BY <1>2, WorksKeeps DEF Programs
<1>3. CASE \E b \in Contents \cup {NoBundle} : Install(b)
  BY <1>3, InstallKeeps
<1>4. CASE Approve \/ KextdDies
  BY <1>4, ApproveKeeps, KextdDiesKeeps
<1>5. CASE KextdStarts \/ SyspolicydStarts \/ UNCHANGED vars
  BY <1>5, ServiceStartsKeeps
<1> QED
  BY <1>1, <1>2, <1>3, <1>4, <1>5 DEF Next

\* Whatever the programs, the installers, the users and the faults do, the
\* invariant holds.
THEOREM SpecImpliesIInv == Spec => []IInv
<1>1. Init => IInv
  BY InitImpliesIInv
<1>2. IInv /\ [Next]_vars => IInv'
  BY NextKeepsIInv
<1> QED
  BY <1>1, <1>2, PTL DEF Spec

(***************************************************************************)
(* What it implies.                                                        *)
(***************************************************************************)
LEMMA IInvImpliesTypeOK ==
    ASSUME IInv
    PROVE  TypeOK
<1>1. /\ source \in Contents \cup {NoBundle}
      /\ staged.bundle \in Contents \cup {NoBundle, Torn} /\ staged.whole \in BOOLEAN
      /\ matching \in BOOLEAN /\ kextdUp \in BOOLEAN /\ syspolicyd \in BOOLEAN
      /\ abandoned \in BOOLEAN
      /\ approved \subseteq Contents
      /\ starts \in 0..MaxStarts /\ events \in 0..MaxEvents
  BY DEF IInv, Typed, Copies
<1>2. /\ loaded.bundle \in Contents \cup {NoBundle, Torn}
      /\ loaded.started \in BOOLEAN /\ loaded.crossed \in BOOLEAN
      /\ loaded.asked \in BOOLEAN /\ loaded.early \in BOOLEAN
  BY DEF IInv, Typed, Copies
<1>3. ASSUME NEW p \in Programs
      PROVE  LET t == task[p] IN
             /\ t.at \in Steps /\ t.phase \in {"none", "scan", "test", "load"}
             /\ t.tmp \in Contents \cup {NoBundle, Torn} /\ t.place \in {"source", "staged"}
             /\ t.dext \in BOOLEAN
             /\ t.opts \in AuthOptions /\ t.conn \in {"unset", "asks", "none"}
             /\ t.asked \in BOOLEAN /\ t.saw \in {"no", "loaded", "started"}
             /\ t.client \in Procs \cup {Nobody}
             /\ t.had \subseteq Contents \cup {NoBundle} /\ t.crossed \in BOOLEAN
  BY TaskFacts DEF Tasks, Copies
<1>4. /\ lock \in Procs \cup {Nobody}
      /\ task[Kextd].client # Nobody => task[task[Kextd].client].at = "wait"
      /\ lock # Nobody => task[lock].cmd.tool = "kextutil" /\ task[lock].phase \in {"test", "load"}
  BY DEF IInv, TaskInv, ClientsWait, LockHeld
<1> QED
  BY <1>1, <1>2, <1>3, <1>4 DEF TypeOK

LEMMA IInvImpliesNoneHalfStarted ==
    ASSUME IInv
    PROVE  NoneHalfStarted
  BY DEF IInv, HalfStartedIsSettled, WillSettle, NoneHalfStarted

\* Unless SIP lets Apple's own installations load what is badly signed and
\* still restricts the rest, which is when a torn copy passes.
LEMMA IInvImpliesApprovedAtLoad ==
    ASSUME IInv, Csr # {"internal"}
    PROVE  ApprovedAtLoad
<1> SUFFICES ASSUME loaded # NotLoaded, ~ isSIPDisabled
             PROVE  /\ SignatureAccepted(loaded.bundle, FALSE)
                    /\ \/ loaded.crossed
                       \/ /\ ~ loaded.bundle.excluded /\ loaded.bundle.owned
                          /\ \/ loaded.bundle.dext \/ loaded.early
                             \/ loaded.asked /\ loaded.bundle \in approved
  BY DEF ApprovedAtLoad
<1>1. ~ isInvalidSignatureAllowed
  BY PolicyAssumption DEF isSIPDisabled, isInvalidSignatureAllowed
<1> QED
  BY <1>1 DEF IInv, Vetted

\* The kext that p finds where its object is when it loads it.
LEMMA ObjectIsFresh ==
    ASSUME IInv, NEW p \in Programs, task[p].at = "load", ~ task[p].crossed,
           Csr # {"internal"}, Object(p) # NoBundle
    PROVE  Object(p) \in task[p].had
<1>1. /\ task[p] \in Tasks /\ Sound(p, task[p]) /\ Holds(p, task[p], staged, approved)
      /\ source \in task[p].had
  BY TaskFacts DEF Active
<1>2. CASE isSIPDisabled
  BY <1>1, <1>2 DEF Sound, Object
<1>3. CASE ~ isSIPDisabled
  <2>1. ~ isInvalidSignatureAllowed
    BY <1>3, PolicyAssumption DEF isSIPDisabled, isInvalidSignatureAllowed
  <2>2. Relies(task[p]) /\ Checked(task[p]) /\ Object(p) = staged.bundle
    BY <1>1, <1>3, <2>1 DEF Sound, Relies, Checked, Object
  <2>3. kextBundleValidates(staged.bundle)
    BY <1>1, <2>2 DEF Holds, IInv, StagedIsValidated
  <2>4. staged.bundle # Torn
    BY <2>1, <2>3, TornFails DEF kextBundleValidates
  <2> QED
    BY <1>1, <2>2, <2>4 DEF Holds
<1> QED
  BY <1>2, <1>3

\* The kernel has another kext after a step only if a program has loaded it.
LEMMA OnlyLoadLoads ==
    ASSUME IInv, [Next]_vars, loaded'.bundle \notin {NoBundle, loaded.bundle}
    PROVE  \E q \in Programs : /\ task[q].at = "load" /\ loaded'.bundle = Object(q)
                               /\ Object(q) # NoBundle
                               /\ \/ GoesTo(q, "reread") \/ Finish(q, TRUE)
<1>1. ASSUME NEW q \in Programs, Load(q)
      PROVE  /\ task[q].at = "load" /\ loaded'.bundle = Object(q)
             /\ Object(q) # NoBundle
             /\ \/ GoesTo(q, "reread") \/ Finish(q, TRUE)
  <2>1. PICK start : KernelLoads(q, start)
    BY <1>1 DEF Load
  <2>2. loaded'.bundle = Object(q) /\ Object(q) # NoBundle
    <3>1. loaded.bundle # Object(q)
      BY <2>1 DEF KernelLoads, IInv, Typed
    <3> QED
      BY <2>1, <3>1 DEF KernelLoads
  <2> QED
    BY <1>1, <2>2 DEF Load
<1>2. NotLoaded.bundle = NoBundle
  BY DEF NotLoaded
<1>3. loaded' # loaded /\ loaded' # NotLoaded
  BY <1>2
<1>4. ASSUME NEW p \in Programs, Works(p)
      PROVE  Load(p)
  BY <1>3, <1>4 DEF Works, Stage, Compare, Remove, Removed, Copy, Validate, Move, Refresh, Check,
                    AskPolicy, kernelVars
<1>5. ASSUME NEW p \in Procs, Begin(p)
      PROVE  FALSE
  BY <1>3, <1>5 DEF Begin, StartKextload, StartKextutil, Kextunload, CleanStaging, Extension, kernelVars
<1>6. ASSUME NEW p \in Procs, Runs(p)
      PROVE  Load(p)
  <2>1. ~ (Serve(p) \/ KextloadBegins(p) \/ TakeLock(p) \/ UserAnswersLoad(p))
    BY <1>3 DEF Serve, KextloadBegins, TakeLock, UserAnswersLoad, kernelVars
  <2>2. ~ (\/ Reread(p) \/ GenerateSymbols(p) \/ SendPersonalities(p) \/ RollbackReads(p)
           \/ RollbackUnloads(p) \/ Cleaned(p))
    BY <1>3 DEF Reread, GenerateSymbols, SendPersonalities, RollbackReads, RollbackUnloads, Cleaned,
                kernelVars
  <2>3. ~ Start(p)
    <3>1. loaded' = [loaded EXCEPT !.started = TRUE] => loaded'.bundle = loaded.bundle
      BY DEF IInv, Typed
    <3> QED
      BY <1>3, <3>1 DEF Start
  <2> QED
    BY <1>4, <1>6, <2>1, <2>2, <2>3 DEF Runs, Programs
<1>7. ~ (\E p \in Procs : Kill(p)) /\ ~ (\E b \in Contents \cup {NoBundle} : Install(b))
  BY <1>3 DEF Kill, Install, kernelVars
<1>8. ~ (Approve \/ KextdStarts \/ SyspolicydStarts \/ KextdDies \/ UNCHANGED vars)
  BY <1>3 DEF Approve, KextdStarts, SyspolicydStarts, KextdDies, vars, kernelVars
<1> QED
  BY <1>1, <1>4, <1>5, <1>6, <1>7, <1>8 DEF Next, Programs

LEMMA StepsLoadFresh ==
    ASSUME IInv, [Next]_vars, Csr # {"internal"}, NEW p \in Programs,
           task[p].at = "load", loaded'.bundle \notin {NoBundle, loaded.bundle},
           task'[p].at # "load", ~ task[p].crossed
    PROVE  loaded'.bundle \in task[p].had
<1>1. PICK q \in Programs : /\ task[q].at = "load" /\ loaded'.bundle = Object(q)
                            /\ Object(q) # NoBundle
                            /\ \/ GoesTo(q, "reread") \/ Finish(q, TRUE)
  BY OnlyLoadLoads
<1>2. q = p
  <2> SUFFICES ASSUME q # p
               PROVE  task'[p] = task[p]
    OBVIOUS
  <2>1. CASE GoesTo(q, "reread")
    BY <2>1 DEF GoesTo, Goes, IInv, TaskInv
  <2>2. CASE Finish(q, TRUE)
    <3>1. task[Kextd].client # Nobody => task[Kextd].client # p
      BY DEF IInv, TaskInv, ClientsWait
    <3> QED
      BY <2>2, <3>1 DEF Finish, IInv, TaskInv
  <2> QED
    BY <1>1, <2>1, <2>2
<1> QED
  BY <1>1, <1>2, ObjectIsFresh

(***************************************************************************)
(* The theorems.                                                           *)
(***************************************************************************)

\* LoadingInv: everything stays of its type, kextd works for a client that
\* waits, its lock is held by a kextutil that is going to load, and a kext that
\* was loaded but not started is started or unloaded, unless kextutil was killed,
\* failed to unload it, or gave up between the load and the start (the load
\* information, the symbols, the list of what to start).
THEOREM LoadingIsSafe == Spec => []LoadingInv
<1>1. IInv => LoadingInv
  BY IInvImpliesTypeOK, IInvImpliesNoneHalfStarted DEF LoadingInv
<1> QED
  BY <1>1, SpecImpliesIInv, PTL

\* StagedIsValidated: whatever is in the staging area was validated as it is,
\* whoever else stages, removes or installs meanwhile.
THEOREM StagingIsSafe == Spec => []StagedIsValidated
<1>1. IInv => StagedIsValidated
  BY DEF IInv
<1> QED
  BY <1>1, SpecImpliesIInv, PTL

\* ApprovedAtLoad: with SIP on the kernel has signed kexts only, and such as
\* were approved unless the copy was exchanged or nobody could be asked.
THEOREM LoadedIsApproved ==
    ASSUME Csr # {"internal"}
    PROVE  Spec => []ApprovedAtLoad
<1>1. IInv => ApprovedAtLoad
  BY IInvImpliesApprovedAtLoad
<1> QED
  BY <1>1, SpecImpliesIInv, PTL

\* LoadsAreFresh: a program loads what was installed at some time since it
\* began, unless another one has changed the staged copy.
THEOREM LoadedIsFresh ==
    ASSUME Csr # {"internal"}
    PROVE  Spec => LoadsAreFresh
<1> DEFINE Fresh == \A p \in Programs :
                      (task[p].at = "load" /\ loaded'.bundle \notin {NoBundle, loaded.bundle}
                                           /\ task'[p].at # "load") =>
                          \/ task[p].crossed
                          \/ loaded'.bundle \in task[p].had
<1>1. IInv /\ [Next]_vars => [Fresh]_vars
  BY StepsLoadFresh
<1>2. [][Fresh]_vars => LoadsAreFresh
  BY DEF LoadsAreFresh
<1> QED
  BY <1>1, <1>2, SpecImpliesIInv, PTL DEF Spec
=============================================================================
