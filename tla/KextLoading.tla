------------------------------ MODULE KextLoading ------------------------------
(***************************************************************************)
(* From a bundle in an unprotected folder to a loaded kext: staging         *)
(* (staging.m), authentication and the policy question (security.c,         *)
(* syspolicy.m), and the four programs that load or unload: kextd for its   *)
(* clients (kextd_request.c), kextload by itself when there is no kextd,    *)
(* kextutil, kextunload; kextcache clears or prunes what is staged.         *)
(*                                                                         *)
(* One bundle, at one path.  The programs run side by side; each step below *)
(* ends where another one, an installer, the user or a fault can come       *)
(* between.  Abstracted: dependencies and plug-ins, GPU bundles (a failure  *)
(* there changes nothing), the sandbox's question, a request by identifier  *)
(* (it finds what KextdExtensions' reading has staged).                     *)
(***************************************************************************)
EXTENDS KextPolicy, Naturals, FiniteSets

CONSTANTS
    Procs,     \* processes, each of which may run a tool
    Contents,  \* what installers put at the path
    Staged,    \* what may have been staged before, in this instance
    Approved,  \* ... and approved
    Given,     \* the commands that process p may be started with
    MaxStarts, \* bound: tools started
    MaxEvents  \* bound: changes of the bundle, crashes, failures, approvals

NoBundle == [name |-> "none"]
Torn == [name |-> "torn", sig |-> "bad", lists |-> {}, excluded |-> FALSE, owned |-> TRUE,
         dext |-> FALSE, userLoad |-> FALSE]

Commands == [tool : {"kextload", "kextutil", "kextunload", "clear", "prune", "stop", "enable", "disable"},
             root : BOOLEAN, path : {"inside", "outside"}, opts : SUBSET STRING, netboot : BOOLEAN]

ASSUME LoadingAssumption ==
    /\ Procs \subseteq Nat \ {0}
    /\ \A p \in Procs : Given[p] \subseteq Commands
    /\ Contents \subseteq Bundles /\ Torn \notin Contents
    /\ \A b \in Staged : kextBundleValidates(b)
    /\ Staged \subseteq Contents /\ Approved \subseteq Contents
    /\ MaxStarts \in Nat /\ MaxEvents \in Nat

VARIABLES
    source,     \* the bundle in the unprotected folder
    staged,     \* its copy in the staging area, and whether all of it is there
    loaded,     \* the kext in the kernel; history: what was checked before
    matching,   \* the kernel has its personalities
    kextdUp,
    lock,       \* kextd's lock for kextutil: who has it
    syspolicyd, \* the policy service is running
    approved,   \* what the user approved
    task,       \* what each program is doing
    starts, events, \* what MaxStarts and MaxEvents bound
    abandoned   \* history: a kextutil gave up without undoing its load

vars == <<source, staged, loaded, matching, kextdUp, lock, syspolicyd, approved, task,
          starts, events, abandoned>>
stageVars == <<source, staged>>
kernelVars == <<loaded, matching, abandoned>>
worldVars == <<kextdUp, lock, syspolicyd, approved, starts, events>>

Nobody == 0
Kextd == 0
Programs == Procs \cup {Kextd}
NoCommand == [tool |-> "none", root |-> FALSE, path |-> "inside", opts |-> {}, netboot |-> FALSE]

\* at: the step to come; phase: which of kextutil's stagings; tmp: the copy in
\* its validation directory; place: where its OSKext object is; dext: what the
\* object says it is; conn: whether
\* it has a connection to syspolicyd; asked: the policy answered for this kext;
\* saw: the load information it read; client: whom kextd serves;
\* had, crossed: history: what the source was since it began, and whether
\* somebody else changed the staged copy meanwhile.
Idle == [cmd |-> NoCommand, at |-> "idle", phase |-> "none", tmp |-> NoBundle,
         place |-> "source", dext |-> FALSE, opts |-> KextdAuthenticationOptions, conn |-> "unset",
         asked |-> FALSE, saw |-> "no", client |-> Nobody, had |-> {}, crossed |-> FALSE]

NotStaged == [bundle |-> NoBundle, whole |-> TRUE]
NotLoaded == [bundle |-> NoBundle, started |-> FALSE, crossed |-> FALSE, asked |-> FALSE, early |-> FALSE]

Steps == {"idle", "wait", "begin", "netboot", "compare", "remove", "removing", "copy", "copying", "move",
          "refresh", "lock", "check", "policy", "approve", "load", "reread", "symbols", "start",
          "match", "rollback", "unload", "cleaning"}

\* Every variable has its type; kextd works for a client that waits for it, and
\* its lock is held by a kextutil that is going to load.
TypeOK ==
    /\ source \in Contents \cup {NoBundle}
    /\ staged.bundle \in Contents \cup {NoBundle, Torn} /\ staged.whole \in BOOLEAN
    /\ loaded.bundle \in Contents \cup {NoBundle, Torn}
    /\ {loaded.started, loaded.crossed, loaded.asked, loaded.early} \subseteq BOOLEAN
    /\ {matching, kextdUp, syspolicyd, abandoned} \subseteq BOOLEAN
    /\ lock \in Procs \cup {Nobody}
    /\ approved \subseteq Contents
    /\ starts \in 0..MaxStarts /\ events \in 0..MaxEvents
    /\ \A p \in Programs :
         LET t == task[p] IN
         /\ t.at \in Steps /\ t.phase \in {"none", "scan", "test", "load"}
         /\ t.tmp \in Contents \cup {NoBundle, Torn} /\ t.place \in {"source", "staged"} /\ t.dext \in BOOLEAN
         /\ t.opts \in AuthOptions /\ t.conn \in {"unset", "asks", "none"}
         /\ t.asked \in BOOLEAN /\ t.saw \in {"no", "loaded", "started"}
         /\ t.client \in Procs \cup {Nobody}
         /\ t.had \subseteq Contents \cup {NoBundle} /\ t.crossed \in BOOLEAN
    /\ task[Kextd].client # Nobody => task[task[Kextd].client].at = "wait"
    /\ lock # Nobody => task[lock].cmd.tool = "kextutil" /\ task[lock].phase \in {"test", "load"}

\* kextd may still have to start, and then syspolicyd too.
Init ==
    /\ source \in Contents
    /\ staged \in {NotStaged} \cup [bundle : Staged, whole : {TRUE}]
    /\ loaded = NotLoaded /\ matching = FALSE /\ abandoned = FALSE
    /\ kextdUp \in BOOLEAN /\ lock = Nobody
    /\ syspolicyd = kextdUp
    /\ approved = Approved
    /\ task = [p \in Programs |-> Idle]
    /\ starts = 0 /\ events = 0

-----------------------------------------------------------------------------
(* Helpers. *)

Event == events < MaxEvents /\ events' = events + 1
NoEvent == UNCHANGED events

Active(p) == task[p].at # "idle"
util(p) == KextutilArgs(task[p].cmd.opts)

\* The bundle p's object is for, and what a check of it reads.
Object(p) == IF task[p].place = "source" THEN source ELSE staged.bundle
Content(p) == IF task[p].place = "staged" /\ ~ staged.whole THEN Torn ELSE Object(p)

Goes(p, t) == task' = [task EXCEPT ![p] = t] /\ UNCHANGED lock
GoesTo(p, step) == Goes(p, [task[p] EXCEPT !.at = step])

\* p writes in the staging area: the others' work has been crossed.
Writes(p, t) ==
    /\ task' = [q \in Programs |-> IF q = p THEN t
                                   ELSE [task[q] EXCEPT !.crossed = @ \/ Active(q)]]
    /\ UNCHANGED lock

Release(p) == lock' = IF lock = p THEN Nobody ELSE lock

\* initializeGlobalState(): once for the life of the process.
Connection(p) ==
    IF task[p].conn # "unset" THEN task[p].conn ELSE IF syspolicyd THEN "asks" ELSE "none"

\* A program is done.  kextd answers its client: kextload exits, kextutil goes
\* on if its driver extension was loaded.  The temporary directory is removed.
Finish(p, ok) ==
    LET c == task[p].client IN
    IF p # Kextd THEN task' = [task EXCEPT ![p] = Idle] /\ Release(p)
    ELSE LET rest == [Idle EXCEPT !.conn = IF task[p].at \in {"check", "policy"}
                                            THEN Connection(p) ELSE task[p].conn] IN
         CASE c = Nobody -> task' = [task EXCEPT ![p] = rest] /\ UNCHANGED lock
           [] c # Nobody /\ ok /\ task[c].cmd.tool = "kextutil" ->
                /\ task' = [task EXCEPT ![p] = rest, ![c].at = "reread"]
                /\ UNCHANGED lock
           [] OTHER -> task' = [task EXCEPT ![p] = rest, ![c] = Idle] /\ Release(c)

-----------------------------------------------------------------------------
(* Staging: createStagedKext(), stageBundle(). *)

\* Mutant: a staged copy is good whatever it is a copy of.
NeedsFirstStaging(needed) ==
    IF pathIsSecure("source") THEN ~ needed ELSE needed = (staged = NotStaged)

\* bundleNeedsStaging() compares hashes; of a copy that is partly removed
\* nothing is sure.
NeedsStaging(needed) ==
    IF pathIsSecure("source") THEN ~ needed
    ELSE IF staged = NotStaged \/ source = NoBundle THEN needed
    ELSE staged.whole => needed = (source # staged.bundle)

Compare(p) ==
    /\ task[p].at = "compare"
    /\ \E needed \in BOOLEAN :
         /\ NeedsStaging(needed)
         /\ Goes(p, [task[p] EXCEPT !.place = IF pathIsSecure("source") THEN "source" ELSE "staged",
                                    !.at = IF needed THEN "remove" ELSE "refresh"])
    /\ UNCHANGED <<stageVars, kernelVars, kextdUp, syspolicyd, approved, starts, events>>

\* The old copy is removed first, file by file.
Remove(p) ==
    /\ task[p].at = "remove"
    /\ IF staged = NotStaged
       THEN GoesTo(p, "copy") /\ UNCHANGED staged
       ELSE /\ staged' = [staged EXCEPT !.whole = FALSE]
            /\ Writes(p, [task[p] EXCEPT !.at = "removing"])
    /\ UNCHANGED <<source, kernelVars, kextdUp, syspolicyd, approved, starts, events>>

\* It fails if somebody else removed it; a copy put there meanwhile is removed,
\* damaged or left.
Removed(p) ==
    /\ task[p].at = "removing"
    /\ \/ /\ staged = NotStaged
          /\ Finish(p, FALSE) /\ UNCHANGED staged
       \/ /\ staged # NotStaged
          /\ staged' = NotStaged
          /\ Writes(p, [task[p] EXCEPT !.at = "copy"])
       \/ /\ staged # NotStaged /\ staged.whole
          /\ \E w \in BOOLEAN : staged' = [staged EXCEPT !.whole = w]
          /\ Finish(p, FALSE)
    /\ UNCHANGED <<source, kernelVars, kextdUp, syspolicyd, approved, starts, events>>

\* A copy in a directory of its own, ...
Copy(p) ==
    /\ task[p].at = "copy"
    /\ IF source = NoBundle THEN Finish(p, FALSE)
       ELSE Goes(p, [task[p] EXCEPT !.tmp = source, !.at = "copying"])
    /\ UNCHANGED <<stageVars, kernelVars, kextdUp, syspolicyd, approved, starts, events>>

\* Mutant: the bundle is validated where it came from.
ValidateSource(p) ==
    /\ task[p].at = "copying"
    /\ IF task[p].tmp # NoBundle /\ source # NoBundle /\ kextBundleValidates(source)
       THEN GoesTo(p, "move") ELSE Finish(p, FALSE)
    /\ UNCHANGED <<stageVars, kernelVars, kextdUp, syspolicyd, approved, starts, events>>

\* ... validated there, ...
Validate(p) ==
    /\ task[p].at = "copying"
    /\ IF task[p].tmp # NoBundle /\ kextBundleValidates(task[p].tmp)
       THEN GoesTo(p, "move") ELSE Finish(p, FALSE)
    /\ UNCHANGED <<stageVars, kernelVars, kextdUp, syspolicyd, approved, starts, events>>

\* ... and moved into place, whatever is there by now.
Move(p) ==
    /\ task[p].at = "move"
    /\ \/ /\ task[p].tmp # NoBundle
          /\ staged' = [bundle |-> task[p].tmp, whole |-> TRUE]
          /\ Writes(p, [task[p] EXCEPT !.tmp = NoBundle, !.at = "refresh"])
          /\ NoEvent
       \/ /\ IF task[p].tmp = NoBundle THEN NoEvent ELSE Event
          /\ Finish(p, FALSE) /\ UNCHANGED staged
    /\ UNCHANGED <<source, kernelVars, kextdUp, syspolicyd, approved, starts>>

\* createRefreshedKext(): an object of the copy.  What follows is the caller's:
\* kextutil stages when it scans, when it tests, and when it loads.
Refresh(p) ==
    /\ task[p].at = "refresh"
    /\ IF Content(p) = NoBundle THEN Finish(p, FALSE)
       ELSE Goes(p, [task[p] EXCEPT !.dext = Content(p).dext,
                                    !.at = IF task[p].phase = "scan" THEN "lock" ELSE "check"])
    /\ UNCHANGED <<stageVars, kernelVars, kextdUp, syspolicyd, approved, starts, events>>

-----------------------------------------------------------------------------
(* Authentication. *)

Next_kextutil(p) ==
    IF task[p].phase = "load"
    THEN IF util(p).interactive THEN [task[p] EXCEPT !.at = "approve"] ELSE [task[p] EXCEPT !.at = "load"]
    ELSE IF util(p).doLoad THEN [task[p] EXCEPT !.phase = "load", !.at = "compare"]
    ELSE [task[p] EXCEPT !.at = IF util(p).symbols THEN "symbols" ELSE "match"]

\* The kext is authentic: load it, or go to kextutil's next phase.
Authentic(p, conn, asked) ==
    LET t == [task[p] EXCEPT !.conn = conn, !.asked = asked] IN
    IF task[p].cmd.tool # "kextutil" \/ p = Kextd THEN Goes(p, [t EXCEPT !.at = "load"])
    ELSE IF ~ (util(p).doLoad \/ util(p).doStartMatching \/ util(p).symbols) THEN Finish(p, TRUE)
    ELSE Goes(p, [Next_kextutil(p) EXCEPT !.conn = conn, !.asked = asked])

\* authenticateKext() up to the policy; kextd and kextutil ask for the policy
\* also when the kext has failed, for the reason they report.
Check(p) ==
    /\ task[p].at = "check"
    /\ LET b == Content(p) IN
       IF b = NoBundle \/ ~ PassesChecks(b, task[p].opts, task[p].place)
       THEN Finish(p, FALSE)
       ELSE IF AsksPolicy(b, task[p].opts) THEN GoesTo(p, "policy")
       ELSE Authentic(p, task[p].conn, FALSE)
    /\ UNCHANGED <<stageVars, kernelVars, kextdUp, syspolicyd, approved, starts, events>>

\* SPAllowKextLoad(): syspolicyd looks at the bundle itself.
AskPolicy(p) ==
    /\ task[p].at = "policy"
    /\ IF Connection(p) = "none" \/ (syspolicyd /\ Content(p) \in approved)
       THEN Authentic(p, Connection(p), Connection(p) = "asks")
       ELSE Finish(p, FALSE)
    /\ UNCHANGED <<stageVars, kernelVars, kextdUp, syspolicyd, approved, starts, events>>

-----------------------------------------------------------------------------
(* Loading. *)

\* kextutil asks: "Load ...?"  No is not an error; it goes on as if it had.
UserAnswersLoad(p) ==
    /\ task[p].at = "approve"
    /\ \E yes \in BOOLEAN : GoesTo(p, IF yes THEN "load" ELSE "reread")
    /\ UNCHANGED <<stageVars, kernelVars, kextdUp, syspolicyd, approved, starts, events>>

\* The kernel takes the kext, or has it already; it starts it unless told not
\* to.  It refuses another version, and for reasons of its own; of a copy that
\* is being removed it may still find all it needs, but not a kernel executable
\* in a driver extension, nor the other way round.
KernelLoads(p, start) ==
    LET b == Object(p) IN
    /\ b # NoBundle /\ b.dext = task[p].dext
    /\ loaded.bundle \in {NoBundle, b}
    /\ loaded' = IF loaded.bundle = b THEN [loaded EXCEPT !.started = @ \/ start]
                 ELSE [bundle |-> b, started |-> start, crossed |-> task[p].crossed,
                       asked |-> task[p].asked, early |-> task[p].conn = "none" \/ (p # Kextd /\ task[p].cmd.tool = "kextload")]

Load(p) ==
    /\ task[p].at = "load"
    /\ LET tool == IF p = Kextd THEN "kextd" ELSE task[p].cmd.tool
           interactive == tool = "kextutil" /\ util(p).interactive
           rereads == interactive \/ (tool = "kextutil" /\ util(p).symbols)
           match == tool = "kextutil" => util(p).doStartMatching /\ ~ interactive
       IN  IF tool = "kextutil" /\ task[p].dext
           THEN /\ IF kextdUp THEN GoesTo(p, "wait") ELSE Finish(p, FALSE)
                /\ NoEvent /\ UNCHANGED <<loaded, matching>>
           ELSE \/ /\ KernelLoads(p, ~ interactive)
                   /\ matching' = (matching \/ match)
                   /\ IF rereads THEN GoesTo(p, "reread") ELSE Finish(p, TRUE)
                   /\ NoEvent
                \/ /\ IF loaded.bundle \notin {NoBundle, Object(p)} \/ Content(p) \in {NoBundle, Torn}
                         \/ Content(p).dext # task[p].dext
                      THEN NoEvent ELSE Event
                   /\ Finish(p, FALSE)
                   /\ UNCHANGED <<loaded, matching>>
    /\ UNCHANGED <<stageVars, kextdUp, syspolicyd, approved, starts, abandoned>>

LoadInfo == IF loaded.bundle = NoBundle THEN "no" ELSE IF loaded.started THEN "started" ELSE "loaded"

\* startKextsAndSendPersonalities(), from the load information in t.
StartsAndSends(p, t) ==
    LET args == util(p) IN
    IF ~ args.interactive /\ (args.doLoad \/ ~ args.doStartMatching) THEN Finish(p, TRUE)
    ELSE Goes(p, [t EXCEPT !.at = IF args.interactive /\ args.doLoad /\ ~ t.dext /\ t.saw # "started"
                                  THEN "start" ELSE "match"])

\* kextutil gives up and leaves the kext as it is: not started, if it was
\* loaded to be started later.
GivesUp(p) ==
    /\ Finish(p, FALSE)
    /\ abandoned' = (abandoned \/ (util(p).interactive /\ task[p].phase = "load"))

\* kextutil reads what is loaded, for the symbols and before it starts the kext.
Reread(p) ==
    /\ task[p].at = "reread"
    /\ LET seen == [task[p] EXCEPT !.saw = LoadInfo] IN
       \/ /\ IF util(p).symbols THEN Goes(p, [seen EXCEPT !.at = "symbols"])
             ELSE StartsAndSends(p, IF util(p).interactive THEN seen ELSE task[p])
          /\ NoEvent /\ UNCHANGED abandoned
       \/ (util(p).interactive \/ util(p).symbols) /\ Event /\ GivesUp(p)
    /\ UNCHANGED <<stageVars, loaded, matching, kextdUp, syspolicyd, approved, starts>>

\* generateKextSymbols(): there are none for a driver extension; the user may
\* cancel, and it may fail.
GenerateSymbols(p) ==
    /\ task[p].at = "symbols"
    /\ \/ ~ task[p].dext /\ StartsAndSends(p, task[p]) /\ NoEvent /\ UNCHANGED abandoned
       \/ (IF task[p].dext THEN NoEvent ELSE Event) /\ GivesUp(p)
    /\ UNCHANGED <<stageVars, loaded, matching, kextdUp, syspolicyd, approved, starts>>

\* Mutant: a kext the user does not want started is left as it is.
StartOrLeave(p) ==
    /\ task[p].at = "start"
    /\ \/ /\ task[p].saw = "loaded" /\ loaded.bundle # NoBundle
          /\ loaded' = [loaded EXCEPT !.started = TRUE]
          /\ GoesTo(p, "match")
          /\ NoEvent /\ UNCHANGED abandoned
       \/ Finish(p, TRUE) /\ NoEvent /\ UNCHANGED <<loaded, abandoned>>
       \/ Event /\ GivesUp(p) /\ UNCHANGED loaded
    /\ UNCHANGED <<stageVars, matching, kextdUp, syspolicyd, approved, starts>>

\* startKext(): a kext that is not loaded, that the user does not want started
\* or that does not start makes kextutil undo the load.  Without the list of
\* what to start it gives up.
Start(p) ==
    /\ task[p].at = "start"
    /\ \/ /\ task[p].saw = "loaded" /\ loaded.bundle # NoBundle
          /\ loaded' = [loaded EXCEPT !.started = TRUE]
          /\ GoesTo(p, "match")
          /\ NoEvent /\ UNCHANGED abandoned
       \/ GoesTo(p, "rollback") /\ NoEvent /\ UNCHANGED <<loaded, abandoned>>
       \/ Event /\ GivesUp(p) /\ UNCHANGED loaded
    /\ UNCHANGED <<stageVars, matching, kextdUp, syspolicyd, approved, starts>>

\* sendPersonalities(), if the user wants them sent.
SendPersonalities(p) ==
    /\ task[p].at = "match"
    /\ \/ matching' = TRUE /\ Finish(p, TRUE) /\ NoEvent
       \/ util(p).interactive /\ Finish(p, TRUE) /\ NoEvent /\ UNCHANGED matching
       \/ Event /\ GoesTo(p, "rollback") /\ UNCHANGED matching
       \/ Event /\ task[p].saw # "loaded" /\ Finish(p, FALSE) /\ UNCHANGED matching  \* no list
    /\ UNCHANGED <<stageVars, loaded, abandoned, kextdUp, syspolicyd, approved, starts>>

\* The load information once more, ...
RollbackReads(p) ==
    /\ task[p].at = "rollback"
    /\ Goes(p, [task[p] EXCEPT !.saw = LoadInfo, !.at = "unload"])
    /\ UNCHANGED <<stageVars, kernelVars, kextdUp, syspolicyd, approved, starts, events>>

\* ... and what was not started then is unloaded.
RollbackUnloads(p) ==
    /\ task[p].at = "unload"
    /\ IF task[p].saw = "started"
       THEN NoEvent /\ UNCHANGED kernelVars
       ELSE \/ loaded' = NotLoaded /\ matching' = FALSE /\ NoEvent /\ UNCHANGED abandoned
            \/ /\ loaded.bundle # NoBundle /\ Event
               /\ abandoned' = TRUE /\ UNCHANGED <<loaded, matching>>
    /\ Finish(p, FALSE)
    /\ UNCHANGED <<stageVars, kextdUp, syspolicyd, approved, starts>>

-----------------------------------------------------------------------------
(* The programs. *)

Task(cmd, at, phase, opts) ==
    [Idle EXCEPT !.cmd = cmd, !.at = at, !.phase = phase, !.opts = opts, !.had = {source}]

\* kextload: through kextd if it is there, by itself if it is root's.
StartKextload(p, cmd) ==
    /\ kextdUp \/ cmd.root
    /\ Goes(p, Task(cmd, IF kextdUp THEN "wait" ELSE "begin", "none", KextloadOptions(TRUE)))
    /\ UNCHANGED <<stageVars, kernelVars>>

\* kextutil: it stages while it scans, if it is going to authenticate as root.
StartKextutil(p, cmd) ==
    LET args == KextutilArgs(cmd.opts) IN
    /\ KextutilAccepts(cmd.opts, cmd.root) /\ ~ args.skipAuthentication
    /\ Goes(p, Task(cmd, IF cmd.root THEN "compare" ELSE "lock", "scan",
                    KextutilOptions(args, cmd.root)))
    /\ UNCHANGED <<stageVars, kernelVars>>

\* kextunload: by identifier or by path.
Kextunload(p, cmd) ==
    /\ cmd.root
    /\ \/ loaded' = NotLoaded /\ matching' = FALSE
       \/ "m" \in cmd.opts /\ matching' = FALSE /\ UNCHANGED loaded  \* personalities only
    /\ UNCHANGED <<stageVars, abandoned, task, lock>>

\* kextcache -prune-staging, -clear-staging: temporary copies go first (at once
\* here), then what is staged, file by file.
CleanStaging(p, cmd) ==
    /\ cmd.root
    /\ LET cleans == staged # NotStaged /\ (cmd.tool = "clear" \/ source = NoBundle)
           others(q) == [task[q] EXCEPT !.tmp = IF cmd.tool = "clear" THEN NoBundle ELSE @,
                                        !.crossed = @ \/ (Active(q) /\ cleans)]
       IN  /\ staged' = IF cleans THEN [staged EXCEPT !.whole = FALSE] ELSE staged
           /\ task' = [q \in Programs |->
                         IF q = p /\ cleans THEN Task(cmd, "cleaning", "none", Idle.opts) ELSE others(q)]
    /\ UNCHANGED <<source, lock, kernelVars>>

\* What somebody else put there meanwhile is removed too, damaged or left.
Cleaned(p) ==
    /\ task[p].at = "cleaning"
    /\ \/ staged = NotStaged /\ Finish(p, TRUE) /\ UNCHANGED staged
       \/ staged # NotStaged /\ staged' = NotStaged /\ Writes(p, Idle)
       \/ /\ staged # NotStaged /\ staged.whole
          /\ \E w \in BOOLEAN : staged' = [staged EXCEPT !.whole = w]
          /\ Finish(p, TRUE)
    /\ UNCHANGED <<source, kernelVars, kextdUp, syspolicyd, approved, starts, events>>

\* An entitled client has kextd stop a driver extension, or enable or disable
\* its personalities.
Extension(p, cmd) ==
    /\ kextdUp /\ task[Kextd].at = "idle"
    /\ source # NoBundle /\ source.dext
    /\ loaded' = IF cmd.tool = "stop" THEN NotLoaded ELSE loaded
    /\ matching' = (cmd.tool = "enable")
    /\ UNCHANGED <<stageVars, abandoned, task, lock>>

Begin(p) ==
    /\ task[p].at = "idle" /\ starts < MaxStarts
    /\ starts' = starts + 1
    /\ \E cmd \in Given[p] :
         \/ cmd.tool = "kextload" /\ StartKextload(p, cmd)
         \/ cmd.tool = "kextutil" /\ StartKextutil(p, cmd)
         \/ cmd.tool = "kextunload" /\ Kextunload(p, cmd)
         \/ cmd.tool \in {"clear", "prune"} /\ CleanStaging(p, cmd)
         \/ cmd.tool \in {"stop", "enable", "disable"} /\ Extension(p, cmd)
    /\ UNCHANGED <<kextdUp, syspolicyd, approved, events>>

\* kextdProcessUserLoadRequest() up to the staging.
Serve(p) ==
    /\ kextdUp /\ task[Kextd].at = "idle" /\ task[p].at = "wait"
    /\ IF source = NoBundle \/ ~ MayRequest(source, task[p].cmd) \/ source.excluded
       THEN task' = [task EXCEPT ![p] = Idle] /\ Release(p)
       ELSE Goes(Kextd, [Idle EXCEPT !.at = "compare", !.conn = task[Kextd].conn,
                                     !.client = p, !.had = {source}])
    /\ UNCHANGED <<stageVars, kernelVars, kextdUp, syspolicyd, approved, starts, events>>

\* Mutant: they stay relaxed.
KeptOptions(relaxed, original) == relaxed

\* The netboot's options are for that one kext only.
RestoredOptions(relaxed, original) == original

\* loadKextsIntoKernel(): it looks for kextd again, for the options; a kext for
\* the netboot comes before ours.
KextloadBegins(p) ==
    /\ task[p].at \in {"begin", "netboot"}
    /\ IF task[p].at = "netboot"
       THEN LET o == RestoredOptions(NetbootOptions(task[p].opts), task[p].opts) IN
            Goes(p, [task[p] EXCEPT !.opts = o, !.at = IF o.location THEN "compare" ELSE "check"])
       ELSE IF source = NoBundle \/ source.dext THEN Finish(p, FALSE)
       ELSE Goes(p, [task[p] EXCEPT !.opts = KextloadOptions(~ kextdUp),
                                    !.at = IF task[p].cmd.netboot THEN "netboot" ELSE "compare"])
    /\ UNCHANGED <<stageVars, kernelVars, kextdUp, syspolicyd, approved, starts, events>>

\* serializeLoad(), then runTestsOnKext(): the lock if kextd is there.
TakeLock(p) ==
    /\ task[p].at = "lock"
    /\ LET tested == [task[p] EXCEPT !.phase = "test",
                                     !.at = IF task[p].cmd.root THEN "compare" ELSE "check"]
       IN  IF ~ kextdUp \/ ~ util(p).doLoad THEN Goes(p, tested)
           ELSE /\ task[Kextd].at = "idle"
                /\ IF lock = Nobody THEN lock' = p /\ task' = [task EXCEPT ![p] = tested]
                   ELSE Finish(p, FALSE)  \* LOCK_MAXTRIES times
    /\ UNCHANGED <<stageVars, kernelVars, kextdUp, syspolicyd, approved, starts, events>>

-----------------------------------------------------------------------------
(* Installers, the user, faults. *)

\* What is being copied is the old, the new, or something of both.
Install(b) ==
    /\ Event /\ b # source
    /\ source' = b
    /\ \E copy \in {source, b, Torn} :
         task' = [q \in Programs |->
                    [task[q] EXCEPT !.had = IF Active(q) THEN @ \cup {b} ELSE @,
                                    !.tmp = IF task[q].at = "copying" /\ @ = source
                                            THEN copy ELSE @]]
    /\ UNCHANGED <<staged, kernelVars, kextdUp, lock, syspolicyd, approved, starts>>

Approve ==
    /\ Event
    /\ \E b \in Contents \ approved : approved' = approved \cup {b}
    /\ UNCHANGED <<stageVars, kernelVars, kextdUp, lock, syspolicyd, task, starts>>

KextdStarts ==
    /\ ~ kextdUp /\ kextdUp' = TRUE
    /\ UNCHANGED <<stageVars, kernelVars, lock, syspolicyd, approved, task, starts, events>>

SyspolicydStarts ==
    /\ ~ syspolicyd /\ syspolicyd' = TRUE
    /\ UNCHANGED <<stageVars, kernelVars, kextdUp, lock, approved, task, starts, events>>

\* A tool is killed: its load stays half done; kextd drops its lock.
Kill(p) ==
    /\ Active(p) /\ Event
    /\ task' = [q \in Programs |-> IF q = p THEN Idle
                                   ELSE [task[q] EXCEPT !.client = IF @ = p THEN Nobody ELSE @]]
    /\ Release(p)
    /\ abandoned' = (abandoned \/ task[p].at \in {"reread", "symbols", "start", "match",
                                                   "rollback", "unload"})
    /\ UNCHANGED <<stageVars, loaded, matching, kextdUp, syspolicyd, approved, starts>>

\* kextd dies: so do its lock and its client's request.
KextdDies ==
    /\ kextdUp /\ Event
    /\ kextdUp' = FALSE /\ lock' = Nobody
    /\ task' = [q \in Programs |-> IF q = Kextd \/ task[q].at = "wait" THEN Idle ELSE task[q]]
    /\ UNCHANGED <<stageVars, kernelVars, syspolicyd, approved, starts>>

-----------------------------------------------------------------------------
Stage(p) ==
    Compare(p) \/ Remove(p) \/ Removed(p) \/ Copy(p) \/ Validate(p) \/ Move(p) \/ Refresh(p)

Works(p) ==
    \/ Stage(p) \/ Check(p) \/ AskPolicy(p) \/ Load(p)

Runs(p) ==
    \/ Works(p) \/ Serve(p) \/ KextloadBegins(p) \/ TakeLock(p) \/ UserAnswersLoad(p)
    \/ Reread(p) \/ GenerateSymbols(p) \/ Start(p) \/ SendPersonalities(p)
    \/ RollbackReads(p) \/ RollbackUnloads(p) \/ Cleaned(p)

Next ==
    \/ \E p \in Procs : Begin(p) \/ Runs(p) \/ Kill(p)
    \/ Works(Kextd)
    \/ \E b \in Contents \cup {NoBundle} : Install(b)
    \/ Approve \/ KextdStarts \/ SyspolicydStarts \/ KextdDies

Spec == Init /\ [][Next]_vars

-----------------------------------------------------------------------------
(* Properties. *)

\* What is in the staging area has passed validation as it is there: never a
\* mixture of two versions copied while an installer was at work, whatever two
\* programs that stage do to each other's copies.
StagedIsValidated ==
    staged # NotStaged => kextBundleValidates(staged.bundle)

\* With SIP on the kernel only has kexts that are signed, also if the copy was
\* exchanged between the check and the load; and unless it was exchanged, or
\* the program could not ask or was not to ask (early in boot), the kext was
\* not excluded and the user had approved it.
ApprovedAtLoad ==
    (loaded # NotLoaded /\ ~ isSIPDisabled) =>
        /\ SignatureAccepted(loaded.bundle, FALSE)
        /\ \/ loaded.crossed
           \/ /\ ~ loaded.bundle.excluded /\ loaded.bundle.owned
              /\ loaded.bundle.dext \/ loaded.early \/ (loaded.asked /\ loaded.bundle \in approved)

\* "If the whole graph didn't start, go backward through it unloading": no kext
\* stays loaded but not started after kextutil has ended, except where it goes
\* to the end without that (abandoned): when it could not reread the load
\* information, generate the symbols or list what to start; and when it could
\* not unload, or was killed.
NoneHalfStarted ==
    (loaded # NotLoaded /\ ~ loaded.started) =>
        \/ abandoned
        \/ \E p \in Procs : task[p].at \in {"reread", "symbols", "start", "rollback", "unload"}

\* The programs' tasks, kextd's lock and the kernel's list are of their types and
\* agree, and nothing is left half started.
LoadingInv == TypeOK /\ NoneHalfStarted

\* What a program loads is what was installed at some time since it began (for
\* kextd: since it began with the request), unless another program changed the
\* staged copy meanwhile.
LoadsAreFresh ==
    [][\A p \in Programs :
        (task[p].at = "load" /\ loaded'.bundle \notin {NoBundle, loaded.bundle} /\ task'[p].at # "load") =>
            \/ task[p].crossed
            \/ loaded'.bundle \in task[p].had]_vars
=============================================================================
