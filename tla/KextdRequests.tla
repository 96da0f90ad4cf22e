---------------------------- MODULE KextdRequests ----------------------------
(***************************************************************************)
(* The requests kextd serves and the lock that keeps them apart:           *)
(*   - the kernel queues requests and pings kextd, which fetches them until *)
(*     none is left (kextd_request.c);                                      *)
(*   - a kextutil that loads kexts itself takes the kextutil lock first;    *)
(*     while it is held, the kernel's requests are put off                  *)
(*     (kextd_serialize_kextload.c, kextutil_main.c);                       *)
(*   - signals reach the run loop through a port that holds one message     *)
(*     (kextd_main.c);                                                      *)
(*   - kextd stops, crashes, and is started again by launchd.               *)
(*                                                                         *)
(* Clients and kernel write to one port (com.apple.KernelExtensionServer    *)
(* is also the host special port, com.apple.kextd.plist), a FIFO.  The lock *)
(* is a dispatch source on the main queue, which the run loop serves too,   *)
(* in no fixed order with the port.                                         *)
(***************************************************************************)
EXTENDS Integers, Sequences, FiniteSets

CONSTANTS
    Kextutils,       \* kextutil processes that load
    None,            \* no client
    LOCK_MAXTRIES,   \* how often a kextutil asks for the lock
    Requests,        \* bound: the kinds of the kernel's requests, in their order
    MaxEvents        \* bound: signals sent by others, kextcaches forked by
                     \* kextd_watchvol.c, and crashes that have no cause here

AllKinds == {"load", "prelink", "exit"}
Ids == DOMAIN Requests
Signals == {"SIGHUP", "SIGTERM", "SIGCHLD"}

ASSUME RequestsAssumption ==
    /\ None \notin Kextutils \cup Signals
    /\ LOCK_MAXTRIES \in Nat \ {0}
    /\ Requests \in Seq(AllKinds)
    /\ MaxEvents \in Nat

VARIABLES
    status,     \* how far each of the kernel's requests has come
    inbox,      \* messages in kextd's service port
    daemon,     \* is kextd up, and if not, why not
    lock,       \* _gKextutilLock: the client its source watches
    cancelled,  \* dispatch_source_cancel() called, cancel handler yet to run
    pending,    \* gKernelRequestsPending
    late,       \* history: ... and set after the source had been cancelled
    caller,     \* who called kextd_process_kernel_requests(), which is running
    replyTo,    \* the client whose call that happens in
    signalPort, \* the message in kextd's signal port
    children,   \* kextcaches running
    zombies,    \* kextcaches that ended and were not waited for
    pc, tries,  \* of each kextutil
    orphaned,   \* history: kextutils that held the lock when kextd went
    unheeded,   \* history: signals sent and not handled since
    missed,     \* history: signals dropped although no like one was in the port
    events      \* what MaxEvents bounds

lockVars   == <<lock, cancelled>>
runVars    == <<pending, late, caller, replyTo>>
clientVars == <<pc, tries>>
signalVars == <<signalPort, children, zombies, unheeded, missed>>
lifeVars   == <<daemon, orphaned>>
vars == <<status, inbox, lockVars, runVars, clientVars, signalVars, lifeVars, events>>

Message == [op : {"ping"}, from : {None}] \cup [op : {"lock", "unlock"}, from : Kextutils]

\* Every variable has its type, and a kextutil that asks for the lock has a try left.
TypeOK ==
    /\ status \in [Ids -> {"unasked", "queued", "fetched", "noted",
                           "served", "dropped", "lost"}]
    /\ inbox \in Seq(Message)
    /\ daemon \in {"up", "stopped", "crashed"}
    /\ lock \in Kextutils \cup {None}
    /\ cancelled \in BOOLEAN
    /\ pending \in BOOLEAN /\ late \in BOOLEAN
    /\ caller \in {"nobody", "svc_kextd_ping", "removeKextutilLock"}
    /\ replyTo \in Kextutils \cup {None}
    /\ signalPort \in Signals \cup {None}
    /\ children \in Nat /\ zombies \in Nat
    /\ pc \in [Kextutils -> {"start", "locking", "loading",
                             "unlocking", "done", "dead"}]
    /\ tries \in [Kextutils -> 0..LOCK_MAXTRIES]
    /\ \A c \in Kextutils : tries[c] > 0 <=> pc[c] \in {"start", "locking"}
    /\ orphaned \subseteq Kextutils
    /\ unheeded \subseteq Signals /\ missed \subseteq Signals
    /\ events \in 0..MaxEvents

Init ==
    /\ status = [i \in Ids |-> "unasked"]
    /\ inbox = <<>>
    /\ daemon = "up"
    /\ lock = None /\ cancelled = FALSE
    /\ pending = FALSE /\ late = FALSE /\ caller = "nobody" /\ replyTo = None
    /\ signalPort = None /\ children = 0 /\ zombies = 0
    /\ pc = [c \in Kextutils |-> "start"]
    /\ tries = [c \in Kextutils |-> LOCK_MAXTRIES]
    /\ orphaned = {} /\ unheeded = {} /\ missed = {}
    /\ events = 0

-----------------------------------------------------------------------------
(* The kernel (external). *)

With(s) == {i \in Ids : status[i] = s}
Move(from, to) == [i \in Ids |-> IF status[i] = from THEN to ELSE status[i]]

\* It queues a request and pings kextd, in the order of the requests.
Ask(i) ==
    /\ status[i] = "unasked"
    /\ \A j \in Ids : j < i => status[j] # "unasked"
    /\ status' = [status EXCEPT ![i] = "queued"]
    /\ inbox' = Append(inbox, [op |-> "ping", from |-> None])
    /\ UNCHANGED <<lockVars, runVars, clientVars, signalVars, lifeVars, events>>

-----------------------------------------------------------------------------
(* kextutil. *)

Gone(c) == pc[c] \in {"done", "dead"}

\* serializeLoad is left; its count of tries goes with it.
Leave(c, where) ==
    /\ pc' = [pc EXCEPT ![c] = where]
    /\ tries' = [tries EXCEPT ![c] = 0]

\* serializeLoad: ask for the lock, and ask again after a sleep.
AskForLock(c) ==
    /\ pc[c] = "start"
    /\ pc' = [pc EXCEPT ![c] = "locking"]
    /\ inbox' = Append(inbox, [op |-> "lock", from |-> c])
    /\ UNCHANGED <<status, lockVars, runVars, tries, signalVars, lifeVars, events>>

\* processKexts ends and main goes on to its finish label.
FinishLoading(c) ==
    /\ pc[c] = "loading"
    /\ pc' = [pc EXCEPT ![c] = "unlocking"]
    /\ inbox' = Append(inbox, [op |-> "unlock", from |-> c])
    /\ UNCHANGED <<status, lockVars, runVars, tries, signalVars, lifeVars, events>>

\* It is killed, at a time when that matters to kextd; a message it sent stays
\* where it is, with a dead port in it.
Die(c) ==
    /\ pc[c] \in {"locking", "loading", "unlocking"}
    /\ Leave(c, "dead")
    /\ UNCHANGED <<status, inbox, lockVars, runVars, signalVars, lifeVars, events>>

\* Mutant: it asks once more than it may.
BusyOnceMore(c) ==
    \/ /\ pc[c] = "dead"
       /\ UNCHANGED clientVars
    \/ /\ pc[c] # "dead" /\ tries[c] >= 1
       /\ tries' = [tries EXCEPT ![c] = @ - 1]
       /\ pc' = [pc EXCEPT ![c] = "start"]
    \/ /\ pc[c] # "dead" /\ tries[c] < 1
       /\ Leave(c, "done")
\* What serializeLoad makes of the answer EBUSY: it sleeps and asks again, or,
\* when it has asked often enough, gives up.
Busy(c) ==
    \/ /\ pc[c] = "dead"
       /\ UNCHANGED clientVars
    \/ /\ pc[c] # "dead" /\ tries[c] > 1
       /\ tries' = [tries EXCEPT ![c] = @ - 1]
       /\ pc' = [pc EXCEPT ![c] = "start"]
    \/ /\ pc[c] # "dead" /\ tries[c] <= 1
       /\ Leave(c, "done")

\* What main makes of any answer to its unlock, if c is a client: it exits.
Unlocked(c) == [u \in Kextutils |-> IF u = c /\ pc[u] # "dead" THEN "done" ELSE pc[u]]

-----------------------------------------------------------------------------
(* kextd's run loop is at its top: the next source may be served. *)

Idle == daemon = "up" /\ caller = "nobody"

Receive(op) ==
    /\ Idle
    /\ inbox # <<>>
    /\ Head(inbox).op = op
    /\ inbox' = Tail(inbox)

\* Mutants: the source is not cancelled; the requests are not served.
RemoveNoCancel(c) ==
    /\ caller' = IF pending THEN "removeKextutilLock" ELSE "nobody"
    /\ replyTo' = IF pending THEN c ELSE None
    /\ UNCHANGED <<lock, cancelled, pending, late>>
RemoveNoServing(c) ==
    /\ cancelled' = (lock # None)
    /\ UNCHANGED <<lock, runVars>>
\* removeKextutilLock, in a call of c's or in none: the source is cancelled,
\* and requests that were put off are served before anything else happens.
\* Without any, it returns at once.
RemoveLock(c) ==
    /\ cancelled' = (lock # None)
    /\ caller' = IF pending THEN "removeKextutilLock" ELSE "nobody"
    /\ replyTo' = IF pending THEN c ELSE None
    /\ UNCHANGED <<lock, pending, late>>

\* _kextmanager_lock_kextload.  For a client that is dead already no source
\* can be made, or one is made and its event follows.
LockKextload ==
    /\ Receive("lock")
    /\ LET c == Head(inbox).from IN
       \/ /\ lock # None
          /\ Busy(c)
          /\ UNCHANGED <<lockVars, runVars>>
       \/ /\ lock = None
          /\ lock' = c
          /\ Leave(c, IF pc[c] = "dead" THEN "dead" ELSE "loading")
          /\ UNCHANGED <<cancelled, runVars>>
       \/ /\ lock = None /\ pc[c] = "dead"
          /\ RemoveLock(None)
          /\ UNCHANGED clientVars
    /\ UNCHANGED <<status, signalVars, lifeVars, events>>

\* kextd is gone, stopped or crashed: the kernel's requests it had fetched are
\* lost unless served, the client c it was answering gets an error, its
\* children are launchd's.  Its port and the messages in it are kept by
\* launchd.
Going(how, requests, c) ==
    /\ daemon' = how
    /\ status' = [i \in Ids |-> IF requests[i] \in {"fetched", "noted"}
                                THEN "lost" ELSE requests[i]]
    /\ orphaned' = orphaned \cup {h \in {lock} \ {None} : pc[h] \in {"loading", "unlocking"}}
    /\ lock' = None /\ cancelled' = FALSE
    /\ pending' = FALSE /\ late' = FALSE /\ caller' = "nobody" /\ replyTo' = None
    /\ signalPort' = None /\ children' = 0 /\ zombies' = 0
    /\ unheeded' = {} /\ missed' = {}
    /\ pc' = Unlocked(c)
    /\ UNCHANGED tries

\* Is the port c sent the one the source watches?  A dead one has no name.
\* Mutant: any client may unlock.
AnyMatches(c) == TRUE
Matches(c) == lock = c /\ pc[c] # "dead"

\* _kextmanager_unlock_kextload.  It asks the source for its handle without
\* looking whether there is a source.
UnlockKextload ==
    /\ Receive("unlock")
    /\ LET c == Head(inbox).from IN
       \/ /\ lock = None
          /\ Going("crashed", status, c)
       \/ /\ lock # None /\ ~Matches(c)
          /\ pc' = Unlocked(c)
          /\ UNCHANGED <<status, lockVars, runVars, tries, signalVars, lifeVars>>
       \/ /\ lock # None /\ Matches(c)
          /\ RemoveLock(c)
          /\ pc' = IF pending THEN pc ELSE Unlocked(c)
          /\ UNCHANGED <<status, tries, signalVars, lifeVars>>
    /\ UNCHANGED events

\* The source's event handler: the client's port died.
ClientDied ==
    /\ Idle
    /\ lock # None /\ ~cancelled /\ Gone(lock)
    /\ RemoveLock(None)
    /\ UNCHANGED <<status, inbox, clientVars, signalVars, lifeVars, events>>

\* Its cancel handler.
SourceCancelled ==
    /\ Idle
    /\ cancelled
    /\ lock' = None /\ cancelled' = FALSE
    /\ UNCHANGED <<status, inbox, runVars, clientVars, signalVars, lifeVars, events>>

\* Mutant: the lock is not looked at.
KEXTD_NOT_LOCKED == FALSE
KEXTD_LOCKED == lock # None

\* svc_kextd_ping.
Ping ==
    /\ Receive("ping")
    /\ \/ /\ KEXTD_LOCKED
          /\ pending' = TRUE
          /\ late' = (late \/ cancelled)
          /\ UNCHANGED <<caller, replyTo>>
       \/ /\ ~KEXTD_LOCKED
          /\ caller' = "svc_kextd_ping"
          /\ UNCHANGED <<pending, late, replyTo>>
    /\ UNCHANGED <<status, lockVars, clientVars, signalVars, lifeVars, events>>

-----------------------------------------------------------------------------
(* kextd_process_kernel_requests.  The kernel goes on asking meanwhile. *)

Processing == daemon = "up" /\ caller # "nobody"

\* Take all requests there are.
CopyKernelRequests ==
    /\ Processing
    /\ With("fetched") = {} /\ With("queued") # {}
    /\ status' = Move("queued", "fetched")
    /\ UNCHANGED <<inbox, lockVars, runVars, clientVars, signalVars, lifeVars, events>>

\* Serve one: a load (or a resource, or the launch of a driver's host) at
\* once, the others when all requests have been seen.
ServeRequest(i) ==
    /\ Processing
    /\ status[i] = "fetched"
    /\ \A j \in With("fetched") : i <= j
    /\ status' = [status EXCEPT ![i] = IF Requests[i] = "load" THEN "served" ELSE "noted"]
    /\ UNCHANGED <<inbox, lockVars, runVars, clientVars, signalVars, lifeVars, events>>

Noted(k) == \E i \in With("noted") : Requests[i] = k
Heeded == Move("noted", "served")
ExitsDropped ==
    [i \in Ids |-> IF status[i] = "noted" /\ Requests[i] = "exit" THEN "dropped" ELSE Heeded[i]]

\* There is none left: one kextcache is started for all prelink requests
\* (unless the volume is read-only or rebuilds are disabled), one notification
\* posted, and the caller goes on.  Only svc_kextd_ping heeds the result, that
\* the kernel wants kextd to exit.
FinishRequests ==
    /\ Processing
    /\ With("fetched") = {} /\ With("queued") = {}
    /\ \/ /\ caller = "svc_kextd_ping" /\ Noted("exit")
          /\ Going("stopped", Heeded, replyTo)
       \/ /\ ~(caller = "svc_kextd_ping" /\ Noted("exit"))
          /\ status' = ExitsDropped
          /\ pending' = FALSE /\ late' = FALSE /\ caller' = "nobody" /\ replyTo' = None
          /\ pc' = Unlocked(replyTo)
          /\ \E build \in BOOLEAN :
                 children' = IF build /\ Noted("prelink") THEN children + 1 ELSE children
          /\ UNCHANGED <<lockVars, tries, signalPort, zombies, unheeded, missed, lifeVars>>
    /\ UNCHANGED <<inbox, events>>

-----------------------------------------------------------------------------
(* Signals, children, and kextd's own end. *)

\* handleSignal, at any time: the message is sent without waiting for room.
Signal(s) ==
    /\ signalPort' = IF signalPort = None THEN s ELSE signalPort
    /\ missed' = IF signalPort \in {None, s} THEN missed ELSE missed \cup {s}
    /\ unheeded' = unheeded \cup ({s} \ {"SIGCHLD"})

SignalSent(s) ==
    /\ daemon = "up" /\ events < MaxEvents
    /\ events' = events + 1
    /\ Signal(s)
    /\ UNCHANGED <<status, inbox, lockVars, runVars, clientVars, children, zombies,
                   lifeVars>>

\* kextd_watchvol.c forks a kextcache in one of its handlers.
KextcacheForked ==
    /\ Idle /\ events < MaxEvents
    /\ events' = events + 1
    /\ children' = children + 1
    /\ UNCHANGED <<status, inbox, lockVars, runVars, clientVars, signalPort, zombies,
                   unheeded, missed, lifeVars>>

KextcacheEnds ==
    /\ daemon = "up" /\ children > 0
    /\ children' = children - 1
    /\ zombies' = zombies + 1
    /\ Signal("SIGCHLD")
    /\ UNCHANGED <<status, inbox, lockVars, runVars, clientVars, lifeVars, events>>

\* Mutant: one child for each signal.
ReapOne == zombies' = IF zombies > 0 THEN zombies - 1 ELSE 0
\* handleSignalInRunloop reaps every child that has ended.
Reap == zombies' = 0

\* handleSignalInRunloop: rescan, stop, or reap.
HandleSignal ==
    /\ Idle
    /\ signalPort # None
    /\ \/ /\ signalPort = "SIGTERM"
          /\ Going("stopped", status, replyTo)
       \/ /\ signalPort # "SIGTERM"
          /\ IF signalPort = "SIGCHLD" THEN Reap ELSE UNCHANGED zombies
          /\ signalPort' = None
          /\ unheeded' = unheeded \ {signalPort}
          /\ missed' = missed \ {signalPort}
          /\ UNCHANGED <<status, lockVars, runVars, clientVars, children, lifeVars>>
    /\ UNCHANGED <<inbox, events>>

\* Anything else that ends kextd.
Crash ==
    /\ daemon = "up" /\ events < MaxEvents
    /\ events' = events + 1
    /\ Going("crashed", status, replyTo)
    /\ UNCHANGED inbox

\* launchd starts it again after a crash, or when there is a message for it
\* (com.apple.kextd.plist).  main: once it says it is active, the kernel pings
\* it if it has requests queued.
Start ==
    /\ daemon = "crashed" \/ (daemon = "stopped" /\ inbox # <<>>)
    /\ daemon' = "up"
    /\ inbox' = IF With("queued") = {} THEN inbox
                ELSE Append(inbox, [op |-> "ping", from |-> None])
    /\ UNCHANGED <<status, lockVars, runVars, clientVars, signalVars, orphaned, events>>

-----------------------------------------------------------------------------
Kextutil(c) == AskForLock(c) \/ FinishLoading(c)
ServePort == LockKextload \/ UnlockKextload \/ Ping
Process == CopyKernelRequests \/ (\E i \in Ids : ServeRequest(i)) \/ FinishRequests

Next ==
    \/ \E i \in Ids : Ask(i)
    \/ \E c \in Kextutils : Kextutil(c) \/ Die(c)
    \/ ServePort \/ ClientDied \/ SourceCancelled \/ Process
    \/ \E s \in {"SIGHUP", "SIGTERM"} : SignalSent(s)
    \/ KextcacheForked \/ KextcacheEnds \/ HandleSignal \/ Crash \/ Start

Spec == Init /\ [][Next]_vars

\* The run loop serves each of its sources in turn, a handler ends, launchd
\* does what the property list says, and a kextutil that was answered goes on.
\* Nobody has to ask, to signal or to crash.
Fairness ==
    /\ WF_vars(ServePort) /\ WF_vars(ClientDied) /\ WF_vars(SourceCancelled)
    /\ WF_vars(Process) /\ WF_vars(HandleSignal) /\ WF_vars(Start)
    /\ \A c \in Kextutils : WF_vars(Kextutil(c))
FairSpec == Spec /\ Fairness

-----------------------------------------------------------------------------
(* Properties. *)

Mail(c) == {n \in 1..Len(inbox) : inbox[n].from = c}

\* "_kextmanager_lock_kextload serializes kextutil clients": a kextutil that
\* was told it has the lock, and has not died or lived through the end of the
\* kextd that told it, is the one whose source kextd has; nothing cancels the
\* source before the client's unlock is there.
HolderIsKnown ==
    \A c \in Kextutils \ orphaned :
        pc[c] = "loading" \/ (pc[c] = "unlocking" /\ Mail(c) # {})
            => lock = c /\ ~cancelled

\* While a kextutil loads, kextd does not load for the kernel: requests are
\* served only without a source or when the holder has finished or died.
KernelWaits ==
    Processing => \A c \in Kextutils \ orphaned : pc[c] # "loading"

\* Requests put off and forgotten.  Either their ping came between
\* dispatch_source_cancel() and the cancel handler: the lock becomes free, and
\* nothing looks at gKernelRequestsPending before the next client or ping.  Or
\* kextd was stopped with requests put off, and no message is left to start it.
Forgotten == late \/ (daemon = "stopped" /\ inbox = <<>>)

\* Every request the kernel makes is served, put off or not, but for those that
\* are forgotten, those kextd took with it when it went, and a request to exit
\* that had been put off: removeKextutilLock() ignores the result.
RequestsServed ==
    \A i \in Ids : status[i] = "queued" ~> status[i] \in {"served", "lost", "dropped"} \/ Forgotten

\* The lock of a kextutil that has gone becomes free.
LockFreed == \A c \in Kextutils : Gone(c) ~> lock # c

\* A signal has its effect, unless it was dropped because the port held a
\* different one; two alike may share a message, as all children are reaped.
SignalsHeeded ==
    /\ zombies > 0 ~> zombies = 0 \/ "SIGCHLD" \in missed
    /\ \A s \in {"SIGHUP", "SIGTERM"} : s \in unheeded ~> s \notin unheeded \/ s \in missed
=============================================================================
