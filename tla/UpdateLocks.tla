---------------------------- MODULE UpdateLocks ----------------------------
(***************************************************************************)
(* What kextd promises the processes that change a volume's caches and the *)
(* ones that shut the system down, without a word on how it decides: each  *)
(* volume has a lock, held by at most one updater, for which the others    *)
(* queue; one process may hold the system for shutdown, and only while no  *)
(* volume is held.  KextdWatchVol implements this.                         *)
(***************************************************************************)
EXTENDS Naturals, SequencesExt

CONSTANTS Vols, Root, Updaters, Shutdowns, NoPort

VARIABLES
    holder,     \* volume -> the updater that holds it, or NoPort
    queue,      \* volume -> the updaters that wait for it, the first in front
    shutdown    \* the process that shuts the system down, or NoPort

vars == <<holder, queue, shutdown>>

Init ==
    /\ holder = [v \in Vols |-> NoPort]
    /\ queue = [v \in Vols |-> <<>>]
    /\ shutdown = NoPort

AllFree(h) == \A v \in Vols : h[v] = NoPort

Lock(v, c) ==
    /\ shutdown = NoPort
    /\ holder[v] = NoPort
    /\ holder' = [holder EXCEPT ![v] = c]
    /\ UNCHANGED <<queue, shutdown>>

Enqueue(v, c) ==
    /\ shutdown = NoPort
    /\ holder[v] # NoPort
    /\ queue' = [queue EXCEPT ![v] = Append(@, c)]
    /\ UNCHANGED <<holder, shutdown>>

\* A waiter gives up.
Leave(v, i) ==
    /\ queue' = [queue EXCEPT ![v] = RemoveAt(@, i)]
    /\ UNCHANGED <<holder, shutdown>>

\* The holder is done, or gone: the lock goes to the i-th waiter, those in front
\* of it being gone too, or to nobody when none is left.  If that frees the last
\* volume a shutdown may be let through at once.
PassOn(v, i) ==
    /\ holder[v] # NoPort
    /\ holder' = [holder EXCEPT
                    ![v] = IF i \in DOMAIN queue[v] THEN queue[v][i] ELSE NoPort]
    /\ queue' = [queue EXCEPT ![v] = SubSeq(@, i + 1, Len(@))]
    /\ \/ UNCHANGED shutdown
       \/ /\ shutdown = NoPort
          /\ AllFree(holder')
          /\ shutdown' \in Shutdowns

\* A volume other than "/" goes away: its lock and its queue with it.
Forget(v) ==
    /\ v # Root
    /\ holder' = [holder EXCEPT ![v] = NoPort]
    /\ queue' = [queue EXCEPT ![v] = <<>>]
    /\ UNCHANGED shutdown

ShutDown(c) ==
    /\ shutdown = NoPort
    /\ AllFree(holder)
    /\ shutdown' = c
    /\ UNCHANGED <<holder, queue>>

\* The process that was to shut down exits instead.
Resume ==
    /\ shutdown' = NoPort
    /\ UNCHANGED <<holder, queue>>

Next ==
    \/ \E v \in Vols :
          \/ \E c \in Updaters : Lock(v, c) \/ Enqueue(v, c)
          \/ \E i \in DOMAIN queue[v] : Leave(v, i)
          \/ \E i \in 1..(Len(queue[v]) + 1) : PassOn(v, i)
          \/ Forget(v)
    \/ \E c \in Shutdowns : ShutDown(c)
    \/ Resume

Spec == Init /\ [][Next]_vars
=============================================================================
