------------------------ MODULE KextdRequestsProofs ------------------------
(***************************************************************************)
(* Proofs about KextdRequests, for any kextutils, any requests of the      *)
(* kernel and any number of events.                                        *)
(***************************************************************************)
EXTENDS KextdRequests, TLAPS

(***************************************************************************)
(* The service port: messages join at its end and leave at its head.       *)
(***************************************************************************)
Sends(op, from) == inbox' = Append(inbox, [op |-> op, from |-> from])

\* The message sent is the last one; the others keep their places.
LEMMA Sent ==
    ASSUME inbox \in Seq(Message), NEW op, NEW from,
           [op |-> op, from |-> from] \in Message, Sends(op, from)
    PROVE  /\ inbox' \in Seq(Message)
           /\ Len(inbox') = Len(inbox) + 1
           /\ inbox'[Len(inbox) + 1] = [op |-> op, from |-> from]
           /\ \A n \in 1..Len(inbox) : inbox'[n] = inbox[n]
  BY DEF Sends

\* The message received was the first one; the others move up.
LEMMA Received ==
    ASSUME inbox \in Seq(Message), NEW op, Receive(op)
    PROVE  /\ inbox' \in Seq(Message)
           /\ Len(inbox) \in Nat \ {0} /\ Len(inbox') = Len(inbox) - 1
           /\ Head(inbox) = inbox[1] /\ inbox[1] \in Message /\ inbox[1].op = op
           /\ \A n \in 1..Len(inbox') : inbox'[n] = inbox[n + 1]
  BY DEF Receive

(***************************************************************************)
(* Types.                                                                  *)
(***************************************************************************)
Statuses == {"unasked", "queued", "fetched", "noted", "served", "dropped", "lost"}

LEMMA MoveType ==
    ASSUME status \in [Ids -> Statuses], NEW from, NEW to \in Statuses
    PROVE  Move(from, to) \in [Ids -> Statuses]
  BY DEF Move

LEMMA ExitsDroppedType ==
    ASSUME status \in [Ids -> Statuses]
    PROVE  ExitsDropped \in [Ids -> Statuses]
<1>1. Heeded \in [Ids -> Statuses]
  BY MoveType DEF Heeded, Statuses
<1> QED
  BY <1>1 DEF ExitsDropped, Statuses

\* TypeOK's part about the kextutils.
ClientsOK ==
    /\ pc \in [Kextutils -> {"start", "locking", "loading", "unlocking", "done", "dead"}]
    /\ tries \in [Kextutils -> 0..LOCK_MAXTRIES]
    /\ \A c \in Kextutils : tries[c] > 0 <=> pc[c] \in {"start", "locking"}

LEMMA LeaveType ==
    ASSUME ClientsOK, NEW c \in Kextutils,
           NEW where \in {"loading", "done", "dead"}, Leave(c, where)
    PROVE  ClientsOK'
  BY RequestsAssumption DEF ClientsOK, Leave

LEMMA UnlockedType ==
    ASSUME ClientsOK, NEW c, pc' = Unlocked(c), UNCHANGED tries,
           c \in Kextutils => pc[c] \in {"unlocking", "dead"}
    PROVE  ClientsOK'
  BY RequestsAssumption DEF ClientsOK, Unlocked

(***************************************************************************)
(* The inductive invariant.                                                *)
(***************************************************************************)
\* A client has at most one message in the port, and is waiting for its answer
\* or dead; the client whose call is being served has none.
Fits(box, at) ==
    /\ \A n \in 1..Len(box) :
           /\ box[n].op = "lock" => at[box[n].from] \in {"locking", "dead"}
           /\ box[n].op = "unlock" => at[box[n].from] \in {"unlocking", "dead"}
    /\ \A m, n \in 1..Len(box) :
           box[m].from = box[n].from /\ box[m].from \in Kextutils => m = n
MailFits ==
    /\ Fits(inbox, pc)
    /\ replyTo # None => pc[replyTo] \in {"unlocking", "dead"} /\ Mail(replyTo) = {}

\* Only a source that exists is cancelled, and kextd serves the kernel only
\* when there is none or it is cancelled; only then is a client kept waiting.
LockFits ==
    /\ cancelled => lock # None
    /\ caller # "nobody" => lock = None \/ cancelled
    /\ replyTo # None => caller # "nobody"

IInv == TypeOK /\ MailFits /\ LockFits /\ HolderIsKnown

\* What is received from a client: it waits for the answer, or is dead, and has
\* sent nothing else.
LEMMA ReceivedFrom ==
    ASSUME TypeOK, MailFits, NEW op \in {"lock", "unlock"}, Receive(op)
    PROVE  /\ Head(inbox).from \in Kextutils
           /\ op = "lock" => pc[Head(inbox).from] \in {"locking", "dead"}
           /\ op = "unlock" => pc[Head(inbox).from] \in {"unlocking", "dead"}
           /\ \A n \in 1..Len(inbox') : inbox'[n].from # Head(inbox).from
<1>1. inbox \in Seq(Message)
  BY DEF TypeOK
<1>2. inbox[1].op = op /\ inbox[1] \in Message /\ Head(inbox) = inbox[1]
      /\ 1 \in 1..Len(inbox)
  BY <1>1, Received
<1>3. inbox[1].from \in Kextutils
  BY <1>2 DEF Message
<1>4. \A n \in 1..Len(inbox') : n + 1 \in 1..Len(inbox) /\ inbox'[n] = inbox[n + 1]
                                /\ n + 1 # 1
  BY <1>1, Received
<1> QED
  BY <1>2, <1>3, <1>4 DEF MailFits, Fits

\* The messages that stay behind still fit.
LEMMA Shrunk ==
    ASSUME TypeOK, MailFits, NEW op, Receive(op) \/ UNCHANGED inbox
    PROVE  /\ inbox' \in Seq(Message)
           /\ Fits(inbox', pc)
           /\ \A d \in Kextutils : Mail(d)' # {} => Mail(d) # {}
<1>1. CASE Receive(op)
  <2>1. /\ inbox' \in Seq(Message)
        /\ \A n \in 1..Len(inbox') : n + 1 \in 1..Len(inbox) /\ inbox'[n] = inbox[n + 1]
    BY <1>1, Received DEF TypeOK
  <2>2. \A m, n \in 1..Len(inbox') :
            inbox'[m].from = inbox'[n].from /\ inbox'[m].from \in Kextutils => m = n
    <3> SUFFICES ASSUME NEW m \in 1..Len(inbox'), NEW n \in 1..Len(inbox'),
                        inbox'[m].from = inbox'[n].from, inbox'[m].from \in Kextutils
                 PROVE  m = n
      OBVIOUS
    <3>1. /\ m + 1 \in 1..Len(inbox) /\ n + 1 \in 1..Len(inbox)
          /\ inbox[m + 1].from = inbox[n + 1].from /\ inbox[m + 1].from \in Kextutils
      BY <2>1
    <3>2. m + 1 = n + 1
      BY <3>1 DEF MailFits, Fits
    <3> QED
      BY <3>2
  <2> QED
    BY <2>1, <2>2 DEF MailFits, Fits, Mail
<1>2. CASE UNCHANGED inbox
  BY <1>2 DEF TypeOK, MailFits, Mail
<1> QED
  BY <1>1, <1>2

\* So do they when kextutils without a message in the port move on, and others die.
LEMMA Moved ==
    ASSUME Fits(inbox', pc),
           \A n \in 1..Len(inbox') : pc'[inbox'[n].from] \in {pc[inbox'[n].from], "dead"}
    PROVE  Fits(inbox', pc')
  BY DEF Fits

-----------------------------------------------------------------------------
(***************************************************************************)
(* Each action keeps it.  What kextutils do:                               *)
(***************************************************************************)
LEMMA InitIInv == Init => IInv
<1> SUFFICES ASSUME Init PROVE IInv
  OBVIOUS
<1> USE DEF Init
<1>1. TypeOK
  <2>1. inbox \in Seq(Message) /\ events \in 0..MaxEvents
    BY RequestsAssumption
  <2>2. tries \in [Kextutils -> 0..LOCK_MAXTRIES] /\ \A c \in Kextutils : tries[c] > 0
    BY RequestsAssumption
  <2> QED
    BY <2>1, <2>2 DEF TypeOK
<1>2. MailFits /\ LockFits /\ HolderIsKnown
  BY DEF MailFits, Fits, LockFits, HolderIsKnown
<1> QED
  BY <1>1, <1>2 DEF IInv

\* A kextutil that had no message in the port sends one.
LEMMA SendKeeps ==
    ASSUME IInv, NEW c \in Kextutils, NEW op \in {"lock", "unlock"},
           pc[c] \in {"start", "loading"}, op = "unlock" <=> pc[c] = "loading",
           pc' = [pc EXCEPT ![c] = IF op = "lock" THEN "locking" ELSE "unlocking"],
           inbox' = Append(inbox, [op |-> op, from |-> c]),
           UNCHANGED <<status, lockVars, runVars, tries, signalVars, lifeVars, events>>
    PROVE  IInv'
<1>1. [op |-> op, from |-> c] \in Message
  BY DEF Message
<1>2. /\ inbox' \in Seq(Message)
      /\ Len(inbox') = Len(inbox) + 1
      /\ inbox'[Len(inbox) + 1] = [op |-> op, from |-> c]
      /\ \A n \in 1..Len(inbox) : inbox'[n] = inbox[n]
      /\ Len(inbox) \in Nat
  BY <1>1, Sent DEF Sends, IInv, TypeOK
<1>3. TypeOK'
  BY <1>2 DEF IInv, TypeOK, lockVars, runVars, signalVars, lifeVars
<1>4. \A n \in 1..Len(inbox) : inbox[n].from # c
  <2> SUFFICES ASSUME NEW n \in 1..Len(inbox), inbox[n].from = c PROVE FALSE
    OBVIOUS
  <2>1. inbox[n] \in Message
    BY DEF IInv, TypeOK
  <2>2. inbox[n].op \in {"lock", "unlock"}
    BY <2>1, RequestsAssumption DEF Message
  <2> QED
    BY <2>2 DEF IInv, MailFits, Fits
<1>5. MailFits'
  <2>1. \A n \in 1..Len(inbox') :
            /\ inbox'[n].op = "lock" => pc'[inbox'[n].from] \in {"locking", "dead"}
            /\ inbox'[n].op = "unlock" => pc'[inbox'[n].from] \in {"unlocking", "dead"}
    <3> SUFFICES ASSUME NEW n \in 1..Len(inbox')
                 PROVE  /\ inbox'[n].op = "lock" => pc'[inbox'[n].from] \in {"locking", "dead"}
                        /\ inbox'[n].op = "unlock" => pc'[inbox'[n].from] \in {"unlocking", "dead"}
      OBVIOUS
    <3>1. CASE n = Len(inbox) + 1
      BY <3>1, <1>2 DEF IInv, TypeOK
    <3>2. CASE n \in 1..Len(inbox)
      BY <3>2, <1>2, <1>4 DEF IInv, TypeOK, MailFits, Fits
    <3> QED
      BY <3>1, <3>2, <1>2
  <2>2. \A m, n \in 1..Len(inbox') :
            inbox'[m].from = inbox'[n].from /\ inbox'[m].from \in Kextutils => m = n
    BY <1>2, <1>4 DEF IInv, MailFits, Fits
  <2>3. replyTo' # None => pc'[replyTo'] \in {"unlocking", "dead"} /\ Mail(replyTo)' = {}
    BY <1>2, <1>4 DEF IInv, MailFits, TypeOK, Mail, runVars
  <2> QED
    BY <2>1, <2>2, <2>3 DEF MailFits, Fits
<1>6. LockFits' /\ HolderIsKnown'
  <2>1. ASSUME NEW d \in Kextutils, d # c
        PROVE  pc'[d] = pc[d] /\ Mail(d)' = Mail(d)
    BY <2>1, <1>2 DEF IInv, TypeOK, Mail
  <2>2. pc[c] = "start" => pc'[c] = "locking"
    BY DEF IInv, TypeOK
  <2> QED
    BY <2>1, <2>2 DEF IInv, LockFits, HolderIsKnown, lockVars, runVars, lifeVars
<1> QED
  BY <1>3, <1>5, <1>6 DEF IInv

\* A ping joins the others.
LEMMA PingKeeps ==
    ASSUME IInv, inbox' = Append(inbox, [op |-> "ping", from |-> None]),
           UNCHANGED <<pc, replyTo, lock, cancelled, caller, orphaned>>
    PROVE  inbox' \in Seq(Message) /\ MailFits' /\ LockFits' /\ HolderIsKnown'
<1>1. [op |-> "ping", from |-> None] \in Message
  BY DEF Message
<1>2. /\ inbox' \in Seq(Message)
      /\ Len(inbox') = Len(inbox) + 1
      /\ inbox'[Len(inbox) + 1] = [op |-> "ping", from |-> None]
      /\ \A n \in 1..Len(inbox) : inbox'[n] = inbox[n]
      /\ Len(inbox) \in Nat
  BY <1>1, Sent DEF Sends, IInv, TypeOK
<1>3. \A c \in Kextutils : Mail(c)' = Mail(c)
  BY <1>2, RequestsAssumption DEF Mail
<1>4. \A m \in 1..Len(inbox') : inbox'[m].from \in Kextutils => m \in 1..Len(inbox)
  BY <1>2, RequestsAssumption
<1>5. Fits(inbox', pc')
  BY <1>2, <1>4 DEF IInv, MailFits, Fits
<1>6. MailFits'
  BY <1>3, <1>5 DEF IInv, TypeOK, MailFits
<1> QED
  BY <1>2, <1>3, <1>6 DEF IInv, LockFits, HolderIsKnown

\* A step that leaves clients, port and lock alone.
LEMMA QuietKeeps ==
    ASSUME IInv, UNCHANGED <<inbox, pc, replyTo, lock, cancelled, caller, orphaned>>
    PROVE  MailFits' /\ LockFits' /\ HolderIsKnown'
  BY DEF IInv, MailFits, Fits, Mail, LockFits, HolderIsKnown

\* A kextutil dies.
LEMMA DieKeeps ==
    ASSUME IInv, NEW c \in Kextutils, Die(c)
    PROVE  IInv'
<1>1. ClientsOK'
  BY LeaveType DEF Die, IInv, TypeOK, ClientsOK
<1>2. TypeOK'
  BY <1>1 DEF Die, IInv, TypeOK, ClientsOK, lockVars, runVars, signalVars, lifeVars
<1>3. \A d \in Kextutils : pc'[d] = IF d = c THEN "dead" ELSE pc[d]
  BY DEF Die, Leave, IInv, TypeOK
<1>4. Fits(inbox', pc')
  BY DEF Die, Leave, IInv, TypeOK, MailFits, Fits
<1>5. MailFits'
  BY <1>3, <1>4 DEF Die, IInv, TypeOK, MailFits, Mail, runVars
<1> QED
  BY <1>2, <1>3, <1>5 DEF Die, IInv, LockFits, HolderIsKnown, Mail, lockVars, runVars, lifeVars

\* kextd goes: whoever held its lock is an orphan, and nobody else had it.
LEMMA GoingKeeps ==
    ASSUME IInv, NEW how \in {"stopped", "crashed"}, NEW requests \in [Ids -> Statuses],
           NEW c, Going(how, requests, c), NEW op, Receive(op) \/ UNCHANGED inbox,
           events' \in 0..MaxEvents,
           c \in Kextutils => pc[c] \in {"unlocking", "dead"} /\ Mail(c)' = {}
    PROVE  IInv'
<1>1. /\ inbox' \in Seq(Message) /\ Fits(inbox', pc)
      /\ \A d \in Kextutils : Mail(d)' # {} => Mail(d) # {}
  BY Shrunk DEF IInv
<1>2. ClientsOK'
  BY UnlockedType DEF Going, IInv, TypeOK, ClientsOK
<1>3. TypeOK'
  <2>1. status' \in [Ids -> Statuses]
    BY DEF Going, Statuses
  <2> QED
    BY <1>1, <1>2, <2>1 DEF Going, IInv, TypeOK, ClientsOK, Statuses
<1>4. \A d \in Kextutils : pc'[d] = IF d = c /\ pc[d] # "dead" THEN "done" ELSE pc[d]
  BY DEF Going, Unlocked
<1>5. MailFits'
  <2>1. \A n \in 1..Len(inbox') : inbox'[n].from \in Kextutils => inbox'[n].from # c
    BY DEF Mail
  <2>2. Fits(inbox', pc')
    <3> SUFFICES ASSUME NEW n \in 1..Len(inbox')
                 PROVE  /\ inbox'[n].op = "lock" => pc'[inbox'[n].from] \in {"locking", "dead"}
                        /\ inbox'[n].op = "unlock" => pc'[inbox'[n].from] \in {"unlocking", "dead"}
      BY <1>1 DEF Fits
    <3>1. inbox'[n] \in Message
      BY <1>1
    <3>2. inbox'[n].op # "ping" => inbox'[n].from \in Kextutils
      BY <3>1 DEF Message
    <3> QED
      BY <3>2, <1>1, <1>4, <2>1 DEF Fits
  <2> QED
    BY <2>2 DEF MailFits, Going
<1>6. LockFits' /\ HolderIsKnown'
  BY <1>1, <1>4 DEF IInv, LockFits, HolderIsKnown, Going
<1> QED
  BY <1>3, <1>5, <1>6 DEF IInv

-----------------------------------------------------------------------------
(***************************************************************************)
(* What kextd does.                                                        *)
(***************************************************************************)
LEMMA RemoveLockType ==
    ASSUME TypeOK, NEW c \in Kextutils \cup {None}, RemoveLock(c)
    PROVE  /\ lock' = lock /\ cancelled' = (lock # None) /\ pending' = pending /\ late' = late
           /\ caller' \in {"nobody", "svc_kextd_ping", "removeKextutilLock"}
           /\ replyTo' \in {c, None}
  BY DEF RemoveLock, TypeOK

\* kextmanager_lock_kextload: refused, granted, or failed for a dead client.
LEMMA LockKextloadKeeps ==
    ASSUME IInv, LockKextload
    PROVE  IInv'
<1> DEFINE c == Head(inbox).from
<1>1. /\ Receive("lock") /\ c \in Kextutils /\ pc[c] \in {"locking", "dead"}
      /\ \A n \in 1..Len(inbox') : inbox'[n].from # c
  BY ReceivedFrom DEF LockKextload, IInv
<1>2. /\ inbox' \in Seq(Message) /\ Fits(inbox', pc)
      /\ \A d \in Kextutils : Mail(d)' # {} => Mail(d) # {}
  BY <1>1, Shrunk DEF IInv
<1>3. /\ UNCHANGED <<status, signalVars, lifeVars, events>>
      /\ \/ lock # None /\ Busy(c) /\ UNCHANGED <<lockVars, runVars>>
         \/ /\ lock = None /\ lock' = c
            /\ Leave(c, IF pc[c] = "dead" THEN "dead" ELSE "loading")
            /\ UNCHANGED <<cancelled, runVars>>
         \/ lock = None /\ pc[c] = "dead" /\ RemoveLock(None) /\ UNCHANGED clientVars
  BY DEF LockKextload
<1> HIDE DEF c
<1>4. ClientsOK' /\ \A d \in Kextutils \ {c} : pc'[d] = pc[d]
  <2>1. ClientsOK
    BY DEF IInv, TypeOK, ClientsOK
  <2>2. CASE Busy(c)
    <3>1. CASE pc[c] # "dead" /\ tries[c] <= 1 /\ Leave(c, "done")
      BY <3>1, <1>1, <2>1, LeaveType DEF Leave, ClientsOK
    <3>2. CASE pc[c] = "dead" /\ UNCHANGED clientVars
      BY <3>2, <2>1 DEF ClientsOK, clientVars
    <3>3. CASE /\ pc[c] # "dead" /\ tries[c] > 1
               /\ tries' = [tries EXCEPT ![c] = @ - 1]
               /\ pc' = [pc EXCEPT ![c] = "start"]
      <4>1. tries[c] - 1 \in 0..LOCK_MAXTRIES /\ tries[c] - 1 > 0
        BY <3>3, <1>1, <2>1, RequestsAssumption DEF ClientsOK
      <4> QED
        BY <4>1, <3>3, <1>1, <2>1 DEF ClientsOK
    <3> QED
      BY <2>2, <3>1, <3>2, <3>3 DEF Busy
  <2>3. CASE Leave(c, IF pc[c] = "dead" THEN "dead" ELSE "loading")
    BY <1>1, <2>1, <2>3, LeaveType DEF Leave, ClientsOK
  <2>4. CASE UNCHANGED clientVars
    BY <2>1, <2>4 DEF ClientsOK, clientVars
  <2> QED
    BY <1>3, <2>2, <2>3, <2>4
<1>5. TypeOK'
  <2>1. CASE lock = None /\ RemoveLock(None)
    BY <1>2, <1>3, <1>4, <2>1, RemoveLockType
       DEF IInv, TypeOK, ClientsOK, signalVars, lifeVars
  <2>2. CASE ~(lock = None /\ RemoveLock(None))
    BY <1>1, <1>2, <1>3, <1>4, <2>2
       DEF IInv, TypeOK, ClientsOK, signalVars, lifeVars, lockVars, runVars
  <2> QED
    BY <2>1, <2>2
<1>6. MailFits'
  <2>1. \A n \in 1..Len(inbox') : pc'[inbox'[n].from] = pc[inbox'[n].from]
                                  \/ inbox'[n].from \notin Kextutils
    BY <1>1, <1>4
  <2>2. \A n \in 1..Len(inbox') : inbox'[n].op # "ping" => inbox'[n].from \in Kextutils
    BY <1>2 DEF Message
  <2>3. \A n \in 1..Len(inbox') : inbox'[n].op \in {"ping", "lock", "unlock"}
    BY <1>2 DEF Message
  <2>4. Fits(inbox', pc')
    BY <1>2, <2>1, <2>2, <2>3 DEF Fits
  <2>5. replyTo' = None
    BY <1>1, <1>3 DEF IInv, LockFits, RemoveLock, runVars, Receive, Idle
  <2> QED
    BY <2>4, <2>5 DEF MailFits
<1>7. LockFits' /\ HolderIsKnown'
  <2>1. LockFits'
    BY <1>1, <1>3, RequestsAssumption DEF IInv, LockFits, Receive, Idle, lockVars, runVars, RemoveLock
  <2>2. ASSUME NEW d \in Kextutils \ orphaned,
               pc'[d] = "loading" \/ (pc'[d] = "unlocking" /\ Mail(d)' # {})
        PROVE  lock' = d /\ ~cancelled'
    <3>1. CASE d = c
      BY <1>1, <1>3, <1>4, <2>2, <3>1 DEF IInv, TypeOK, HolderIsKnown, LockFits, Busy, Leave, clientVars
    <3>2. CASE d # c
      <4>1. lock = d /\ ~cancelled
        BY <1>2, <1>4, <2>2, <3>2 DEF IInv, HolderIsKnown
      <4> QED
        BY <4>1, <1>3, RequestsAssumption DEF lockVars
    <3> QED
      BY <3>1, <3>2
  <2>3. orphaned' = orphaned
    BY <1>3 DEF lifeVars
  <2> QED
    BY <2>1, <2>2, <2>3 DEF HolderIsKnown
<1> QED
  BY <1>5, <1>6, <1>7 DEF IInv

\* kextmanager_unlock_kextload: kextd crashes, refuses, or removes the lock.
LEMMA UnlockKextloadKeeps ==
    ASSUME IInv, UnlockKextload
    PROVE  IInv'
<1>0. PICK c : c = Head(inbox).from
  OBVIOUS
<1>1. /\ Receive("unlock") /\ c \in Kextutils /\ pc[c] \in {"unlocking", "dead"}
      /\ \A n \in 1..Len(inbox') : inbox'[n].from # c
      /\ replyTo = None /\ caller = "nobody"
  BY <1>0, ReceivedFrom DEF UnlockKextload, IInv, LockFits, Receive, Idle
<1>2. /\ inbox' \in Seq(Message) /\ Fits(inbox', pc)
      /\ \A d \in Kextutils : Mail(d)' # {} => Mail(d) # {}
      /\ Mail(c)' = {}
  BY <1>1, Shrunk DEF IInv, Mail
<1>3. /\ events' = events
      /\ \/ Going("crashed", status, c)
         \/ /\ lock # None /\ pc' = Unlocked(c)
            /\ UNCHANGED <<status, lockVars, runVars, tries, signalVars, lifeVars>>
         \/ /\ lock = c /\ RemoveLock(c) /\ pc' = IF pending THEN pc ELSE Unlocked(c)
            /\ UNCHANGED <<status, tries, signalVars, lifeVars>>
  BY <1>0 DEF UnlockKextload, Matches
<1>4. CASE Going("crashed", status, c)
  <2>1. status \in [Ids -> Statuses]
    BY DEF IInv, TypeOK, Statuses
  <2> QED
    BY <1>1, <1>2, <1>3, <1>4, <2>1, GoingKeeps DEF IInv, TypeOK
<1>5. CASE ~Going("crashed", status, c)
  <2>1. /\ pc' = pc \/ pc' = Unlocked(c)
        /\ \A d \in Kextutils \ {c} : pc'[d] = pc[d]
        /\ pc'[c] \in {pc[c], "done"}
        /\ pc[c] = "dead" => pc'[c] = "dead"
    BY <1>1, <1>3, <1>5 DEF IInv, TypeOK, Unlocked
  <2>2. ClientsOK'
    <3>1. ClientsOK /\ UNCHANGED tries
      BY <1>3, <1>5 DEF IInv, TypeOK, ClientsOK
    <3>2. CASE pc' = pc
      BY <3>1, <3>2 DEF ClientsOK
    <3>3. CASE pc' = Unlocked(c)
      BY <1>1, <3>1, <3>3, UnlockedType
    <3> QED
      BY <2>1, <3>2, <3>3
  <2>3. TypeOK'
    <3>1. CASE RemoveLock(c)
      BY <1>1, <1>2, <1>3, <1>5, <2>2, <3>1, RemoveLockType
         DEF IInv, TypeOK, ClientsOK, signalVars, lifeVars
    <3>2. CASE ~RemoveLock(c)
      BY <1>2, <1>3, <1>5, <2>2, <3>2
         DEF IInv, TypeOK, ClientsOK, signalVars, lifeVars, lockVars, runVars
    <3> QED
      BY <3>1, <3>2
  <2>4. MailFits'
    <3>1. \A n \in 1..Len(inbox') :
              /\ inbox'[n].op \in {"ping", "lock", "unlock"}
              /\ inbox'[n].op # "ping" => inbox'[n].from \in Kextutils \ {c}
      BY <1>1, <1>2 DEF Message
    <3>2. Fits(inbox', pc')
      BY <1>2, <2>1, <3>1 DEF Fits
    <3>3. replyTo' # None => replyTo' = c /\ pc' = pc
      BY <1>1, <1>3, <1>5 DEF RemoveLock, runVars
    <3> QED
      BY <1>1, <1>2, <3>2, <3>3 DEF MailFits
  <2>5. LockFits'
    BY <1>1, <1>3, <1>5 DEF IInv, LockFits, RemoveLock, lockVars, runVars
  <2>6. HolderIsKnown'
    <3> SUFFICES ASSUME NEW d \in Kextutils \ orphaned',
                        pc'[d] = "loading" \/ (pc'[d] = "unlocking" /\ Mail(d)' # {})
                 PROVE  lock' = d /\ ~cancelled'
      BY DEF HolderIsKnown
    <3>1. d # c /\ d \notin orphaned
      <4>1. orphaned' = orphaned
        BY <1>3, <1>5 DEF lifeVars
      <4>2. pc'[c] \in {"unlocking", "dead", "done"}
        BY <1>1, <2>1
      <4> QED
        BY <1>2, <4>1, <4>2
    <3>2. lock = d /\ ~cancelled
      BY <1>2, <2>1, <3>1 DEF IInv, HolderIsKnown
    <3> QED
      BY <1>3, <1>5, <3>1, <3>2 DEF lockVars
  <2> QED
    BY <2>3, <2>4, <2>5, <2>6 DEF IInv
<1> QED
  BY <1>4, <1>5

\* The holder's port died: nobody else was told that it has the lock.
LEMMA ClientDiedKeeps ==
    ASSUME IInv, ClientDied
    PROVE  IInv'
<1>1. TypeOK'
  BY RemoveLockType DEF ClientDied, IInv, TypeOK, clientVars, signalVars, lifeVars
<1>2. MailFits'
  BY DEF ClientDied, RemoveLock, IInv, MailFits, Fits, clientVars
<1>3. LockFits'
  BY DEF ClientDied, RemoveLock, IInv, LockFits
<1>4. HolderIsKnown'
  <2>1. lock # None /\ pc[lock] \in {"done", "dead"} /\ lock' = lock
        /\ UNCHANGED <<pc, inbox, orphaned>>
    BY DEF ClientDied, RemoveLock, Gone, clientVars, lifeVars
  <2> QED
    BY <2>1 DEF IInv, HolderIsKnown, Mail
<1> QED
  BY <1>1, <1>2, <1>3, <1>4 DEF IInv

\* The source is gone at last; it had been cancelled, so nobody held the lock.
LEMMA SourceCancelledKeeps ==
    ASSUME IInv, SourceCancelled
    PROVE  IInv'
<1>1. TypeOK'
  BY DEF SourceCancelled, IInv, TypeOK, clientVars, runVars, signalVars, lifeVars
<1>2. MailFits'
  BY DEF SourceCancelled, IInv, MailFits, Fits, Mail, clientVars, runVars
<1>3. LockFits'
  BY DEF SourceCancelled, Idle, IInv, LockFits, runVars
<1>4. HolderIsKnown'
  BY DEF SourceCancelled, IInv, HolderIsKnown, Mail, clientVars, lifeVars
<1> QED
  BY <1>1, <1>2, <1>3, <1>4 DEF IInv

\* A ping is served without a source only.
LEMMA PingServedKeeps ==
    ASSUME IInv, Ping
    PROVE  IInv'
<1>1. /\ inbox' \in Seq(Message) /\ Fits(inbox', pc)
      /\ \A d \in Kextutils : Mail(d)' # {} => Mail(d) # {}
  BY Shrunk DEF Ping, IInv
<1>2. TypeOK'
  BY <1>1 DEF Ping, IInv, TypeOK, clientVars, lockVars, signalVars, lifeVars
<1>3. MailFits'
  BY <1>1 DEF Ping, Receive, Idle, IInv, LockFits, MailFits, clientVars
<1>4. LockFits'
  BY DEF Ping, Receive, Idle, KEXTD_LOCKED, IInv, LockFits, lockVars
<1>5. HolderIsKnown'
  BY <1>1 DEF Ping, IInv, HolderIsKnown, clientVars, lockVars, lifeVars
<1> QED
  BY <1>2, <1>3, <1>4, <1>5 DEF IInv

\* The last request is served: kextd stops, or answers who was waiting.
LEMMA FinishRequestsKeeps ==
    ASSUME IInv, FinishRequests
    PROVE  IInv'
<1>0. PICK c : c = replyTo
  OBVIOUS
<1>1. c \in Kextutils => pc[c] \in {"unlocking", "dead"} /\ Mail(c)' = {}
  BY <1>0, RequestsAssumption DEF FinishRequests, IInv, MailFits, Mail
<1>2. status \in [Ids -> Statuses]
  BY DEF IInv, TypeOK, Statuses
<1>3. CASE Going("stopped", Heeded, c)
  <2>1. Heeded \in [Ids -> Statuses]
    BY <1>2, MoveType DEF Heeded, Statuses
  <2>2. UNCHANGED inbox /\ events' \in 0..MaxEvents
    BY DEF FinishRequests, IInv, TypeOK
  <2> QED
    BY <1>1, <1>3, <2>1, <2>2, GoingKeeps
<1>4. CASE ~Going("stopped", Heeded, c)
  <2>1. /\ status' = ExitsDropped /\ pending' = FALSE /\ late' = FALSE
        /\ caller' = "nobody" /\ replyTo' = None
        /\ pc' = Unlocked(c) /\ children' \in Nat
        /\ UNCHANGED <<inbox, events, lockVars, tries, signalPort, zombies, unheeded,
                       missed, lifeVars>>
    BY <1>0, <1>4 DEF FinishRequests, IInv, TypeOK
  <2>2. ClientsOK'
    BY <1>1, <2>1, UnlockedType DEF IInv, TypeOK, ClientsOK
  <2>3. TypeOK'
    <3>1. status' \in [Ids -> Statuses]
      BY <1>2, <2>1, ExitsDroppedType
    <3> QED
      BY <2>1, <2>2, <3>1 DEF IInv, TypeOK, ClientsOK, Statuses, lockVars, lifeVars
  <2>4. \A d \in Kextutils : pc'[d] = IF d = c /\ pc[d] # "dead" THEN "done" ELSE pc[d]
    BY <2>1 DEF Unlocked
  <2>5. MailFits'
    <3>1. \A n \in 1..Len(inbox) :
              /\ inbox[n].op \in {"ping", "lock", "unlock"}
              /\ inbox[n].op # "ping" => inbox[n].from \in Kextutils
      BY DEF IInv, TypeOK, Message
    <3>2. \A n \in 1..Len(inbox) : inbox[n].from \in Kextutils => inbox[n].from # c
      BY <1>1, <2>1 DEF Mail
    <3> QED
      BY <2>1, <2>4, <3>1, <3>2 DEF IInv, MailFits, Fits
  <2>6. LockFits' /\ HolderIsKnown'
    BY <2>1, <2>4 DEF IInv, LockFits, HolderIsKnown, Mail, lockVars, lifeVars
  <2> QED
    BY <2>3, <2>5, <2>6 DEF IInv
<1> QED
  BY <1>3, <1>4

\* The rest of kextd_process_kernel_requests, and what happens beside it.
LEMMA StepKeeps ==
    ASSUME IInv, Next
    PROVE  IInv'
<1> USE DEF IInv
<1>1. ASSUME NEW i \in Ids, Ask(i) PROVE IInv'
  <2>1. inbox' \in Seq(Message) /\ MailFits' /\ LockFits' /\ HolderIsKnown'
    BY <1>1, PingKeeps DEF Ask, clientVars, runVars, lockVars, lifeVars
  <2> QED
    BY <1>1, <2>1 DEF Ask, TypeOK, clientVars, runVars, lockVars, signalVars, lifeVars
<1>2. ASSUME NEW c \in Kextutils, AskForLock(c) PROVE IInv'
  BY <1>2, SendKeeps DEF AskForLock
<1>3. ASSUME NEW c \in Kextutils, FinishLoading(c) PROVE IInv'
  BY <1>3, SendKeeps DEF FinishLoading
<1>4. ASSUME NEW c \in Kextutils, Die(c) PROVE IInv'
  BY <1>4, DieKeeps
<1>5. CASE ServePort
  BY <1>5, LockKextloadKeeps, UnlockKextloadKeeps, PingServedKeeps DEF ServePort
<1>6. CASE CopyKernelRequests
  <2>1. status' \in [Ids -> Statuses]
    BY <1>6, MoveType DEF CopyKernelRequests, TypeOK, Statuses
  <2>2. MailFits' /\ LockFits' /\ HolderIsKnown'
    BY <1>6, QuietKeeps DEF CopyKernelRequests, clientVars, runVars, lockVars, lifeVars
  <2> QED
    BY <1>6, <2>1, <2>2 DEF CopyKernelRequests, TypeOK, Statuses, clientVars, runVars, lockVars,
                            signalVars, lifeVars
<1>7. ASSUME NEW i \in Ids, ServeRequest(i) PROVE IInv'
  <2>1. MailFits' /\ LockFits' /\ HolderIsKnown'
    BY <1>7, QuietKeeps DEF ServeRequest, clientVars, runVars, lockVars, lifeVars
  <2> QED
    BY <1>7, <2>1 DEF ServeRequest, TypeOK, clientVars, runVars, lockVars, signalVars, lifeVars
<1>8. CASE FinishRequests
  BY <1>8, FinishRequestsKeeps
<1>9. ASSUME NEW s \in Signals,
             \/ SignalSent(s)
             \/ KextcacheForked
             \/ KextcacheEnds
      PROVE  IInv'
  <2>1. MailFits' /\ LockFits' /\ HolderIsKnown'
    BY <1>9, QuietKeeps
       DEF SignalSent, KextcacheForked, KextcacheEnds, clientVars, runVars, lockVars, lifeVars
  <2>2. /\ signalPort' \in Signals \cup {None} /\ children' \in Nat /\ zombies' \in Nat
        /\ unheeded' \subseteq Signals /\ missed' \subseteq Signals /\ events' \in 0..MaxEvents
    <3>1. CASE SignalSent(s)
      BY <3>1, RequestsAssumption DEF SignalSent, Signal, TypeOK
    <3>2. CASE KextcacheForked
      BY <3>2, RequestsAssumption DEF KextcacheForked, TypeOK
    <3>3. CASE KextcacheEnds
      BY <3>3 DEF KextcacheEnds, Signal, Signals, TypeOK
    <3> QED
      BY <1>9, <3>1, <3>2, <3>3
  <2> QED
    BY <1>9, <2>1, <2>2 DEF SignalSent, KextcacheForked, KextcacheEnds, TypeOK,
                            clientVars, runVars, lockVars, lifeVars
<1>10. CASE HandleSignal
  <2>1. UNCHANGED <<inbox, events>> /\ replyTo = None
    BY <1>10 DEF HandleSignal, Idle, LockFits
  <2>2. CASE Going("stopped", status, replyTo)
    <3>1. status \in [Ids -> Statuses] /\ events' \in 0..MaxEvents
      BY <2>1 DEF TypeOK, Statuses
    <3> QED
      BY <2>1, <2>2, <3>1, GoingKeeps, RequestsAssumption
  <2>3. CASE ~Going("stopped", status, replyTo)
    <3>1. /\ signalPort' = None /\ zombies' \in Nat
          /\ unheeded' \subseteq Signals /\ missed' \subseteq Signals
          /\ UNCHANGED <<status, lockVars, runVars, clientVars, children, lifeVars>>
      BY <1>10, <2>3 DEF HandleSignal, Reap, TypeOK
    <3>2. MailFits' /\ LockFits' /\ HolderIsKnown'
      BY <2>1, <3>1, QuietKeeps DEF clientVars, runVars, lockVars, lifeVars
    <3> QED
      BY <2>1, <3>1, <3>2 DEF TypeOK, clientVars, runVars, lockVars, lifeVars
  <2> QED
    BY <2>2, <2>3
<1>11. CASE Crash
  <2>0. PICK c : c = replyTo
    OBVIOUS
  <2>1. c \in Kextutils => pc[c] \in {"unlocking", "dead"} /\ Mail(c)' = {}
    BY <1>11, <2>0, RequestsAssumption DEF Crash, MailFits, Mail
  <2>2. status \in [Ids -> Statuses] /\ events' \in 0..MaxEvents
    BY <1>11, RequestsAssumption DEF Crash, TypeOK, Statuses
  <2> QED
    BY <1>11, <2>0, <2>1, <2>2, GoingKeeps DEF Crash
<1>12. CASE Start
  <2>1. UNCHANGED <<status, lockVars, runVars, clientVars, signalVars, orphaned, events>>
        /\ daemon' = "up"
    BY <1>12 DEF Start
  <2>2. inbox' \in Seq(Message) /\ MailFits' /\ LockFits' /\ HolderIsKnown'
    <3>1. CASE UNCHANGED inbox
      BY <2>1, <3>1, QuietKeeps DEF TypeOK, clientVars, runVars, lockVars
    <3>2. CASE inbox' = Append(inbox, [op |-> "ping", from |-> None])
      BY <2>1, <3>2, PingKeeps DEF clientVars, runVars, lockVars
    <3> QED
      BY <1>12, <3>1, <3>2 DEF Start
  <2> QED
    BY <2>1, <2>2 DEF TypeOK, clientVars, runVars, lockVars, signalVars
<1> QED
  BY <1>1, <1>2, <1>3, <1>4, <1>5, <1>6, <1>7, <1>8, <1>9, <1>10, <1>11, <1>12,
     ClientDiedKeeps, SourceCancelledKeeps DEF Next, Kextutil, Process, Signals

\* The invariant is inductive.
LEMMA Inductive == IInv /\ [Next]_vars => IInv'
<1> SUFFICES ASSUME IInv, [Next]_vars PROVE IInv'
  OBVIOUS
<1>1. CASE Next
  BY <1>1, StepKeeps
<1>2. CASE UNCHANGED vars
  <2>1. UNCHANGED <<inbox, pc, replyTo, lock, cancelled, caller, orphaned>>
    BY <1>2 DEF vars, clientVars, runVars, lockVars, lifeVars
  <2> QED
    BY <1>2, <2>1, QuietKeeps
       DEF IInv, TypeOK, vars, clientVars, runVars, lockVars, signalVars, lifeVars
<1> QED
  BY <1>1, <1>2

THEOREM Invariance == Spec => []IInv
<1> QED
  BY InitIInv, Inductive, PTL DEF Spec

-----------------------------------------------------------------------------
(***************************************************************************)
(* The theorems.                                                           *)
(***************************************************************************)
\* The data of kextd, its clients and its port keep their types.
THEOREM TypeCorrect == Spec => []TypeOK
<1>1. IInv => TypeOK
  BY DEF IInv
<1> QED
  BY <1>1, Invariance, PTL

\* Whoever was told that it has the kextutil lock is the one kextd's source
\* watches, whatever clients and kextd died meanwhile.
THEOREM LockIsHeld == Spec => []HolderIsKnown
<1>1. IInv => HolderIsKnown
  BY DEF IInv
<1> QED
  BY <1>1, Invariance, PTL

\* kextd serves no request of the kernel while a kextutil loads.
THEOREM KernelIsHeldOff == Spec => []KernelWaits
<1>1. IInv => KernelWaits
  BY RequestsAssumption DEF IInv, HolderIsKnown, LockFits, KernelWaits, Processing
<1> QED
  BY <1>1, Invariance, PTL
=============================================================================
