----------------------------- MODULE Callbacks ------------------------------
(***************************************************************************)
(* System callbacks (Public/isyscallback.c) and the reaper that runs on    *)
(* them (Public/ireaper.c).  A client queues its work item with high or    *)
(* low priority; worker threads take the items and call back.  The reaper  *)
(* has one item of its own, and the flag Scheduled says that it is in use. *)
(*                                                                         *)
(* The thread pool is not part of the repository: a signal wakes one       *)
(* waiting worker, or the next that would wait.                            *)
(***************************************************************************)
EXTENDS Integers, Sequences, FiniteSets, SequencesExt

CONSTANTS
    Worker,        \* the threads of the pool
    WorkItem,      \* the items of the clients, SysCallbackGet
    Giver,         \* threads that call ReaperQueue
    Dying,         \* what they give to the reaper
    REAPER_THRESHOLD,
    MaxQueued,     \* bound: how often clients queue their items
    ReaperItem, NoItem

ASSUME CallbacksAssumption ==
    /\ REAPER_THRESHOLD \in Nat \ {0} /\ MaxQueued \in Nat
    /\ ReaperItem \notin WorkItem /\ NoItem \notin WorkItem \cup Dying \cup {ReaperItem}

VARIABLES
    HighPriQueue, LowPriQueue,
    signals,       \* ThreadPoolSignal calls nobody has woken up for
    worker,        \* where a worker is, and with which item
    client,        \* TRUE: an item is queued and the signal not yet given
    giver,         \* where such a thread is
    Queue,         \* the reaper's queue
    Scheduled,
    reaping,       \* what each worker is just destroying
    reaped,        \* what has been destroyed
    queuedCount, up

cbVars == <<HighPriQueue, LowPriQueue, signals, worker, client, giver, Queue, Scheduled,
            reaping, reaped, queuedCount, up>>
queueVars == <<HighPriQueue, LowPriQueue>>
reapVars == <<Queue, Scheduled, reaping, reaped>>

InQueue(i) == i \in Range(HighPriQueue \o LowPriQueue)

-----------------------------------------------------------------------------
(* SysCallbackQueue: into the queue, then the signal *)

(* A client queues its item when it is in no queue.                        *)
SysCallbackQueue(i, HighPriority) ==
    /\ up /\ ~client[i] /\ ~InQueue(i) /\ queuedCount < MaxQueued
    /\ queuedCount' = queuedCount + 1
    /\ IF HighPriority THEN HighPriQueue' = Append(HighPriQueue, i) /\ UNCHANGED LowPriQueue
       ELSE LowPriQueue' = Append(LowPriQueue, i) /\ UNCHANGED HighPriQueue
    /\ client' = [client EXCEPT ![i] = TRUE]
    /\ UNCHANGED <<signals, worker, giver, reapVars, up>>
Signal(i) ==
    /\ client[i] /\ client' = [client EXCEPT ![i] = FALSE] /\ signals' = signals + 1
    /\ UNCHANGED <<queueVars, worker, giver, reapVars, queuedCount, up>>

-----------------------------------------------------------------------------
(* _SysCallbackWrapper: the high priority queue, then the low, until both are empty *)

At(w) == worker[w].at
Goto(w, at, i) == worker' = [worker EXCEPT ![w] = [at |-> at, item |-> i]]

Wake(w) ==
    /\ up /\ At(w) = "wait" /\ signals > 0
    /\ signals' = signals - 1 /\ Goto(w, "high", NoItem)
    /\ UNCHANGED <<queueVars, client, giver, reapVars, queuedCount, up>>
TakeHigh(w) ==
    /\ At(w) = "high"
    /\ IF HighPriQueue = << >> THEN Goto(w, "low", NoItem) /\ UNCHANGED HighPriQueue
       ELSE Goto(w, "run", Head(HighPriQueue)) /\ HighPriQueue' = Tail(HighPriQueue)
    /\ UNCHANGED <<LowPriQueue, signals, client, giver, reapVars, queuedCount, up>>

TakeLow(w) ==
    /\ At(w) = "low"
    /\ IF LowPriQueue = << >> THEN Goto(w, "wait", NoItem) /\ UNCHANGED LowPriQueue
       ELSE Goto(w, "run", Head(LowPriQueue)) /\ LowPriQueue' = Tail(LowPriQueue)
    /\ UNCHANGED <<HighPriQueue, signals, client, giver, reapVars, queuedCount, up>>
CallBack(w) ==
    /\ At(w) = "run" /\ worker[w].item # ReaperItem
    /\ Goto(w, "high", NoItem)
    /\ UNCHANGED <<queueVars, signals, client, giver, reapVars, queuedCount, up>>

-----------------------------------------------------------------------------
(* The reaper *)

(* ReaperQueue: the insertion under the lock, the exchange of Scheduled    *)
(* behind it, then SysCallbackQueue of the reaper's item.                  *)
ReaperQueue(c, o) ==
    /\ up /\ giver[c] = "idle"
    /\ o \notin Range(Queue) \cup reaped /\ \A w \in Worker : reaping[w] # o
    /\ Queue' = Append(Queue, o)
    /\ giver' = [giver EXCEPT ![c] = IF Len(Queue') >= REAPER_THRESHOLD THEN "exchange" ELSE "idle"]
    /\ UNCHANGED <<queueVars, signals, worker, client, Scheduled, reaping, reaped, queuedCount, up>>
AtomicExchange(c) ==
    /\ giver[c] = "exchange" /\ Scheduled' = 1
    /\ giver' = [giver EXCEPT ![c] = IF Scheduled = 0 THEN "queue" ELSE "idle"]
    /\ UNCHANGED <<queueVars, signals, worker, client, Queue, reaping, reaped, queuedCount, up>>
ReaperSchedule(c) ==
    /\ giver[c] = "queue" /\ LowPriQueue' = Append(LowPriQueue, ReaperItem)
    /\ giver' = [giver EXCEPT ![c] = "signal"]
    /\ UNCHANGED <<HighPriQueue, signals, worker, client, reapVars, queuedCount, up>>
ReaperSignal(c) ==
    /\ giver[c] = "signal" /\ signals' = signals + 1
    /\ giver' = [giver EXCEPT ![c] = "idle"]
    /\ UNCHANGED <<queueVars, worker, client, reapVars, queuedCount, up>>

(* ReaperCallback, ReaperDrain: the lock is let go for every destruction;  *)
(* the queue is found empty and Scheduled cleared under one lock.          *)
(* Mutant: the drain looks at the threshold too, the wrong way round.      *)
DrainsBelow(w) ==
    /\ At(w) = "run" /\ worker[w].item = ReaperItem /\ reaping[w] = NoItem
    /\ Queue # << >> /\ Len(Queue) < REAPER_THRESHOLD
    /\ reaping' = [reaping EXCEPT ![w] = Head(Queue)] /\ Queue' = Tail(Queue)
    /\ UNCHANGED <<queueVars, signals, worker, client, giver, Scheduled, reaped, queuedCount, up>>
DrainOne(w) ==
    /\ At(w) = "run" /\ worker[w].item = ReaperItem /\ reaping[w] = NoItem /\ Queue # << >>
    /\ reaping' = [reaping EXCEPT ![w] = Head(Queue)] /\ Queue' = Tail(Queue)
    /\ UNCHANGED <<queueVars, signals, worker, client, giver, Scheduled, reaped, queuedCount, up>>
Reap(w) ==
    /\ reaping[w] # NoItem
    /\ reaped' = reaped \cup {reaping[w]} /\ reaping' = [reaping EXCEPT ![w] = NoItem]
    /\ UNCHANGED <<queueVars, signals, worker, client, giver, Queue, Scheduled, queuedCount, up>>

(* Mutant: Scheduled is cleared before the last object is destroyed.       *)
DrainEndsEarly(w) ==
    /\ At(w) = "run" /\ worker[w].item = ReaperItem /\ Len(Queue) < REAPER_THRESHOLD /\ Scheduled = 1
    /\ Scheduled' = 0
    /\ IF Queue = << >> /\ reaping[w] = NoItem THEN Goto(w, "high", NoItem) ELSE UNCHANGED worker
    /\ UNCHANGED <<queueVars, signals, client, giver, Queue, reaping, reaped, queuedCount, up>>
DrainEnds(w) ==
    /\ At(w) = "run" /\ worker[w].item = ReaperItem /\ reaping[w] = NoItem /\ Queue = << >>
    /\ Scheduled' = 0 /\ Goto(w, "high", NoItem)
    /\ UNCHANGED <<queueVars, signals, client, giver, Queue, reaping, reaped, queuedCount, up>>

-----------------------------------------------------------------------------
(* ReaperDestroy and SysCallbackDestroy, at the end of everything: nobody  *)
(* calls any more.  The reaper's item is freed without a look at Scheduled,*)
(* so the unload must not come while it is queued.                         *)
Destroy ==
    /\ up /\ \A w \in Worker : At(w) = "wait"
    /\ \A c \in Giver : giver[c] = "idle"
    /\ \A i \in WorkItem : ~client[i]
    /\ Scheduled = 0
    /\ reaped' = reaped \cup Range(Queue) /\ Queue' = << >>
    /\ HighPriQueue' = << >> /\ LowPriQueue' = << >> /\ up' = FALSE
    /\ UNCHANGED <<signals, worker, client, giver, Scheduled, reaping, queuedCount>>

(* SysCallbackInit, ReaperInit.                                            *)
CallbacksInit ==
    /\ HighPriQueue = << >> /\ LowPriQueue = << >> /\ signals = 0
    /\ worker = [w \in Worker |-> [at |-> "wait", item |-> NoItem]]
    /\ client = [i \in WorkItem |-> FALSE] /\ giver = [c \in Giver |-> "idle"]
    /\ Queue = << >> /\ Scheduled = 0 /\ reaping = [w \in Worker |-> NoItem] /\ reaped = {}
    /\ queuedCount = 0 /\ up = TRUE

WorkerStep(w) ==
    Wake(w) \/ TakeHigh(w) \/ TakeLow(w) \/ CallBack(w) \/ DrainOne(w) \/ Reap(w) \/ DrainEnds(w)
GiverStep(c) == AtomicExchange(c) \/ ReaperSchedule(c) \/ ReaperSignal(c)
CallbacksNext ==
    \/ \E w \in Worker : WorkerStep(w)
    \/ \E i \in WorkItem : Signal(i) \/ \E hi \in BOOLEAN : SysCallbackQueue(i, hi)
    \/ \E c \in Giver : GiverStep(c) \/ \E o \in Dying : ReaperQueue(c, o)
    \/ Destroy
(* Threads run; that a caller comes at all is not assumed.                 *)
CallbacksFairness ==
    /\ \A w \in Worker : WF_cbVars(WorkerStep(w))
    /\ \A i \in WorkItem : WF_cbVars(Signal(i))
    /\ \A c \in Giver : WF_cbVars(GiverStep(c))
CallbacksSpec == CallbacksInit /\ [][CallbacksNext]_cbVars /\ CallbacksFairness

-----------------------------------------------------------------------------
(* Properties *)

UsesItem == Cardinality({c \in Giver : giver[c] = "queue"})
            + Cardinality({k \in DOMAIN LowPriQueue : LowPriQueue[k] = ReaperItem})
            + Cardinality({w \in Worker : worker[w].item = ReaperItem})
(* Scheduled, exchanged outside the lock, says whether the reaper's only   *)
(* item is in use, so that it is never linked into a queue twice; a queue  *)
(* that has reached REAPER_THRESHOLD has somebody about to drain it; no    *)
(* item waits with all workers asleep and no signal left; and what is      *)
(* given to the reaper is destroyed before ReaperDestroy returns.          *)
WorkKept ==
    /\ UsesItem = Scheduled
    /\ \A i \in WorkItem : Cardinality({k \in DOMAIN (HighPriQueue \o LowPriQueue) :
                                          (HighPriQueue \o LowPriQueue)[k] = i}) <= 1
    /\ Len(Queue) >= REAPER_THRESHOLD => Scheduled = 1 \/ \E c \in Giver : giver[c] = "exchange"
    /\ up /\ HighPriQueue \o LowPriQueue # << >> /\ (\A w \in Worker : At(w) = "wait") =>
         signals > 0 \/ (\E i \in WorkItem : client[i]) \/ (\E c \in Giver : giver[c] = "signal")
    /\ ~up => Queue = << >> /\ \A w \in Worker : reaping[w] = NoItem

(* An item that is queued is called back, whatever its priority, unless    *)
(* the system goes down (isyscallback.c, _SysCallbackWrapper); and a       *)
(* reaper queue at the threshold falls below it.  High priority items do   *)
(* not come for ever.                                                      *)
WorkDone ==
    /\ \A i \in WorkItem : InQueue(i) ~> (~InQueue(i) \/ ~up)
    /\ (Len(Queue) >= REAPER_THRESHOLD) ~> (Len(Queue) < REAPER_THRESHOLD)
=============================================================================
