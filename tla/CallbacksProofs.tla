-------------------------- MODULE CallbacksProofs ---------------------------
(***************************************************************************)
(* WorkKept for any number of workers, items, givers and objects.  The     *)
(* inductive invariant WInv names the one place where the reaper's item is *)
(* while Scheduled is set, and, for each queue that is not empty, the one  *)
(* who will look into it.                                                  *)
(***************************************************************************)
EXTENDS Callbacks, FiniteSetTheorems, TLAPS

WorkerRec == [at : {"wait", "high", "low", "run"}, item : WorkItem \cup {ReaperItem, NoItem}]
CallbackTypes ==
    /\ HighPriQueue \in Seq(WorkItem) /\ LowPriQueue \in Seq(WorkItem \cup {ReaperItem})
    /\ signals \in Nat /\ worker \in [Worker -> WorkerRec] /\ client \in [WorkItem -> BOOLEAN]
    /\ giver \in [Giver -> {"idle", "exchange", "queue", "signal"}]
    /\ Queue \in Seq(Dying) /\ Scheduled \in {0, 1} /\ reaping \in [Worker -> Dying \cup {NoItem}]
    /\ queuedCount \in Nat /\ up \in BOOLEAN
(* A worker has an item while it runs it, the reaper's while it destroys.  *)
WorkersOK ==
    \A w \in Worker :
        /\ (At(w) = "run") = (worker[w].item # NoItem)
        /\ reaping[w] # NoItem => worker[w].item = ReaperItem

(* An item is at one place of one queue.                                   *)
OnceIn(q) == \A j, k \in DOMAIN q : q[j] = q[k] /\ q[j] \in WorkItem => j = k
Apart(p, q) == \A j \in DOMAIN p : \A k \in DOMAIN q : p[j] # q[k]
ItemsOnce == OnceIn(HighPriQueue) /\ OnceIn(LowPriQueue) /\ Apart(HighPriQueue, LowPriQueue)

(* Where the reaper's item is.                                             *)
NoGiverHas == \A c \in Giver : giver[c] # "queue"
NoQueueHas == \A k \in DOMAIN LowPriQueue : LowPriQueue[k] # ReaperItem
NoWorkerHas == \A w \in Worker : worker[w].item # ReaperItem
GiverHas == \E c \in Giver : giver[c] = "queue" /\ \A d \in Giver : giver[d] = "queue" => d = c
QueueHas == \E k \in DOMAIN LowPriQueue :
    LowPriQueue[k] = ReaperItem /\ \A j \in DOMAIN LowPriQueue : LowPriQueue[j] = ReaperItem => j = k
WorkerHas == \E w \in Worker :
    worker[w].item = ReaperItem /\ \A v \in Worker : worker[v].item = ReaperItem => v = w
ReaperItemOnce ==
    \/ Scheduled = 0 /\ NoGiverHas /\ NoQueueHas /\ NoWorkerHas
    \/ Scheduled = 1 /\ \/ GiverHas /\ NoQueueHas /\ NoWorkerHas
                        \/ NoGiverHas /\ QueueHas /\ NoWorkerHas
                        \/ NoGiverHas /\ NoQueueHas /\ WorkerHas

ReaperCalled ==
    Len(Queue) >= REAPER_THRESHOLD => Scheduled = 1 \/ \E c \in Giver : giver[c] = "exchange"
(* A worker that looked into the high priority queue may miss a new item,  *)
(* but not its signal.                                                     *)
HighSeen == HighPriQueue # << >> =>
    signals > 0 \/ (\E i \in WorkItem : client[i]) \/ \E w \in Worker : At(w) \in {"high", "run"}
LowSeen == LowPriQueue # << >> =>
    \/ signals > 0 \/ (\E i \in WorkItem : client[i]) \/ (\E c \in Giver : giver[c] = "signal")
    \/ \E w \in Worker : At(w) # "wait"
DownIsQuiet == ~up =>
    /\ Queue = << >> /\ HighPriQueue = << >> /\ LowPriQueue = << >>
    /\ \A w \in Worker : At(w) = "wait"
    /\ \A c \in Giver : giver[c] = "idle"
    /\ \A i \in WorkItem : ~client[i]

WInv == /\ CallbackTypes /\ WorkersOK /\ ItemsOnce /\ ReaperItemOnce
        /\ ReaperCalled /\ HighSeen /\ LowSeen /\ DownIsQuiet

-----------------------------------------------------------------------------
(* Operators *)

(* Append and Tail in terms of indices.                                    *)
LEMMA AppendAt ==
    ASSUME NEW S, NEW q \in Seq(S), NEW e \in S
    PROVE  /\ Append(q, e) \in Seq(S) /\ Append(q, e) # << >>
           /\ Len(q) \in Nat /\ DOMAIN q = 1..Len(q)
           /\ DOMAIN Append(q, e) = 1..(Len(q) + 1) /\ Len(Append(q, e)) = Len(q) + 1
           /\ Append(q, e)[Len(q) + 1] = e
           /\ \A k \in DOMAIN q : Append(q, e)[k] = q[k]
  OBVIOUS

LEMMA TailAt ==
    ASSUME NEW S, NEW q \in Seq(S), q # << >>
    PROVE  /\ Tail(q) \in Seq(S) /\ Head(q) = q[1] /\ Head(q) \in S
           /\ Len(q) \in Nat \ {0} /\ DOMAIN q = 1..Len(q)
           /\ DOMAIN Tail(q) = 1..(Len(q) - 1) /\ Len(Tail(q)) = Len(q) - 1
           /\ \A k \in 1..(Len(q) - 1) : Tail(q)[k] = q[k + 1]
  OBVIOUS

(* Items stay at one place.                                                *)
LEMMA TailOnce ==
    ASSUME NEW S, NEW q \in Seq(S), q # << >>, OnceIn(q)
    PROVE  OnceIn(Tail(q))
  BY TailAt DEF OnceIn

LEMMA AppendOnce ==
    ASSUME NEW S, NEW q \in Seq(S), NEW e \in S, OnceIn(q), \A k \in DOMAIN q : q[k] # e \/ e \notin WorkItem
    PROVE  OnceIn(Append(q, e))
  BY AppendAt DEF OnceIn

(* What InQueue(i) means for the two queues.                               *)
LEMMA NotInQueue ==
    ASSUME CallbackTypes, NEW i, ~InQueue(i)
    PROVE  /\ \A k \in DOMAIN HighPriQueue : HighPriQueue[k] # i
           /\ \A k \in DOMAIN LowPriQueue : LowPriQueue[k] # i
  <1> DEFINE hl == HighPriQueue \o LowPriQueue
  <1>1. /\ HighPriQueue \in Seq(WorkItem \cup {ReaperItem}) /\ LowPriQueue \in Seq(WorkItem \cup {ReaperItem})
        /\ Len(HighPriQueue) \in Nat /\ Len(LowPriQueue) \in Nat
        /\ DOMAIN HighPriQueue = 1..Len(HighPriQueue) /\ DOMAIN LowPriQueue = 1..Len(LowPriQueue)
    BY DEF CallbackTypes
  <1>2. \A k \in DOMAIN hl : hl[k] # i
    BY DEF InQueue, Range
  <1>3. /\ DOMAIN hl = 1..(Len(HighPriQueue) + Len(LowPriQueue))
        /\ \A k \in 1..Len(HighPriQueue) : hl[k] = HighPriQueue[k]
        /\ \A k \in 1..Len(LowPriQueue) : hl[Len(HighPriQueue) + k] = LowPriQueue[k]
    BY <1>1
  <1> HIDE DEF hl
  <1>4. \A k \in 1..Len(HighPriQueue) : k \in DOMAIN hl
    BY <1>1, <1>3
  <1>5. \A k \in 1..Len(LowPriQueue) : Len(HighPriQueue) + k \in DOMAIN hl
    BY <1>1, <1>3
  <1> QED BY <1>1, <1>2, <1>3, <1>4, <1>5

(* The same of the two queues.                                             *)
LEMMA HighTail ==
    ASSUME CallbackTypes, HighPriQueue # << >>
    PROVE  /\ Tail(HighPriQueue) \in Seq(WorkItem) /\ Head(HighPriQueue) \in WorkItem
           /\ DOMAIN Tail(HighPriQueue) \subseteq Nat
           /\ \A k \in DOMAIN Tail(HighPriQueue) :
                 k + 1 \in DOMAIN HighPriQueue /\ Tail(HighPriQueue)[k] = HighPriQueue[k + 1]
           /\ OnceIn(HighPriQueue) => OnceIn(Tail(HighPriQueue))
  <1>1. HighPriQueue \in Seq(WorkItem)
    BY DEF CallbackTypes
  <1> QED BY <1>1, TailAt, TailOnce
LEMMA LowTail ==
    ASSUME CallbackTypes, LowPriQueue # << >>
    PROVE  /\ Tail(LowPriQueue) \in Seq(WorkItem \cup {ReaperItem})
           /\ Head(LowPriQueue) \in WorkItem \cup {ReaperItem} /\ Head(LowPriQueue) = LowPriQueue[1]
           /\ Len(LowPriQueue) \in Nat \ {0} /\ DOMAIN LowPriQueue = 1..Len(LowPriQueue)
           /\ DOMAIN Tail(LowPriQueue) = 1..(Len(LowPriQueue) - 1)
           /\ \A k \in 1..(Len(LowPriQueue) - 1) : Tail(LowPriQueue)[k] = LowPriQueue[k + 1]
           /\ OnceIn(LowPriQueue) => OnceIn(Tail(LowPriQueue))
  <1>1. LowPriQueue \in Seq(WorkItem \cup {ReaperItem})
    BY DEF CallbackTypes
  <1> QED BY <1>1, TailAt, TailOnce

-----------------------------------------------------------------------------
(* The types *)

(* Every action keeps the types.                                           *)
LEMMA CallbackTypesKept == CallbackTypes /\ [CallbacksNext]_cbVars => CallbackTypes'
  <1> SUFFICES ASSUME CallbackTypes, [CallbacksNext]_cbVars PROVE CallbackTypes'
    OBVIOUS
  <1> USE DEF CallbackTypes, queueVars, reapVars
  <1>0. ASSUME NEW w \in Worker, NEW at \in {"wait", "high", "low", "run"},
               NEW i \in WorkItem \cup {ReaperItem, NoItem}, Goto(w, at, i)
        PROVE  worker' \in [Worker -> WorkerRec]
    BY <1>0 DEF Goto, WorkerRec
  <1>1. ASSUME NEW i \in WorkItem, NEW hi \in BOOLEAN, SysCallbackQueue(i, hi) PROVE CallbackTypes'
    <2>1. /\ Append(HighPriQueue, i) \in Seq(WorkItem)
          /\ Append(LowPriQueue, i) \in Seq(WorkItem \cup {ReaperItem})
      OBVIOUS
    <2>2. HighPriQueue' \in Seq(WorkItem) /\ LowPriQueue' \in Seq(WorkItem \cup {ReaperItem})
      BY <1>1, <2>1 DEF SysCallbackQueue
    <2>3. queuedCount' \in Nat /\ client' \in [WorkItem -> BOOLEAN]
      BY <1>1 DEF SysCallbackQueue
    <2> QED BY <1>1, <2>2, <2>3 DEF SysCallbackQueue
  <1>2. ASSUME NEW i \in WorkItem, Signal(i) PROVE CallbackTypes'
    BY <1>2 DEF Signal
  <1>3. ASSUME NEW w \in Worker, Wake(w) PROVE CallbackTypes'
    BY <1>0, <1>3 DEF Wake
  <1>4. ASSUME NEW w \in Worker, TakeHigh(w) PROVE CallbackTypes'
    <2>1. CASE HighPriQueue = << >>
      BY <1>0, <1>4, <2>1 DEF TakeHigh
    <2>2. CASE HighPriQueue # << >>
      <3>1. Tail(HighPriQueue) \in Seq(WorkItem) /\ Head(HighPriQueue) \in WorkItem
        BY <2>2, HighTail
      <3>2. worker' \in [Worker -> WorkerRec] /\ HighPriQueue' = Tail(HighPriQueue)
        BY <1>0, <1>4, <2>2, <3>1 DEF TakeHigh
      <3> QED BY <1>4, <3>1, <3>2 DEF TakeHigh
    <2> QED BY <2>1, <2>2
  <1>5. ASSUME NEW w \in Worker, TakeLow(w) PROVE CallbackTypes'
    <2>1. CASE LowPriQueue = << >>
      BY <1>0, <1>5, <2>1 DEF TakeLow
    <2>2. CASE LowPriQueue # << >>
      <3>1. /\ Tail(LowPriQueue) \in Seq(WorkItem \cup {ReaperItem})
            /\ Head(LowPriQueue) \in WorkItem \cup {ReaperItem}
        BY <2>2, LowTail
      <3>2. worker' \in [Worker -> WorkerRec] /\ LowPriQueue' = Tail(LowPriQueue)
        BY <1>0, <1>5, <2>2, <3>1 DEF TakeLow
      <3> QED BY <1>5, <3>1, <3>2 DEF TakeLow
    <2> QED BY <2>1, <2>2
  <1>6. ASSUME NEW w \in Worker, CallBack(w) PROVE CallbackTypes'
    BY <1>0, <1>6 DEF CallBack
  <1>7. ASSUME NEW c \in Giver, NEW o \in Dying, ReaperQueue(c, o) PROVE CallbackTypes'
    BY <1>7 DEF ReaperQueue
  <1>8. ASSUME NEW c \in Giver, AtomicExchange(c) PROVE CallbackTypes'
    BY <1>8 DEF AtomicExchange
  <1>9. ASSUME NEW c \in Giver, ReaperSchedule(c) PROVE CallbackTypes'
    BY <1>9, AppendAt DEF ReaperSchedule
  <1>10. ASSUME NEW c \in Giver, ReaperSignal(c) PROVE CallbackTypes'
    BY <1>10 DEF ReaperSignal
  <1>11. ASSUME NEW w \in Worker, DrainOne(w) PROVE CallbackTypes'
    BY <1>11, TailAt DEF DrainOne
  <1>12. ASSUME NEW w \in Worker, Reap(w) PROVE CallbackTypes'
    BY <1>12 DEF Reap
  <1>13. ASSUME NEW w \in Worker, DrainEnds(w) PROVE CallbackTypes'
    BY <1>0, <1>13 DEF DrainEnds
  <1>14. CASE Destroy
    <2>1. /\ << >> \in Seq(WorkItem) /\ << >> \in Seq(WorkItem \cup {ReaperItem}) /\ << >> \in Seq(Dying)
      OBVIOUS
    <2> QED BY <1>14, <2>1 DEF Destroy
  <1>15. CASE UNCHANGED cbVars
    BY <1>15 DEF cbVars
  <1> QED BY <1>1, <1>2, <1>3, <1>4, <1>5, <1>6, <1>7, <1>8, <1>9, <1>10, <1>11, <1>12, <1>13,
             <1>14, <1>15 DEF CallbacksNext, WorkerStep, GiverStep

-----------------------------------------------------------------------------
(* The workers *)

(* What a worker's move leaves alone.                                      *)
LEMMA GotoAt ==
    ASSUME CallbackTypes, NEW w \in Worker, NEW at, NEW i, Goto(w, at, i)
    PROVE  /\ At(w)' = at /\ worker'[w].item = i
           /\ \A v \in Worker : v # w => At(v)' = At(v) /\ worker'[v].item = worker[v].item
  BY DEF Goto, At, CallbackTypes, WorkerRec

(* Without a move of a worker, what is said of workers stays.              *)
LEMMA WorkersStay ==
    ASSUME UNCHANGED <<worker, reaping>>
    PROVE  WorkersOK => WorkersOK'
  BY DEF WorkersOK, At

(* A worker wakes up.                                                      *)
LEMMA WakeKeeps ==
    ASSUME WInv, CallbackTypes', NEW w \in Worker, Wake(w) PROVE WInv'
  <1> USE DEF queueVars, reapVars
  <1>1. CallbackTypes /\ Goto(w, "high", NoItem)
    BY DEF WInv, Wake
  <1>2. /\ At(w)' = "high" /\ worker'[w].item = NoItem
        /\ \A v \in Worker : v # w => At(v)' = At(v) /\ worker'[v].item = worker[v].item
    BY <1>1, GotoAt
  <1>3. worker[w].item = NoItem /\ At(w) = "wait" /\ up /\ up'
    BY <1>1 DEF WInv, WorkersOK, Wake, CallbackTypes
  <1>4. WorkersOK'
    BY <1>2, <1>3 DEF WInv, WorkersOK, Wake
  <1>5. ItemsOnce'
    BY DEF WInv, ItemsOnce, Wake
  <1>6. ReaperItemOnce'
    <2>1. NoGiverHas' = NoGiverHas /\ NoQueueHas' = NoQueueHas /\ GiverHas' = GiverHas /\ QueueHas' = QueueHas
      BY DEF Wake, NoGiverHas, NoQueueHas, GiverHas, QueueHas
    <2>2. \A v \in Worker : worker'[v].item = worker[v].item
      BY <1>2, <1>3
    <2>3. NoWorkerHas' = NoWorkerHas /\ WorkerHas' = WorkerHas
      BY <2>2 DEF NoWorkerHas, WorkerHas
    <2> QED BY <2>1, <2>3 DEF WInv, ReaperItemOnce, Wake
  <1>7. ReaperCalled' /\ HighSeen' /\ LowSeen' /\ DownIsQuiet'
    BY <1>2, <1>3 DEF WInv, ReaperCalled, HighSeen, LowSeen, DownIsQuiet, Wake
  <1> QED BY <1>4, <1>5, <1>6, <1>7 DEF WInv

(* A worker looks into the high priority queue.                            *)
LEMMA TakeHighKeeps ==
    ASSUME WInv, CallbackTypes', NEW w \in Worker, TakeHigh(w) PROVE WInv'
  <1> USE CallbacksAssumption DEF queueVars, reapVars
  <1>1. CallbackTypes /\ At(w) = "high" /\ worker[w].item = NoItem /\ up /\ up'
    BY DEF WInv, TakeHigh, WorkersOK, DownIsQuiet, CallbackTypes
  <1>2. PICK at, i : /\ Goto(w, at, i) /\ at \in {"low", "run"} /\ (at = "run") = (i # NoItem) /\ i # ReaperItem
                     /\ at = "low" => HighPriQueue = << >>
    <2>1. CASE HighPriQueue = << >>
      BY <2>1 DEF TakeHigh
    <2>2. CASE HighPriQueue # << >>
      <3>1. Goto(w, "run", Head(HighPriQueue))
        BY <2>2 DEF TakeHigh
      <3>2. Head(HighPriQueue) \in WorkItem
        BY <1>1, <2>2, HighTail
      <3> QED BY <3>1, <3>2
    <2> QED BY <2>1, <2>2
  <1>3. /\ At(w)' = at /\ worker'[w].item = i
        /\ \A v \in Worker : v # w => At(v)' = At(v) /\ worker'[v].item = worker[v].item
    BY <1>1, <1>2, GotoAt
  <1>4. WorkersOK'
    BY <1>1, <1>2, <1>3 DEF WInv, WorkersOK, TakeHigh
  <1>5. ItemsOnce'
    <2>1. CASE HighPriQueue = << >>
      BY <2>1 DEF WInv, ItemsOnce, TakeHigh
    <2>2. CASE HighPriQueue # << >>
      <3>1. OnceIn(HighPriQueue')
        BY <2>2, <1>1, HighTail DEF WInv, ItemsOnce, TakeHigh
      <3>2. Apart(HighPriQueue', LowPriQueue')
        BY <2>2, <1>1, HighTail DEF WInv, ItemsOnce, TakeHigh, Apart
      <3> QED BY <3>1, <3>2 DEF WInv, ItemsOnce, TakeHigh
    <2> QED BY <2>1, <2>2
  <1>6. ReaperItemOnce'
    <2>1. NoGiverHas' = NoGiverHas /\ NoQueueHas' = NoQueueHas /\ GiverHas' = GiverHas /\ QueueHas' = QueueHas
      BY DEF TakeHigh, NoGiverHas, NoQueueHas, GiverHas, QueueHas
    <2>2. \A v \in Worker : (worker'[v].item = ReaperItem) = (worker[v].item = ReaperItem)
      BY <1>1, <1>2, <1>3
    <2>3. NoWorkerHas' = NoWorkerHas /\ WorkerHas' = WorkerHas
      BY <2>2 DEF NoWorkerHas, WorkerHas
    <2> QED BY <2>1, <2>3 DEF WInv, ReaperItemOnce, TakeHigh
  <1>7. HighSeen'
    BY <1>2, <1>3 DEF HighSeen, TakeHigh
  <1>8. ReaperCalled' /\ LowSeen' /\ DownIsQuiet'
    BY <1>1, <1>2, <1>3 DEF WInv, ReaperCalled, LowSeen, DownIsQuiet, TakeHigh
  <1> QED BY <1>4, <1>5, <1>6, <1>7, <1>8 DEF WInv

(* A worker looks into the low priority queue, and may take the reaper's   *)
(* item.                                                                   *)
LEMMA TakeLowKeeps ==
    ASSUME WInv, CallbackTypes', NEW w \in Worker, TakeLow(w) PROVE WInv'
  <1> USE CallbacksAssumption DEF queueVars, reapVars
  <1>1. CallbackTypes /\ At(w) = "low" /\ worker[w].item = NoItem /\ up /\ up'
    BY DEF WInv, TakeLow, WorkersOK, DownIsQuiet, CallbackTypes
  <1>2. PICK at, i : /\ Goto(w, at, i) /\ at \in {"wait", "run"} /\ (at = "run") = (i # NoItem)
                     /\ at = "wait" => LowPriQueue = << >> /\ LowPriQueue' = << >>
                     /\ at = "run" => LowPriQueue # << >> /\ i = Head(LowPriQueue) /\ LowPriQueue' = Tail(LowPriQueue)
    <2>1. CASE LowPriQueue = << >>
      BY <2>1 DEF TakeLow
    <2>2. CASE LowPriQueue # << >>
      <3>1. Goto(w, "run", Head(LowPriQueue)) /\ LowPriQueue' = Tail(LowPriQueue)
        BY <2>2 DEF TakeLow
      <3>2. Head(LowPriQueue) \in WorkItem \cup {ReaperItem}
        BY <1>1, <2>2, LowTail
      <3> QED BY <2>2, <3>1, <3>2
    <2> QED BY <2>1, <2>2
  <1>3. /\ At(w)' = at /\ worker'[w].item = i
        /\ \A v \in Worker : v # w => At(v)' = At(v) /\ worker'[v].item = worker[v].item
    BY <1>1, <1>2, GotoAt
  <1>4. WorkersOK'
    BY <1>1, <1>2, <1>3 DEF WInv, WorkersOK, TakeLow
  <1>5. ItemsOnce'
    <2>1. CASE at = "wait"
      BY <1>2, <2>1 DEF WInv, ItemsOnce, TakeLow
    <2>2. CASE at = "run"
      <3>1. OnceIn(LowPriQueue')
        BY <1>2, <2>2, <1>1, LowTail DEF WInv, ItemsOnce
      <3>2. Apart(HighPriQueue', LowPriQueue')
        BY <1>2, <2>2, <1>1, LowTail DEF WInv, ItemsOnce, TakeLow, Apart
      <3> QED BY <3>1, <3>2 DEF WInv, ItemsOnce, TakeLow
    <2> QED BY <1>2, <2>1, <2>2
  <1>6. ReaperItemOnce'
    <2>1. NoGiverHas' = NoGiverHas /\ GiverHas' = GiverHas /\ Scheduled' = Scheduled
      BY DEF TakeLow, NoGiverHas, GiverHas
    <2>2. CASE at = "wait"
      <3>1. NoQueueHas' = NoQueueHas /\ QueueHas' = QueueHas
        BY <1>2, <2>2 DEF NoQueueHas, QueueHas
      <3>2. \A v \in Worker : (worker'[v].item = ReaperItem) = (worker[v].item = ReaperItem)
        BY <1>1, <1>2, <1>3, <2>2
      <3>3. NoWorkerHas' = NoWorkerHas /\ WorkerHas' = WorkerHas
        BY <3>2 DEF NoWorkerHas, WorkerHas
      <3> QED BY <2>1, <3>1, <3>3 DEF WInv, ReaperItemOnce
    <2>3. CASE at = "run" /\ i # ReaperItem
      <3> DEFINE q == LowPriQueue
      <3>0. /\ i = q[1] /\ Len(q) \in Nat \ {0} /\ DOMAIN q = 1..Len(q)
            /\ DOMAIN LowPriQueue' = 1..(Len(q) - 1) /\ \A k \in 1..(Len(q) - 1) : LowPriQueue'[k] = q[k + 1]
        BY <1>1, <1>2, <2>3, LowTail
      <3>1. NoQueueHas => NoQueueHas'
        BY <3>0 DEF NoQueueHas
      <3>2. QueueHas => QueueHas'
        <4> SUFFICES ASSUME QueueHas PROVE QueueHas'
          OBVIOUS
        <4>1. PICK k \in DOMAIN q : q[k] = ReaperItem /\ \A j \in DOMAIN q : q[j] = ReaperItem => j = k
          BY DEF QueueHas
        <4>2. k # 1 /\ k - 1 \in DOMAIN LowPriQueue' /\ LowPriQueue'[k - 1] = ReaperItem
          BY <2>3, <3>0, <4>1
        <4>3. \A j \in DOMAIN LowPriQueue' : LowPriQueue'[j] = ReaperItem => j = k - 1
          BY <3>0, <4>1
        <4> QED BY <4>2, <4>3 DEF QueueHas
      <3>3. \A v \in Worker : (worker'[v].item = ReaperItem) = (worker[v].item = ReaperItem)
        BY <1>1, <1>2, <1>3, <2>3
      <3>4. NoWorkerHas' = NoWorkerHas /\ WorkerHas' = WorkerHas
        BY <3>3 DEF NoWorkerHas, WorkerHas
      <3> QED BY <2>1, <3>1, <3>2, <3>4 DEF WInv, ReaperItemOnce
    <2>4. CASE at = "run" /\ i = ReaperItem
      <3> DEFINE q == LowPriQueue
      <3>0. /\ ReaperItem = q[1] /\ Len(q) \in Nat \ {0} /\ DOMAIN q = 1..Len(q)
            /\ DOMAIN LowPriQueue' = 1..(Len(q) - 1) /\ \A k \in 1..(Len(q) - 1) : LowPriQueue'[k] = q[k + 1]
        BY <1>1, <1>2, <2>4, LowTail
      <3>1. ~NoQueueHas
        BY <3>0 DEF NoQueueHas
      <3>2. Scheduled = 1 /\ NoGiverHas /\ QueueHas /\ NoWorkerHas
        BY <3>1 DEF WInv, ReaperItemOnce
      <3>3. PICK k \in DOMAIN q : \A j \in DOMAIN q : q[j] = ReaperItem => j = k
        BY <3>2 DEF QueueHas
      <3>4. NoQueueHas'
        BY <3>0, <3>3 DEF NoQueueHas
      <3>5. WorkerHas'
        BY <1>3, <2>4, <3>2 DEF NoWorkerHas, WorkerHas
      <3> QED BY <2>1, <3>2, <3>4, <3>5 DEF ReaperItemOnce
    <2> QED BY <1>2, <2>2, <2>3, <2>4
  <1>7. HighSeen'
    BY <1>1, <1>2, <1>3 DEF WInv, HighSeen, TakeLow
  <1>8. ReaperCalled' /\ LowSeen' /\ DownIsQuiet'
    BY <1>1, <1>2, <1>3 DEF WInv, ReaperCalled, LowSeen, DownIsQuiet, TakeLow
  <1> QED BY <1>4, <1>5, <1>6, <1>7, <1>8 DEF WInv

(* An item is called back.                                                 *)
LEMMA CallBackKeeps ==
    ASSUME WInv, CallbackTypes', NEW w \in Worker, CallBack(w) PROVE WInv'
  <1> USE CallbacksAssumption DEF queueVars, reapVars
  <1>1. CallbackTypes /\ At(w) = "run" /\ worker[w].item # ReaperItem /\ Goto(w, "high", NoItem) /\ up /\ up'
    BY DEF WInv, CallBack, WorkersOK, DownIsQuiet, CallbackTypes
  <1>2. /\ At(w)' = "high" /\ worker'[w].item = NoItem
        /\ \A v \in Worker : v # w => At(v)' = At(v) /\ worker'[v].item = worker[v].item
    BY <1>1, GotoAt
  <1>3. WorkersOK'
    BY <1>1, <1>2 DEF WInv, WorkersOK, CallBack
  <1>4. ItemsOnce'
    BY DEF WInv, ItemsOnce, CallBack
  <1>5. ReaperItemOnce'
    <2>1. NoGiverHas' = NoGiverHas /\ NoQueueHas' = NoQueueHas /\ GiverHas' = GiverHas /\ QueueHas' = QueueHas
      BY DEF CallBack, NoGiverHas, NoQueueHas, GiverHas, QueueHas
    <2>2. \A v \in Worker : (worker'[v].item = ReaperItem) = (worker[v].item = ReaperItem)
      BY <1>1, <1>2
    <2>3. NoWorkerHas' = NoWorkerHas /\ WorkerHas' = WorkerHas
      BY <2>2 DEF NoWorkerHas, WorkerHas
    <2> QED BY <2>1, <2>3 DEF WInv, ReaperItemOnce, CallBack
  <1>6. ReaperCalled' /\ HighSeen' /\ LowSeen' /\ DownIsQuiet'
    BY <1>1, <1>2 DEF WInv, ReaperCalled, HighSeen, LowSeen, DownIsQuiet, CallBack
  <1> QED BY <1>3, <1>4, <1>5, <1>6 DEF WInv

-----------------------------------------------------------------------------
(* The clients *)

(* A client queues an item that is in no queue.                            *)
LEMMA SysCallbackQueueKeeps ==
    ASSUME WInv, CallbackTypes', NEW i \in WorkItem, NEW hi \in BOOLEAN, SysCallbackQueue(i, hi)
    PROVE  WInv'
  <1> USE CallbacksAssumption DEF queueVars, reapVars
  <1>1. CallbackTypes /\ ~InQueue(i) /\ up /\ up'
    BY DEF WInv, SysCallbackQueue
  <1>2. client'[i] /\ UNCHANGED <<signals, worker, giver, Queue, Scheduled, reaping>>
    BY <1>1 DEF SysCallbackQueue, CallbackTypes
  <1>3. /\ \A k \in DOMAIN HighPriQueue : HighPriQueue[k] # i
        /\ \A k \in DOMAIN LowPriQueue : LowPriQueue[k] # i
    BY <1>1, NotInQueue
  <1>4. HighPriQueue \in Seq(WorkItem) /\ LowPriQueue \in Seq(WorkItem \cup {ReaperItem})
    BY <1>1 DEF CallbackTypes
  <1>5. ItemsOnce'
    <2>1. CASE hi
      <3> DEFINE q == Append(HighPriQueue, i)
      <3>1. HighPriQueue' = q /\ LowPriQueue' = LowPriQueue
        BY <2>1 DEF SysCallbackQueue
      <3>2. OnceIn(q)
        BY <1>3, <1>4, AppendOnce DEF WInv, ItemsOnce
      <3>3. \A k \in DOMAIN q : (k \in DOMAIN HighPriQueue /\ q[k] = HighPriQueue[k]) \/ q[k] = i
        BY <1>4, AppendAt
      <3> HIDE DEF q
      <3>4. Apart(q, LowPriQueue)
        BY <1>3, <3>3 DEF WInv, ItemsOnce, Apart
      <3> QED BY <3>1, <3>2, <3>4 DEF WInv, ItemsOnce
    <2>2. CASE ~hi
      <3> DEFINE q == Append(LowPriQueue, i)
      <3>1. LowPriQueue' = q /\ HighPriQueue' = HighPriQueue
        BY <2>2 DEF SysCallbackQueue
      <3>0. i \in WorkItem \cup {ReaperItem}
        OBVIOUS
      <3>2. OnceIn(q)
        BY <1>3, <1>4, <3>0, AppendOnce DEF WInv, ItemsOnce
      <3>3. \A k \in DOMAIN q : (k \in DOMAIN LowPriQueue /\ q[k] = LowPriQueue[k]) \/ q[k] = i
        BY <1>4, <3>0, AppendAt
      <3> HIDE DEF q
      <3>4. Apart(HighPriQueue, q)
        BY <1>3, <3>3 DEF WInv, ItemsOnce, Apart
      <3> QED BY <3>1, <3>2, <3>4 DEF WInv, ItemsOnce
    <2> QED BY <2>1, <2>2
  <1>6. ReaperItemOnce'
    <2>1. /\ NoGiverHas' = NoGiverHas /\ GiverHas' = GiverHas
          /\ NoWorkerHas' = NoWorkerHas /\ WorkerHas' = WorkerHas
      BY <1>2 DEF NoGiverHas, GiverHas, NoWorkerHas, WorkerHas
    <2>2. i \in WorkItem \cup {ReaperItem} /\ i # ReaperItem
      OBVIOUS
    <2>3. /\ DOMAIN LowPriQueue \subseteq DOMAIN LowPriQueue'
          /\ \A k \in DOMAIN LowPriQueue : LowPriQueue'[k] = LowPriQueue[k]
          /\ \A k \in DOMAIN LowPriQueue' : LowPriQueue'[k] = ReaperItem => k \in DOMAIN LowPriQueue
      <3>1. CASE hi
        BY <3>1 DEF SysCallbackQueue
      <3>2. CASE ~hi
        <4>1. LowPriQueue' = Append(LowPriQueue, i)
          BY <3>2 DEF SysCallbackQueue
        <4> QED BY <1>4, <2>2, <4>1, AppendAt
      <3> QED BY <3>1, <3>2
    <2>4. (NoQueueHas => NoQueueHas') /\ (QueueHas => QueueHas')
      BY <2>3 DEF NoQueueHas, QueueHas
    <2> QED BY <1>2, <2>1, <2>4 DEF WInv, ReaperItemOnce
  <1>7. WorkersOK' /\ ReaperCalled' /\ HighSeen' /\ LowSeen' /\ DownIsQuiet'
    BY <1>1, <1>2, WorkersStay DEF WInv, ReaperCalled, HighSeen, LowSeen, DownIsQuiet
  <1> QED BY <1>5, <1>6, <1>7 DEF WInv

(* What is left alone keeps ReaperItemOnce.                                *)
LEMMA ReaperItemStays ==
    ASSUME UNCHANGED <<LowPriQueue, worker, Scheduled>>,
           \A c \in Giver : (giver'[c] = "queue") = (giver[c] = "queue")
    PROVE  ReaperItemOnce => ReaperItemOnce'
  <1>1. /\ NoGiverHas' = NoGiverHas /\ GiverHas' = GiverHas
        /\ NoWorkerHas' = NoWorkerHas /\ WorkerHas' = WorkerHas
        /\ NoQueueHas' = NoQueueHas /\ QueueHas' = QueueHas
    BY DEF NoGiverHas, GiverHas, NoWorkerHas, WorkerHas, NoQueueHas, QueueHas
  <1> QED BY <1>1 DEF ReaperItemOnce

(* The signal of an item that was queued.                                  *)
LEMMA SignalKeeps ==
    ASSUME WInv, CallbackTypes', NEW i \in WorkItem, Signal(i) PROVE WInv'
  <1> USE DEF queueVars, reapVars
  <1>1. signals \in Nat /\ signals' = signals + 1 /\ up
        /\ UNCHANGED <<HighPriQueue, LowPriQueue, worker, giver, Queue, Scheduled, reaping, up>>
    BY DEF WInv, CallbackTypes, Signal, DownIsQuiet
  <1>2. WorkersOK' /\ ItemsOnce' /\ ReaperItemOnce'
    BY <1>1, WorkersStay, ReaperItemStays DEF WInv, ItemsOnce
  <1>3. ReaperCalled' /\ HighSeen' /\ LowSeen' /\ DownIsQuiet'
    BY <1>1 DEF WInv, ReaperCalled, HighSeen, LowSeen, DownIsQuiet
  <1> QED BY <1>2, <1>3 DEF WInv

-----------------------------------------------------------------------------
(* The reaper *)

(* Something is given to the reaper.                                       *)
LEMMA ReaperQueueKeeps ==
    ASSUME WInv, CallbackTypes', NEW c \in Giver, NEW o \in Dying, ReaperQueue(c, o) PROVE WInv'
  <1> USE CallbacksAssumption DEF queueVars
  <1>1. /\ CallbackTypes /\ up /\ up' /\ giver[c] = "idle"
        /\ giver'[c] = (IF Len(Queue') >= REAPER_THRESHOLD THEN "exchange" ELSE "idle")
        /\ \A d \in Giver : d # c => giver'[d] = giver[d]
        /\ UNCHANGED <<HighPriQueue, LowPriQueue, signals, worker, client, Scheduled, reaping>>
    BY DEF WInv, CallbackTypes, ReaperQueue
  <1>2. WorkersOK' /\ ItemsOnce'
    BY <1>1, WorkersStay DEF WInv, ItemsOnce
  <1>3. ReaperItemOnce'
    BY <1>1, ReaperItemStays DEF WInv
  <1>4. ReaperCalled'
    BY <1>1 DEF ReaperCalled
  <1>5. HighSeen' /\ LowSeen' /\ DownIsQuiet'
    BY <1>1 DEF WInv, HighSeen, LowSeen, DownIsQuiet, At
  <1> QED BY <1>2, <1>3, <1>4, <1>5 DEF WInv

(* The exchange of Scheduled: only one finds it clear.                     *)
LEMMA AtomicExchangeKeeps ==
    ASSUME WInv, CallbackTypes', NEW c \in Giver, AtomicExchange(c) PROVE WInv'
  <1> USE CallbacksAssumption DEF queueVars
  <1>1. /\ CallbackTypes /\ up /\ up' /\ giver[c] = "exchange" /\ Scheduled' = 1
        /\ giver'[c] = (IF Scheduled = 0 THEN "queue" ELSE "idle")
        /\ \A d \in Giver : d # c => giver'[d] = giver[d]
        /\ UNCHANGED <<HighPriQueue, LowPriQueue, signals, worker, client, Queue, reaping>>
    BY DEF WInv, CallbackTypes, AtomicExchange, DownIsQuiet
  <1>2. WorkersOK' /\ ItemsOnce'
    BY <1>1, WorkersStay DEF WInv, ItemsOnce
  <1>3. ReaperItemOnce'
    <2>1. CASE Scheduled = 0
      <3>1. NoGiverHas /\ NoQueueHas' /\ NoWorkerHas'
        BY <1>1, <2>1 DEF WInv, ReaperItemOnce, NoQueueHas, NoWorkerHas
      <3>2. GiverHas'
        BY <1>1, <2>1, <3>1 DEF NoGiverHas, GiverHas
      <3> QED BY <1>1, <3>1, <3>2 DEF ReaperItemOnce
    <2>2. CASE Scheduled = 1
      BY <1>1, <2>2, ReaperItemStays DEF WInv
    <2> QED BY <1>1, <2>1, <2>2 DEF CallbackTypes
  <1>4. ReaperCalled'
    BY <1>1 DEF ReaperCalled
  <1>5. HighSeen' /\ LowSeen' /\ DownIsQuiet'
    BY <1>1 DEF WInv, HighSeen, LowSeen, DownIsQuiet, At
  <1> QED BY <1>2, <1>3, <1>4, <1>5 DEF WInv

(* The reaper's item is queued by the only one who may.                    *)
LEMMA ReaperScheduleKeeps ==
    ASSUME WInv, CallbackTypes', NEW c \in Giver, ReaperSchedule(c) PROVE WInv'
  <1> USE CallbacksAssumption DEF reapVars
  <1>1. /\ CallbackTypes /\ up /\ up' /\ giver[c] = "queue" /\ giver'[c] = "signal"
        /\ \A d \in Giver : d # c => giver'[d] = giver[d]
        /\ LowPriQueue' = Append(LowPriQueue, ReaperItem)
        /\ UNCHANGED <<HighPriQueue, signals, worker, client, Queue, Scheduled, reaping>>
    BY DEF WInv, CallbackTypes, ReaperSchedule, DownIsQuiet
  <1> DEFINE n == Len(LowPriQueue) + 1
  <1>2. /\ n \in DOMAIN LowPriQueue' /\ LowPriQueue'[n] = ReaperItem
        /\ \A k \in DOMAIN LowPriQueue' : k = n \/ (k \in DOMAIN LowPriQueue /\ LowPriQueue'[k] = LowPriQueue[k])
    <2>1. LowPriQueue \in Seq(WorkItem \cup {ReaperItem}) /\ ReaperItem \in WorkItem \cup {ReaperItem}
      BY <1>1 DEF CallbackTypes
    <2> QED BY <1>1, <2>1, AppendAt
  <1> HIDE DEF n
  <1>3. ItemsOnce'
    <2>1. OnceIn(LowPriQueue')
      BY <1>1, <1>2 DEF WInv, ItemsOnce, OnceIn
    <2>2. \A k \in DOMAIN HighPriQueue : HighPriQueue[k] # ReaperItem
      BY <1>1 DEF CallbackTypes
    <2>3. Apart(HighPriQueue', LowPriQueue')
      BY <1>1, <1>2, <2>2 DEF WInv, ItemsOnce, Apart
    <2> QED BY <1>1, <2>1, <2>3 DEF WInv, ItemsOnce
  <1>4. ReaperItemOnce'
    <2>1. Scheduled = 1 /\ GiverHas /\ NoQueueHas /\ NoWorkerHas
      BY <1>1 DEF WInv, ReaperItemOnce, NoGiverHas
    <2>2. NoGiverHas'
      BY <1>1, <2>1 DEF GiverHas, NoGiverHas
    <2>3. QueueHas'
      BY <1>2, <2>1 DEF NoQueueHas, QueueHas
    <2>4. NoWorkerHas'
      BY <1>1, <2>1 DEF NoWorkerHas
    <2> QED BY <1>1, <2>1, <2>2, <2>3, <2>4 DEF ReaperItemOnce
  <1>5. WorkersOK' /\ ReaperCalled'
    <2>1. \A d \in Giver : giver[d] = "exchange" => giver'[d] = "exchange"
      BY <1>1
    <2> QED BY <1>1, <2>1, WorkersStay DEF WInv, ReaperCalled
  <1>6. HighSeen' /\ LowSeen' /\ DownIsQuiet'
    BY <1>1 DEF WInv, HighSeen, LowSeen, DownIsQuiet, At
  <1> QED BY <1>3, <1>4, <1>5, <1>6 DEF WInv

(* Its signal.                                                             *)
LEMMA ReaperSignalKeeps ==
    ASSUME WInv, CallbackTypes', NEW c \in Giver, ReaperSignal(c) PROVE WInv'
  <1> USE DEF queueVars, reapVars
  <1>1. /\ signals \in Nat /\ signals' = signals + 1 /\ up /\ up' /\ giver[c] = "signal" /\ giver'[c] = "idle"
        /\ \A d \in Giver : d # c => giver'[d] = giver[d]
        /\ UNCHANGED <<HighPriQueue, LowPriQueue, worker, client, Queue, Scheduled, reaping>>
    BY DEF WInv, CallbackTypes, ReaperSignal, DownIsQuiet
  <1>2. WorkersOK' /\ ItemsOnce' /\ ReaperItemOnce'
    BY <1>1, WorkersStay, ReaperItemStays DEF WInv, ItemsOnce
  <1>3. \A d \in Giver : giver[d] = "exchange" => giver'[d] = "exchange"
    BY <1>1
  <1>4. ReaperCalled' /\ HighSeen' /\ LowSeen' /\ DownIsQuiet'
    BY <1>1, <1>3 DEF WInv, ReaperCalled, HighSeen, LowSeen, DownIsQuiet
  <1> QED BY <1>2, <1>4 DEF WInv

(* An object leaves the reaper's queue.                                    *)
LEMMA DrainOneKeeps ==
    ASSUME WInv, CallbackTypes', NEW w \in Worker, DrainOne(w) PROVE WInv'
  <1> USE CallbacksAssumption DEF queueVars
  <1>1. /\ CallbackTypes /\ At(w) = "run" /\ worker[w].item = ReaperItem /\ up /\ up'
        /\ \A v \in Worker : v # w => reaping'[v] = reaping[v]
        /\ UNCHANGED <<HighPriQueue, LowPriQueue, signals, worker, client, giver, Scheduled>>
    BY DEF WInv, CallbackTypes, DrainOne, DownIsQuiet
  <1>2. WorkersOK'
    BY <1>1 DEF WInv, WorkersOK, At
  <1>3. ItemsOnce' /\ ReaperItemOnce'
    BY <1>1, ReaperItemStays DEF WInv, ItemsOnce
  <1>4. Len(Queue') = Len(Queue) - 1 /\ Len(Queue) \in Nat
    BY <1>1, TailAt DEF DrainOne, CallbackTypes
  <1>5. ReaperCalled'
    BY <1>1, <1>4 DEF WInv, ReaperCalled
  <1>6. HighSeen' /\ LowSeen' /\ DownIsQuiet'
    BY <1>1 DEF WInv, HighSeen, LowSeen, DownIsQuiet, At
  <1> QED BY <1>2, <1>3, <1>5, <1>6 DEF WInv

(* It is destroyed.                                                        *)
LEMMA ReapKeeps ==
    ASSUME WInv, CallbackTypes', NEW w \in Worker, Reap(w) PROVE WInv'
  <1> USE DEF queueVars
  <1>1. /\ CallbackTypes /\ reaping'[w] = NoItem
        /\ \A v \in Worker : v # w => reaping'[v] = reaping[v]
        /\ UNCHANGED <<HighPriQueue, LowPriQueue, signals, worker, client, giver, Queue, Scheduled, up>>
    BY DEF WInv, CallbackTypes, Reap
  <1>2. WorkersOK'
    BY <1>1 DEF WInv, WorkersOK, At
  <1>3. ItemsOnce' /\ ReaperItemOnce'
    BY <1>1, ReaperItemStays DEF WInv, ItemsOnce
  <1>4. ReaperCalled' /\ HighSeen' /\ LowSeen' /\ DownIsQuiet'
    BY <1>1 DEF WInv, ReaperCalled, HighSeen, LowSeen, DownIsQuiet, At
  <1> QED BY <1>2, <1>3, <1>4 DEF WInv

(* The queue is found empty, and the item is free again.                   *)
LEMMA DrainEndsKeeps ==
    ASSUME WInv, CallbackTypes', NEW w \in Worker, DrainEnds(w) PROVE WInv'
  <1> USE CallbacksAssumption DEF queueVars
  <1>1. /\ CallbackTypes /\ At(w) = "run" /\ worker[w].item = ReaperItem /\ up /\ up' /\ Queue = << >>
        /\ reaping[w] = NoItem /\ Scheduled' = 0 /\ Goto(w, "high", NoItem)
        /\ UNCHANGED <<HighPriQueue, LowPriQueue, signals, client, giver, Queue, reaping>>
    BY DEF WInv, CallbackTypes, DrainEnds, DownIsQuiet
  <1>2. /\ At(w)' = "high" /\ worker'[w].item = NoItem
        /\ \A v \in Worker : v # w => At(v)' = At(v) /\ worker'[v].item = worker[v].item
    BY <1>1, GotoAt
  <1>3. WorkersOK'
    BY <1>1, <1>2 DEF WInv, WorkersOK
  <1>4. ItemsOnce'
    BY <1>1 DEF WInv, ItemsOnce
  <1>5. ReaperItemOnce'
    <2>1. NoGiverHas /\ NoQueueHas /\ WorkerHas
      BY <1>1 DEF WInv, ReaperItemOnce, NoWorkerHas
    <2>2. NoWorkerHas'
      BY <1>1, <1>2, <2>1 DEF WorkerHas, NoWorkerHas
    <2>3. NoGiverHas' /\ NoQueueHas'
      BY <1>1, <2>1 DEF NoGiverHas, NoQueueHas
    <2> QED BY <1>1, <2>2, <2>3 DEF ReaperItemOnce
  <1>6. Len(Queue') = 0
    BY <1>1
  <1>7. ReaperCalled' /\ HighSeen' /\ LowSeen' /\ DownIsQuiet'
    BY <1>1, <1>2, <1>6 DEF WInv, ReaperCalled, HighSeen, LowSeen, DownIsQuiet
  <1> QED BY <1>3, <1>4, <1>5, <1>7 DEF WInv

(* The end of everything.                                                  *)
LEMMA DestroyKeeps == ASSUME WInv, CallbackTypes', Destroy PROVE WInv'
  <1> USE CallbacksAssumption
  <1>1. /\ CallbackTypes /\ Scheduled = 0 /\ Scheduled' = 0
        /\ Queue' = << >> /\ HighPriQueue' = << >> /\ LowPriQueue' = << >> /\ ~up'
        /\ \A w \in Worker : At(w) = "wait"
        /\ \A c \in Giver : giver[c] = "idle"
        /\ \A i \in WorkItem : ~client[i]
        /\ UNCHANGED <<worker, client, giver, reaping>>
    BY DEF WInv, Destroy
  <1>2. WorkersOK' /\ ItemsOnce'
    BY <1>1, WorkersStay DEF WInv, ItemsOnce, OnceIn, Apart
  <1>3. ReaperItemOnce'
    BY <1>1 DEF WInv, ReaperItemOnce, NoGiverHas, NoQueueHas, NoWorkerHas
  <1>4. Len(Queue') = 0
    BY <1>1
  <1>5. ReaperCalled' /\ HighSeen' /\ LowSeen' /\ DownIsQuiet'
    BY <1>1, <1>4 DEF ReaperCalled, HighSeen, LowSeen, DownIsQuiet, At
  <1> QED BY <1>2, <1>3, <1>5 DEF WInv

-----------------------------------------------------------------------------
(* WInv, and what follows *)

(* Nothing is queued at the start.                                         *)
LEMMA CallbacksInitInv == CallbacksInit => WInv
  <1> SUFFICES ASSUME CallbacksInit PROVE WInv
    OBVIOUS
  <1> USE CallbacksAssumption DEF CallbacksInit
  <1>1. CallbackTypes
    BY DEF CallbackTypes, WorkerRec
  <1>2. WorkersOK /\ ItemsOnce
    BY DEF WorkersOK, At, ItemsOnce, OnceIn, Apart
  <1>3. ReaperItemOnce
    BY DEF ReaperItemOnce, NoGiverHas, NoQueueHas, NoWorkerHas
  <1>4. Len(Queue) = 0
    OBVIOUS
  <1>5. ReaperCalled /\ HighSeen /\ LowSeen /\ DownIsQuiet
    BY <1>4 DEF ReaperCalled, HighSeen, LowSeen, DownIsQuiet
  <1> QED BY <1>1, <1>2, <1>3, <1>5 DEF WInv

(* WInv is inductive.                                                      *)
LEMMA CallbacksNextInv == WInv /\ [CallbacksNext]_cbVars => WInv'
  <1> SUFFICES ASSUME WInv, [CallbacksNext]_cbVars PROVE WInv'
    OBVIOUS
  <1> CallbackTypes'
    BY CallbackTypesKept DEF WInv
  <1>1. CASE UNCHANGED cbVars
    <2>1. UNCHANGED <<HighPriQueue, LowPriQueue, signals, worker, client, giver, Queue, Scheduled, reaping, up>>
      BY <1>1 DEF cbVars
    <2>2. WorkersOK' /\ ItemsOnce' /\ ReaperItemOnce'
      BY <2>1, WorkersStay, ReaperItemStays DEF WInv, ItemsOnce
    <2>3. ReaperCalled' /\ HighSeen' /\ LowSeen' /\ DownIsQuiet'
      BY <2>1 DEF WInv, ReaperCalled, HighSeen, LowSeen, DownIsQuiet, At
    <2> QED BY <2>2, <2>3 DEF WInv
  <1>2. ASSUME NEW w \in Worker, WorkerStep(w) PROVE WInv'
    BY <1>2, WakeKeeps, TakeHighKeeps, TakeLowKeeps, CallBackKeeps, DrainOneKeeps, ReapKeeps, DrainEndsKeeps
    DEF WorkerStep
  <1>3. ASSUME NEW c \in Giver, GiverStep(c) PROVE WInv'
    BY <1>3, AtomicExchangeKeeps, ReaperScheduleKeeps, ReaperSignalKeeps DEF GiverStep
  <1> QED BY <1>1, <1>2, <1>3, SysCallbackQueueKeeps, SignalKeeps, ReaperQueueKeeps, DestroyKeeps
          DEF CallbacksNext

(* A set with one member at most counts one at most.                       *)
LEMMA CountOfOne ==
    ASSUME NEW S
    PROVE  /\ S = {} => Cardinality(S) = 0
           /\ \A x : S = {x} => Cardinality(S) = 1
           /\ (\A x, y \in S : x = y) => Cardinality(S) \in {0, 1}
  <1>1. Cardinality({}) = 0
    BY FS_EmptySet
  <1>2. \A x : Cardinality({x}) = 1
    BY FS_Singleton
  <1>3. (\A x, y \in S : x = y) => S = {} \/ \E x : S = {x}
    OBVIOUS
  <1> QED BY <1>1, <1>2, <1>3

(* The reaper's item is used as often as Scheduled says.                   *)
LEMMA UsesAreScheduled == WInv => UsesItem = Scheduled
  <1> SUFFICES ASSUME WInv PROVE UsesItem = Scheduled
    OBVIOUS
  <1> DEFINE G == {c \in Giver : giver[c] = "queue"}
             K == {k \in DOMAIN LowPriQueue : LowPriQueue[k] = ReaperItem}
             W == {w \in Worker : worker[w].item = ReaperItem}
  <1>1. /\ (NoGiverHas => G = {}) /\ (GiverHas => \E x : G = {x})
        /\ (NoQueueHas => K = {}) /\ (QueueHas => \E x : K = {x})
        /\ (NoWorkerHas => W = {}) /\ (WorkerHas => \E x : W = {x})
    BY DEF NoGiverHas, GiverHas, NoQueueHas, QueueHas, NoWorkerHas, WorkerHas
  <1>2. UsesItem = Cardinality(G) + Cardinality(K) + Cardinality(W)
    BY DEF UsesItem
  <1> HIDE DEF G, K, W
  <1>3. /\ NoGiverHas => Cardinality(G) = 0
        /\ NoQueueHas => Cardinality(K) = 0
        /\ NoWorkerHas => Cardinality(W) = 0
    BY <1>1, CountOfOne
  <1>4. /\ GiverHas => Cardinality(G) = 1
        /\ QueueHas => Cardinality(K) = 1
        /\ WorkerHas => Cardinality(W) = 1
    BY <1>1, CountOfOne
  <1> QED BY <1>2, <1>3, <1>4 DEF WInv, ReaperItemOnce

(* An item of a client is queued once.                                     *)
LEMMA QueuedOnce ==
    ASSUME WInv, NEW i \in WorkItem
    PROVE  Cardinality({k \in DOMAIN (HighPriQueue \o LowPriQueue) :
                          (HighPriQueue \o LowPriQueue)[k] = i}) <= 1
  <1> DEFINE hl == HighPriQueue \o LowPriQueue
             h == Len(HighPriQueue)
             S == {k \in DOMAIN hl : hl[k] = i}
  <1>1. /\ HighPriQueue \in Seq(WorkItem \cup {ReaperItem}) /\ LowPriQueue \in Seq(WorkItem \cup {ReaperItem})
        /\ h \in Nat /\ Len(LowPriQueue) \in Nat
        /\ DOMAIN HighPriQueue = 1..h /\ DOMAIN LowPriQueue = 1..Len(LowPriQueue)
    BY DEF WInv, CallbackTypes
  <1>2. /\ DOMAIN hl = 1..(h + Len(LowPriQueue))
        /\ \A k \in 1..h : hl[k] = HighPriQueue[k]
        /\ \A k \in (h + 1)..(h + Len(LowPriQueue)) : hl[k] = LowPriQueue[k - h]
    BY <1>1
  <1> HIDE DEF hl
  <1>3. ASSUME NEW k \in DOMAIN hl
        PROVE  \/ k \in 1..h
               \/ k \in (h + 1)..(h + Len(LowPriQueue)) /\ k - h \in 1..Len(LowPriQueue)
    <2>1. h \in Nat /\ Len(LowPriQueue) \in Nat /\ k \in 1..(h + Len(LowPriQueue))
      BY <1>1, <1>2
    <2> HIDE DEF h
    <2> QED BY <2>1
  <1>4. \A j, k \in S : j = k
    <2> HIDE DEF h
    <2> SUFFICES ASSUME NEW j \in DOMAIN hl, NEW k \in DOMAIN hl, hl[j] = i, hl[k] = i PROVE j = k
      OBVIOUS
    <2>1. CASE j \in 1..h /\ k \in 1..h
      BY <1>1, <1>2, <2>1 DEF WInv, ItemsOnce, OnceIn
    <2>2. CASE j \notin 1..h /\ k \notin 1..h
      <3>1. j - h \in DOMAIN LowPriQueue /\ k - h \in DOMAIN LowPriQueue
            /\ LowPriQueue[j - h] = i /\ LowPriQueue[k - h] = i
        BY <1>1, <1>2, <1>3, <2>2
      <3>2. j - h = k - h
        BY <3>1 DEF WInv, ItemsOnce, OnceIn
      <3> QED BY <1>1, <1>2, <3>2
    <2>3. CASE j \in 1..h /\ k \notin 1..h
      <3>1. k - h \in DOMAIN LowPriQueue /\ LowPriQueue[k - h] = i /\ HighPriQueue[j] = i
        BY <1>1, <1>2, <1>3, <2>3
      <3> QED BY <1>1, <2>3, <3>1 DEF WInv, ItemsOnce, Apart
    <2>4. CASE j \notin 1..h /\ k \in 1..h
      <3>1. j - h \in DOMAIN LowPriQueue /\ LowPriQueue[j - h] = i /\ HighPriQueue[k] = i
        BY <1>1, <1>2, <1>3, <2>4
      <3> QED BY <1>1, <2>4, <3>1 DEF WInv, ItemsOnce, Apart
    <2> QED BY <2>1, <2>2, <2>3, <2>4
  <1>5. Cardinality(S) \in {0, 1}
    BY <1>4, CountOfOne
  <1>6. Cardinality(S) <= 1
    BY <1>5
  <1> QED BY <1>6 DEF hl

(* WInv says what WorkKept does.                                           *)
LEMMA WInvImplies == WInv => WorkKept
  <1> SUFFICES ASSUME WInv PROVE WorkKept
    OBVIOUS
  <1>1. HighPriQueue \o LowPriQueue # << >> => HighPriQueue # << >> \/ LowPriQueue # << >>
    OBVIOUS
  <1>2. up /\ HighPriQueue \o LowPriQueue # << >> /\ (\A w \in Worker : At(w) = "wait") =>
         signals > 0 \/ (\E i \in WorkItem : client[i]) \/ (\E c \in Giver : giver[c] = "signal")
    BY <1>1 DEF WInv, HighSeen, LowSeen
  <1>3. ~up => Queue = << >> /\ \A w \in Worker : reaping[w] = NoItem
    BY CallbacksAssumption DEF WInv, DownIsQuiet, WorkersOK
  <1> QED BY <1>2, <1>3, UsesAreScheduled, QueuedOnce DEF WInv, WorkKept, ReaperCalled

(* The reaper's item is never queued twice, no item waits with everybody   *)
(* asleep, a reaper queue at its threshold has somebody to drain it, and   *)
(* nothing is left behind at the unload (isyscallback.c, ireaper.c).       *)
THEOREM WorkIsKept == CallbacksSpec => []WorkKept
  <1>1. CallbacksInit => WInv
    BY CallbacksInitInv
  <1>2. WInv /\ [CallbacksNext]_cbVars => WInv'
    BY CallbacksNextInv
  <1>3. WInv => WorkKept
    BY WInvImplies
  <1> QED BY <1>1, <1>2, <1>3, PTL DEF CallbacksSpec
=============================================================================
