-------------------------------- MODULE Rmpp --------------------------------
(***************************************************************************)
(* The reassembly of segmented MADs by the General Services Agent          *)
(* (Ibt/Gsa/gsasar2.c): a context per transaction collects the segments a  *)
(* remote sender transmits, grants it a window by ACKs, hands the whole    *)
(* list to the class manager, and waits in a TIMEWAIT state before it is   *)
(* freed.  Receive thread, timer callbacks and unload share a context      *)
(* through its reference count.  The sender is not in the repository       *)
(* (DoSARSend returns FCANCELED) and the timer service is not either: both *)
(* are modelled from their use.                                            *)
(***************************************************************************)
EXTENDS Integers, Sequences, FiniteSets, SequencesExt

CONSTANTS
    Ctx,         \* the GSA_SAR_CONTEXTs that memory allows for
    Tid,         \* transactions: TransactionID, MgmtClass and remote address
    MsgLen,      \* MsgLen[t]: payload of the response to transaction t
    LenKnown,    \* LenKnown[t]: the first segment states the whole payload
    DataSize,    \* rmppGsDataSize, the payload of a full segment
    RmppMaxReceive, RmppWindowSize, RmppWindowLowWater,
    Noise,       \* MADs that come from elsewhere at any time
    NoCtx        \* no context

ASSUME RmppAssumption ==
    /\ MsgLen \in [Tid -> Nat \ {0}] /\ LenKnown \in [Tid -> BOOLEAN]
    /\ DataSize \in Nat \ {0} /\ RmppMaxReceive \in Nat
    /\ RmppWindowSize \in Nat \ {0} /\ RmppWindowLowWater \in Nat
    /\ NoCtx \notin Ctx /\ {"no", "yes"} \cap Ctx = {} /\ NoCtx \notin {"no", "yes"}

VARIABLES
    sar,        \* sar[c]: the GSA_SAR_CONTEXT c
    recvList,   \* SARRecvList, the head first
    rmppNet,    \* the MADs that were sent; each may arrive late, often or never
    recv,       \* the receive thread: what it does, with which context and MAD
    sarUnload,  \* DestroySARContexts: "no", "yes" or the context it reaps
    noLock,     \* contexts whose Lock was destroyed, and whose timer was not yet
    dgrms,      \* datagrams taken from the receive pool and not yet put back
    given       \* the messages handed to class managers

rmppVars == <<sar, recvList, rmppNet, recv, sarUnload, noLock, dgrms, given>>

-----------------------------------------------------------------------------
(* MADs and contexts *)

SarState == {"FREE", "CREATED", "ACTIVE", "DONE", "TIMEWAIT", "TIMEWAIT_RECV", "DESTROY"}
RmppType == {"DATA", "ACK", "STOP", "ABORT"}
RmppMad == [type : RmppType, tid : Tid, seg : Nat, first : BOOLEAN, last : BOOLEAN,
            len : Nat,         \* PayloadLen, or NewWindowLast of an ACK
            valid : BOOLEAN]   \* RmppVersion and RmppStatus are legal
ASSUME NoiseAssumption == Noise \subseteq RmppMad

SarContext ==
    [state : SarState, tid : Tid \cup {NoCtx}, exp : Nat, wl : Nat, total : Nat,
     head : Seq(RmppMad),      \* RecvHead .. RecvTail
     ref : Nat,
     timer : BOOLEAN,          \* running
     cb : {"none", "fired", "lock", "remove", "put"},   \* its callback
     stopped : BOOLEAN,        \* TimerCallbackStopped
     reap : BOOLEAN]           \* queued to the reaper

FreeContext == [state |-> "FREE", tid |-> NoCtx, exp |-> 0, wl |-> 0, total |-> 0, head |-> <<>>,
                ref |-> 0, timer |-> FALSE, cb |-> "none", stopped |-> FALSE, reap |-> FALSE]

Segments(len) == (len + DataSize - 1) \div DataSize

(* The segments of the response to transaction t.                          *)
DataMad(t, s) ==
    LET n == Segments(MsgLen[t]) IN
    [type |-> "DATA", tid |-> t, seg |-> s, first |-> s = 1, last |-> s = n, valid |-> TRUE,
     len |-> IF s = n THEN MsgLen[t] - (n - 1) * DataSize
             ELSE IF s = 1 /\ LenKnown[t] THEN MsgLen[t] ELSE 0]

(* What the receiver answers; BuildRmppAck, BuildRmppStop, BuildRmppAbort. *)
Reply(type, t, s, l) == [type |-> type, tid |-> t, seg |-> s, first |-> FALSE, last |-> FALSE,
                         len |-> l, valid |-> TRUE]
BuildRmppAck(r) == {Reply("ACK", r.tid, r.exp - 1, r.wl)}
BuildRmppStop(t) == {Reply("STOP", t, 0, 0)}
BuildRmppAbort(t) == {Reply("ABORT", t, 0, 0)}

RmppMadCheck(m) ==
    /\ m.valid
    /\ m.type = "DATA" =>
         /\ m.seg # 0 /\ (m.seg = 1) = m.first
         /\ m.first /\ ~m.last => m.len = 0 \/ m.len > DataSize
         /\ m.last => m.len \in 1..DataSize
    /\ m.type # "DATA" => ~m.first /\ ~m.last
    /\ m.type = "ACK" => m.seg <= m.len

-----------------------------------------------------------------------------
(* Reference counts and timers *)

(* Mutant: the last reference goes without the reaper being told.          *)
DecrementLost(r) == [r EXCEPT !.ref = @ - 1]
DecrementSarContextUsageCount(r) == [r EXCEPT !.ref = @ - 1, !.reap = r.ref = 1]

StartSarContextTimer(r) == [r EXCEPT !.ref = @ + 1, !.timer = TRUE]

(* Mutant: the reference of an expired timer is given up by the stop too.  *)
StopAlways(r) ==
    [r EXCEPT !.timer = FALSE, !.stopped = ~r.timer, !.ref = @ - 1]
(* TimerStop and TimerExpired: a callback that has begun keeps the timer's *)
(* reference and will find itself stopped.                                 *)
StopSarContextTimer(r) ==
    IF r.timer THEN [DecrementSarContextUsageCount(r) EXCEPT !.timer = FALSE]
               ELSE [r EXCEPT !.stopped = TRUE]

SarContextTimerArmed(r) == r.state \in {"ACTIVE", "TIMEWAIT", "TIMEWAIT_RECV"}

-----------------------------------------------------------------------------
RmppReceiverDestroyContext(r) == [r EXCEPT !.state = "DESTROY", !.head = <<>>]

(* The receiver, given the context r and under its lock.  The outcome: the *)
(* context, the MADs sent, what becomes of the datagram, how many          *)
(* datagrams went back to the pool, and the message handed up.             *)

Outcome(r, sent, status, put, msg) ==
    [r |-> r, sent |-> sent, status |-> status, put |-> put, msg |-> msg]

RmppReceiverTerminate(r, newState) ==
    LET s == [r EXCEPT !.state = newState, !.head = <<>>] IN
    StartSarContextTimer(IF SarContextTimerArmed(r) THEN StopSarContextTimer(s) ELSE s)

(* Mutant: the datagram that ends the transaction is always rejected.      *)
TerminateRejects(r, sent, status) ==
    Outcome(RmppReceiverTerminate(r, "TIMEWAIT"), sent, "FREJECT", Len(r.head), {})
(* sent and status of a MAD that ends the transaction; RmppReceiverTerminate *)
(* puts the whole list back.                                               *)
Terminate(r, sent, status) ==
    Outcome(RmppReceiverTerminate(r, "TIMEWAIT"), sent, status, Len(r.head), {})
Discard(r, sent) == Outcome(r, sent, "FREJECT", 0, {})

(* Mutant: the payload counts the last segment as a full one.              *)
GotLastFull(r, m) ==
    LET done == StopSarContextTimer([r EXCEPT !.state = "DONE", !.head = <<>>]) IN
    Outcome(RmppReceiverTerminate(done, "TIMEWAIT_RECV"), BuildRmppAck(r), "FCOMPLETED", 0,
            {[mads |-> r.head, len |-> m.seg * DataSize]})
RmppReceiverGotLast(r, m) ==
    IF r.total # 0 /\ m.seg # r.total
    THEN Terminate(r, BuildRmppAbort(m.tid), "FPENDING")
    ELSE LET done == StopSarContextTimer([r EXCEPT !.state = "DONE", !.head = <<>>]) IN
         Outcome(RmppReceiverTerminate(done, "TIMEWAIT_RECV"), BuildRmppAck(r), "FCOMPLETED", 0,
                 {[mads |-> r.head, len |-> (m.seg - 1) * DataSize + m.len]})

(* Mutant: the window may pass the last segment.                           *)
AckPastTheEnd(r) ==
    IF r.exp > r.wl \/ r.wl - (r.exp - 1) >= RmppWindowLowWater
    THEN LET s == [r EXCEPT !.wl = r.exp + RmppWindowSize - 1] IN
         Outcome(s, BuildRmppAck(s), "FPENDING", 0, {})
    ELSE Outcome(r, {}, "FPENDING", 0, {})
RmppReceiverSendAckIfNeeded(r) ==
    IF r.exp > r.wl \/ r.wl - (r.exp - 1) >= RmppWindowLowWater
    THEN LET w == r.exp + RmppWindowSize - 1
             s == [r EXCEPT !.wl = IF r.total # 0 /\ w > r.total THEN r.total ELSE w]
         IN Outcome(s, BuildRmppAck(s), "FPENDING", 0, {})
    ELSE Outcome(r, {}, "FPENDING", 0, {})

(* Mutant: a segment that should be the last one is not noticed.           *)
AcceptedUnchecked(r, m) ==
    LET s == IF m.seg = 1
             THEN StartSarContextTimer([r EXCEPT !.total = Segments(m.len), !.state = "ACTIVE",
                                                 !.head = <<m>>, !.exp = 2])
             ELSE [r EXCEPT !.head = Append(@, m), !.exp = @ + 1]
    IN IF m.last THEN RmppReceiverGotLast(s, m) ELSE RmppReceiverSendAckIfNeeded(s)
(* The segment that was expected.                                          *)
Accepted(r, m) ==
    LET s == IF m.seg = 1
             THEN StartSarContextTimer([r EXCEPT !.total = Segments(m.len), !.state = "ACTIVE",
                                                 !.head = <<m>>, !.exp = 2])
             ELSE [r EXCEPT !.head = Append(@, m), !.exp = @ + 1]
    IN IF m.last THEN RmppReceiverGotLast(s, m)
       ELSE IF s.total # 0 /\ s.exp > s.total
       THEN Terminate(s, BuildRmppAbort(m.tid), "FPENDING")
       ELSE RmppReceiverSendAckIfNeeded(s)

RmppReceiverProcessRecv(r, m) ==
    IF ~RmppMadCheck(m) THEN Terminate(r, BuildRmppAbort(m.tid), "FREJECT")
    ELSE IF r.state = "TIMEWAIT" THEN Discard(r, {})
    ELSE IF m.type \in {"STOP", "ABORT"} THEN Terminate(r, {}, "FREJECT")
    ELSE IF r.state = "TIMEWAIT_RECV"
    THEN IF m.type = "DATA"
         THEN Discard(RmppReceiverTerminate(r, "TIMEWAIT_RECV"), BuildRmppAck(r))
         ELSE Terminate(r, BuildRmppAbort(m.tid), "FREJECT")
    ELSE IF m.type = "ACK" THEN Discard(r, {})
    ELSE IF m.seg # r.exp THEN Discard(r, BuildRmppAck(r))
    ELSE Accepted(r, m)

-----------------------------------------------------------------------------
(* The receive thread *)

SarIdle == [pc |-> "idle", ctx |-> NoCtx, mad |-> NoCtx]

(* The context keeps the outcome; the datagram goes where status says.     *)
Apply(c, o, m) ==
    /\ sar' = [sar EXCEPT ![c] = o.r]
    /\ rmppNet' = rmppNet \cup o.sent
    /\ dgrms' = dgrms - o.put - (CASE o.status = "FREJECT" -> 1
                                   [] o.status = "FPENDING" -> 0
                                   [] o.status = "FCOMPLETED" -> Len(sar[c].head) + 1)
    /\ given' = given \cup {[tid |-> m.tid, mads |-> g.mads, len |-> g.len] : g \in o.msg}
    /\ recv' = [pc |-> "put", ctx |-> c, mad |-> NoCtx]

(* FindSarContext under the list lock: the context is referenced.          *)
FindSarContext(m) ==
    /\ recv.pc = "idle" /\ sarUnload = "no"
    /\ \E i \in DOMAIN recvList :
         /\ sar[recvList[i]].tid = m.tid
         /\ \A j \in 1..(i - 1) : sar[recvList[j]].tid # m.tid
         /\ sar' = [sar EXCEPT ![recvList[i]].ref = @ + 1]
         /\ recv' = [pc |-> "lock", ctx |-> recvList[i], mad |-> m]
    /\ dgrms' = dgrms + 1
    /\ UNCHANGED <<recvList, rmppNet, sarUnload, noLock, given>>

(* The thread has the context's lock, and the context is alive.            *)
ReceiverHasLock ==
    /\ recv.pc = "lock" /\ sar[recv.ctx].state # "DESTROY"
    /\ Apply(recv.ctx, RmppReceiverProcessRecv(sar[recv.ctx], recv.mad), recv.mad)
    /\ UNCHANGED <<recvList, sarUnload, noLock>>

(* FindSarContext finds the context being destroyed: as if there were none. *)
FoundDestroyed ==
    /\ recv.pc = "lock" /\ sar[recv.ctx].state = "DESTROY"
    /\ sar' = [sar EXCEPT ![recv.ctx] = DecrementSarContextUsageCount(@)]
    /\ recv' = [pc |-> "notfound", ctx |-> NoCtx, mad |-> recv.mad]
    /\ UNCHANGED <<recvList, rmppNet, sarUnload, noLock, dgrms, given>>

(* A first segment may start a transaction.                                *)
Acceptable(m) == m.valid /\ m.type = "DATA" /\ m.seg = 1 /\ m.len <= RmppMaxReceive

NotFound(m) ==
    /\ ~Acceptable(m) \/ \A c \in Ctx : sar[c].state # "FREE"
    /\ rmppNet' = rmppNet \cup (IF m.valid /\ m.type = "DATA" /\ m.seg = 1
                                THEN BuildRmppStop(m.tid) ELSE BuildRmppAbort(m.tid))
    /\ recv' = SarIdle
    /\ UNCHANGED <<sar, recvList, sarUnload, noLock, given>>

(* RmppReceiverCreateContext, then the first segment, under its lock.      *)
Created(m) == [FreeContext EXCEPT !.state = "CREATED", !.tid = m.tid, !.exp = 1, !.wl = 1,
                                  !.ref = 2]
RmppReceiverCreateContext(m) ==
    /\ Acceptable(m)
    /\ \E c \in Ctx :
         /\ sar[c].state = "FREE"
         /\ recvList' = <<c>> \o recvList
         /\ LET o == RmppReceiverProcessRecv(Created(m), m) IN
            /\ sar' = [sar EXCEPT ![c] = o.r]
            /\ rmppNet' = rmppNet \cup o.sent
            /\ given' = given \cup {[tid |-> m.tid, mads |-> g.mads, len |-> g.len] : g \in o.msg}
            /\ dgrms' = (IF recv.pc = "idle" THEN dgrms + 1 ELSE dgrms)
                        - o.put - (IF o.status = "FPENDING" THEN 0 ELSE 1)
            /\ recv' = [pc |-> "put", ctx |-> c, mad |-> NoCtx]
    /\ UNCHANGED <<sarUnload, noLock>>

(* The thread has found no context for the MAD, or one being destroyed.    *)
NewTransaction(m) ==
    /\ sarUnload = "no"
    /\ \/ recv.pc = "idle" /\ \A i \in DOMAIN recvList : sar[recvList[i]].tid # m.tid
       \/ recv.pc = "notfound" /\ recv.mad = m
    /\ \/ RmppReceiverCreateContext(m)
       \/ NotFound(m) /\ dgrms' = IF recv.pc = "idle" THEN dgrms ELSE dgrms - 1

(* ProcessSARRecvCompletion gives up its reference.                        *)
ReceiverDone ==
    /\ recv.pc = "put"
    /\ sar' = [sar EXCEPT ![recv.ctx] = DecrementSarContextUsageCount(@)]
    /\ recv' = SarIdle
    /\ UNCHANGED <<recvList, rmppNet, sarUnload, noLock, dgrms, given>>

-----------------------------------------------------------------------------
(* The timer callback, the reaper and sarUnload *)

(* The timer service calls back one callback of a timer at a time.         *)
SarTimerFires(c) ==
    /\ sar[c].timer /\ sar[c].cb = "none"
    /\ sar' = [sar EXCEPT ![c].timer = FALSE, ![c].cb = "fired", ![c].stopped = FALSE]
    /\ UNCHANGED <<recvList, rmppNet, recv, sarUnload, noLock, dgrms, given>>

(* RmppTimerCallback looks at the state before it has the lock.            *)
RmppTimerCallback(c) ==
    /\ sar[c].cb = "fired"
    /\ sar' = [sar EXCEPT ![c].cb = IF sar[c].state = "DESTROY" THEN "none" ELSE "lock"]
    /\ UNCHANGED <<recvList, rmppNet, recv, sarUnload, noLock, dgrms, given>>

RmppReceiverTimerCallback(c) ==
    /\ sar[c].cb = "lock"
    /\ IF sar[c].stopped \/ sar[c].state = "DESTROY"
       THEN sar' = [sar EXCEPT ![c].cb = "put"] /\ UNCHANGED <<rmppNet, dgrms>>
       ELSE /\ sar' = [sar EXCEPT ![c] = RmppReceiverDestroyContext([@ EXCEPT !.cb = "remove"])]
            /\ rmppNet' = rmppNet \cup IF sar[c].state = "ACTIVE" THEN BuildRmppAbort(sar[c].tid)
                                       ELSE {}
            /\ dgrms' = dgrms - Len(sar[c].head)
    /\ UNCHANGED <<recvList, recv, sarUnload, noLock, given>>

NotIn(c) == RemoveAt(recvList, CHOOSE i \in DOMAIN recvList : recvList[i] = c)

(* RemoveSARRecvListEntry: the reference of the list goes with the entry.  *)
RemoveSARRecvListEntry(c) ==
    /\ sar[c].cb = "remove"
    /\ recvList' = NotIn(c)
    /\ sar' = [sar EXCEPT ![c] = [DecrementSarContextUsageCount(@) EXCEPT !.cb = "put"]]
    /\ UNCHANGED <<rmppNet, recv, sarUnload, noLock, dgrms, given>>

SarCallbackDone(c) ==
    /\ sar[c].cb = "put"
    /\ sar' = [sar EXCEPT ![c] = [DecrementSarContextUsageCount(@) EXCEPT !.cb = "none"]]
    /\ UNCHANGED <<recvList, rmppNet, recv, sarUnload, noLock, dgrms, given>>

(* The reaper, or the unload, destroys the lock of a context it has: this  *)
(* does not wait for a callback.  A callback the unload overtook goes on   *)
(* without the lock (pthread_mutex_lock refuses a destroyed mutex, and     *)
(* SpinLockAcquire does not look at what it answers).                      *)
RmppReceiverReapContext(c) ==
    /\ sar[c].reap \/ sarUnload = c
    /\ c \notin noLock /\ noLock' = noLock \cup {c}
    /\ sar' = [sar EXCEPT ![c].head = <<>>]
    /\ dgrms' = dgrms - Len(sar[c].head)
    /\ UNCHANGED <<recvList, rmppNet, recv, sarUnload, given>>

(* TimerDestroy waits for a callback; then the context is freed.           *)
SarTimerDestroy(c) ==
    /\ c \in noLock /\ sar[c].cb = "none"
    /\ noLock' = noLock \ {c} /\ sar' = [sar EXCEPT ![c] = FreeContext]
    /\ sarUnload' = IF sarUnload = c THEN "yes" ELSE sarUnload
    /\ UNCHANGED <<recvList, rmppNet, recv, dgrms, given>>

(* GsaUnload: the classes are gone and nothing is received any more.       *)
GsaUnload ==
    /\ sarUnload = "no" /\ recv.pc = "idle" /\ sarUnload' = "yes"
    /\ UNCHANGED <<sar, recvList, rmppNet, recv, noLock, dgrms, given>>

(* DestroySARContexts takes the head of the list, unless a timer callback  *)
(* is destroying it: then it waits for that.                               *)
DestroySARContexts ==
    /\ sarUnload = "yes" /\ recvList # <<>>
    /\ LET c == Head(recvList)
           r == RmppReceiverDestroyContext([sar[c] EXCEPT !.ref = @ + 1])
       IN /\ sar[c].state # "DESTROY"
          /\ sar' = [sar EXCEPT ![c] = DecrementSarContextUsageCount(
                       IF SarContextTimerArmed(sar[c]) THEN StopSarContextTimer(r) ELSE r)]
          /\ recvList' = NotIn(c) /\ sarUnload' = c
          /\ dgrms' = dgrms - Len(sar[c].head)
    /\ UNCHANGED <<rmppNet, recv, noLock, given>>

-----------------------------------------------------------------------------
(* The remote sender: segments up to the window it was granted.            *)
SendSegment(t) ==
    /\ \E s \in 1..Segments(MsgLen[t]) :
         /\ DataMad(t, s) \notin rmppNet
         /\ s = 1 \/ \E a \in rmppNet : a.type = "ACK" /\ a.tid = t /\ s <= a.len
         /\ rmppNet' = rmppNet \cup {DataMad(t, s)}
    /\ UNCHANGED <<sar, recvList, recv, sarUnload, noLock, dgrms, given>>

Incoming == {m \in rmppNet : m.type = "DATA"} \cup Noise

RmppInit ==
    /\ sar = [c \in Ctx |-> FreeContext] /\ recvList = <<>> /\ rmppNet = {} /\ recv = SarIdle
    /\ sarUnload = "no" /\ noLock = {} /\ dgrms = 0 /\ given = {}

(* Steps of the host that come of themselves.                              *)
ReceiveThread ==
    \/ ReceiverHasLock \/ FoundDestroyed \/ ReceiverDone
    \/ recv.pc = "notfound" /\ NewTransaction(recv.mad)
TimerThread(c) ==
    \/ RmppTimerCallback(c) \/ RmppReceiverTimerCallback(c)
    \/ RemoveSARRecvListEntry(c) \/ SarCallbackDone(c)
SarReaped(c) == RmppReceiverReapContext(c) \/ SarTimerDestroy(c)

RmppNext ==
    \/ \E t \in Tid : SendSegment(t)
    \/ \E m \in Incoming : FindSarContext(m)
    \/ \E m \in Incoming : recv.pc = "idle" /\ NewTransaction(m)
    \/ ReceiveThread
    \/ \E c \in Ctx : SarTimerFires(c) \/ TimerThread(c) \/ SarReaped(c)
    \/ GsaUnload \/ DestroySARContexts

RmppFairness ==
    /\ WF_rmppVars(ReceiveThread)
    /\ WF_rmppVars(DestroySARContexts)
    /\ \A c \in Ctx : /\ WF_rmppVars(SarTimerFires(c)) /\ WF_rmppVars(TimerThread(c))
                      /\ WF_rmppVars(sarUnload = c /\ SarReaped(c))

RmppSpec == RmppInit /\ [][RmppNext]_rmppVars /\ RmppFairness

-----------------------------------------------------------------------------
(* Properties *)

(* Types of contexts, threads and counters.                                *)
RmppTypeOK ==
    /\ sar \in [Ctx -> SarContext]
    /\ recvList \in Seq(Ctx)
    /\ rmppNet \subseteq RmppMad
    /\ recv.pc \in {"idle", "lock", "notfound", "put"} /\ recv.ctx \in Ctx \cup {NoCtx}
    /\ sarUnload \in {"no", "yes"} \cup Ctx /\ noLock \subseteq Ctx /\ dgrms \in Nat

One(b) == IF b THEN 1 ELSE 0
SarListed(c) == \E i \in DOMAIN recvList : recvList[i] = c

(* RefCount of a context is the number of its holders: the list, a timer   *)
(* that runs, a callback that has begun (StopSarContextTimer leaves it its *)
(* reference), and the receive thread.  Every path of stop, restart, late  *)
(* callback and destruction has to keep that balance.                      *)
RefsCounted ==
    sarUnload = "no" => \A c \in Ctx :
        sar[c].ref = One(SarListed(c)) + One(sar[c].timer) + One(sar[c].cb # "none")
                     + One(recv.ctx = c)

(* No thread, callback or list refers to a context that was freed or that  *)
(* the reaper may free, also while GsaUnload destroys the contexts.        *)
NoSarUseAfterFree ==
    \A c \in Ctx : sar[c].state = "FREE" \/ sar[c].reap =>
        ~SarListed(c) /\ recv.ctx # c /\ sar[c].cb = "none" /\ ~sar[c].timer

(* A lock is destroyed when nobody can come to it any more, except for a   *)
(* callback that the unload has overtaken: it finds the lock destroyed,    *)
(* and the context still there, since TimerDestroy waits for it.           *)
LocksGoLast ==
    \A c \in noLock :
        /\ ~SarListed(c) /\ recv.ctx # c /\ ~sar[c].timer
        /\ sar[c].cb # "none" => sarUnload = c

(* A message handed to a class manager is the whole response in order,     *)
(* without gap or repeat, and PayloadLen of its first MAD is its length.   *)
MessageWhole ==
    \A g \in given :
        /\ \A i \in DOMAIN g.mads : g.mads[i].seg = i /\ g.mads[i].last = (i = Len(g.mads))
        /\ (\A i \in DOMAIN g.mads : g.mads[i] = DataMad(g.tid, i)) =>
             g.len = MsgLen[g.tid] /\ Len(g.mads) = Segments(MsgLen[g.tid])

(* The ACK of the last segment, which lets the sender forget the message,  *)
(* is only sent when the message was handed up, if its length was known.   *)
AckedIsGiven ==
    \A a \in rmppNet : LenKnown[a.tid] /\ a.type = "ACK" /\ a.seg >= Segments(MsgLen[a.tid]) =>
        \E g \in given : g.tid = a.tid

(* The places of the contexts' lists.                                      *)
Heads == UNION {{c} \X DOMAIN sar[c].head : c \in Ctx}

(* Every datagram has one owner: the list of a context or the receive      *)
(* thread.  None is put back twice (FREJECT of a datagram already linked)  *)
(* and none is lost (FPENDING of one that is not).                         *)
DgrmsBalanced == dgrms = Cardinality(Heads) + One(recv.pc \in {"lock", "notfound"})

(* AssertInvariants: the window never lags behind the expected segment of  *)
(* an active context and is never granted past the last one.               *)
WindowHolds ==
    \A c \in Ctx : sar[c].state = "ACTIVE" /\ recv.ctx # c =>
        /\ 1 <= sar[c].exp
        /\ sar[c].exp <= sar[c].wl \/ sar[c].exp <= sar[c].total + 1
        /\ sar[c].total # 0 => sar[c].wl <= sar[c].total

(* When the sender falls silent every context ends: it reaches the reaper, *)
(* however callbacks, stops and receptions were interleaved before.        *)
ContextEnds ==
    <>[][recv.pc = "idle" => recv'.pc = "idle"]_rmppVars => \A c \in Ctx :
        sar[c].state # "FREE" ~> sar[c].reap \/ sar[c].state = "FREE"

(* A context lives exactly as long as somebody holds it, and every holder  *)
(* is counted: receive thread, timer, callback and list, up to the unload. *)
(* Its lock outlives all of them but a callback the unload has overtaken.  *)
ContextHeld == RmppTypeOK /\ RefsCounted /\ NoSarUseAfterFree /\ LocksGoLast

(* What the receiver gives and takes: messages are handed up whole, what   *)
(* was acknowledged was handed up, no datagram is lost or put back twice,  *)
(* and the window stays between the expected and the last segment.         *)
TransferWhole == MessageWhole /\ AckedIsGiven /\ DgrmsBalanced /\ WindowHolds
=============================================================================
