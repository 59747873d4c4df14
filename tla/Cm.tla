--------------------------------- MODULE Cm ---------------------------------
(***************************************************************************)
(* The InfiniBand Communication Manager of src/IbAccess/Common/Ibt/Cm: the *)
(* connection endpoints (CEP objects) of several hosts, the MADs they      *)
(* exchange over an unreliable datagram service, their timers, their user  *)
(* notifications and their destruction.                                    *)
(*                                                                         *)
(* Every entry point of the code (an iba_cm_* call, the receipt of a MAD,  *)
(* a timer callback, a system callback) holds gCM->ListLock while it works *)
(* on the CEPs, so each is one action.  What happens outside the lock is   *)
(* split: a timer expires (TimerFires) some time before its callback gets  *)
(* the lock (CmTimerCallback), the user's function runs between            *)
(* CmSystemCallback and CmDoneCallback, and a posted send completes later  *)
(* (GsaSendCompleteCallback).                                              *)
(*                                                                         *)
(* Connections are made by iba_cm_connect and iba_cm_listen and accepted   *)
(* asynchronously (bAsyncAccept).  Peer connects, alternate paths          *)
(* (LAP/APR), SIDR and the removal of a CA are not part of this module.    *)
(***************************************************************************)
EXTENDS Integers, Sequences, FiniteSets

CONSTANTS
    Host,               \* the hosts; each runs one CM (one gCM) with one CA
    Cep,                \* CEP objects, allocated or not, of every host
    HostOf,             \* the host each CEP object lives on
    Client, Server,     \* the CEPs whose users connect, and listen; the others
                        \* are created by the CM for the requests it receives
    Qp,                 \* queue pairs of every host
    QpHost,             \* the host (CaGUID) of each queue pair
    Sid,                \* service IDs
    None,               \* stands for NULL, 0 and an empty address
    MaxReqRetry,        \* gCmParams.MaxReqRetry
    MaxRepRetry,        \* gCmParams.MaxRepRetry
    MaxBackLog,         \* gCmParams.MaxBackLog
    ReuseQP,            \* gCmParams.ReuseQP
    TimewaitCallback,   \* bTimewaitCallback of every CEP
    UserCallback,       \* the CEPs whose users give a callback
    SlowSends,          \* TRUE: a send completes some time after it is posted
    LateTimers,         \* TRUE: an expired timer's callback may wait for ListLock
    DgrmMayFail,        \* TRUE: the datagram pool may be exhausted
    MaxCommID,          \* bound: communication IDs each host hands out
    MaxCallbacks,       \* bound: CallbackRefCnt of one CEP
    MaxMads             \* bound: the different MADs ever sent

ASSUME CmAssumption ==
    /\ HostOf \in [Cep -> Host]
    /\ Client \subseteq Cep /\ Server \subseteq Cep
    /\ QpHost \in [Qp -> Host]
    /\ None \notin Host \cup Cep \cup Qp \cup Sid
    /\ MaxReqRetry \in Nat /\ MaxRepRetry \in Nat /\ MaxBackLog \in Nat
    /\ {ReuseQP, TimewaitCallback, SlowSends, LateTimers, DgrmMayFail} \subseteq BOOLEAN
    /\ UserCallback \subseteq Cep
    /\ MaxCommID \in [Host -> Nat] /\ MaxCallbacks \in Nat /\ MaxMads \in Nat

VARIABLES
    cep,      \* cep[c]: the CM_CEP_OBJECT c
    commID,   \* commID[h]: gCM->CommID of host h
    owned,    \* the CEP handles that users hold (ghost)
    net       \* every MAD ever sent: it may be lost, late or repeated

vars == <<cep, commID, owned, net>>

-----------------------------------------------------------------------------
(* Types.                                                                  *)

CepState == {"FREE", "IDLE", "LISTEN", "REQ_SENT", "REQ_RCVD", "REP_SENT",
    "REP_RCVD", "MRA_REQ_SENT", "MRA_REP_SENT", "REP_WAIT", "MRA_REP_RCVD",
    "ESTABLISHED", "DREQ_SENT", "DREQ_RCVD", "SIM_DREQ_RCVD", "TIMEWAIT"}

Mode == {"NONE", "ACTIVE", "PASSIVE"}

Event == {"RCVD_REQ", "RCVD_REP", "RCVD_REJ", "RCVD_RTU", "RCVD_DREQ",
    "RCVD_DREP", "SIM_RCVD_DREQ", "TIMEOUT_REQ", "TIMEOUT_REP",
    "TIMEOUT_DREQ", "TIMEOUT_TIMEWAIT", "USRE_CANCEL", "USRE_DESTROY"}
(* GetConnInfo's "no event" is none of them.                               *)
ASSUME NoneIsNoEvent == None \notin Event

MadType == {"REQ", "REP", "RTU", "REJ", "MRA", "DREQ", "DREP"}

Reason == {"USER_REJ", "INVALID_SID", "INVALID_COMMID", "STALE_CONN",
    "NO_RESOURCES", "TIMEOUT"}

(* The MAD in a CEP's own datagram; JUNK is a fresh or a cleared one.      *)
Held == MadType \cup {"NONE", "JUNK"}

(* "due": the running timer has expired and its callback waits for the     *)
(* lock; "stale": the timer was stopped after that.                        *)
Expiry == {"no", "due", "stale"}

Mad == [type : MadType, src : Host, dst : Host,
        lcid : Nat,                 \* LocalCommID of the sender
        rcid : Nat,                 \* RemoteCommID, the receiver's
        qp : Qp \cup {None},        \* LocalQPN and LocalCaGUID
        sid : Sid \cup {None},
        what : MadType \cup {None}, \* MsgRejected, MsgMRAed
        reason : Reason \cup {None}]

CepObject == [state : CepState, mode : Mode,
    lcid : Nat,                     \* LocalCommID, key in LocalCommIDMap
    rcid : Nat,                     \* RemoteCommID
    lep : Qp \cup {None},           \* LocalEndPoint, key in LocalEndPointMap
    rep : Qp \cup {None},           \* RemoteEndPoint, key in RemoteEndPointMap
    rhost : Host \cup {None},       \* PrimaryPath
    sid : Sid \cup {None},
    timer : BOOLEAN,                \* timeout_ms # 0, member of TimerMap
    due : Expiry,                   \* TimerObj
    retry : Nat,
    parent : Cep \cup {None}, pending : Seq(Cep),
    flags : SUBSET Event,           \* EventFlags
    cb : BOOLEAN,                   \* pfnUserCallback # NULL
    cbref : Nat,                    \* CallbackRefCnt
    item : {"none", "queued", "running"},   \* pCallbackItem
    dgrm : Held, busy : BOOLEAN]    \* pDgrmElement and its IN_USE flag

(* What CreateCEP returns.                                                 *)
NewCep == [state |-> "IDLE", mode |-> "NONE", lcid |-> 0, rcid |-> 0,
    lep |-> None, rep |-> None, rhost |-> None, sid |-> None,
    timer |-> FALSE, due |-> "no", retry |-> 0, parent |-> None, pending |-> <<>>,
    flags |-> {}, cb |-> FALSE, cbref |-> 0, item |-> "none",
    dgrm |-> "JUNK", busy |-> FALSE]

(* DestroyCEP frees the object and its datagram and stops its timer.  It   *)
(* only asserts that the maps of gCM and the callback thread have let go   *)
(* of it: their references are kept here, to be seen if they dangle.       *)
DestroyCEP(r) == [NewCep EXCEPT !.state = "FREE", !.dgrm = "NONE",
    !.lcid = r.lcid, !.lep = r.lep, !.rep = r.rep, !.cbref = r.cbref, !.item = r.item]

-----------------------------------------------------------------------------
(* Steps of the code on one CEP object, as operators on its record.        *)

CepSetState(r, s) == [r EXCEPT !.state = s]

CmTimerStart(r) == [r EXCEPT !.timer = TRUE]

(* Once the timer has expired CmTimerStop cannot recall its callback.      *)
CmTimerStop(r) == [r EXCEPT !.timer = FALSE,
                            !.due = IF @ = "due" THEN "stale" ELSE @]

ClearEndPoint(r) == [r EXCEPT !.lep = None, !.rep = None]

(* Mutants: the endpoints stay claimed; the communication ID stays mapped. *)
CepToIdleKeepsEndPoint(r) == [r EXCEPT !.lcid = 0, !.state = "IDLE"]
CepToIdleKeepsCommID(r) == [ClearEndPoint(r) EXCEPT !.state = "IDLE"]
CepToIdle(r) == [ClearEndPoint(r) EXCEPT !.lcid = 0, !.state = "IDLE"]

(* Mutant: the endpoints are released as if ReuseQP were set.              *)
CepToDisconnectingEarly(r, s) == CepSetState(ClearEndPoint(r), s)
CepToDisconnecting(r, s) ==
    CepSetState(IF ReuseQP THEN ClearEndPoint(r) ELSE r, s)

CepToTimewait(r) == CmTimerStart(CepToDisconnecting(r, "TIMEWAIT"))

(* CmDgrmSend of MAD type t from the CEP's own datagram.                   *)
(* Mutant: the datagram is not formatted.                                  *)
CepSendUnformatted(r, t) == [r EXCEPT !.busy = SlowSends]
CepSend(r, t) == [r EXCEPT !.dgrm = t, !.busy = SlowSends]

(* Retransmission of what the datagram holds: skipped while it is in use.  *)
CepResend(r) == [r EXCEPT !.busy = @ \/ SlowSends]

(* PrepareCepDgrm takes a new datagram when the send of the old one has    *)
(* not completed; Prepared says whether the pool has one.                  *)
Prepared(r) == IF r.busy /\ DgrmMayFail THEN BOOLEAN ELSE {TRUE}
(* Mutant: a datagram still in use is used again.                          *)
PrepareCepDgrmMissed(r) == r
PrepareCepDgrm(r) == [r EXCEPT !.busy = FALSE,
                               !.dgrm = IF r.busy THEN "JUNK" ELSE @]

(* A MAD copied into the CEP's own datagram.                               *)
CmDgrmCopyAddrAndMad(r, t) == [r EXCEPT !.dgrm = t]

Destroying(r) == "USRE_DESTROY" \in r.flags

EventSet(r, e) == [r EXCEPT !.flags = @ \cup {e}]

(* Tells the user of event e: by a callback if it gave one, else it waits. *)
(* The callback item is queued when its reference count leaves 0.          *)
SetNotification(r, e) ==
    IF Destroying(r) THEN r
    ELSE IF ~ r.cb THEN EventSet(r, e)
    ELSE [EventSet(r, e) EXCEPT !.cbref = @ + 1,
                                !.item = IF r.cbref = 0 THEN "queued" ELSE @]

-----------------------------------------------------------------------------
(* The maps of gCM, and the MADs.                                          *)

On(h) == {c \in Cep : HostOf[c] = h}

FindLocalCommID(h, id) == {c \in On(h) : id # 0 /\ cep[c].lcid = id}

FindRemoteEndPoint(h, q) == {c \in On(h) : cep[c].rep = q}

(* Mutant: the queue pair is not looked up.                                *)
LocalEndPointUnchecked(h, q) == FALSE
LocalEndPointInUse(h, q) == \E c \in On(h) : cep[c].lep = q

Listening(h, s) == {c \in On(h) : cep[c].state = "LISTEN" /\ cep[c].sid = s}

MadOf(t, src, dst, lcid, rcid) ==
    [type |-> t, src |-> src, dst |-> dst, lcid |-> lcid, rcid |-> rcid,
     qp |-> None, sid |-> None, what |-> None, reason |-> None]

(* A MAD sent by CEP c, whose record is r, to the other end.               *)
MadFrom(c, r, t) == MadOf(t, HostOf[c], r.rhost, r.lcid, r.rcid)

FormatREQ(c, r) == [MadFrom(c, r, "REQ") EXCEPT !.rcid = 0, !.qp = r.lep, !.sid = r.sid]
FormatREP(c, r) == [MadFrom(c, r, "REP") EXCEPT !.qp = r.lep]
FormatREJ(c, r, what, why) == [MadFrom(c, r, "REJ") EXCEPT !.what = what, !.reason = why]

(* SendREJ in answer to MAD m, naming lcid as the sender's LocalCommID.    *)
SendREJ(m, lcid, what, why) ==
    [MadOf("REJ", m.dst, m.src, lcid, m.lcid) EXCEPT !.what = what, !.reason = why]

(* SendMRA in answer to MAD m.                                             *)
SendMRA(m, r, what) ==
    [MadOf("MRA", m.dst, m.src, r.lcid, r.rcid) EXCEPT !.what = what]

Send(ms) == net' = net \cup ms /\ Cardinality(net') <= MaxMads

(* A step that replaces CEP c by r and sends the MADs ms.                  *)
Update(c, r, ms) ==
    /\ r.cbref <= MaxCallbacks
    /\ cep' = [cep EXCEPT ![c] = r]
    /\ Send(ms)

(* A step that replaces the listening CEP l by rl and the CEP c by r.      *)
Update2(l, rl, c, r, ms) ==
    /\ rl.cbref <= MaxCallbacks /\ r.cbref <= MaxCallbacks
    /\ cep' = [cep EXCEPT ![l] = rl, ![c] = r]
    /\ Send(ms)

(* A step that replaces c by r and destroys the CEPs queued on c.          *)
UpdateAndDrop(c, r, ms) ==
    LET dropped == {cep[c].pending[i] : i \in DOMAIN cep[c].pending}
    IN  /\ r.cbref <= MaxCallbacks
        /\ cep' = [d \in Cep |-> IF d = c THEN r
                                 ELSE IF d \in dropped THEN DestroyCEP(CepToIdle(cep[d]))
                                 ELSE cep[d]]
        /\ Send(ms)

(* A step that answers without changing any CEP.                           *)
Answer(ms) == Send(ms) /\ UNCHANGED <<cep, commID, owned>>

-----------------------------------------------------------------------------
(* User calls.  A user calls the CM only with a handle it holds; a call    *)
(* the code refuses changes nothing and has no action.                     *)

Allocatable(c) == cep[c].state = "FREE"

iba_cm_create_cep(c) ==
    /\ c \in Client \cup Server /\ Allocatable(c)
    /\ cep' = [cep EXCEPT ![c] = NewCep]
    /\ owned' = owned \cup {c}
    /\ UNCHANGED <<commID, net>>

(* AssignLocalCommID: IDs are handed out in order, and the bound keeps the *)
(* counter from wrapping, so the next one is never in use.                 *)
NextCommID(h) == commID[h] + 1
(* Mutant: the counter does not advance.                                   *)
AssignLocalCommIDStuck(h) == commID[h] < MaxCommID[h] /\ UNCHANGED commID
AssignLocalCommID(h) == /\ commID[h] < MaxCommID[h]
                        /\ commID' = [commID EXCEPT ![h] = @ + 1]

(* iba_cm_connect, when the request is well formed and queue pair q free.  *)
Connect(c, q, h, s) ==
    LET r == [cep[c] EXCEPT !.lep = q, !.rhost = h, !.sid = s, !.flags = {},
                !.retry = 0, !.mode = "ACTIVE", !.lcid = NextCommID(HostOf[c]),
                !.cb = c \in UserCallback]
        sent == CmTimerStart(CepSetState(CepSend(r, "REQ"), "REQ_SENT"))
    IN  /\ c \in owned /\ cep[c].state = "IDLE"
        /\ QpHost[q] = HostOf[c] /\ ~ LocalEndPointInUse(HostOf[c], q)
        /\ AssignLocalCommID(HostOf[c])
        /\ Update(c, sent, {FormatREQ(c, sent)})
        /\ UNCHANGED owned

(* iba_cm_connect when no datagram can be had: everything is undone but    *)
(* the communication ID.                                                   *)
ConnectNoDgrm(c, q) ==
    /\ c \in owned /\ cep[c].state = "IDLE"
    /\ QpHost[q] = HostOf[c] /\ ~ LocalEndPointInUse(HostOf[c], q)
    /\ DgrmMayFail /\ (cep[c].busy \/ cep[c].dgrm = "NONE")
    /\ AssignLocalCommID(HostOf[c])
    /\ Update(c, [cep[c] EXCEPT !.lcid = NextCommID(HostOf[c]), !.mode = "NONE",
                    !.flags = {}, !.retry = 0, !.sid = None, !.rhost = None,
                    !.dgrm = "NONE", !.busy = FALSE, !.cb = c \in UserCallback], {})
    /\ UNCHANGED owned

(* iba_cm_listen, when no other CEP of the host listens on s.              *)
Listen(c, s) ==
    /\ c \in owned /\ cep[c].state = "IDLE" /\ Listening(HostOf[c], s) = {}
    /\ AssignLocalCommID(HostOf[c])
    /\ Update(c, [cep[c] EXCEPT !.sid = s, !.mode = "PASSIVE", !.state = "LISTEN",
                    !.flags = {}, !.retry = 0, !.lcid = NextCommID(HostOf[c]),
                    !.dgrm = "NONE", !.busy = FALSE, !.rhost = None, !.cb = c \in UserCallback], {})
    /\ UNCHANGED owned

(* iba_cm_accept on the active side.                                       *)
(* Mutant: the RTU leaves but the CEP does not move.                       *)
AcceptAUnmoved(c) ==
    /\ c \in owned /\ cep[c].mode # "PASSIVE"
    /\ cep[c].state \in {"REP_RCVD", "MRA_REP_SENT"}
    /\ Update(c, CepSend(cep[c], "RTU"), {MadFrom(c, cep[c], "RTU")})
    /\ UNCHANGED <<commID, owned>>
AcceptA(c) ==
    LET r == CepSetState(CepSend(cep[c], "RTU"), "ESTABLISHED")
    IN  /\ c \in owned /\ cep[c].mode # "PASSIVE"
        /\ cep[c].state \in {"REP_RCVD", "MRA_REP_SENT"}
        /\ Update(c, r, {MadFrom(c, r, "RTU")})
        /\ UNCHANGED <<commID, owned>>

(* GetPendingCEP: the request at the head of the listener's queue.         *)
HasPending(l) == cep[l].state = "LISTEN" /\ cep[l].pending # <<>>
PendingCEP(l) == Head(cep[l].pending)

(* The listener after the head has left its queue: it is told again when   *)
(* more requests wait.                                                     *)
(* Mutant: the head stays queued.                                          *)
DequeuedNot(l) == cep[l]
Dequeued(l) ==
    LET r == [cep[l] EXCEPT !.pending = Tail(@)]
    IN  IF r.pending # <<>> THEN SetNotification(r, "RCVD_REQ") ELSE r

(* iba_cm_accept on the passive side: the new CEP gets queue pair q.       *)
AcceptP(l, q) ==
    LET c == PendingCEP(l)
        r == [cep[c] EXCEPT !.lep = q, !.parent = None, !.retry = 0, !.cb = c \in UserCallback]
        sent == CmTimerStart(CepSetState(CepSend(r, "REP"), "REP_SENT"))
    IN  /\ l \in owned /\ cep[l].mode = "PASSIVE" /\ HasPending(l)
        /\ QpHost[q] = HostOf[l] /\ ~ LocalEndPointInUse(HostOf[l], q)
        /\ Update2(l, Dequeued(l), c, sent, {FormatREP(c, sent)})
        /\ owned' = owned \cup {c}
        /\ UNCHANGED commID

(* iba_cm_reject on the active side.                                       *)
RejectedA(c) == CepToIdle(CepSend(cep[c], "REJ"))
RejectA(c) ==
    /\ c \in owned /\ cep[c].mode # "PASSIVE"
    /\ cep[c].state \in {"REP_RCVD", "MRA_REP_SENT"}
    /\ Update(c, RejectedA(c), {FormatREJ(c, cep[c], "REP", "USER_REJ")})
    /\ UNCHANGED <<commID, owned>>

(* iba_cm_reject on the passive side.                                      *)
RejectP(l) ==
    LET c == PendingCEP(l)
    IN  /\ l \in owned /\ cep[l].mode = "PASSIVE" /\ HasPending(l)
        /\ Update2(l, Dequeued(l), c, DestroyCEP(CepToIdle(cep[c])),
                   {FormatREJ(c, cep[c], "REQ", "USER_REJ")})
        /\ UNCHANGED <<commID, owned>>

(* The states CancelA and CancelP cancel for a user, what is left of the   *)
(* CEP, and what is sent.                                                  *)
ReplyArrived == {"REP_RCVD", "MRA_REP_SENT"}
CancelableA == {"REQ_SENT", "REP_WAIT"} \cup ReplyArrived
CancelableP == {"LISTEN", "REP_SENT", "MRA_REP_RCVD"}
Cancelled(c) ==
    SetNotification(IF cep[c].state \in ReplyArrived THEN RejectedA(c)
                    ELSE CepToIdle(CmTimerStop([cep[c] EXCEPT !.pending = <<>>])),
                    "USRE_CANCEL")
CancelSends(c) == IF cep[c].state \in ReplyArrived
                  THEN {FormatREJ(c, cep[c], "REP", "USER_REJ")} ELSE {}

iba_cm_cancel(c) ==
    /\ c \in owned
    /\ cep[c].state \in (IF cep[c].mode = "PASSIVE" THEN CancelableP ELSE CancelableA)
    /\ UpdateAndDrop(c, Cancelled(c), CancelSends(c))
    /\ UNCHANGED <<commID, owned>>

(* What DisconnectA leaves of the CEP, given whether PrepareCepDgrm        *)
(* succeeds, and what it sends.                                            *)
Disconnectable == {"ESTABLISHED", "DREQ_RCVD", "SIM_DREQ_RCVD"}
DisconnectA(r, ok) ==
    CASE r.state = "ESTABLISHED" /\ ok ->
             CmTimerStart([CepToDisconnecting(CepSend(PrepareCepDgrm(r), "DREQ"), "DREQ_SENT")
                           EXCEPT !.retry = 0])
      [] r.state = "DREQ_RCVD" /\ ok -> CepToTimewait(CepSend(PrepareCepDgrm(r), "DREP"))
      [] r.state = "SIM_DREQ_RCVD" -> CepToTimewait(r)
      [] OTHER -> r
DisconnectSends(c, ok) ==
    CASE cep[c].state = "ESTABLISHED" /\ ok -> {MadFrom(c, cep[c], "DREQ")}
      [] cep[c].state = "DREQ_RCVD" /\ ok -> {MadFrom(c, cep[c], "DREP")}
      [] OTHER -> {}

(* iba_cm_disconnect: a request or a reply, as the state calls for.        *)
(* Mutant: the CEP enters TIMEWAIT without a DREQ.                         *)
iba_cm_disconnectSilently(c) ==
    /\ c \in owned /\ cep[c].state \in Disconnectable
    /\ Update(c, CepToTimewait(cep[c]), {})
    /\ UNCHANGED <<commID, owned>>
iba_cm_disconnect(c) ==
    /\ c \in owned /\ cep[c].state \in Disconnectable
    /\ \E ok \in Prepared(cep[c]) :
          Update(c, DisconnectA(cep[c], ok), DisconnectSends(c, ok))
    /\ UNCHANGED <<commID, owned>>

(* The end of iba_cm_destroy_cep for a CEP that is idle by now: the object *)
(* outlives the call while callbacks refer to it.                          *)
(* Mutant: the object is freed under a callback.                           *)
ReleasedAtOnce(r) == DestroyCEP(r)
Released(r) == IF r.cbref > 0 THEN EventSet(r, "USRE_DESTROY") ELSE DestroyCEP(r)

iba_cm_destroy_cep(c) ==
    LET r == cep[c]
    IN  /\ c \in owned /\ owned' = owned \ {c}
        /\ UNCHANGED commID
        /\ \/ /\ r.state = "IDLE"
              /\ Update(c, Released(r), {})
           \/ /\ r.state \in {"REQ_SENT", "REP_WAIT"} \cup CancelableP
              /\ UpdateAndDrop(c, Released(Cancelled(c)), {})
           \/ /\ r.state \in ReplyArrived
              /\ Update(c, Released(RejectedA(c)), CancelSends(c))
           \/ /\ r.state \in Disconnectable
              /\ \E ok \in Prepared(r) :
                    Update(c, EventSet(DisconnectA(r, ok), "USRE_DESTROY"),
                           DisconnectSends(c, ok))
           \/ /\ r.state \in {"DREQ_SENT", "TIMEWAIT"}
              /\ Update(c, EventSet(r, "USRE_DESTROY"), {})

-----------------------------------------------------------------------------
(* How a user learns of an event.                                          *)

(* The events GetConnInfo looks for in each state, most urgent first.      *)
Reported(s) ==
    CASE s = "IDLE" -> <<"USRE_CANCEL", "TIMEOUT_REQ", "TIMEOUT_REP", "RCVD_REJ",
             "TIMEOUT_DREQ", "RCVD_DREP", "RCVD_DREQ", "SIM_RCVD_DREQ",
             "TIMEOUT_TIMEWAIT">>
      [] s \in {"REP_RCVD", "MRA_REP_SENT"} -> <<"RCVD_REP">>
      [] s = "ESTABLISHED" -> <<"RCVD_RTU">>
      [] s = "DREQ_RCVD" -> <<"RCVD_RTU", "RCVD_DREQ">>
      [] s = "SIM_DREQ_RCVD" -> <<"RCVD_RTU", "SIM_RCVD_DREQ">>
      [] s = "TIMEWAIT" -> <<"RCVD_REJ", "TIMEOUT_REP", "RCVD_DREP",
             "RCVD_DREQ", "SIM_RCVD_DREQ", "TIMEOUT_DREQ">>
      [] OTHER -> <<>>

(* The event GetConnInfo picks; None when there is nothing to report.      *)
PickedEvent(r) ==
    LET order == Reported(r.state)
        hits == {i \in DOMAIN order : order[i] \in r.flags}
    IN  IF hits = {} THEN None
        ELSE order[CHOOSE i \in hits : \A j \in hits : i <= j]

(* The events left after GetConnInfo: all are dropped with the one that is *)
(* reported, but for the cases the code keeps queued.                      *)
(* Mutant: everything queued goes with the event reported.                 *)
KeptEventsNone(r) == {}
KeptEvents(r) ==
    LET e == PickedEvent(r)
    IN  CASE r.state = "TIMEWAIT" /\ e = "TIMEOUT_REP" /\ TimewaitCallback -> r.flags
          [] r.state = "IDLE" /\ e \in {"RCVD_REJ", "RCVD_DREP"} -> r.flags \ {e}
          [] r.state \in {"DREQ_RCVD", "SIM_DREQ_RCVD"} /\ e = "RCVD_RTU" -> r.flags \ {e}
          [] OTHER -> {}

(* Mutant: the role is forgotten in every state.                           *)
GetConnInfoForgetsMode(r) == [r EXCEPT !.flags = KeptEvents(r), !.mode = "NONE"]
GetConnInfo(r) ==
    [r EXCEPT !.flags = KeptEvents(r),
              !.mode = IF r.state = "IDLE" /\ KeptEvents(r) = {} THEN "NONE" ELSE @]

(* iba_cm_wait: what a user without a callback calls to learn of an event. *)
iba_cm_wait(c) ==
    /\ c \in owned /\ ~ cep[c].cb /\ cep[c].flags # {}
    /\ Update(c, GetConnInfo(cep[c]), {})
    /\ UNCHANGED <<commID, owned>>

(* The callback thread takes the item; while it is "running" the lock is   *)
(* free and the user's function may call the CM.                           *)
CmSystemCallback(c) ==
    LET r == IF Destroying(cep[c]) THEN cep[c] ELSE GetConnInfo(cep[c])
    IN  /\ cep[c].item = "queued"
        /\ Update(c, [r EXCEPT !.item = "running"], {})
        /\ UNCHANGED <<commID, owned>>

(* The callback is over: the item is queued again for the notifications    *)
(* made meanwhile, and an object its user destroyed may go.                *)
(* Mutants: the notifications made during the callback are forgotten; the  *)
(* object its user destroyed stays.                                        *)
DoneForgets(r) ==
    IF ~ Destroying(r) THEN [r EXCEPT !.cbref = 0, !.item = "none"]
    ELSE LET last == [r EXCEPT !.cbref = 0, !.item = "none"]
         IN  IF r.state = "IDLE" THEN DestroyCEP(last) ELSE last
DoneNeverDestroys(r) ==
    [r EXCEPT !.cbref = @ - 1, !.item = IF r.cbref > 1 THEN "queued" ELSE "none"]
Done(r) ==
    IF ~ Destroying(r)
    THEN [r EXCEPT !.cbref = @ - 1, !.item = IF r.cbref > 1 THEN "queued" ELSE "none"]
    ELSE LET last == [r EXCEPT !.cbref = 0, !.item = "none"]
         IN  IF r.state = "IDLE" THEN DestroyCEP(last) ELSE last

CmDoneCallback(c) ==
    /\ cep[c].item = "running"
    /\ Update(c, Done(cep[c]), {})
    /\ UNCHANGED <<commID, owned>>

(* GsaSendCompleteCallback for the CEP's own datagram.                     *)
GsaSendCompleteCallback(c) ==
    /\ cep[c].busy
    /\ Update(c, [cep[c] EXCEPT !.busy = FALSE], {})
    /\ UNCHANGED <<commID, owned>>

-----------------------------------------------------------------------------
(* Receipt of a MAD m.  A MAD the code discards changes nothing and has no *)
(* action here.                                                            *)

(* The new CEP of a REQ: on the listener's queue, and with mra the sender  *)
(* told to wait.                                                           *)
(* Mutant: the path back to the sender is not saved.                       *)
SaveReqToPassiveCEPNoPath(l, m, mra) ==
    [NewCep EXCEPT !.state = IF mra THEN "MRA_REQ_SENT" ELSE "REQ_RCVD",
        !.mode = "PASSIVE", !.lcid = NextCommID(m.dst), !.rcid = m.lcid,
        !.rep = m.qp, !.sid = m.sid, !.parent = l, !.dgrm = "REQ"]
SaveReqToPassiveCEP(l, m, mra) ==
    [NewCep EXCEPT !.state = IF mra THEN "MRA_REQ_SENT" ELSE "REQ_RCVD",
        !.mode = "PASSIVE", !.lcid = NextCommID(m.dst), !.rcid = m.lcid,
        !.rep = m.qp, !.rhost = m.src, !.sid = m.sid, !.parent = l, !.dgrm = "REQ"]

Enqueued(l, c) ==
    LET r == [cep[l] EXCEPT !.pending = Append(@, c)]
    IN  IF Len(r.pending) = 1 THEN SetNotification(r, "RCVD_REQ") ELSE r

(* The objects CreateCEP finds for a request; none left is out of memory.  *)
Incoming(h) == {c \in On(h) \ (Client \cup Server) : Allocatable(c)}

(* ProcessReqPassive on a listening CEP.                                   *)
ProcessReqPassive(m, l) ==
    \/ /\ Len(cep[l].pending) >= MaxBackLog \/ Incoming(m.dst) = {}
       /\ Answer({SendREJ(m, 0, "REQ", "NO_RESOURCES")})
    \/ /\ Len(cep[l].pending) < MaxBackLog
       /\ \E c \in Incoming(m.dst), mra \in BOOLEAN :
             LET r == SaveReqToPassiveCEP(l, m, mra)
             IN  Update2(l, Enqueued(l, c), c, r,
                         IF mra THEN {SendMRA(m, r, "REQ")} ELSE {})
       /\ AssignLocalCommID(m.dst)
       /\ UNCHANGED owned

(* A REQ whose sender's queue pair CEP c already knows, under the same     *)
(* communication ID.                                                       *)
ProcessReqDup(m, c) ==
    /\ \/ /\ cep[c].state = "REP_SENT"
          /\ Update(c, CmTimerStart(CepResend(CmTimerStop(cep[c]))),
                    IF cep[c].busy THEN {} ELSE {FormatREP(c, cep[c])})
       \/ /\ cep[c].state \in {"REQ_RCVD", "MRA_REQ_SENT"}
          /\ Update(c, CepSetState(cep[c], "MRA_REQ_SENT"), {SendMRA(m, cep[c], "REQ")})
    /\ UNCHANGED <<commID, owned>>

(* The half of ProcessDreqCep that tells the user of a connected CEP.      *)
DreqReceived(r, t) ==
    SetNotification(CepToDisconnecting(CmDgrmCopyAddrAndMad(r, t), "DREQ_RCVD"), "RCVD_DREQ")

(* The same, under another communication ID: the sender restarted, or one  *)
(* of the two connections is stale.                                        *)
Connecting == {"REQ_SENT", "REP_WAIT", "REQ_RCVD", "MRA_REQ_SENT", "REP_SENT",
               "MRA_REP_RCVD", "REP_RCVD", "MRA_REP_SENT"}
ProcessReqStale(m, c) ==
    \/ /\ cep[c].state \in Connecting
       /\ Answer({SendREJ(m, 0, "REQ", "STALE_CONN")})
    \/ /\ cep[c].state = "ESTABLISHED"
       /\ Update(c, DreqReceived(cep[c], "JUNK"),
                 {SendREJ(m, 0, "REQ", "STALE_CONN"),
                  MadOf("DREQ", m.dst, m.src, cep[c].lcid, cep[c].rcid)})
       /\ UNCHANGED <<commID, owned>>

ProcessReq(m) ==
    LET known == FindRemoteEndPoint(m.dst, m.qp)
        listeners == Listening(m.dst, m.sid)
    IN  /\ m.type = "REQ"
        /\ \/ \E c \in known : cep[c].rcid = m.lcid /\ ProcessReqDup(m, c)
           \/ \E c \in known : cep[c].rcid # m.lcid /\ ProcessReqStale(m, c)
           \/ known = {} /\ \E l \in listeners : ProcessReqPassive(m, l)
           \/ /\ known = {} /\ listeners = {}
              /\ Answer({SendREJ(m, 0, "REQ", "INVALID_SID")})

(* A REP on a CEP that waits for it: the sender's queue pair must not      *)
(* belong to another connection.                                           *)
(* Mutants: the REQ timer runs on; the sender's communication ID or queue  *)
(* pair is not learnt.                                                     *)
RepReceivedTimerRuns(m, r) ==
    SetNotification(CepSetState(CmDgrmCopyAddrAndMad(
        [PrepareCepDgrm(r) EXCEPT !.rep = m.qp, !.rcid = m.lcid], "REP"),
        "REP_RCVD"), "RCVD_REP")
RepReceivedNoEndPoint(m, r) ==
    SetNotification(CepSetState(CmDgrmCopyAddrAndMad(CmTimerStop(
        [PrepareCepDgrm(r) EXCEPT !.rcid = m.lcid]), "REP"),
        "REP_RCVD"), "RCVD_REP")
RepReceived(m, r) ==
    SetNotification(CepSetState(CmDgrmCopyAddrAndMad(CmTimerStop(
        [PrepareCepDgrm(r) EXCEPT !.rep = m.qp, !.rcid = m.lcid]), "REP"),
        "REP_RCVD"), "RCVD_REP")

ProcessRep(m) ==
    LET match == FindLocalCommID(m.dst, m.rcid)
    IN  /\ m.type = "REP"
        /\ UNCHANGED <<commID, owned>>
        /\ \/ \E c \in match :
                 /\ cep[c].state \in {"REQ_SENT", "REP_WAIT"}
                 /\ TRUE \in Prepared(cep[c])
                 /\ IF FindRemoteEndPoint(m.dst, m.qp) # {}
                    THEN Update(c, PrepareCepDgrm(cep[c]),
                                {SendREJ(m, cep[c].lcid, "REP", "STALE_CONN")})
                    ELSE Update(c, RepReceived(m, cep[c]), {})
           \/ \E c \in match :
                 /\ cep[c].state \in {"REP_RCVD", "MRA_REP_SENT"}
                 /\ Update(c, CepSetState(cep[c], "MRA_REP_SENT"),
                           {SendMRA(m, cep[c], "REP")})
           \/ \E c \in match :
                 /\ cep[c].state = "ESTABLISHED" /\ ~ cep[c].busy
                 /\ Update(c, CepResend(cep[c]), {MadFrom(c, cep[c], "RTU")})
           \/ /\ \A c \in match : cep[c].state \in {"LISTEN", "SIM_DREQ_RCVD", "TIMEWAIT"}
              /\ Answer({SendREJ(m, 0, "REP", "INVALID_COMMID")})

(* ProcessRtuPassive, with a RTU in hand or without one (JUNK).            *)
ProcessRtuPassive(c, t) ==
    /\ cep[c].state \in {"REP_SENT", "MRA_REP_RCVD"}
    /\ Update(c, SetNotification(CepSetState(CmDgrmCopyAddrAndMad(CmTimerStop(
                    PrepareCepDgrm(cep[c])), t), "ESTABLISHED"), "RCVD_RTU"), {})
    /\ UNCHANGED <<commID, owned>>

ProcessRtu(m) ==
    /\ m.type = "RTU"
    /\ \E c \in FindLocalCommID(m.dst, m.rcid) : ProcessRtuPassive(c, "RTU")

(* VpdAsyncEventCallback: the CA reports data on the queue pair of c, so   *)
(* the other end is connected.                                             *)
VpdAsyncEventCallback(c) ==
    /\ cep[c].lep # None
    /\ \E d \in Cep : cep[d].state = "ESTABLISHED" /\ cep[d].mode = "ACTIVE"
                      /\ cep[d].rep = cep[c].lep /\ cep[d].lep = cep[c].rep
    /\ ProcessRtuPassive(c, "JUNK")

(* A rejected handshake: a stale connection still has a time-wait ahead.   *)
Rejected(r, why) ==
    LET p == CmDgrmCopyAddrAndMad(CmTimerStop(PrepareCepDgrm(r)), "REJ")
    IN  SetNotification(IF why = "STALE_CONN" THEN CepToTimewait(p) ELSE CepToIdle(p),
                        "RCVD_REJ")

(* A rejected REQ after all: the other end saw no connection.              *)
SimDreqReceived(r) ==
    SetNotification(CepToDisconnecting(CmDgrmCopyAddrAndMad(r, "JUNK"), "SIM_DREQ_RCVD"),
                    "SIM_RCVD_DREQ")

ProcessRejReq(m) ==
    /\ m.type = "REJ" /\ m.what = "REQ"
    /\ \E c \in FindLocalCommID(m.dst, m.rcid) :
          \/ /\ cep[c].state \in {"REQ_SENT", "REP_WAIT"}
             /\ Update(c, Rejected(cep[c], m.reason), {})
          \/ /\ cep[c].state = "ESTABLISHED"
             /\ Update(c, SimDreqReceived(cep[c]), {})
    /\ UNCHANGED <<commID, owned>>

ProcessRejRep(m) ==
    /\ m.type = "REJ" /\ m.what = "REP"
    /\ \E c \in FindLocalCommID(m.dst, m.rcid) :
          /\ cep[c].state \in {"REP_SENT", "MRA_REP_RCVD"}
          /\ Update(c, Rejected(cep[c], m.reason), {})
    /\ UNCHANGED <<commID, owned>>

ProcessMraReq(m) ==
    /\ m.type = "MRA" /\ m.what = "REQ"
    /\ \E c \in FindLocalCommID(m.dst, m.rcid) :
          /\ cep[c].state = "REQ_SENT"
          /\ Update(c, CepSetState(CmTimerStart([CmTimerStop(cep[c]) EXCEPT !.rcid = m.lcid]),
                                   "REP_WAIT"), {})
    /\ UNCHANGED <<commID, owned>>

ProcessMraRep(m) ==
    /\ m.type = "MRA" /\ m.what = "REP"
    /\ \E c \in FindLocalCommID(m.dst, m.rcid) :
          /\ cep[c].state = "REP_SENT"
          /\ Update(c, CepSetState(CmTimerStart(CmTimerStop(cep[c])), "MRA_REP_RCVD"), {})
    /\ UNCHANGED <<commID, owned>>

(* DREQs that cross: the CEP answers as if it had not asked; one that its  *)
(* user gave up replies by itself.                                         *)
DreqCrossed(r) ==
    LET p == CepSetState(CmDgrmCopyAddrAndMad(CmTimerStop(PrepareCepDgrm(r)), "DREQ"),
                         "DREQ_RCVD")
    IN  IF Destroying(r) THEN DisconnectA(p, TRUE) ELSE SetNotification(p, "RCVD_DREQ")

ProcessDreq(m) ==
    /\ m.type = "DREQ"
    /\ \E c \in FindLocalCommID(m.dst, m.rcid) :
          \/ /\ cep[c].state = "ESTABLISHED"
             /\ Update(c, DreqReceived(cep[c], "DREQ"), {})
          \/ /\ cep[c].state = "DREQ_SENT"
             /\ Update(c, DreqCrossed(cep[c]),
                       IF Destroying(cep[c]) THEN {MadFrom(c, cep[c], "DREP")} ELSE {})
          \/ /\ cep[c].state \in {"SIM_DREQ_RCVD", "TIMEWAIT"} /\ ~ cep[c].busy
             /\ Update(c, CepSend(cep[c], "DREP"), {MadFrom(c, cep[c], "DREP")})
    /\ UNCHANGED <<commID, owned>>

DrepReceived(r) ==
    SetNotification(CepToTimewait(CmTimerStop(
        CmDgrmCopyAddrAndMad(PrepareCepDgrm(r), "DREP"))), "RCVD_DREP")

ProcessDrep(m) ==
    /\ m.type = "DREP"
    /\ \E c \in FindLocalCommID(m.dst, m.rcid) :
          cep[c].state = "DREQ_SENT" /\ Update(c, DrepReceived(cep[c]), {})
    /\ UNCHANGED <<commID, owned>>

GsaRecvCallback(m) ==
    \/ ProcessReq(m) \/ ProcessRep(m) \/ ProcessRtu(m)
    \/ ProcessRejReq(m) \/ ProcessRejRep(m)
    \/ ProcessMraReq(m) \/ ProcessMraRep(m)
    \/ ProcessDreq(m) \/ ProcessDrep(m)

-----------------------------------------------------------------------------
(* Timers.                                                                 *)

(* SaveReqToPassiveCEP takes the smaller of what the REQ allows and        *)
(* gCmParams.MaxRepRetry.                                                  *)
MaxCMRetries(r) == IF r.mode # "PASSIVE" \/ MaxReqRetry < MaxRepRetry
                   THEN MaxReqRetry ELSE MaxRepRetry

(* The timer of c expires; its callback has yet to get the lock.           *)
TimerFires(c) ==
    /\ LateTimers /\ cep[c].timer /\ cep[c].due = "no"
    /\ Update(c, [cep[c] EXCEPT !.due = "due"], {})
    /\ UNCHANGED <<commID, owned>>

Retry(r, s) == CmTimerStart(CepSetState(CepResend([r EXCEPT !.retry = @ + 1]), s))

(* The handshake and teardown timers, given whether a retry is left.       *)
(* Mutants: the retries never run out; the end of TIMEWAIT does not see    *)
(* that the user has destroyed the CEP.                                    *)
ReqTimeoutForever(r, again) == CmTimerStart(CepSetState(CepResend(r), "REQ_SENT"))
ReqTimeout(r, again) ==
    IF again THEN Retry(r, "REQ_SENT")
    ELSE SetNotification([CepToIdle(r) EXCEPT !.retry = 0], "TIMEOUT_REQ")
RepTimeout(r, again) ==
    LET t == [CepToTimewait(r) EXCEPT !.retry = 0]
    IN  IF again THEN Retry(r, "REP_SENT")
        ELSE IF TimewaitCallback THEN EventSet(t, "TIMEOUT_REP")
        ELSE SetNotification(t, "TIMEOUT_REP")
DreqTimeout(r, again) ==
    IF again THEN Retry(r, "DREQ_SENT")
    ELSE IF TimewaitCallback THEN CepToTimewait(r)
    ELSE SetNotification(CepToTimewait(r), "TIMEOUT_DREQ")
TimewaitOverNoDestroy(r) == [CepToIdle(r) EXCEPT !.retry = 0]
TimewaitOver(r) ==
    LET i == [CepToIdle(r) EXCEPT !.retry = 0]
    IN  IF Destroying(i) /\ i.cbref = 0 THEN DestroyCEP(i)
        ELSE IF TimewaitCallback THEN SetNotification(i, "TIMEOUT_TIMEWAIT") ELSE i

(* CmTimerCallback on a running timer.  The stale callback of a timer that *)
(* was stopped and started again is taken for the new timer's.             *)
TimerExpired(c) ==
    LET r == [cep[c] EXCEPT !.timer = FALSE, !.due = "no"]
        again == r.retry < MaxCMRetries(r)
        resent(m) == IF r.busy THEN {} ELSE {m}
    IN  \/ /\ r.state \in {"REQ_SENT", "REP_WAIT"}
           /\ Update(c, ReqTimeout(r, again),
                     IF again THEN resent(FormatREQ(c, r))
                     ELSE {FormatREJ(c, r, "REP", "TIMEOUT")})
        \/ /\ r.state \in {"REP_SENT", "MRA_REP_RCVD"}
           /\ Update(c, RepTimeout(r, again),
                     IF again THEN resent(FormatREP(c, r))
                     ELSE {FormatREJ(c, r, "REQ", "TIMEOUT")})
        \/ /\ r.state = "DREQ_SENT"
           /\ Update(c, DreqTimeout(r, again),
                     IF again THEN resent(MadFrom(c, r, "DREQ")) ELSE {})
        \/ /\ r.state = "TIMEWAIT"
           /\ Update(c, TimewaitOver(r), {})

CmTimerCallback(c) ==
    /\ \/ /\ cep[c].timer
          /\ cep[c].due # "no" \/ ~ LateTimers
          /\ TimerExpired(c)
       \/ /\ cep[c].due = "stale"
          /\ Update(c, [cep[c] EXCEPT !.due = "no"], {})
    /\ UNCHANGED <<commID, owned>>

-----------------------------------------------------------------------------
Init ==
    /\ cep = [c \in Cep |-> DestroyCEP(NewCep)]
    /\ commID = [h \in Host |-> 0]
    /\ owned = {}
    /\ net = {}

UserCall(c) ==
    \/ iba_cm_create_cep(c)
    \/ \E q \in Qp, h \in Host \ {HostOf[c]}, s \in Sid :
          c \in Client /\ Connect(c, q, h, s)
    \/ \E q \in Qp : c \in Client /\ ConnectNoDgrm(c, q)
    \/ \E s \in Sid : c \in Server /\ Listen(c, s)
    \/ AcceptA(c)
    \/ \E q \in Qp : AcceptP(c, q)
    \/ RejectA(c)
    \/ RejectP(c)
    \/ iba_cm_cancel(c)
    \/ iba_cm_disconnect(c)
    \/ iba_cm_destroy_cep(c)
    \/ iba_cm_wait(c)

Internal(c) ==
    \/ CmSystemCallback(c)
    \/ CmDoneCallback(c)
    \/ GsaSendCompleteCallback(c)
    \/ VpdAsyncEventCallback(c)
    \/ TimerFires(c)
    \/ CmTimerCallback(c)

Next ==
    \/ \E c \in Cep : UserCall(c) \/ Internal(c)
    \/ \E m \in net : GsaRecvCallback(m)

Spec == Init /\ [][Next]_vars

(* The timers expire, the callback thread runs, and a user's callback      *)
(* returns: what the timer service and SysCallbackQueue provide.           *)
FairSpec ==
    /\ Spec
    /\ \A c \in Cep : /\ WF_vars(TimerFires(c)) /\ WF_vars(CmTimerCallback(c))
                      /\ WF_vars(CmSystemCallback(c)) /\ WF_vars(CmDoneCallback(c))

-----------------------------------------------------------------------------
(* Type correctness of every variable, for any interleaving of user calls, *)
(* MADs, timers and callbacks.                                             *)
TypeOK ==
    /\ cep \in [Cep -> CepObject]
    /\ commID \in [Host -> Nat]
    /\ owned \subseteq Cep
    /\ net \subseteq Mad

Allocated(c) == cep[c].state # "FREE"

(* A CEP's timer runs exactly in the states that wait for it: CmTimerStart *)
(* never meets a running timer (ASSERT(!timeout_ms)), CmTimerCallback      *)
(* never a state it has no case for, and no wait is without an end.        *)
Waiting == {"REQ_SENT", "REP_WAIT", "REP_SENT", "MRA_REP_RCVD", "DREQ_SENT", "TIMEWAIT"}
TimerOK(r) == r.timer <=> r.state \in Waiting
TimerIffWaiting == \A c \in Cep : TimerOK(cep[c])

(* An idle or destroyed CEP has left the endpoint maps and every pending   *)
(* list, whatever path it took there (the ASSERTs of DestroyCEP).          *)
CleanOK(r) == r.state \in {"FREE", "IDLE"} =>
    r.lep = None /\ r.rep = None /\ r.parent = None /\ r.pending = <<>>
IdleIsClean == \A c \in Cep : CleanOK(cep[c])

(* An idle CEP has no communication ID: DestroyCEP asserts it, since a     *)
(* freed object must not stay in LocalCommIDMap.                           *)
IdleHasNoCommID ==
    \A c \in Cep : cep[c].state \in {"FREE", "IDLE"} => cep[c].lcid = 0

(* The maps of gCM are keyed: on one host no two CEPs share a local        *)
(* communication ID, a local queue pair or a remote one, so that a MAD     *)
(* finds at most one CEP.                                                  *)
UniqueKeys ==
    \A c, d \in Cep : c # d /\ HostOf[c] = HostOf[d] =>
        /\ cep[c].lcid # 0 => cep[c].lcid # cep[d].lcid
        /\ cep[c].lep # None => cep[c].lep # cep[d].lep
        /\ cep[c].rep # None => cep[c].rep # cep[d].rep

(* The pending list of a listener and the pParentCEP of the requests on it *)
(* agree, no request is queued twice or after it was answered, and the     *)
(* list keeps to the back log: what GetPendingCEP and RejectP assert.      *)
PendingOK ==
    \A c \in Cep :
        /\ LET q == cep[c].pending
           IN  /\ Len(q) <= MaxBackLog
               /\ \A i, j \in DOMAIN q : i # j => q[i] # q[j]
               /\ {q[i] : i \in DOMAIN q} = {d \in Cep : cep[d].parent = c}
               /\ q # <<>> => cep[c].state = "LISTEN"
        /\ cep[c].parent # None <=> cep[c].state \in {"REQ_RCVD", "MRA_REQ_SENT"}

(* No CEP is lost: while the object exists, a user holds its handle, or it *)
(* is queued on a listener, or it is being destroyed and a timer or a      *)
(* callback will come to free it.                                          *)
LeakFree(c) ==
    Allocated(c) => \/ c \in owned
                    \/ cep[c].parent # None
                    \/ Destroying(cep[c]) /\ (cep[c].timer \/ cep[c].item # "none")
NoLeak == \A c \in Cep : LeakFree(c)

(* The callback thread holds a CEP exactly while its reference count is    *)
(* not zero, and never one that was freed under it.                        *)
CallbackOK(r) == /\ r.item # "none" <=> r.cbref > 0
                 /\ r.item # "none" => r.state # "FREE"
CallbackHolds == \A c \in Cep : CallbackOK(cep[c])

(* An event raised for a user with a callback has a callback to deliver it *)
(* (TIMEOUT_REP with bTimewaitCallback waits for the end of TIMEWAIT).     *)
NoEventStranded ==
    \A c \in Cep :
        cep[c].cb /\ ~ Destroying(cep[c]) /\ cep[c].flags \ {"TIMEOUT_REP"} # {}
            => cep[c].cbref > 0

(* GetConnInfo drops the notice of a reply or of a disconnect the CEP is   *)
(* still to answer only by reporting it, whatever else was queued.         *)
AnswerDue == [s \in {"REP_RCVD", "DREQ_RCVD", "SIM_DREQ_RCVD"} |->
    CASE s = "REP_RCVD" -> "RCVD_REP" [] s = "DREQ_RCVD" -> "RCVD_DREQ"
      [] s = "SIM_DREQ_RCVD" -> "SIM_RCVD_DREQ"]
Dropped(c) ==
    LET s == cep[c].state
    IN  /\ s \in DOMAIN AnswerDue /\ cep'[c].state = s
        /\ AnswerDue[s] \in cep[c].flags \ cep'[c].flags
EventsAreReported ==
    [][\A c \in Cep : Dropped(c) => PickedEvent(cep[c]) = AnswerDue[cep[c].state]]_vars

(* With bTimewaitCallback a CEP comes to rest only with one of the final   *)
(* events ib_cm.h promises its user, after which CEP and queue pair may be *)
(* reused (iba_cm_reject is final by its return value).                    *)
FinalEvent == {"USRE_CANCEL", "TIMEOUT_REQ", "TIMEOUT_REP", "RCVD_REJ", "TIMEOUT_TIMEWAIT"}
FinalEventRaised ==
    [][TimewaitCallback => \A c \in owned \cap owned' :
          cep[c].state \notin {"FREE", "IDLE"} \cup ReplyArrived /\ cep'[c].state = "IDLE"
              => cep'[c].flags \cap FinalEvent # {}]_vars

(* The role of a CEP fits its state and the events queued on it, the       *)
(* ASSERTs of GetConnInfo, though IDLE CEPs change role.                   *)
ModeMatches ==
    \A c \in Cep :
        LET r == cep[c]
        IN  /\ r.state \in {"REQ_SENT", "REP_WAIT", "REP_RCVD", "MRA_REP_SENT"}
                   => r.mode = "ACTIVE"
            /\ r.state \in {"LISTEN", "REQ_RCVD", "MRA_REQ_SENT", "REP_SENT", "MRA_REP_RCVD"}
                   => r.mode = "PASSIVE"
            /\ r.flags \cap {"TIMEOUT_REQ", "RCVD_REP"} # {} => r.mode = "ACTIVE"
            /\ r.flags \cap {"TIMEOUT_REP", "RCVD_RTU", "RCVD_REQ"} # {} => r.mode = "PASSIVE"

(* The CEP's datagram holds the MAD that its state may retransmit: what    *)
(* ResendREQ, ResendREP and the DREQ retry send as it is.                  *)
RequestHeld ==
    \A c \in Cep : cep[c].state \in {"REQ_SENT", "REP_WAIT"} => cep[c].dgrm = "REQ"
AnswersHeld ==
    \A c \in Cep :
        LET r == cep[c]
        IN  /\ r.state \in {"REP_SENT", "MRA_REP_RCVD"} => r.dgrm = "REP"
            /\ r.state = "DREQ_SENT" => r.dgrm = "DREQ"
            /\ r.state = "ESTABLISHED" /\ r.mode = "ACTIVE" => r.dgrm = "RTU"
DatagramHolds == RequestHeld /\ AnswersHeld

(* ResendREQ: "The REQ is still valid in here", when the timer of a        *)
(* request expires and its datagram is not in use.                         *)
ReqStillValid ==
    \A c \in Cep : cep[c].state \in {"REQ_SENT", "REP_WAIT"} /\ ~ cep[c].busy
                      => cep[c].dgrm = "REQ"

(* A CEP that its user is about to answer owns a datagram the send of      *)
(* which has completed: CmDgrmSend asserts it is not in use.               *)
DatagramFree ==
    \A c \in Cep :
        cep[c].state \in {"REP_RCVD", "MRA_REP_SENT", "REQ_RCVD", "MRA_REQ_SENT"}
            => ~ cep[c].busy

(* The CEP p is the end of a connection that the CEP c was told of.        *)
Peer(c, p) == HostOf[p] = cep[c].rhost /\ cep[p].lcid # 0 /\ cep[p].lcid = cep[c].rcid

(* A connected client and the CEP its server names agree on the            *)
(* connection: the communication IDs cross, and each end has the other's   *)
(* queue pair.                                                             *)
Agreement ==
    \A c, p \in Cep :
        cep[c].state = "ESTABLISHED" /\ cep[c].mode = "ACTIVE" /\ Peer(c, p) =>
            /\ cep[p].rcid = cep[c].lcid
            /\ cep[p].lep \in {cep[c].rep, None}
            /\ cep[p].rep \in {cep[c].lep, None}

(* The server side is connected only to a client that accepted the reply:  *)
(* it is connected too or has begun to disconnect.                         *)
Connected == {"ESTABLISHED", "DREQ_SENT", "DREQ_RCVD", "SIM_DREQ_RCVD", "TIMEWAIT"}
ServerNotAhead ==
    \A c, p \in Cep :
        cep[c].state = "ESTABLISHED" /\ cep[c].mode = "PASSIVE" /\ Peer(c, p)
            => cep[p].state \in Connected

(* The other end of an established connection is there, or has sent the    *)
(* DREQ or REJ that ends it.                                               *)
PeerIsTold(c) ==
    \/ \E p \in Cep : Peer(c, p)
    \/ \E m \in net : m.type \in {"DREQ", "REJ"} /\ m.dst = HostOf[c] /\ m.rcid = cep[c].lcid

(* A REJ of the REQ that CEP c is the answer to was sent by c's own host.  *)
ReqWasRejected(c) ==
    \E m \in net : m.type = "REJ" /\ m.src = HostOf[c] /\ m.dst = cep[c].rhost
                   /\ m.rcid = cep[c].rcid

(* CEP c is connected without a RTU, by data that came to a queue pair     *)
(* which an earlier REP, perhaps cancelled since, had offered.             *)
DataOfAnother(c) ==
    /\ \A m \in net : ~ (m.type = "RTU" /\ m.dst = HostOf[c] /\ m.rcid = cep[c].lcid)
    /\ \E m \in net : m.type = "REP" /\ m.src = HostOf[c] /\ m.qp = cep[c].lep
                       /\ m.lcid # cep[c].lcid

(* A connected server CEP is not left behind by a client that is gone,     *)
(* whatever the client's user called and whichever MADs were lost, unless  *)
(* the server's host had rejected an earlier copy of the REQ, or the data  *)
(* that connected it was for an earlier user of its queue pair.            *)
ServerIsTold ==
    \A c \in Cep : cep[c].state = "ESTABLISHED" /\ cep[c].mode = "PASSIVE"
                      => PeerIsTold(c) \/ ReqWasRejected(c) \/ DataOfAnother(c)

(* The same of a connected client: its server is there or told it so.      *)
ClientIsTold ==
    \A c \in Cep : cep[c].state = "ESTABLISHED" /\ cep[c].mode = "ACTIVE" => PeerIsTold(c)

(* A client that takes a REJ of its REQ for a disconnect has no connected  *)
(* server: ProcessRejReq says the other side did not get the RTU.          *)
RejMeansNoRtu ==
    \A c, p \in Cep : cep[c].state = "SIM_DREQ_RCVD" /\ Peer(c, p)
                         => cep[p].state # "ESTABLISHED"

(* The queue pair of a connection that was established stays claimed until *)
(* TIMEWAIT is over, so that late packets cannot reach its next owner.     *)
QpHeldUntilTimewait ==
    [][~ ReuseQP => \A c \in Cep :
          cep[c].state \in Connected /\ cep'[c].lep # cep[c].lep
              => cep[c].state = "TIMEWAIT" /\ ~ cep'[c].timer]_vars

(* A CEP its user destroyed is freed in the end.                           *)
DestroyCompletes ==
    \A c \in Cep : Destroying(cep[c]) ~> cep[c].state = "FREE"

(* A connect request is resolved in the end, by a reply, a rejection or    *)
(* its last timeout, though MRAs prolong the wait.                         *)
ConnectResolves ==
    \A c \in Client : cep[c].state \in {"REQ_SENT", "REP_WAIT"}
                       ~> cep[c].state \notin {"REQ_SENT", "REP_WAIT"}

(* A CEP at rest has left every map and list and has no communication ID,  *)
(* and the events still queued on it fit the role it had: what DestroyCEP, *)
(* the next call of its user and GetConnInfo rely on.                      *)
AtRest == IdleIsClean /\ IdleHasNoCommID /\ ModeMatches

(* What the two ends of a connection believe of it: client and server name *)
(* each other's IDs and queue pairs, a server is connected only to a       *)
(* client that accepted, and is not left behind by one that is gone.       *)
EndsAgree == Agreement /\ ServerNotAhead /\ ServerIsTold

(* A CEP's datagram is free when its user answers with it, and holds what  *)
(* its state may retransmit.                                               *)
DatagramReady == DatagramFree /\ DatagramHolds

(* The event a user is still to answer is dropped only by reporting it,    *)
(* and with bTimewaitCallback a CEP comes to rest with a final event.      *)
EventsReachUser == EventsAreReported /\ FinalEventRaised
=============================================================================
