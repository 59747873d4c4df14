-------------------------------- MODULE Sidr --------------------------------
(***************************************************************************)
(* Service ID resolution of the Communication Manager (Cm/sidr_api.c and   *)
(* the SIDR parts of cm_gsa.c, cm_active.c and cm_api.c): users query a    *)
(* service ID that the user of one other host's CEP has registered.        *)
(*                                                                         *)
(* Each entry point holds gCM->ListLock and is one action.  All users give *)
(* a callback, but a service may be registered without one: the CM then    *)
(* answers for it.  A SIDR MAD may be lost, late or repeated.              *)
(***************************************************************************)
EXTENDS Integers, Sequences, FiniteSets

CONSTANTS
    Querier,           \* CEPs that query, each on a host of its own
    Foreign,           \* hosts that send one request each, and are not followed further
    MaxSidrRetry,      \* gCmParams.MaxReqRetry
    SidrBackLog,       \* ListenBackLog, or gCmParams.MaxBackLog
    SlowQuerier,       \* those whose sends end later, and whose timers expire while
                       \* another thread holds the lock
    AnswersLate,       \* TRUE: the service's user answers after its callback, too
    AsksAgain,         \* TRUE: a querier's user does not wait to be told
    MaxRequests,       \* bound: requests of each querier
    MaxNotices         \* bound: CallbackRefCnt of the registered CEP

ASSUME SidrAssumption ==
    /\ SlowQuerier \subseteq Querier
    /\ Querier \cap Foreign = {}
    /\ MaxSidrRetry \in Nat /\ SidrBackLog \in Nat
    /\ {AnswersLate, AsksAgain} \subseteq BOOLEAN
    /\ MaxRequests \in Nat /\ MaxNotices \in Nat

VARIABLES
    qry,       \* qry[q]: the querying CEP q
    reg,       \* the CEP of the service
    reqID,     \* reqID[q]: gCM->CommID of q's host
    sidrNet    \* every SIDR MAD ever sent

sidrVars == <<qry, reg, reqID, sidrNet>>

(* A request, and an answer to it, given or refused; `about' is the        *)
(* request its content was made for (ghost).                               *)
FormatSIDR_REQ(l, i) == [type |-> "SIDR_REQ", req |-> [lid |-> l, id |-> i]]
SendSIDR_RESP(r, about) == [type |-> "SIDR_RESP", req |-> r, about |-> about]
(* What a CEP's datagram may hold besides: no datagram, or anything.       *)
NoDgrm == [type |-> "NONE"]
Junk == [type |-> "JUNK"]

-----------------------------------------------------------------------------
(* Callbacks, on the record of either kind of CEP.                         *)

Doomed(r) == "DESTROY" \in r.flags
Notified(r, e) ==
    IF Doomed(r) THEN r
    ELSE IF ~ r.cb THEN [r EXCEPT !.flags = @ \cup {e}]
    ELSE [r EXCEPT !.flags = @ \cup {e}, !.refs = @ + 1,
                   !.item = IF r.refs = 0 THEN "queued" ELSE @]
(* DestroyCEP, on a CEP that was new as `blank'.                           *)
Freed(blank) == [blank EXCEPT !.state = "FREE"]
(* The end of iba_cm_destroy_cep, on a CEP that is idle by now.            *)
LetGo(r, blank) == IF r.refs > 0 THEN [r EXCEPT !.flags = @ \cup {"DESTROY"}] ELSE Freed(blank)
(* CmDoneCallback: a CEP marked for destruction is idle.                   *)
CallbackDone(r, blank) ==
    IF Doomed(r) THEN Freed(blank)
    ELSE [r EXCEPT !.refs = @ - 1, !.item = IF r.refs > 1 THEN "queued" ELSE "none"]

-----------------------------------------------------------------------------
(* A querying CEP; `asked': the request whose outcome its user awaits.     *)

NewQuery == [state |-> "IDLE", cb |-> TRUE, id |-> 0, asked |-> 0,
    timer |-> FALSE, due |-> "no", retry |-> 0, flags |-> {}, refs |-> 0, item |-> "none",
    dgrm |-> Junk, busy |-> FALSE]

Ask(q, r) == qry' = [qry EXCEPT ![q] = r]
SendMads(ms) == sidrNet' = sidrNet \cup ms

(* CepToIdle; the timer has been stopped.                                  *)
QueryToIdle(r) == [r EXCEPT !.state = "IDLE", !.id = 0, !.timer = FALSE,
                            !.due = IF @ = "due" THEN "stale" ELSE @]

(* A datagram whose send is not over is left to its completion, and a new  *)
(* one taken.                                                              *)
OwnDgrm(r) == [r EXCEPT !.busy = FALSE, !.dgrm = IF r.busy \/ @ = NoDgrm THEN Junk ELSE @]
NeedsDgrm(r) == r.busy \/ r.dgrm = NoDgrm

MayAsk(q) == AsksAgain \/ qry[q].asked = 0

(* AssignLocalCommID; the bound keeps the counter from wrapping.           *)
NewRequestID(q) == reqID[q] + 1

iba_cm_sidr_query(q) ==
    LET r == OwnDgrm(qry[q])
        i == NewRequestID(q)
    IN  /\ r.state # "FREE" /\ ~ Doomed(r) /\ MayAsk(q)
        /\ IF r.state # "IDLE"
           THEN Ask(q, r) /\ UNCHANGED <<reqID, sidrNet>>
           ELSE /\ i <= MaxRequests
                /\ reqID' = [reqID EXCEPT ![q] = i]
                /\ Ask(q, [r EXCEPT !.state = "SIDR_REQ_SENT", !.id = i, !.asked = i,
                            !.timer = TRUE, !.retry = 0,
                            !.dgrm = FormatSIDR_REQ(q, i), !.busy = q \in SlowQuerier])
                /\ SendMads({FormatSIDR_REQ(q, i)})
        /\ UNCHANGED reg

(* iba_cm_sidr_query without a datagram.                                   *)
QueryNoDgrm(q) ==
    /\ qry[q].state # "FREE" /\ ~ Doomed(qry[q]) /\ MayAsk(q) /\ NeedsDgrm(qry[q])
    /\ Ask(q, [qry[q] EXCEPT !.dgrm = NoDgrm, !.busy = FALSE])
    /\ UNCHANGED <<reg, reqID, sidrNet>>

(* The CMS_SIDR_REQ_SENT case of CancelA.                                  *)
CancelQuery(q) ==
    /\ qry[q].state = "SIDR_REQ_SENT"
    /\ Ask(q, Notified(QueryToIdle(qry[q]), "CANCEL"))
    /\ UNCHANGED <<reg, reqID, sidrNet>>

DestroyQuery(q) ==
    /\ qry[q].state # "FREE" /\ ~ Doomed(qry[q])
    /\ Ask(q, [LetGo(IF qry[q].state = "IDLE" THEN qry[q]
                     ELSE Notified(QueryToIdle(qry[q]), "CANCEL"), NewQuery) EXCEPT !.asked = 0])
    /\ UNCHANGED <<reg, reqID, sidrNet>>

(* An answer to no query of the host is dropped, and so is one for which a *)
(* datagram is needed and cannot be had.                                   *)
ProcessSidrResp(m) ==
    /\ m.type = "SIDR_RESP"
    /\ \E q \in Querier \cap {m.req.lid} :
          /\ qry[q].state = "SIDR_REQ_SENT" /\ qry[q].id = m.req.id
          /\ Ask(q, Notified(QueryToIdle([OwnDgrm(qry[q]) EXCEPT !.retry = 0, !.dgrm = m]), "RESP"))
    /\ UNCHANGED <<reg, reqID, sidrNet>>

(* The timer of q expires; its callback has yet to get the lock.           *)
QueryTimerFires(q) ==
    /\ q \in SlowQuerier /\ qry[q].timer /\ qry[q].due = "no"
    /\ Ask(q, [qry[q] EXCEPT !.due = "due"])
    /\ UNCHANGED <<reg, reqID, sidrNet>>

(* The CMS_SIDR_REQ_SENT case of CmTimerCallback.  The callback of a timer *)
(* stopped and started again is taken for the new timer's.                 *)
(* A MAD that is not a request is of no use to anybody.                    *)
(* Mutant: the retries are not counted.                                    *)
QueryRetryForever(r, slow) == [r EXCEPT !.timer = TRUE, !.busy = @ \/ slow]
QueryRetry(r, slow) ==
    IF r.retry < MaxSidrRetry
    THEN [r EXCEPT !.retry = @ + 1, !.timer = TRUE, !.busy = @ \/ slow]
    ELSE Notified([QueryToIdle(r) EXCEPT !.retry = 0], "TIMEOUT")
QueryTimerCallback(q) ==
    LET r == [qry[q] EXCEPT !.due = "no"]
    IN  /\ qry[q].due # "no" \/ (q \notin SlowQuerier /\ r.timer)
        /\ Ask(q, IF r.timer THEN QueryRetry([r EXCEPT !.timer = FALSE], q \in SlowQuerier) ELSE r)
        /\ SendMads(IF r.timer /\ r.retry < MaxSidrRetry /\ ~ r.busy /\ r.dgrm.type = "SIDR_REQ"
                    THEN {r.dgrm} ELSE {})
        /\ UNCHANGED <<reg, reqID>>

QuerySendCompletes(q) ==
    /\ qry[q].busy
    /\ Ask(q, [qry[q] EXCEPT !.busy = FALSE])
    /\ UNCHANGED <<reg, reqID, sidrNet>>

(* CmSystemCallback and GetConnInfo: an idle CEP has something to report.  *)
QueryCallback(q) ==
    LET r == qry[q]
    IN  /\ r.item = "queued"
        /\ Ask(q, IF Doomed(r) THEN [r EXCEPT !.item = "running"]
                  ELSE [r EXCEPT !.item = "running", !.flags = {},
                           !.asked = IF r.state = "IDLE" /\ r.flags # {} THEN 0 ELSE @])
        /\ UNCHANGED <<reg, reqID, sidrNet>>
QueryCallbackDone(q) ==
    /\ qry[q].item = "running"
    /\ Ask(q, CallbackDone(qry[q], NewQuery))
    /\ UNCHANGED <<reg, reqID, sidrNet>>

-----------------------------------------------------------------------------
(* The CEP of the service.                                                 *)

(* `pending': the requests, each with a CEP of its own in the code;        *)
(* `seen': its user has been shown the first (ghost); `shown': the         *)
(* requests its user has been shown and means to answer.                   *)
NewService == [state |-> "IDLE", cb |-> FALSE, notify |-> FALSE, pending |-> << >>, flags |-> {},
    refs |-> 0, item |-> "none", seen |-> FALSE, shown |-> << >>]

Served(r) == reg' = r /\ r.refs <= MaxNotices

(* Its user registers again once it is through with what it has been shown.*)
iba_cm_sidr_register ==
    /\ reg.state = "IDLE" /\ ~ Doomed(reg) /\ reg.shown = << >>
    /\ \E cb \in BOOLEAN : Served([reg EXCEPT !.state = "REGISTERED", !.cb = cb,
                                                             !.notify = @ \/ cb])
    /\ UNCHANGED <<qry, reqID, sidrNet>>

Unregistered(r) == [r EXCEPT !.state = "IDLE", !.pending = << >>, !.seen = FALSE]
iba_cm_sidr_deregister ==
    /\ reg.state = "REGISTERED"
    /\ Served([Unregistered(reg) EXCEPT !.notify = FALSE])
    /\ UNCHANGED <<qry, reqID, sidrNet>>

DestroyService ==
    /\ reg.state # "FREE" /\ ~ Doomed(reg)
    /\ Served(LetGo(IF reg.state = "IDLE" THEN reg ELSE Notified(Unregistered(reg), "CANCEL"), NewService))
    /\ UNCHANGED <<qry, reqID, sidrNet>>

(* The first request is answered, with what the user made for the request  *)
(* it has been shown, and the user told again when more requests wait.     *)
(* Mutant: it is not.                                                      *)
AnsweredAndSilent(r) == [r EXCEPT !.pending = Tail(@), !.seen = FALSE, !.shown = Tail(@)]
Answered(r) ==
    LET rest == [r EXCEPT !.pending = Tail(@), !.seen = FALSE, !.shown = Tail(@)]
    IN  IF rest.pending # << >> THEN Notified(rest, "REQ") ELSE rest
iba_cm_sidr_response ==
    /\ reg.state = "REGISTERED" /\ reg.pending # << >> /\ reg.shown # << >>
    /\ Served(Answered(reg))
    /\ SendMads({SendSIDR_RESP(Head(reg.pending), Head(reg.shown))})
    /\ UNCHANGED <<qry, reqID>>
(* The call finds nothing to answer.                                       *)
ResponseRefused ==
    /\ reg.state # "FREE" /\ reg.shown # << >>
    /\ reg.state # "REGISTERED" \/ reg.pending = << >>
    /\ Served([reg EXCEPT !.shown = Tail(@)])
    /\ UNCHANGED <<qry, reqID, sidrNet>>

ProcessSidrReq(m) ==
    /\ m.type = "SIDR_REQ"
    /\ UNCHANGED <<qry, reqID>>
    /\ \/ /\ reg.state # "REGISTERED"
          /\ UNCHANGED reg /\ SendMads({SendSIDR_RESP(m.req, m.req)})
       \/ /\ reg.state = "REGISTERED" /\ m.req \notin {reg.pending[i] : i \in DOMAIN reg.pending}
          /\ \/ (* The backlog is full, or no CEP or no datagram to be had. *)
                UNCHANGED reg /\ SendMads({SendSIDR_RESP(m.req, m.req)})
             \/ /\ Len(reg.pending) < SidrBackLog /\ ~ reg.notify
                /\ UNCHANGED reg /\ SendMads({SendSIDR_RESP(m.req, m.req)})
             \/ /\ Len(reg.pending) < SidrBackLog /\ reg.notify
                /\ Served(Notified([reg EXCEPT !.pending = Append(@, m.req)], "REQ"))
                /\ UNCHANGED sidrNet

ServiceCallback ==
    LET shows == ~ Doomed(reg) /\ reg.state = "REGISTERED" /\ "REQ" \in reg.flags
                 /\ reg.pending # << >>
    IN  /\ reg.item = "queued"
        /\ Served([reg EXCEPT !.item = "running", !.flags = IF Doomed(reg) THEN @ ELSE {},
                     !.seen = @ \/ shows,
                     !.shown = IF shows THEN Append(@, Head(reg.pending)) ELSE @])
        /\ UNCHANGED <<qry, reqID, sidrNet>>
ServiceCallbackDone ==
    /\ reg.item = "running"
    /\ Served(CallbackDone([reg EXCEPT !.shown = IF AnswersLate THEN @ ELSE << >>], NewService))
    /\ UNCHANGED <<qry, reqID, sidrNet>>

(* CM_FLAG_SIDR_REGISTER_NOTIFY of iba_cm_modify_cep, by a user that gave  *)
(* a callback.                                                             *)
ModifyNotify(b) ==
    /\ reg.state = "REGISTERED" /\ reg.cb /\ reg.notify # b
    /\ Served([reg EXCEPT !.notify = b])
    /\ UNCHANGED <<qry, reqID, sidrNet>>

-----------------------------------------------------------------------------
SidrInit ==
    /\ qry = [q \in Querier |-> NewQuery]
    /\ reg = NewService
    /\ reqID = [q \in Querier |-> 0]
    /\ sidrNet = {FormatSIDR_REQ(l, 1) : l \in Foreign}

SidrNext ==
    \/ \E q \in Querier :
          \/ iba_cm_sidr_query(q) \/ QueryNoDgrm(q) \/ CancelQuery(q) \/ DestroyQuery(q)
          \/ QueryTimerFires(q) \/ QueryTimerCallback(q) \/ QuerySendCompletes(q)
          \/ QueryCallback(q) \/ QueryCallbackDone(q)
    \/ \E m \in sidrNet : ProcessSidrReq(m) \/ ProcessSidrResp(m)
    \/ iba_cm_sidr_register \/ iba_cm_sidr_deregister \/ DestroyService
    \/ iba_cm_sidr_response \/ ResponseRefused \/ \E b \in BOOLEAN : ModifyNotify(b)
    \/ ServiceCallback \/ ServiceCallbackDone

(* The timers expire, the callback thread runs, and callbacks return.      *)
SidrFairness == \A q \in Querier :
    /\ WF_sidrVars(QueryTimerFires(q)) /\ WF_sidrVars(QueryTimerCallback(q))
    /\ WF_sidrVars(QueryCallback(q)) /\ WF_sidrVars(QueryCallbackDone(q))
SidrSpec == SidrInit /\ [][SidrNext]_sidrVars /\ SidrFairness

-----------------------------------------------------------------------------
(* What a querier's user will be told is the answer to its latest query,   *)
(* made for that query, whatever other queries, retries and late answers   *)
(* are about (the QueryMap look-up of ProcessSidrResp, and the first       *)
(* pending request in iba_cm_sidr_response); and while a query is out its  *)
(* datagram holds the request, for the retry that asserts so.              *)
AnswersMatch == \A q \in Querier : LET r == qry[q] IN
    /\ ~ Doomed(r) /\ r.state = "IDLE" /\ "RESP" \in r.flags /\ "CANCEL" \notin r.flags =>
          /\ r.dgrm.type = "SIDR_RESP"
          /\ r.dgrm.req = [lid |-> q, id |-> r.asked] /\ r.dgrm.about = r.dgrm.req
    /\ r.state = "SIDR_REQ_SENT" => r.dgrm.type = "SIDR_REQ"

(* A request that waits has been shown to the user of the service, or will *)
(* be: GetConnInfo clears the events of all the requests that arrived, and *)
(* iba_cm_sidr_response sets the event again.                              *)
RequestsSeen ==
    reg.state = "REGISTERED" /\ reg.pending # << >> =>
        reg.seen \/ ("REQ" \in reg.flags /\ reg.item = "queued")
                 \/ ("REQ" \in reg.flags /\ reg.item = "running" /\ reg.refs > 1)
SidrKept == AnswersMatch /\ RequestsSeen

(* Every query ends for its user: with an answer, a timeout or the cancel  *)
(* it asked for, or it destroys the CEP.                                   *)
QueryResolved == \A q \in Querier : qry[q].asked # 0 ~> qry[q].asked = 0
=============================================================================
