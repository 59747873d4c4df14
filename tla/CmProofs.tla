------------------------------ MODULE CmProofs ------------------------------
(***************************************************************************)
(* Proofs about Cm, for any number of hosts, CEPs and queue pairs, any     *)
(* retry counts, back log and bounds, and every setting of the options.    *)
(***************************************************************************)
EXTENDS Cm, TLAPS

-----------------------------------------------------------------------------
(* The inductive invariant.                                                *)

(* The states of a request that waits on a listener's queue.               *)
Queued == {"REQ_RCVD", "MRA_REQ_SENT"}

(* The states in which a CEP sends MADs: it then knows where to.           *)
Talking == CepState \ {"FREE", "IDLE", "LISTEN"}

(* A CEP that its user destroyed waits for a timer or for a callback.      *)
DestroyOK(r) == ~ DgrmMayFail /\ Destroying(r) =>
    r.state \in {"DREQ_SENT", "TIMEWAIT"} \/ (r.state = "IDLE" /\ r.item # "none")

(* What holds of every CEP by itself.                                      *)
RecOK(r) ==
    /\ r \in CepObject
    /\ r.state \in Talking => r.rhost \in Host
    /\ TimerOK(r)
    /\ CallbackOK(r)
    /\ DestroyOK(r)
    /\ r.parent # None <=> r.state \in Queued
    /\ r.state \in Queued => r.cbref = 0
    /\ r.state # "LISTEN" => r.pending = <<>>

(* The queue of a listener holds, once each, the CEPs that name it parent. *)
Linked(c) ==
    LET q == cep[c].pending
    IN  /\ Len(q) <= MaxBackLog
        /\ \A i, j \in DOMAIN q : i # j => q[i] # q[j]
        /\ \A i \in DOMAIN q : cep[q[i]].parent = c
        /\ \A d \in Cep : cep[d].parent = c => \E i \in DOMAIN q : q[i] = d

IInv ==
    /\ cep \in [Cep -> CepObject]
    /\ \A c \in Cep : RecOK(cep[c])
    /\ \A c \in Cep : Linked(c)
    /\ ~ DgrmMayFail => NoLeak
    /\ commID \in [Host -> Nat]
    /\ owned \subseteq Cep
    /\ net \subseteq Mad

(* A change of one CEP from r to s that keeps what others rely on.         *)
GoodStep(r, s) == RecOK(s) /\ s.parent = r.parent /\ s.pending = r.pending

(* What keeps a CEP that its user destroyed from being forgotten.          *)
StillDestroyed(r, s) ==
    Destroying(r) \/ r.state = "FREE" => Destroying(s) \/ s.state = "FREE"

Keeps(r, s) == GoodStep(r, s) /\ StillDestroyed(r, s)

-----------------------------------------------------------------------------
(* The steps on a CEP object keep its type.                                *)

(* The states and the contents of a datagram that the steps name.          *)
LEMMA StateNames ==
    /\ {"FREE", "IDLE", "LISTEN", "REQ_SENT", "REQ_RCVD", "REP_SENT", "REP_RCVD",
        "MRA_REQ_SENT", "MRA_REP_SENT", "REP_WAIT", "MRA_REP_RCVD", "ESTABLISHED",
        "DREQ_SENT", "DREQ_RCVD", "SIM_DREQ_RCVD", "TIMEWAIT"} \subseteq CepState
    /\ MadType \subseteq Held /\ "NONE" \in Held /\ "JUNK" \in Held
  BY DEF CepState, Held

(* CepSetState keeps the type of the CEP.                                  *)
LEMMA CepSetStateType ==
    ASSUME NEW r \in CepObject, NEW s \in CepState
    PROVE  CepSetState(r, s) \in CepObject
  BY DEF CepSetState, CepObject

(* CmTimerStart keeps the type of the CEP.                                 *)
LEMMA CmTimerStartType ==
    ASSUME NEW r \in CepObject PROVE CmTimerStart(r) \in CepObject
  BY DEF CmTimerStart, CepObject

(* CmTimerStop keeps the type of the CEP, also when the timer has expired. *)
LEMMA CmTimerStopType ==
    ASSUME NEW r \in CepObject PROVE CmTimerStop(r) \in CepObject
  <1> DEFINE d == IF r.due = "due" THEN "stale" ELSE r.due
  <1>1. d \in Expiry
    <2>1. r.due \in Expiry
      BY DEF CepObject
    <2> QED
      BY <2>1 DEF Expiry
  <1>2. CmTimerStop(r) = [r EXCEPT !.timer = FALSE, !.due = d]
    BY DEF CmTimerStop
  <1> HIDE DEF d
  <1> QED
    BY <1>1, <1>2 DEF CepObject

(* ClearEndPoint keeps the type of the CEP.                                *)
LEMMA ClearEndPointType ==
    ASSUME NEW r \in CepObject PROVE ClearEndPoint(r) \in CepObject
  BY DEF ClearEndPoint, CepObject

(* CepToIdle keeps the type of the CEP.                                    *)
LEMMA CepToIdleType ==
    ASSUME NEW r \in CepObject PROVE CepToIdle(r) \in CepObject
  <1> DEFINE s == ClearEndPoint(r)
  <1>1. s \in CepObject
    BY ClearEndPointType
  <1> HIDE DEF s
  <1>2. [s EXCEPT !.lcid = 0, !.state = "IDLE"] \in CepObject
    BY <1>1, StateNames DEF CepObject
  <1> QED
    BY <1>2 DEF CepToIdle, s

(* CepToDisconnecting keeps the type of the CEP.                           *)
LEMMA CepToDisconnectingType ==
    ASSUME NEW r \in CepObject, NEW s \in CepState
    PROVE  CepToDisconnecting(r, s) \in CepObject
  BY ClearEndPointType, CepSetStateType DEF CepToDisconnecting

(* CepToTimewait keeps the type of the CEP.                                *)
LEMMA CepToTimewaitType ==
    ASSUME NEW r \in CepObject PROVE CepToTimewait(r) \in CepObject
  BY CepToDisconnectingType, CmTimerStartType DEF CepToTimewait, CepState

(* A send from the CEP's own datagram keeps the type of the CEP.           *)
LEMMA CepSendType ==
    ASSUME NEW r \in CepObject, NEW t \in MadType PROVE CepSend(r, t) \in CepObject
  BY CmAssumption DEF CepSend, CepObject, Held

(* A retransmission keeps the type of the CEP.                             *)
LEMMA CepResendType ==
    ASSUME NEW r \in CepObject PROVE CepResend(r) \in CepObject
  <1> DEFINE b == r.busy \/ SlowSends
  <1>1. b \in BOOLEAN
    OBVIOUS
  <1>2. CepResend(r) = [r EXCEPT !.busy = b]
    BY DEF CepResend
  <1> HIDE DEF b
  <1> QED
    BY <1>1, <1>2 DEF CepObject

(* PrepareCepDgrm keeps the type of the CEP.                               *)
LEMMA PrepareCepDgrmType ==
    ASSUME NEW r \in CepObject PROVE PrepareCepDgrm(r) \in CepObject
  <1> DEFINE d == IF r.busy THEN "JUNK" ELSE r.dgrm
  <1>1. d \in Held
    <2>1. r.dgrm \in Held
      BY DEF CepObject
    <2> QED
      BY <2>1 DEF Held
  <1>2. PrepareCepDgrm(r) = [r EXCEPT !.busy = FALSE, !.dgrm = d]
    BY DEF PrepareCepDgrm
  <1> HIDE DEF d
  <1> QED
    BY <1>1, <1>2 DEF CepObject

(* CmDgrmCopyAddrAndMad keeps the type of the CEP.                         *)
LEMMA CmDgrmCopyType ==
    ASSUME NEW r \in CepObject, NEW t \in Held
    PROVE  CmDgrmCopyAddrAndMad(r, t) \in CepObject
  BY DEF CmDgrmCopyAddrAndMad, CepObject

(* Queueing an event keeps the type of the CEP.                            *)
LEMMA EventSetType ==
    ASSUME NEW r \in CepObject, NEW e \in Event PROVE EventSet(r, e) \in CepObject
  BY DEF EventSet, CepObject

(* The callback count and item may take any value of their types.          *)
LEMMA CallbackFieldsType ==
    ASSUME NEW r \in CepObject, NEW n \in Nat, NEW i \in {"none", "queued", "running"}
    PROVE  [r EXCEPT !.cbref = n, !.item = i] \in CepObject
  BY DEF CepObject

(* SetNotification keeps the type of the CEP.                              *)
LEMMA SetNotificationType ==
    ASSUME NEW r \in CepObject, NEW e \in Event PROVE SetNotification(r, e) \in CepObject
  <1> DEFINE s == EventSet(r, e)
  <1>1. s \in CepObject
    BY EventSetType
  <1>2. s.cbref + 1 \in Nat
        /\ (IF r.cbref = 0 THEN "queued" ELSE s.item) \in {"none", "queued", "running"}
    BY <1>1 DEF CepObject
  <1> HIDE DEF s
  <1>3. [s EXCEPT !.cbref = s.cbref + 1,
                  !.item = IF r.cbref = 0 THEN "queued" ELSE s.item] \in CepObject
    BY <1>1, <1>2, CallbackFieldsType
  <1> QED
    BY <1>1, <1>3 DEF SetNotification, s

(* CreateCEP makes a CEP object.                                           *)
LEMMA NewCepType == NewCep \in CepObject
  BY DEF NewCep, CepObject, CepState, Mode, Expiry, Held

(* DestroyCEP leaves a CEP object, marked free.                            *)
LEMMA DestroyCEPType ==
    ASSUME NEW r \in CepObject PROVE DestroyCEP(r) \in CepObject
  <1> DEFINE n == NewCep
  <1>1. n \in CepObject
    BY NewCepType
  <1> HIDE DEF n
  <1>2. [n EXCEPT !.state = "FREE", !.dgrm = "NONE", !.lcid = r.lcid, !.lep = r.lep,
                  !.rep = r.rep, !.cbref = r.cbref, !.item = r.item] \in CepObject
    BY <1>1, StateNames DEF CepObject
  <1> QED
    BY <1>2 DEF DestroyCEP, n

-----------------------------------------------------------------------------
(* The steps on a CEP object keep what the invariant says of it.           *)

(* The fields that moving a CEP between states leaves alone.               *)
SameRest(r, s) ==
    /\ s.rhost = r.rhost /\ s.parent = r.parent /\ s.pending = r.pending
    /\ s.flags = r.flags /\ s.cbref = r.cbref /\ s.item = r.item

(* A CEP that moves between the states of a connection, or to IDLE, and    *)
(* changes nothing that others rely on, keeps the invariant of its record. *)
LEMMA Moved ==
    ASSUME NEW r, NEW s \in CepObject, RecOK(r), SameRest(r, s), TimerOK(s),
           r.state \in Talking, s.state \in Talking \cup {"IDLE"},
           r.state \in Queued <=> s.state \in Queued,
           Destroying(r) /\ r.state \in {"DREQ_SENT", "TIMEWAIT"}
               => s.state \in {"DREQ_SENT", "TIMEWAIT"} \/ (s.state = "IDLE" /\ s.item # "none")
    PROVE  Keeps(r, s)
  <1>1. r.state # "FREE" /\ s.state # "FREE" /\ r.state # "LISTEN" /\ s.state # "LISTEN"
        /\ r.state # "IDLE"
    BY DEF Talking
  <1>2. s.state \in Talking => s.rhost \in Host
    BY DEF RecOK, SameRest
  <1>3. CallbackOK(s)
    BY <1>1 DEF RecOK, SameRest, CallbackOK
  <1>4. DestroyOK(s)
    BY <1>1 DEF RecOK, SameRest, DestroyOK, Destroying
  <1>5. s.parent # None <=> s.state \in Queued
    BY DEF RecOK, SameRest
  <1>6. s.state # "LISTEN" => s.pending = <<>>
    BY <1>1 DEF RecOK, SameRest
  <1>7. s.state \in Queued => s.cbref = 0
    BY DEF RecOK, SameRest
  <1>8. RecOK(s)
    BY <1>2, <1>3, <1>4, <1>5, <1>6, <1>7 DEF RecOK
  <1> QED
    BY <1>1, <1>8 DEF Keeps, GoodStep, StillDestroyed, SameRest, Destroying

(* SetNotification keeps the invariant of the record: the count and the    *)
(* item of the callback move together, and a destroyed CEP is left alone.  *)
LEMMA Notified ==
    ASSUME NEW r, NEW e \in Event, RecOK(r), r.state # "FREE",
           r.state \notin Queued, e # "USRE_DESTROY"
    PROVE  LET s == SetNotification(r, e)
           IN  Keeps(r, s) /\ s.state = r.state
  <1> DEFINE s == SetNotification(r, e)
  <1>0. r \in CepObject
    BY DEF RecOK
  <1>1. s \in CepObject
    BY <1>0, SetNotificationType
  <1>2. /\ s.state = r.state /\ s.timer = r.timer /\ s.rhost = r.rhost
        /\ s.parent = r.parent /\ s.pending = r.pending
    BY <1>0 DEF SetNotification, EventSet, CepObject
  <1>3. Destroying(s) <=> Destroying(r)
    BY <1>0 DEF SetNotification, EventSet, CepObject, Destroying
  <1>4. Destroying(r) => s = r
    BY DEF SetNotification
  <1>5. CallbackOK(s)
    <2>1. CASE Destroying(r) \/ ~ r.cb
      BY <2>1, <1>0 DEF SetNotification, EventSet, CepObject, RecOK, CallbackOK
    <2>2. CASE ~ Destroying(r) /\ r.cb
      <3>1. s.cbref = r.cbref + 1 /\ s.item = IF r.cbref = 0 THEN "queued" ELSE r.item
        BY <2>2, <1>0 DEF SetNotification, EventSet, CepObject
      <3>2. r.cbref \in Nat /\ (r.item # "none" <=> r.cbref > 0)
        BY <1>0 DEF CepObject, RecOK, CallbackOK
      <3>3. s.cbref > 0 /\ s.item # "none"
        BY <3>1, <3>2
      <3> QED
        BY <3>3, <1>2 DEF CallbackOK
    <2> QED
      BY <2>1, <2>2
  <1> HIDE DEF s
  <1>6. RecOK(s)
    BY <1>1, <1>2, <1>3, <1>4, <1>5 DEF RecOK, TimerOK, DestroyOK
  <1>7. Keeps(r, s) /\ s.state = r.state
    BY <1>2, <1>3, <1>6 DEF Keeps, GoodStep, StillDestroyed
  <1> QED
    BY <1>7 DEF s

(* Steps compose.                                                          *)
LEMMA KeepsTrans ==
    ASSUME NEW r, NEW s, NEW t, Keeps(r, s), Keeps(s, t), s.state # "FREE"
    PROVE  Keeps(r, t)
  BY DEF Keeps, GoodStep, StillDestroyed

(* A CEP that is moved and whose user is then told.                        *)
LEMMA MovedAndNotified ==
    ASSUME NEW r, NEW s \in CepObject, RecOK(r), SameRest(r, s), TimerOK(s),
           NEW e \in Event, e # "USRE_DESTROY",
           r.state \in Talking, s.state \in Talking \cup {"IDLE"},
           r.state \notin Queued, s.state \notin Queued,
           Destroying(r) /\ r.state \in {"DREQ_SENT", "TIMEWAIT"}
               => s.state \in {"DREQ_SENT", "TIMEWAIT"} \/ (s.state = "IDLE" /\ s.item # "none")
    PROVE  Keeps(r, SetNotification(s, e))
  <1>1. Keeps(r, s)
    BY Moved
  <1>2. s.state # "FREE" /\ RecOK(s)
    BY <1>1 DEF Keeps, GoodStep, Talking
  <1>3. Keeps(s, SetNotification(s, e))
    BY <1>2, Notified
  <1> QED
    BY <1>1, <1>2, <1>3, KeepsTrans

(* A change of fields the invariant does not speak of.                     *)
LEMMA Touched ==
    ASSUME NEW r, NEW s \in CepObject, RecOK(r), SameRest(r, s),
           s.state = r.state, s.timer = r.timer
    PROVE  Keeps(r, s)
  <1>1. TimerOK(s) /\ CallbackOK(s) /\ DestroyOK(s)
    BY DEF RecOK, SameRest, TimerOK, CallbackOK, DestroyOK, Destroying
  <1>2. RecOK(s)
    BY <1>1 DEF RecOK, SameRest
  <1> QED
    BY <1>2 DEF Keeps, GoodStep, StillDestroyed, SameRest, Destroying

(* The events but the mark that the user has destroyed the CEP.            *)
LEMMA EventNames ==
    Event \ {"USRE_DESTROY"} = {"RCVD_REQ", "RCVD_REP", "RCVD_REJ", "RCVD_RTU", "RCVD_DREQ",
        "RCVD_DREP", "SIM_RCVD_DREQ", "TIMEOUT_REQ", "TIMEOUT_REP", "TIMEOUT_DREQ",
        "TIMEOUT_TIMEWAIT", "USRE_CANCEL"}
  BY DEF Event

(* The MAD types that the steps name.                                      *)
LEMMA MadNames == {"REQ", "REP", "RTU", "REJ", "MRA", "DREQ", "DREP"} \subseteq MadType
  BY DEF MadType

(* AcceptA: an active CEP sends its RTU.                                   *)
LEMMA AcceptAStep ==
    ASSUME NEW r, RecOK(r), r.state \in {"REP_RCVD", "MRA_REP_SENT"}
    PROVE  Keeps(r, CepSetState(CepSend(r, "RTU"), "ESTABLISHED"))
  <1> DEFINE s == CepSetState(CepSend(r, "RTU"), "ESTABLISHED")
  <1>0. r \in CepObject /\ TimerOK(r)
    BY DEF RecOK
  <1>1. s \in CepObject
    BY <1>0, StateNames, MadNames, CepSetStateType, CepSendType
  <1>2. SameRest(r, s) /\ s.state = "ESTABLISHED" /\ s.timer = r.timer
    BY <1>0 DEF SameRest, CepObject, CepSend, CepSetState
  <1> HIDE DEF s
  <1>3. TimerOK(s) /\ r.state \in Talking /\ s.state \in Talking \cup {"IDLE"}
        /\ (r.state \in Queued <=> s.state \in Queued)
    BY <1>0, <1>2 DEF TimerOK, Waiting, Talking, Queued, CepState
  <1>4. Keeps(r, s)
    BY <1>1, <1>2, <1>3, Moved
  <1> QED
    BY <1>4 DEF s

(* RejectA: an active CEP rejects the reply.                               *)
LEMMA RejectAStep ==
    ASSUME NEW r, RecOK(r), r.state \in {"REP_RCVD", "MRA_REP_SENT"}
    PROVE  Keeps(r, CepToIdle(CepSend(r, "REJ")))
  <1> DEFINE s == CepToIdle(CepSend(r, "REJ"))
  <1>0. r \in CepObject /\ TimerOK(r)
    BY DEF RecOK
  <1>1. s \in CepObject
    BY <1>0, StateNames, MadNames, CepSendType, CepToIdleType
  <1>2. SameRest(r, s) /\ s.state = "IDLE" /\ s.timer = r.timer
    BY <1>0 DEF SameRest, CepObject, CepSend, CepToIdle, ClearEndPoint
  <1> HIDE DEF s
  <1>3. TimerOK(s) /\ r.state \in Talking /\ s.state \in Talking \cup {"IDLE"}
        /\ (r.state \in Queued <=> s.state \in Queued)
    BY <1>0, <1>2 DEF TimerOK, Waiting, Talking, Queued, CepState
  <1>4. Keeps(r, s)
    BY <1>1, <1>2, <1>3, Moved
  <1> QED
    BY <1>4 DEF s

(* ProcessReqDup: the REP is sent again.                                   *)
LEMMA RepResendStep ==
    ASSUME NEW r, RecOK(r), r.state \in {"REP_SENT"}
    PROVE  Keeps(r, CmTimerStart(CepResend(CmTimerStop(r))))
  <1> DEFINE s == CmTimerStart(CepResend(CmTimerStop(r)))
  <1>0. r \in CepObject /\ TimerOK(r)
    BY DEF RecOK
  <1>1. s \in CepObject
    BY <1>0, StateNames, MadNames, CmTimerStartType, CmTimerStopType, CepResendType
  <1>2. SameRest(r, s) /\ s.state = r.state /\ s.timer = TRUE
    BY <1>0 DEF SameRest, CepObject, CepResend, CmTimerStart, CmTimerStop
  <1> HIDE DEF s
  <1>3. TimerOK(s) /\ r.state \in Talking /\ s.state \in Talking \cup {"IDLE"}
        /\ (r.state \in Queued <=> s.state \in Queued)
    BY <1>0, <1>2 DEF TimerOK, Waiting, Talking, Queued, CepState
  <1>4. Keeps(r, s)
    BY <1>1, <1>2, <1>3, Moved
  <1> QED
    BY <1>4 DEF s

(* ProcessReqDup: the sender of a queued REQ is told to wait.              *)
LEMMA MraReqSentStep ==
    ASSUME NEW r, RecOK(r), r.state \in {"REQ_RCVD", "MRA_REQ_SENT"}
    PROVE  Keeps(r, CepSetState(r, "MRA_REQ_SENT"))
  <1> DEFINE s == CepSetState(r, "MRA_REQ_SENT")
  <1>0. r \in CepObject /\ TimerOK(r)
    BY DEF RecOK
  <1>1. s \in CepObject
    BY <1>0, StateNames, MadNames, CepSetStateType
  <1>2. SameRest(r, s) /\ s.state = "MRA_REQ_SENT" /\ s.timer = r.timer
    BY <1>0 DEF SameRest, CepObject, CepSetState
  <1> HIDE DEF s
  <1>3. TimerOK(s) /\ r.state \in Talking /\ s.state \in Talking \cup {"IDLE"}
        /\ (r.state \in Queued <=> s.state \in Queued)
    BY <1>0, <1>2 DEF TimerOK, Waiting, Talking, Queued, CepState
  <1>4. Keeps(r, s)
    BY <1>1, <1>2, <1>3, Moved
  <1> QED
    BY <1>4 DEF s

(* ProcessDreqCep and ProcessReqStale: the other end is gone.              *)
LEMMA DreqReceivedStep ==
    ASSUME NEW r, NEW h \in Held, RecOK(r), r.state \in {"ESTABLISHED"}
    PROVE  Keeps(r, DreqReceived(r, h))
  <1> DEFINE s == CepToDisconnecting(CmDgrmCopyAddrAndMad(r, h), "DREQ_RCVD")
  <1>0. r \in CepObject /\ TimerOK(r)
    BY DEF RecOK
  <1>1. s \in CepObject
    BY <1>0, StateNames, MadNames, CmDgrmCopyType, CepToDisconnectingType
  <1>2. SameRest(r, s) /\ s.state = "DREQ_RCVD" /\ s.timer = r.timer
    BY <1>0 DEF SameRest, CepObject, CepSetState, CepToDisconnecting, ClearEndPoint,
       CmDgrmCopyAddrAndMad
  <1> HIDE DEF s
  <1>3. TimerOK(s) /\ r.state \in Talking /\ s.state \in Talking \cup {"IDLE"}
        /\ r.state \notin Queued /\ s.state \notin Queued
    BY <1>0, <1>2 DEF TimerOK, Waiting, Talking, Queued, CepState
  <1>4. Keeps(r, SetNotification(s, "RCVD_DREQ"))
    BY <1>1, <1>2, <1>3, MovedAndNotified, EventNames
  <1> QED
    BY <1>4 DEF DreqReceived, s

(* ProcessRep: the reply a client waits for.                               *)
LEMMA RepReceivedStep ==
    ASSUME NEW r, NEW m \in Mad, RecOK(r), r.state \in {"REQ_SENT", "REP_WAIT"}
    PROVE  Keeps(r, RepReceived(m, r))
  <1> DEFINE s == CepSetState(CmDgrmCopyAddrAndMad(CmTimerStop(
                 [PrepareCepDgrm(r) EXCEPT !.rep = m.qp, !.rcid = m.lcid]), "REP"), "REP_RCVD")
  <1>0. r \in CepObject /\ TimerOK(r)
    BY DEF RecOK
  <1>1. s \in CepObject
    <2> DEFINE p == PrepareCepDgrm(r)
               q == [p EXCEPT !.rep = m.qp, !.rcid = m.lcid]
    <2>1. p \in CepObject
      BY <1>0, PrepareCepDgrmType
    <2> HIDE DEF p
    <2>2. q \in CepObject
      BY <2>1 DEF CepObject, Mad
    <2> HIDE DEF q
    <2>3. CepSetState(CmDgrmCopyAddrAndMad(CmTimerStop(q), "REP"), "REP_RCVD") \in CepObject
      BY <2>2, StateNames, MadNames, CmTimerStopType, CmDgrmCopyType, CepSetStateType
    <2> QED
      BY <2>3 DEF q, p
  <1>2. SameRest(r, s) /\ s.state = "REP_RCVD" /\ s.timer = FALSE
    BY <1>0 DEF SameRest, CepObject, CepSetState, CmDgrmCopyAddrAndMad, CmTimerStop,
       PrepareCepDgrm
  <1> HIDE DEF s
  <1>3. TimerOK(s) /\ r.state \in Talking /\ s.state \in Talking \cup {"IDLE"}
        /\ r.state \notin Queued /\ s.state \notin Queued
    BY <1>0, <1>2 DEF TimerOK, Waiting, Talking, Queued, CepState
  <1>4. Keeps(r, SetNotification(s, "RCVD_REP"))
    BY <1>1, <1>2, <1>3, MovedAndNotified, EventNames
  <1> QED
    BY <1>4 DEF RepReceived, s

(* ProcessRep: a reply the user has yet to answer came again.              *)
LEMMA MraRepSentStep ==
    ASSUME NEW r, RecOK(r), r.state \in {"REP_RCVD", "MRA_REP_SENT"}
    PROVE  Keeps(r, CepSetState(r, "MRA_REP_SENT"))
  <1> DEFINE s == CepSetState(r, "MRA_REP_SENT")
  <1>0. r \in CepObject /\ TimerOK(r)
    BY DEF RecOK
  <1>1. s \in CepObject
    BY <1>0, StateNames, MadNames, CepSetStateType
  <1>2. SameRest(r, s) /\ s.state = "MRA_REP_SENT" /\ s.timer = r.timer
    BY <1>0 DEF SameRest, CepObject, CepSetState
  <1> HIDE DEF s
  <1>3. TimerOK(s) /\ r.state \in Talking /\ s.state \in Talking \cup {"IDLE"}
        /\ (r.state \in Queued <=> s.state \in Queued)
    BY <1>0, <1>2 DEF TimerOK, Waiting, Talking, Queued, CepState
  <1>4. Keeps(r, s)
    BY <1>1, <1>2, <1>3, Moved
  <1> QED
    BY <1>4 DEF s

(* ProcessRtuPassive: the server side is connected.                        *)
LEMMA RtuReceivedStep ==
    ASSUME NEW r, NEW h \in Held, RecOK(r), r.state \in {"REP_SENT", "MRA_REP_RCVD"}
    PROVE  LET t == SetNotification(CepSetState(CmDgrmCopyAddrAndMad(CmTimerStop(
                        PrepareCepDgrm(r)), h), "ESTABLISHED"), "RCVD_RTU")
           IN  Keeps(r, t)
  <1> DEFINE s == CepSetState(CmDgrmCopyAddrAndMad(CmTimerStop(PrepareCepDgrm(r)), h), "ESTABLISHED")
  <1>0. r \in CepObject /\ TimerOK(r)
    BY DEF RecOK
  <1>1. s \in CepObject
    BY <1>0, StateNames, MadNames, CepSetStateType, CmTimerStopType,
       PrepareCepDgrmType, CmDgrmCopyType
  <1>2. SameRest(r, s) /\ s.state = "ESTABLISHED" /\ s.timer = FALSE
    BY <1>0 DEF SameRest, CepObject, CepSetState, CmDgrmCopyAddrAndMad, CmTimerStop,
       PrepareCepDgrm
  <1> HIDE DEF s
  <1>3. TimerOK(s) /\ r.state \in Talking /\ s.state \in Talking \cup {"IDLE"}
        /\ r.state \notin Queued /\ s.state \notin Queued
    BY <1>0, <1>2 DEF TimerOK, Waiting, Talking, Queued, CepState
  <1>4. Keeps(r, SetNotification(s, "RCVD_RTU"))
    BY <1>1, <1>2, <1>3, MovedAndNotified, EventNames
  <1> QED
    BY <1>4 DEF s

(* ProcessRejReq on a connected CEP.                                       *)
LEMMA SimDreqReceivedStep ==
    ASSUME NEW r, RecOK(r), r.state \in {"ESTABLISHED"}
    PROVE  Keeps(r, SimDreqReceived(r))
  <1> DEFINE s == CepToDisconnecting(CmDgrmCopyAddrAndMad(r, "JUNK"), "SIM_DREQ_RCVD")
  <1>0. r \in CepObject /\ TimerOK(r)
    BY DEF RecOK
  <1>1. s \in CepObject
    BY <1>0, StateNames, MadNames, CmDgrmCopyType, CepToDisconnectingType
  <1>2. SameRest(r, s) /\ s.state = "SIM_DREQ_RCVD" /\ s.timer = r.timer
    BY <1>0 DEF SameRest, CepObject, CepSetState, CepToDisconnecting, ClearEndPoint,
       CmDgrmCopyAddrAndMad
  <1> HIDE DEF s
  <1>3. TimerOK(s) /\ r.state \in Talking /\ s.state \in Talking \cup {"IDLE"}
        /\ r.state \notin Queued /\ s.state \notin Queued
    BY <1>0, <1>2 DEF TimerOK, Waiting, Talking, Queued, CepState
  <1>4. Keeps(r, SetNotification(s, "SIM_RCVD_DREQ"))
    BY <1>1, <1>2, <1>3, MovedAndNotified, EventNames
  <1> QED
    BY <1>4 DEF SimDreqReceived, s

(* A handshake rejected as stale.                                          *)
LEMMA RejectedStaleStep ==
    ASSUME NEW r, RecOK(r), r.state \in {"REQ_SENT", "REP_WAIT", "REP_SENT", "MRA_REP_RCVD"}
    PROVE  LET t == SetNotification(CepToTimewait(CmDgrmCopyAddrAndMad(CmTimerStop(
                        PrepareCepDgrm(r)), "REJ")), "RCVD_REJ")
           IN  Keeps(r, t)
  <1> DEFINE s == CepToTimewait(CmDgrmCopyAddrAndMad(CmTimerStop(PrepareCepDgrm(r)), "REJ"))
  <1>0. r \in CepObject /\ TimerOK(r)
    BY DEF RecOK
  <1>1. s \in CepObject
    BY <1>0, StateNames, MadNames, CmTimerStopType, PrepareCepDgrmType,
       CmDgrmCopyType, CepToTimewaitType
  <1>2. SameRest(r, s) /\ s.state = "TIMEWAIT" /\ s.timer = TRUE
    BY <1>0 DEF SameRest, CepObject, CepSetState, CepToDisconnecting, CepToTimewait,
       ClearEndPoint, CmDgrmCopyAddrAndMad, CmTimerStart, CmTimerStop, PrepareCepDgrm
  <1> HIDE DEF s
  <1>3. TimerOK(s) /\ r.state \in Talking /\ s.state \in Talking \cup {"IDLE"}
        /\ r.state \notin Queued /\ s.state \notin Queued
    BY <1>0, <1>2 DEF TimerOK, Waiting, Talking, Queued, CepState
  <1>4. Keeps(r, SetNotification(s, "RCVD_REJ"))
    BY <1>1, <1>2, <1>3, MovedAndNotified, EventNames
  <1> QED
    BY <1>4 DEF s

(* A handshake rejected for another reason.                                *)
LEMMA RejectedIdleStep ==
    ASSUME NEW r, RecOK(r), r.state \in {"REQ_SENT", "REP_WAIT", "REP_SENT", "MRA_REP_RCVD"}
    PROVE  LET t == SetNotification(CepToIdle(CmDgrmCopyAddrAndMad(CmTimerStop(
                        PrepareCepDgrm(r)), "REJ")), "RCVD_REJ")
           IN  Keeps(r, t)
  <1> DEFINE s == CepToIdle(CmDgrmCopyAddrAndMad(CmTimerStop(PrepareCepDgrm(r)), "REJ"))
  <1>0. r \in CepObject /\ TimerOK(r)
    BY DEF RecOK
  <1>1. s \in CepObject
    BY <1>0, StateNames, MadNames, CmTimerStopType, PrepareCepDgrmType,
       CmDgrmCopyType, CepToIdleType
  <1>2. SameRest(r, s) /\ s.state = "IDLE" /\ s.timer = FALSE
    BY <1>0 DEF SameRest, CepObject, CepToIdle, ClearEndPoint, CmDgrmCopyAddrAndMad,
       CmTimerStop, PrepareCepDgrm
  <1> HIDE DEF s
  <1>3. TimerOK(s) /\ r.state \in Talking /\ s.state \in Talking \cup {"IDLE"}
        /\ r.state \notin Queued /\ s.state \notin Queued
    BY <1>0, <1>2 DEF TimerOK, Waiting, Talking, Queued, CepState
  <1>4. Keeps(r, SetNotification(s, "RCVD_REJ"))
    BY <1>1, <1>2, <1>3, MovedAndNotified, EventNames
  <1> QED
    BY <1>4 DEF s

(* ProcessMraReq: the server asks for time.                                *)
LEMMA MraReqStep ==
    ASSUME NEW r, NEW n \in Nat, RecOK(r), r.state \in {"REQ_SENT"}
    PROVE  LET t == CepSetState(CmTimerStart([CmTimerStop(r) EXCEPT !.rcid = n]), "REP_WAIT")
           IN  Keeps(r, t)
  <1> DEFINE s == CepSetState(CmTimerStart([CmTimerStop(r) EXCEPT !.rcid = n]), "REP_WAIT")
  <1>0. r \in CepObject /\ TimerOK(r)
    BY DEF RecOK
  <1>1. s \in CepObject
    <2> DEFINE p == CmTimerStop(r)
               q == [p EXCEPT !.rcid = n]
    <2>1. p \in CepObject
      BY <1>0, CmTimerStopType
    <2> HIDE DEF p
    <2>2. q \in CepObject
      BY <2>1 DEF CepObject
    <2> HIDE DEF q
    <2>3. CepSetState(CmTimerStart(q), "REP_WAIT") \in CepObject
      BY <2>2, StateNames, CmTimerStartType, CepSetStateType
    <2> QED
      BY <2>3 DEF q, p
  <1>2. SameRest(r, s) /\ s.state = "REP_WAIT" /\ s.timer = TRUE
    BY <1>0 DEF SameRest, CepObject, CepSetState, CmTimerStart, CmTimerStop
  <1> HIDE DEF s
  <1>3. TimerOK(s) /\ r.state \in Talking /\ s.state \in Talking \cup {"IDLE"}
        /\ (r.state \in Queued <=> s.state \in Queued)
    BY <1>0, <1>2 DEF TimerOK, Waiting, Talking, Queued, CepState
  <1>4. Keeps(r, s)
    BY <1>1, <1>2, <1>3, Moved
  <1> QED
    BY <1>4 DEF s

(* ProcessMraRep: the client asks for time.                                *)
LEMMA MraRepStep ==
    ASSUME NEW r, RecOK(r), r.state \in {"REP_SENT"}
    PROVE  Keeps(r, CepSetState(CmTimerStart(CmTimerStop(r)), "MRA_REP_RCVD"))
  <1> DEFINE s == CepSetState(CmTimerStart(CmTimerStop(r)), "MRA_REP_RCVD")
  <1>0. r \in CepObject /\ TimerOK(r)
    BY DEF RecOK
  <1>1. s \in CepObject
    BY <1>0, StateNames, MadNames, CepSetStateType, CmTimerStartType, CmTimerStopType
  <1>2. SameRest(r, s) /\ s.state = "MRA_REP_RCVD" /\ s.timer = TRUE
    BY <1>0 DEF SameRest, CepObject, CepSetState, CmTimerStart, CmTimerStop
  <1> HIDE DEF s
  <1>3. TimerOK(s) /\ r.state \in Talking /\ s.state \in Talking \cup {"IDLE"}
        /\ (r.state \in Queued <=> s.state \in Queued)
    BY <1>0, <1>2 DEF TimerOK, Waiting, Talking, Queued, CepState
  <1>4. Keeps(r, s)
    BY <1>1, <1>2, <1>3, Moved
  <1> QED
    BY <1>4 DEF s

(* ProcessDrep: the disconnect is confirmed.                               *)
LEMMA DrepReceivedStep ==
    ASSUME NEW r, RecOK(r), r.state \in {"DREQ_SENT"}
    PROVE  Keeps(r, DrepReceived(r))
  <1> DEFINE s == CepToTimewait(CmTimerStop(CmDgrmCopyAddrAndMad(PrepareCepDgrm(r), "DREP")))
  <1>0. r \in CepObject /\ TimerOK(r)
    BY DEF RecOK
  <1>1. s \in CepObject
    BY <1>0, StateNames, MadNames, CmTimerStopType, PrepareCepDgrmType,
       CmDgrmCopyType, CepToTimewaitType
  <1>2. SameRest(r, s) /\ s.state = "TIMEWAIT" /\ s.timer = TRUE
    BY <1>0 DEF SameRest, CepObject, CepSetState, CepToDisconnecting, CepToTimewait,
       ClearEndPoint, CmDgrmCopyAddrAndMad, CmTimerStart, CmTimerStop, PrepareCepDgrm
  <1> HIDE DEF s
  <1>3. TimerOK(s) /\ r.state \in Talking /\ s.state \in Talking \cup {"IDLE"}
        /\ r.state \notin Queued /\ s.state \notin Queued
    BY <1>0, <1>2 DEF TimerOK, Waiting, Talking, Queued, CepState
  <1>4. Keeps(r, SetNotification(s, "RCVD_DREP"))
    BY <1>1, <1>2, <1>3, MovedAndNotified, EventNames
  <1> QED
    BY <1>4 DEF DrepReceived, s

(* ProcessDreq: a DREQ that came again is answered.                        *)
LEMMA DrepResentStep ==
    ASSUME NEW r, RecOK(r), r.state \in {"SIM_DREQ_RCVD", "TIMEWAIT"}
    PROVE  Keeps(r, CepSend(r, "DREP"))
  <1> DEFINE s == CepSend(r, "DREP")
  <1>0. r \in CepObject /\ TimerOK(r)
    BY DEF RecOK
  <1>1. s \in CepObject
    BY <1>0, StateNames, MadNames, CepSendType
  <1>2. SameRest(r, s) /\ s.state = r.state /\ s.timer = r.timer
    BY <1>0 DEF SameRest, CepObject, CepSend
  <1> HIDE DEF s
  <1>3. TimerOK(s) /\ r.state \in Talking /\ s.state \in Talking \cup {"IDLE"}
        /\ (r.state \in Queued <=> s.state \in Queued)
    BY <1>0, <1>2 DEF TimerOK, Waiting, Talking, Queued, CepState
  <1>4. Keeps(r, s)
    BY <1>1, <1>2, <1>3, Moved
  <1> QED
    BY <1>4 DEF s

(* DisconnectA on a CEP that received a DREQ.                              *)
LEMMA DreqAnsweredStep ==
    ASSUME NEW r, RecOK(r), r.state \in {"DREQ_RCVD"}
    PROVE  Keeps(r, CepToTimewait(CepSend(PrepareCepDgrm(r), "DREP")))
  <1> DEFINE s == CepToTimewait(CepSend(PrepareCepDgrm(r), "DREP"))
  <1>0. r \in CepObject /\ TimerOK(r)
    BY DEF RecOK
  <1>1. s \in CepObject
    BY <1>0, StateNames, MadNames, CepSendType, PrepareCepDgrmType, CepToTimewaitType
  <1>2. SameRest(r, s) /\ s.state = "TIMEWAIT" /\ s.timer = TRUE
    BY <1>0 DEF SameRest, CepObject, CepSend, CepSetState, CepToDisconnecting,
       CepToTimewait, ClearEndPoint, CmTimerStart, PrepareCepDgrm
  <1> HIDE DEF s
  <1>3. TimerOK(s) /\ r.state \in Talking /\ s.state \in Talking \cup {"IDLE"}
        /\ (r.state \in Queued <=> s.state \in Queued)
    BY <1>0, <1>2 DEF TimerOK, Waiting, Talking, Queued, CepState
  <1>4. Keeps(r, s)
    BY <1>1, <1>2, <1>3, Moved
  <1> QED
    BY <1>4 DEF s

(* DisconnectA on a CEP whose REQ was rejected after all.                  *)
LEMMA SimDreqAnsweredStep ==
    ASSUME NEW r, RecOK(r), r.state \in {"SIM_DREQ_RCVD"}
    PROVE  Keeps(r, CepToTimewait(r))
  <1> DEFINE s == CepToTimewait(r)
  <1>0. r \in CepObject /\ TimerOK(r)
    BY DEF RecOK
  <1>1. s \in CepObject
    BY <1>0, StateNames, MadNames, CepToTimewaitType
  <1>2. SameRest(r, s) /\ s.state = "TIMEWAIT" /\ s.timer = TRUE
    BY <1>0 DEF SameRest, CepObject, CepSetState, CepToDisconnecting, CepToTimewait,
       ClearEndPoint, CmTimerStart
  <1> HIDE DEF s
  <1>3. TimerOK(s) /\ r.state \in Talking /\ s.state \in Talking \cup {"IDLE"}
        /\ (r.state \in Queued <=> s.state \in Queued)
    BY <1>0, <1>2 DEF TimerOK, Waiting, Talking, Queued, CepState
  <1>4. Keeps(r, s)
    BY <1>1, <1>2, <1>3, Moved
  <1> QED
    BY <1>4 DEF s

(* DisconnectA on a connected CEP.                                         *)
LEMMA DreqSentStep ==
    ASSUME NEW r, RecOK(r), r.state \in {"ESTABLISHED"}
    PROVE  LET t == CmTimerStart([CepToDisconnecting(CepSend(PrepareCepDgrm(r), "DREQ"), "DREQ_SENT")
                            EXCEPT !.retry = 0])
           IN  Keeps(r, t)
  <1> DEFINE s == CmTimerStart([CepToDisconnecting(CepSend(PrepareCepDgrm(r), "DREQ"), "DREQ_SENT")
                            EXCEPT !.retry = 0])
  <1>0. r \in CepObject /\ TimerOK(r)
    BY DEF RecOK
  <1>1. s \in CepObject
    <2> DEFINE p == CepToDisconnecting(CepSend(PrepareCepDgrm(r), "DREQ"), "DREQ_SENT")
               q == [p EXCEPT !.retry = 0]
    <2>1. p \in CepObject
      BY <1>0, StateNames, MadNames, PrepareCepDgrmType, CepSendType,
         CepToDisconnectingType
    <2> HIDE DEF p
    <2>2. q \in CepObject
      BY <2>1 DEF CepObject
    <2> HIDE DEF q
    <2>3. CmTimerStart(q) \in CepObject
      BY <2>2, CmTimerStartType
    <2> QED
      BY <2>3 DEF q, p
  <1>2. SameRest(r, s) /\ s.state = "DREQ_SENT" /\ s.timer = TRUE
    BY <1>0 DEF SameRest, CepObject, CepSend, CepSetState, CepToDisconnecting,
       ClearEndPoint, CmTimerStart, PrepareCepDgrm
  <1> HIDE DEF s
  <1>3. TimerOK(s) /\ r.state \in Talking /\ s.state \in Talking \cup {"IDLE"}
        /\ (r.state \in Queued <=> s.state \in Queued)
    BY <1>0, <1>2 DEF TimerOK, Waiting, Talking, Queued, CepState
  <1>4. Keeps(r, s)
    BY <1>1, <1>2, <1>3, Moved
  <1> QED
    BY <1>4 DEF s

(* ProcessRep of a stale reply.                                            *)
LEMMA StaleRepStep ==
    ASSUME NEW r, RecOK(r), r.state \in {"REQ_SENT", "REP_WAIT"}
    PROVE  Keeps(r, PrepareCepDgrm(r))
  <1> DEFINE s == PrepareCepDgrm(r)
  <1>0. r \in CepObject /\ TimerOK(r)
    BY DEF RecOK
  <1>1. s \in CepObject
    BY <1>0, StateNames, MadNames, PrepareCepDgrmType
  <1>2. SameRest(r, s) /\ s.state = r.state /\ s.timer = r.timer
    BY <1>0 DEF SameRest, CepObject, PrepareCepDgrm
  <1> HIDE DEF s
  <1>3. TimerOK(s) /\ r.state \in Talking /\ s.state \in Talking \cup {"IDLE"}
        /\ (r.state \in Queued <=> s.state \in Queued)
    BY <1>0, <1>2 DEF TimerOK, Waiting, Talking, Queued, CepState
  <1>4. Keeps(r, s)
    BY <1>1, <1>2, <1>3, Moved
  <1> QED
    BY <1>4 DEF s

(* ProcessRep on a connected client.                                       *)
LEMMA RtuResentStep ==
    ASSUME NEW r, RecOK(r), r.state \in {"ESTABLISHED"}
    PROVE  Keeps(r, CepResend(r))
  <1> DEFINE s == CepResend(r)
  <1>0. r \in CepObject /\ TimerOK(r)
    BY DEF RecOK
  <1>1. s \in CepObject
    BY <1>0, StateNames, MadNames, CepResendType
  <1>2. SameRest(r, s) /\ s.state = r.state /\ s.timer = r.timer
    BY <1>0 DEF SameRest, CepObject, CepResend
  <1> HIDE DEF s
  <1>3. TimerOK(s) /\ r.state \in Talking /\ s.state \in Talking \cup {"IDLE"}
        /\ (r.state \in Queued <=> s.state \in Queued)
    BY <1>0, <1>2 DEF TimerOK, Waiting, Talking, Queued, CepState
  <1>4. Keeps(r, s)
    BY <1>1, <1>2, <1>3, Moved
  <1> QED
    BY <1>4 DEF s


(* DisconnectA, whether or not there is a datagram to send with.           *)
LEMMA DisconnectAStep ==
    ASSUME NEW r, NEW ok \in BOOLEAN, RecOK(r), r.state \in Disconnectable
    PROVE  /\ Keeps(r, DisconnectA(r, ok))
           /\ ok => DisconnectA(r, ok).state \in {"DREQ_SENT", "TIMEWAIT"}
           /\ DisconnectA(r, ok).state # "FREE"
  <1>0. r \in CepObject
    BY DEF RecOK
  <1>1. CASE r.state = "ESTABLISHED" /\ ok
    <2> DEFINE t == CmTimerStart([CepToDisconnecting(
                        CepSend(PrepareCepDgrm(r), "DREQ"), "DREQ_SENT") EXCEPT !.retry = 0])
    <2>1. Keeps(r, t)
      BY <1>1, DreqSentStep
    <2>2. t.state = "DREQ_SENT"
      BY <1>0 DEF CepObject, CepSend, CepSetState, CepToDisconnecting, ClearEndPoint,
         CmTimerStart, PrepareCepDgrm
    <2>3. DisconnectA(r, ok) = t
      BY <1>1 DEF DisconnectA
    <2> QED
      BY <2>1, <2>2, <2>3
  <1>2. CASE r.state = "DREQ_RCVD" /\ ok
    <2> DEFINE t == CepToTimewait(CepSend(PrepareCepDgrm(r), "DREP"))
    <2>1. Keeps(r, t)
      BY <1>2, DreqAnsweredStep
    <2>2. t.state = "TIMEWAIT"
      BY <1>0 DEF CepObject, CepSend, CepSetState, CepToDisconnecting, CepToTimewait,
         ClearEndPoint, CmTimerStart, PrepareCepDgrm
    <2>3. DisconnectA(r, ok) = t
      BY <1>2 DEF DisconnectA
    <2> QED
      BY <2>1, <2>2, <2>3
  <1>3. CASE r.state = "SIM_DREQ_RCVD"
    <2>1. Keeps(r, CepToTimewait(r))
      BY <1>3, SimDreqAnsweredStep
    <2>2. CepToTimewait(r).state = "TIMEWAIT"
      BY <1>0 DEF CepObject, CepSetState, CepToDisconnecting, CepToTimewait,
         ClearEndPoint, CmTimerStart
    <2>3. DisconnectA(r, ok) = CepToTimewait(r)
      BY <1>3 DEF DisconnectA
    <2> QED
      BY <2>1, <2>2, <2>3
  <1>4. CASE ~ ok /\ r.state # "SIM_DREQ_RCVD"
    <2>1. DisconnectA(r, ok) = r
      BY <1>4 DEF DisconnectA
    <2>2. Keeps(r, r)
      BY <1>0, Touched DEF SameRest
    <2> QED
      BY <2>1, <2>2, <1>4 DEF Disconnectable
  <1> QED
    BY <1>1, <1>2, <1>3, <1>4 DEF Disconnectable

(* ProcessDreqCep on a CEP that has sent a DREQ of its own.                *)
LEMMA DreqCrossedStep ==
    ASSUME NEW r, RecOK(r), r.state = "DREQ_SENT"
    PROVE  Keeps(r, DreqCrossed(r))
  <1> DEFINE p == CepSetState(CmDgrmCopyAddrAndMad(CmTimerStop(PrepareCepDgrm(r)), "DREQ"),
                              "DREQ_RCVD")
  <1>0. r \in CepObject /\ TimerOK(r)
    BY DEF RecOK
  <1>1. p \in CepObject
    BY <1>0, StateNames, MadNames, CepSetStateType, CmTimerStopType, PrepareCepDgrmType,
       CmDgrmCopyType
  <1>2. SameRest(r, p) /\ p.state = "DREQ_RCVD" /\ p.timer = FALSE
    BY <1>0 DEF SameRest, CepObject, CepSetState, CmDgrmCopyAddrAndMad, CmTimerStop,
       PrepareCepDgrm
  <1>3. CASE ~ Destroying(r)
    <2>1. DreqCrossed(r) = SetNotification(p, "RCVD_DREQ")
      BY <1>3 DEF DreqCrossed
    <2> HIDE DEF p
    <2>2. TimerOK(p) /\ r.state \in Talking /\ p.state \in Talking \cup {"IDLE"}
          /\ r.state \notin Queued /\ p.state \notin Queued
      BY <1>0, <1>2 DEF TimerOK, Waiting, Talking, Queued, CepState
    <2>3. Keeps(r, SetNotification(p, "RCVD_DREQ"))
      BY <1>1, <1>2, <1>3, <2>2, MovedAndNotified, EventNames
    <2> QED
      BY <2>1, <2>3
  <1>4. CASE Destroying(r)
    <2> DEFINE s == CepToTimewait(CepSend(PrepareCepDgrm(p), "DREP"))
    <2>1. DreqCrossed(r) = s
      BY <1>2, <1>4 DEF DreqCrossed, DisconnectA
    <2> HIDE DEF p
    <2>2. s \in CepObject
      BY <1>1, StateNames, MadNames, CepSendType, PrepareCepDgrmType, CepToTimewaitType
    <2>3. SameRest(p, s) /\ s.state = "TIMEWAIT" /\ s.timer = TRUE
      BY <1>1 DEF SameRest, CepObject, CepSend, CepSetState, CepToDisconnecting,
         CepToTimewait, ClearEndPoint, CmTimerStart, PrepareCepDgrm
    <2>4. SameRest(r, s)
      BY <1>2, <2>3 DEF SameRest
    <2> HIDE DEF s
    <2>5. TimerOK(s) /\ r.state \in Talking /\ s.state \in Talking \cup {"IDLE"}
          /\ (r.state \in Queued <=> s.state \in Queued)
      BY <1>0, <2>3 DEF TimerOK, Waiting, Talking, Queued, CepState
    <2>6. Keeps(r, s)
      BY <2>2, <2>3, <2>4, <2>5, Moved
    <2> QED
      BY <2>1, <2>6
  <1> QED
    BY <1>3, <1>4

-----------------------------------------------------------------------------
(* Timers.  Expired(r) is the CEP as CmTimerCallback finds it.             *)

Expired(r) == [r EXCEPT !.timer = FALSE, !.due = "no"]

(* An expired timer changes nothing but itself.                            *)
LEMMA ExpiredType ==
    ASSUME NEW r \in CepObject
    PROVE  /\ Expired(r) \in CepObject
           /\ SameRest(r, Expired(r)) /\ Expired(r).state = r.state
           /\ Expired(r).timer = FALSE
  <1>1. Expired(r) \in CepObject
    BY DEF Expired, CepObject, Expiry
  <1> QED
    BY <1>1 DEF Expired, SameRest, CepObject

(* A retransmission starts the timer again.                                *)
LEMMA RetryStep ==
    ASSUME NEW r, NEW st \in {"REQ_SENT", "REP_SENT", "DREQ_SENT"}, RecOK(r),
           r.state \in Waiting, r.state # "TIMEWAIT",
           r.state = "DREQ_SENT" => st = "DREQ_SENT"
    PROVE  Keeps(r, Retry(Expired(r), st))
  <1> DEFINE e == Expired(r)
             p == [e EXCEPT !.retry = e.retry + 1]
             s == CmTimerStart(CepSetState(CepResend(p), st))
  <1>0. r \in CepObject /\ TimerOK(r)
    BY DEF RecOK
  <1>1. e \in CepObject /\ SameRest(r, e)
    BY <1>0, ExpiredType
  <1> HIDE DEF e
  <1>2. p \in CepObject
    BY <1>1 DEF CepObject
  <1>3. SameRest(e, p)
    BY <1>1 DEF CepObject, SameRest
  <1> HIDE DEF p
  <1>4. st \in CepState
    BY StateNames
  <1>5. s \in CepObject
    BY <1>2, <1>4, CmTimerStartType, CepSetStateType, CepResendType
  <1>6. SameRest(p, s) /\ s.state = st /\ s.timer = TRUE
    BY <1>2 DEF SameRest, CepObject, CmTimerStart, CepSetState, CepResend
  <1>7. SameRest(r, s)
    BY <1>1, <1>3, <1>6 DEF SameRest
  <1> HIDE DEF s
  <1>8. TimerOK(s) /\ r.state \in Talking /\ s.state \in Talking \cup {"IDLE"}
        /\ (r.state \in Queued <=> s.state \in Queued)
    BY <1>0, <1>6 DEF TimerOK, Waiting, Talking, Queued, CepState
  <1>9. Keeps(r, s)
    BY <1>5, <1>6, <1>7, <1>8, Moved
  <1> QED
    BY <1>9 DEF Retry, s, p, e

(* The end of the retries, or of TIMEWAIT: to IDLE ...                     *)
LEMMA TimedOutToIdle ==
    ASSUME NEW r, RecOK(r), r.state \in Waiting,
           Destroying(r) /\ r.state \in {"DREQ_SENT", "TIMEWAIT"} => r.item # "none"
    PROVE  LET s == [CepToIdle(Expired(r)) EXCEPT !.retry = 0]
           IN  /\ Keeps(r, s)
               /\ \A e \in Event \ {"USRE_DESTROY"} : Keeps(r, SetNotification(s, e))
  <1> DEFINE x == Expired(r)
             p == CepToIdle(x)
             s == [p EXCEPT !.retry = 0]
  <1>0. r \in CepObject /\ TimerOK(r)
    BY DEF RecOK
  <1>1. x \in CepObject /\ SameRest(r, x) /\ x.timer = FALSE
    BY <1>0, ExpiredType
  <1> HIDE DEF x
  <1>2. p \in CepObject
    BY <1>1, CepToIdleType
  <1>3. SameRest(x, p) /\ p.state = "IDLE" /\ p.timer = FALSE
    BY <1>1 DEF SameRest, CepObject, CepToIdle, ClearEndPoint
  <1> HIDE DEF p
  <1>4. s \in CepObject
    BY <1>2 DEF CepObject
  <1>5. SameRest(p, s) /\ s.state = "IDLE" /\ s.timer = FALSE
    BY <1>2, <1>3 DEF SameRest, CepObject
  <1>6. SameRest(r, s) /\ s.item = r.item
    BY <1>1, <1>3, <1>5 DEF SameRest
  <1> HIDE DEF s
  <1>7. TimerOK(s) /\ r.state \in Talking /\ s.state \in Talking \cup {"IDLE"}
        /\ r.state \notin Queued /\ s.state \notin Queued
    BY <1>0, <1>5 DEF TimerOK, Waiting, Talking, Queued, CepState
  <1>8. Keeps(r, s)
    BY <1>4, <1>5, <1>6, <1>7, Moved
  <1>9. ASSUME NEW e \in Event \ {"USRE_DESTROY"} PROVE Keeps(r, SetNotification(s, e))
    BY <1>4, <1>5, <1>6, <1>7, MovedAndNotified
  <1> QED
    BY <1>8, <1>9 DEF s, p, x

(* ... or to TIMEWAIT.                                                     *)
LEMMA TimedOutToTimewait ==
    ASSUME NEW r, RecOK(r), r.state \in Waiting
    PROVE  LET s == CepToTimewait(Expired(r))
               t == [s EXCEPT !.retry = 0]
           IN  /\ Keeps(r, s) /\ Keeps(r, t) /\ t.state = "TIMEWAIT"
               /\ \A e \in Event \ {"USRE_DESTROY"} :
                     Keeps(r, SetNotification(s, e)) /\ Keeps(r, SetNotification(t, e))
  <1> DEFINE x == Expired(r)
             s == CepToTimewait(x)
             t == [s EXCEPT !.retry = 0]
  <1>0. r \in CepObject /\ TimerOK(r)
    BY DEF RecOK
  <1>1. x \in CepObject /\ SameRest(r, x)
    BY <1>0, ExpiredType
  <1> HIDE DEF x
  <1>2. s \in CepObject
    BY <1>1, CepToTimewaitType
  <1>3. SameRest(x, s) /\ s.state = "TIMEWAIT" /\ s.timer = TRUE
    BY <1>1 DEF SameRest, CepObject, CepSetState, CepToDisconnecting, CepToTimewait,
       ClearEndPoint, CmTimerStart
  <1> HIDE DEF s
  <1>4. t \in CepObject
    BY <1>2 DEF CepObject
  <1>5. SameRest(s, t) /\ t.state = "TIMEWAIT" /\ t.timer = TRUE
    BY <1>2, <1>3 DEF SameRest, CepObject
  <1>6. SameRest(r, s) /\ SameRest(r, t)
    BY <1>1, <1>3, <1>5 DEF SameRest
  <1> HIDE DEF t
  <1>7. /\ TimerOK(s) /\ TimerOK(t) /\ r.state \in Talking
        /\ s.state \in Talking \cup {"IDLE"} /\ t.state \in Talking \cup {"IDLE"}
        /\ r.state \notin Queued /\ s.state \notin Queued
        /\ r.state \notin Queued /\ t.state \notin Queued
    BY <1>0, <1>3, <1>5 DEF TimerOK, Waiting, Talking, Queued, CepState
  <1>8. Keeps(r, s)
    BY <1>2, <1>3, <1>6, <1>7, Moved
  <1>9. Keeps(r, t)
    BY <1>4, <1>5, <1>6, <1>7, Moved
  <1>10. ASSUME NEW e \in Event \ {"USRE_DESTROY"}
         PROVE  Keeps(r, SetNotification(s, e)) /\ Keeps(r, SetNotification(t, e))
    <2>1. Keeps(r, SetNotification(s, e))
      BY <1>2, <1>3, <1>6, <1>7, MovedAndNotified
    <2>2. Keeps(r, SetNotification(t, e))
      BY <1>4, <1>5, <1>6, <1>7, MovedAndNotified
    <2> QED
      BY <2>1, <2>2
  <1> QED
    BY <1>5, <1>8, <1>9, <1>10 DEF t, s, x

(* An event queued without a notification.                                 *)
LEMMA EventQueued ==
    ASSUME NEW r, NEW e \in Event, RecOK(r), r.state # "FREE",
           e = "USRE_DESTROY" /\ ~ DgrmMayFail =>
               r.state \in {"DREQ_SENT", "TIMEWAIT"} \/ (r.state = "IDLE" /\ r.item # "none")
    PROVE  Keeps(r, EventSet(r, e)) /\ EventSet(r, e).flags = r.flags \cup {e}
           /\ EventSet(r, e).state = r.state
  <1> DEFINE s == EventSet(r, e)
  <1>0. r \in CepObject
    BY DEF RecOK
  <1>1. s \in CepObject
    BY <1>0, EventSetType
  <1>2. /\ s.state = r.state /\ s.timer = r.timer /\ s.rhost = r.rhost
        /\ s.parent = r.parent /\ s.pending = r.pending
        /\ s.cbref = r.cbref /\ s.item = r.item /\ s.flags = r.flags \cup {e}
    BY <1>0 DEF EventSet, CepObject
  <1> HIDE DEF s
  <1>3. TimerOK(s) /\ CallbackOK(s)
    BY <1>2 DEF RecOK, TimerOK, CallbackOK
  <1>4. DestroyOK(s)
    BY <1>2 DEF RecOK, DestroyOK, Destroying
  <1>5. RecOK(s)
    BY <1>1, <1>2, <1>3, <1>4 DEF RecOK
  <1>6. Keeps(r, s)
    BY <1>2, <1>5 DEF Keeps, GoodStep, StillDestroyed, Destroying
  <1> QED
    BY <1>2, <1>6 DEF s

(* An object that no list and no callback refers to may go.                *)
LEMMA Freed ==
    ASSUME NEW r, NEW s \in CepObject, s.cbref = 0, s.item = "none",
           r.parent = None, r.pending = <<>>
    PROVE  Keeps(r, DestroyCEP(s)) /\ DestroyCEP(s).state = "FREE"
  <1> DEFINE d == DestroyCEP(s)
  <1>1. d \in CepObject
    BY DestroyCEPType
  <1>2. /\ d.state = "FREE" /\ d.timer = FALSE /\ d.parent = None /\ d.pending = <<>>
        /\ d.flags = {} /\ d.cbref = 0 /\ d.item = "none"
    BY DEF DestroyCEP, NewCep
  <1> HIDE DEF d
  <1>3. TimerOK(d) /\ CallbackOK(d) /\ DestroyOK(d)
    BY <1>2 DEF TimerOK, Waiting, CallbackOK, DestroyOK, Destroying
  <1>4. d.state \notin Talking /\ d.state \notin Queued
    BY <1>2 DEF Talking, Queued
  <1>5. RecOK(d)
    BY <1>1, <1>2, <1>3, <1>4 DEF RecOK
  <1>6. Keeps(r, d) /\ d.state = "FREE"
    BY <1>2, <1>5 DEF Keeps, GoodStep, StillDestroyed
  <1> QED
    BY <1>6 DEF d

(* The lists a CEP is on, from its state.                                  *)
LEMMA OffTheLists ==
    ASSUME NEW r, RecOK(r), r.state \notin Queued, r.state # "LISTEN"
    PROVE  r.parent = None /\ r.pending = <<>>
  BY DEF RecOK

(* The callbacks of the handshake and teardown timers.                     *)
LEMMA ReqTimeoutStep ==
    ASSUME NEW r, NEW again \in BOOLEAN, RecOK(r), r.state \in {"REQ_SENT", "REP_WAIT"}
    PROVE  Keeps(r, ReqTimeout(Expired(r), again))
  <1>1. r.state \in Waiting /\ r.state # "TIMEWAIT" /\ r.state # "DREQ_SENT"
    BY DEF Waiting
  <1>2. CASE again
    BY <1>1, <1>2, RetryStep DEF ReqTimeout
  <1>3. CASE ~ again
    <2>1. Keeps(r, SetNotification([CepToIdle(Expired(r)) EXCEPT !.retry = 0], "TIMEOUT_REQ"))
      BY <1>1, TimedOutToIdle, EventNames
    <2> QED
      BY <1>3, <2>1 DEF ReqTimeout
  <1> QED
    BY <1>2, <1>3

(* The callback of the REP timer.                                          *)
LEMMA RepTimeoutStep ==
    ASSUME NEW r, NEW again \in BOOLEAN, RecOK(r), r.state \in {"REP_SENT", "MRA_REP_RCVD"}
    PROVE  Keeps(r, RepTimeout(Expired(r), again))
  <1>1. r.state \in Waiting /\ r.state # "TIMEWAIT" /\ r.state # "DREQ_SENT"
    BY DEF Waiting
  <1>2. CASE again
    BY <1>1, <1>2, RetryStep DEF RepTimeout
  <1>3. CASE ~ again
    <2> DEFINE t == [CepToTimewait(Expired(r)) EXCEPT !.retry = 0]
    <2>1. Keeps(r, t) /\ t.state = "TIMEWAIT" /\ Keeps(r, SetNotification(t, "TIMEOUT_REP"))
      BY <1>1, TimedOutToTimewait, EventNames
    <2>2. RepTimeout(Expired(r), again) \in {EventSet(t, "TIMEOUT_REP"),
                                             SetNotification(t, "TIMEOUT_REP")}
      BY <1>3 DEF RepTimeout
    <2> HIDE DEF t
    <2>3. RecOK(t) /\ "TIMEOUT_REP" \in Event
      BY <2>1 DEF Keeps, GoodStep, Event
    <2>4. Keeps(t, EventSet(t, "TIMEOUT_REP"))
      BY <2>1, <2>3, EventQueued
    <2>5. Keeps(r, EventSet(t, "TIMEOUT_REP"))
      BY <2>1, <2>4, KeepsTrans
    <2> QED
      BY <2>1, <2>2, <2>5
  <1> QED
    BY <1>2, <1>3

(* The callback of the DREQ timer.                                         *)
LEMMA DreqTimeoutStep ==
    ASSUME NEW r, NEW again \in BOOLEAN, RecOK(r), r.state = "DREQ_SENT"
    PROVE  Keeps(r, DreqTimeout(Expired(r), again))
  <1>1. r.state \in Waiting /\ r.state # "TIMEWAIT"
    BY DEF Waiting
  <1>2. CASE again
    BY <1>1, <1>2, RetryStep DEF DreqTimeout
  <1>3. CASE ~ again
    <2> DEFINE t == CepToTimewait(Expired(r))
    <2>1. Keeps(r, t) /\ Keeps(r, SetNotification(t, "TIMEOUT_DREQ"))
      BY <1>1, TimedOutToTimewait, EventNames
    <2> QED
      BY <1>3, <2>1 DEF DreqTimeout
  <1> QED
    BY <1>2, <1>3

(* The end of TIMEWAIT, which frees a CEP that its user destroyed unless a *)
(* callback is under way.                                                  *)
LEMMA TimewaitOverStep ==
    ASSUME NEW r, RecOK(r), r.state = "TIMEWAIT"
    PROVE  Keeps(r, TimewaitOver(Expired(r)))
  <1> DEFINE i == [CepToIdle(Expired(r)) EXCEPT !.retry = 0]
  <1>0. r \in CepObject
    BY DEF RecOK
  <1>1. i \in CepObject /\ SameRest(r, i)
    <2> DEFINE x == Expired(r)
               p == CepToIdle(x)
    <2>1. x \in CepObject /\ SameRest(r, x)
      BY <1>0, ExpiredType
    <2> HIDE DEF x
    <2>2. p \in CepObject
      BY <2>1, CepToIdleType
    <2>3. SameRest(x, p)
      BY <2>1 DEF SameRest, CepObject, CepToIdle, ClearEndPoint
    <2> HIDE DEF p
    <2>4. [p EXCEPT !.retry = 0] \in CepObject
      BY <2>2 DEF CepObject
    <2>5. SameRest(p, [p EXCEPT !.retry = 0])
      BY <2>2 DEF SameRest, CepObject
    <2>6. SameRest(r, [p EXCEPT !.retry = 0])
      BY <2>1, <2>3, <2>5 DEF SameRest
    <2> QED
      BY <2>4, <2>6 DEF p, x
  <1>2. TimewaitOver(Expired(r)) =
            IF Destroying(i) /\ i.cbref = 0 THEN DestroyCEP(i)
            ELSE IF TimewaitCallback THEN SetNotification(i, "TIMEOUT_TIMEWAIT") ELSE i
    BY DEF TimewaitOver
  <1>3. CASE Destroying(i) /\ i.cbref = 0
    <2> HIDE DEF i
    <2>1. i.item = "none"
      BY <1>1, <1>3 DEF SameRest, RecOK, CallbackOK
    <2>2. r.parent = None /\ r.pending = <<>>
      BY OffTheLists DEF Queued
    <2>3. Keeps(r, DestroyCEP(i))
      BY <1>1, <1>3, <2>1, <2>2, Freed
    <2> QED
      BY <1>2, <1>3, <2>3
  <1>4. CASE ~ (Destroying(i) /\ i.cbref = 0)
    <2>1. Destroying(r) => r.item # "none"
      <3> HIDE DEF i
      <3> QED
        BY <1>0, <1>1, <1>4 DEF SameRest, RecOK, CallbackOK, Destroying, CepObject
    <2>2. Keeps(r, i) /\ Keeps(r, SetNotification(i, "TIMEOUT_TIMEWAIT"))
      BY <2>1, TimedOutToIdle, EventNames DEF Waiting
    <2> QED
      BY <1>2, <1>4, <2>2
  <1> QED
    BY <1>3, <1>4

-----------------------------------------------------------------------------
(* Expiry, send completion and user callbacks.                             *)

(* The expiry of a timer by itself, before its callback has the lock.      *)
LEMMA DueStep ==
    ASSUME NEW r, NEW x \in Expiry, RecOK(r)
    PROVE  Keeps(r, [r EXCEPT !.due = x])
  <1> DEFINE s == [r EXCEPT !.due = x]
  <1>0. r \in CepObject
    BY DEF RecOK
  <1>1. s \in CepObject
    BY <1>0 DEF CepObject
  <1>2. SameRest(r, s) /\ s.state = r.state /\ s.timer = r.timer
    BY <1>0 DEF SameRest, CepObject
  <1> QED
    BY <1>1, <1>2, Touched

(* GsaSendCompleteCallback on the CEP's own datagram.                      *)
LEMMA SendCompleteStep ==
    ASSUME NEW r, RecOK(r)
    PROVE  Keeps(r, [r EXCEPT !.busy = FALSE])
  <1> DEFINE s == [r EXCEPT !.busy = FALSE]
  <1>0. r \in CepObject
    BY DEF RecOK
  <1>1. s \in CepObject
    BY <1>0 DEF CepObject
  <1>2. SameRest(r, s) /\ s.state = r.state /\ s.timer = r.timer
    BY <1>0 DEF SameRest, CepObject
  <1> QED
    BY <1>1, <1>2, Touched

(* GetConnInfo drops events and may forget the role.                       *)
LEMMA GetConnInfoStep ==
    ASSUME NEW r, RecOK(r)
    PROVE  LET s == GetConnInfo(r)
           IN  GoodStep(r, s) /\ s.item = r.item /\ s.cbref = r.cbref
  <1> DEFINE s == GetConnInfo(r)
  <1>0. r \in CepObject
    BY DEF RecOK
  <1>1. KeptEvents(r) \subseteq r.flags
    <2> DEFINE e == PickedEvent(r)
    <2> HIDE DEF e
    <2>1. KeptEvents(r) = CASE r.state = "TIMEWAIT" /\ e = "TIMEOUT_REP" /\ TimewaitCallback -> r.flags
          [] r.state = "IDLE" /\ e \in {"RCVD_REJ", "RCVD_DREP"} -> r.flags \ {e}
          [] r.state \in {"DREQ_RCVD", "SIM_DREQ_RCVD"} /\ e = "RCVD_RTU" -> r.flags \ {e}
          [] OTHER -> {}
      BY DEF KeptEvents, e
    <2> QED
      BY <2>1
  <1>2. s \in CepObject
    <2> DEFINE k == KeptEvents(r)
               m == IF r.state = "IDLE" /\ k = {} THEN "NONE" ELSE r.mode
    <2>1. k \in SUBSET Event /\ m \in Mode
      BY <1>0, <1>1 DEF CepObject, Mode
    <2> HIDE DEF k, m
    <2>2. [r EXCEPT !.flags = k, !.mode = m] \in CepObject
      BY <1>0, <2>1 DEF CepObject
    <2> QED
      BY <2>2 DEF GetConnInfo, k, m
  <1>3. /\ s.state = r.state /\ s.timer = r.timer /\ s.rhost = r.rhost
        /\ s.parent = r.parent /\ s.pending = r.pending
        /\ s.cbref = r.cbref /\ s.item = r.item /\ s.flags = KeptEvents(r)
    BY <1>0 DEF GetConnInfo, CepObject
  <1> HIDE DEF s
  <1>4. TimerOK(s) /\ CallbackOK(s)
    BY <1>3 DEF RecOK, TimerOK, CallbackOK
  <1>5. DestroyOK(s)
    BY <1>1, <1>3 DEF RecOK, DestroyOK, Destroying
  <1>6. RecOK(s)
    BY <1>2, <1>3, <1>4, <1>5 DEF RecOK
  <1>7. GoodStep(r, s) /\ s.item = r.item /\ s.cbref = r.cbref
    BY <1>3, <1>6 DEF GoodStep
  <1> QED
    BY <1>7 DEF s

(* The item of a CEP changes hands.                                        *)
LEMMA ItemStep ==
    ASSUME NEW r, NEW n \in Nat, NEW i \in {"none", "queued", "running"}, RecOK(r),
           r.state # "FREE", n <= r.cbref, i # "none" <=> n > 0,
           Destroying(r) /\ r.state = "IDLE" => i # "none"
    PROVE  Keeps(r, [r EXCEPT !.cbref = n, !.item = i])
  <1> DEFINE s == [r EXCEPT !.cbref = n, !.item = i]
  <1>0. r \in CepObject
    BY DEF RecOK
  <1>1. s \in CepObject
    BY <1>0, CallbackFieldsType
  <1>2. /\ s.state = r.state /\ s.timer = r.timer /\ s.rhost = r.rhost
        /\ s.parent = r.parent /\ s.pending = r.pending
        /\ s.cbref = n /\ s.item = i /\ s.flags = r.flags
    BY <1>0 DEF CepObject
  <1> HIDE DEF s
  <1>3. TimerOK(s) /\ CallbackOK(s)
    BY <1>2 DEF RecOK, TimerOK, CallbackOK
  <1>4. DestroyOK(s)
    BY <1>2 DEF RecOK, DestroyOK, Destroying
  <1>5. s.state \in Queued => s.cbref = 0
    BY <1>0, <1>2 DEF RecOK, CepObject
  <1>6. RecOK(s)
    BY <1>1, <1>2, <1>3, <1>4, <1>5 DEF RecOK
  <1>7. Keeps(r, s)
    BY <1>2, <1>6 DEF Keeps, GoodStep, StillDestroyed, Destroying
  <1> QED
    BY <1>7 DEF s

(* CmSystemCallback takes the item.                                        *)
LEMMA SystemCallbackStep ==
    ASSUME NEW r, RecOK(r), r.item = "queued"
    PROVE  LET s == IF Destroying(r) THEN r ELSE GetConnInfo(r)
           IN  Keeps(r, [s EXCEPT !.item = "running"])
  <1> DEFINE s == IF Destroying(r) THEN r ELSE GetConnInfo(r)
  <1>1. RecOK(s) /\ s.item = r.item /\ s.cbref = r.cbref /\ GoodStep(r, s)
        /\ StillDestroyed(r, s)
    <2>1. CASE Destroying(r)
      BY <2>1 DEF GoodStep, StillDestroyed
    <2>2. CASE ~ Destroying(r)
      BY <2>2, GetConnInfoStep DEF GoodStep, StillDestroyed, RecOK, CallbackOK
    <2> QED
      BY <2>1, <2>2
  <1> HIDE DEF s
  <1>2. s \in CepObject /\ s.cbref \in Nat /\ s.cbref > 0 /\ s.state # "FREE"
    BY <1>1 DEF RecOK, CallbackOK, CepObject
  <1>3. Keeps(s, [s EXCEPT !.cbref = s.cbref, !.item = "running"])
    <2> DEFINE n == s.cbref
               i == "running"
    <2>1. n \in Nat /\ n <= s.cbref /\ (i # "none" <=> n > 0)
          /\ i \in {"none", "queued", "running"} /\ i # "none"
      BY <1>2
    <2> HIDE DEF n, i
    <2>2. Keeps(s, [s EXCEPT !.cbref = n, !.item = i])
      BY <1>1, <1>2, <2>1, ItemStep
    <2> QED
      BY <2>2 DEF n, i
  <1>4. [s EXCEPT !.cbref = s.cbref, !.item = "running"] = [s EXCEPT !.item = "running"]
    BY <1>2 DEF CepObject
  <1>5. Keeps(r, [s EXCEPT !.item = "running"])
    BY <1>1, <1>2, <1>3, <1>4, KeepsTrans DEF Keeps
  <1> QED
    BY <1>5 DEF s

(* CmDoneCallback lets go of the CEP, and frees it if it was the last to   *)
(* hold it.                                                                *)
LEMMA DoneStep ==
    ASSUME NEW r, RecOK(r), r.item = "running"
    PROVE  Keeps(r, Done(r))
  <1>0. r \in CepObject /\ r.cbref \in Nat /\ r.cbref > 0 /\ r.state # "FREE"
    BY DEF RecOK, CallbackOK, CepObject
  <1>1. CASE ~ Destroying(r)
    <2> DEFINE i == IF r.cbref > 1 THEN "queued" ELSE "none"
               n == r.cbref - 1
    <2>1. n \in Nat /\ n <= r.cbref /\ (i # "none" <=> n > 0)
          /\ i \in {"none", "queued", "running"}
      BY <1>0
    <2> HIDE DEF i, n
    <2>2. Keeps(r, [r EXCEPT !.cbref = n, !.item = i])
      BY <1>0, <1>1, <2>1, ItemStep
    <2>3. Done(r) = [r EXCEPT !.cbref = n, !.item = i]
      BY <1>1 DEF Done, n, i
    <2> QED
      BY <2>2, <2>3
  <1>2. CASE Destroying(r) /\ r.state = "IDLE"
    <2> DEFINE last == [r EXCEPT !.cbref = 0, !.item = "none"]
    <2>1. last \in CepObject
      BY <1>0, CallbackFieldsType
    <2>2. last.cbref = 0 /\ last.item = "none"
      BY <1>0 DEF CepObject
    <2>3. r.parent = None /\ r.pending = <<>>
      BY <1>2, OffTheLists DEF Queued
    <2> HIDE DEF last
    <2>4. Keeps(r, DestroyCEP(last))
      BY <2>1, <2>2, <2>3, Freed
    <2> QED
      BY <1>2, <2>4 DEF Done, last
  <1>3. CASE Destroying(r) /\ r.state # "IDLE"
    <2> DEFINE n == 0
               i == "none"
    <2>1. n \in Nat /\ n <= r.cbref /\ (i # "none" <=> n > 0)
          /\ i \in {"none", "queued", "running"}
      BY <1>0
    <2> HIDE DEF n, i
    <2>2. Keeps(r, [r EXCEPT !.cbref = n, !.item = i])
      BY <1>0, <1>3, <2>1, ItemStep
    <2> QED
      BY <1>3, <2>2 DEF Done, n, i
  <1> QED
    BY <1>1, <1>2, <1>3

-----------------------------------------------------------------------------
(* User calls on an idle CEP, and its release.                             *)

(* A CEP that leaves IDLE, or stays, without any event left.               *)
LEMMA Begun ==
    ASSUME NEW r, NEW s \in CepObject, RecOK(r), r.state = "IDLE", TimerOK(s),
           s.state \in {"IDLE", "LISTEN", "REQ_SENT"},
           s.state = "REQ_SENT" => s.rhost \in Host,
           s.parent = r.parent, s.pending = r.pending, s.flags = {},
           s.cbref = r.cbref, s.item = r.item
    PROVE  GoodStep(r, s)
  <1>1. r.parent = None /\ r.pending = <<>>
    BY OffTheLists DEF Queued
  <1>2. s.state \notin Queued /\ s.state # "FREE"
        /\ (s.state \in Talking => s.state = "REQ_SENT")
    BY DEF Queued, Talking
  <1>3. CallbackOK(s) /\ DestroyOK(s)
    BY <1>2 DEF RecOK, CallbackOK, DestroyOK, Destroying
  <1>4. RecOK(s)
    BY <1>1, <1>2, <1>3 DEF RecOK
  <1> QED
    BY <1>4 DEF GoodStep

(* iba_cm_connect on an idle CEP.                                          *)
LEMMA ConnectStep ==
    ASSUME NEW r, RecOK(r), r.state = "IDLE", NEW p \in CepObject, p.rhost \in Host,
           p.parent = r.parent, p.pending = r.pending, p.flags = {},
           p.cbref = r.cbref, p.item = r.item
    PROVE  LET s == CmTimerStart(CepSetState(CepSend(p, "REQ"), "REQ_SENT"))
           IN  GoodStep(r, s) /\ s.rhost \in Host /\ s \in CepObject
  <1> DEFINE s == CmTimerStart(CepSetState(CepSend(p, "REQ"), "REQ_SENT"))
  <1>1. s \in CepObject
    BY StateNames, MadNames, CmTimerStartType, CepSetStateType, CepSendType
  <1>2. SameRest(p, s) /\ s.state = "REQ_SENT" /\ s.timer = TRUE
    BY DEF SameRest, CepObject, CmTimerStart, CepSetState, CepSend
  <1> HIDE DEF s
  <1>3. TimerOK(s)
    BY <1>2 DEF TimerOK, Waiting
  <1>4. /\ s.rhost \in Host /\ s.parent = r.parent /\ s.pending = r.pending /\ s.flags = {}
        /\ s.cbref = r.cbref /\ s.item = r.item
    BY <1>2 DEF SameRest
  <1>5. GoodStep(r, s)
    BY <1>1, <1>2, <1>3, <1>4, Begun
  <1> QED
    BY <1>1, <1>4, <1>5 DEF s

(* iba_cm_connect when there is no datagram.                               *)
LEMMA ConnectNoDgrmStep ==
    ASSUME NEW r, RecOK(r), r.state = "IDLE", NEW n \in Nat, NEW b \in BOOLEAN
    PROVE  GoodStep(r, [r EXCEPT !.lcid = n, !.mode = "NONE", !.flags = {}, !.retry = 0,
                    !.sid = None, !.rhost = None, !.dgrm = "NONE", !.busy = FALSE, !.cb = b])
  <1> DEFINE s == [r EXCEPT !.lcid = n, !.mode = "NONE", !.flags = {}, !.retry = 0,
                    !.sid = None, !.rhost = None, !.dgrm = "NONE", !.busy = FALSE, !.cb = b]
  <1>0. r \in CepObject /\ TimerOK(r)
    BY DEF RecOK
  <1>1. s \in CepObject
    BY <1>0, StateNames DEF CepObject, Mode
  <1>2. /\ s.state = "IDLE" /\ s.timer = r.timer /\ s.parent = r.parent
        /\ s.pending = r.pending /\ s.flags = {} /\ s.cbref = r.cbref /\ s.item = r.item
    BY <1>0 DEF CepObject
  <1> HIDE DEF s
  <1>3. TimerOK(s)
    BY <1>0, <1>2 DEF TimerOK
  <1>4. GoodStep(r, s)
    BY <1>1, <1>2, <1>3, Begun
  <1> QED
    BY <1>4 DEF s

(* iba_cm_listen on an idle CEP.                                           *)
LEMMA ListenStep ==
    ASSUME NEW r, RecOK(r), r.state = "IDLE", NEW sid \in Sid, NEW n \in Nat, NEW b \in BOOLEAN
    PROVE  GoodStep(r, [r EXCEPT !.sid = sid, !.mode = "PASSIVE", !.state = "LISTEN",
                    !.flags = {}, !.retry = 0, !.lcid = n, !.dgrm = "NONE", !.busy = FALSE,
                    !.rhost = None, !.cb = b])
  <1> DEFINE s == [r EXCEPT !.sid = sid, !.mode = "PASSIVE", !.state = "LISTEN",
                    !.flags = {}, !.retry = 0, !.lcid = n, !.dgrm = "NONE", !.busy = FALSE,
                    !.rhost = None, !.cb = b]
  <1>0. r \in CepObject /\ TimerOK(r)
    BY DEF RecOK
  <1>1. s \in CepObject
    BY <1>0, StateNames DEF CepObject, Mode
  <1>2. /\ s.state = "LISTEN" /\ s.timer = r.timer /\ s.parent = r.parent
        /\ s.pending = r.pending /\ s.flags = {} /\ s.cbref = r.cbref /\ s.item = r.item
    BY <1>0 DEF CepObject
  <1> HIDE DEF s
  <1>3. TimerOK(s)
    BY <1>0, <1>2 DEF TimerOK, Waiting
  <1>4. GoodStep(r, s)
    BY <1>1, <1>2, <1>3, Begun
  <1> QED
    BY <1>4 DEF s

(* The end of iba_cm_destroy_cep: the object goes, or waits for callbacks. *)
LEMMA ReleasedStep ==
    ASSUME NEW r, RecOK(r), r.state = "IDLE"
    PROVE  LET s == Released(r)
           IN  Keeps(r, s) /\ (s.state = "FREE" \/ Destroying(s))
  <1>0. r \in CepObject /\ r.cbref \in Nat
    BY DEF RecOK, CepObject
  <1>1. r.parent = None /\ r.pending = <<>>
    BY OffTheLists DEF Queued
  <1>2. CASE r.cbref > 0
    <2>1. r.item # "none" /\ "USRE_DESTROY" \in Event
      BY <1>2 DEF RecOK, CallbackOK, Event
    <2>2. Keeps(r, EventSet(r, "USRE_DESTROY"))
          /\ EventSet(r, "USRE_DESTROY").flags = r.flags \cup {"USRE_DESTROY"}
      BY <2>1, EventQueued
    <2> QED
      BY <1>2, <2>2 DEF Released, Destroying
  <1>3. CASE ~ (r.cbref > 0)
    <2>1. r.cbref = 0 /\ r.item = "none"
      BY <1>0, <1>3 DEF RecOK, CallbackOK
    <2>2. Keeps(r, DestroyCEP(r)) /\ DestroyCEP(r).state = "FREE"
      BY <1>0, <1>1, <2>1, Freed
    <2> QED
      BY <1>3, <2>2 DEF Released
  <1> QED
    BY <1>2, <1>3

(* A new pending list changes no other field.                              *)
LEMMA PendingType ==
    ASSUME NEW r \in CepObject, NEW q \in Seq(Cep)
    PROVE  LET s == [r EXCEPT !.pending = q]
           IN  /\ s \in CepObject /\ s.pending = q
               /\ s.state = r.state /\ s.timer = r.timer /\ s.rhost = r.rhost
               /\ s.parent = r.parent /\ s.flags = r.flags
               /\ s.cbref = r.cbref /\ s.item = r.item
  <1> DEFINE s == [r EXCEPT !.pending = q]
  <1>1. s \in CepObject
    BY DEF CepObject
  <1>2. /\ s.pending = q
        /\ s.state = r.state /\ s.timer = r.timer /\ s.rhost = r.rhost
        /\ s.parent = r.parent /\ s.flags = r.flags
        /\ s.cbref = r.cbref /\ s.item = r.item
    BY DEF CepObject
  <1> QED
    BY <1>1, <1>2

(* A cancelled CEP is idle, without requests on its queue.                 *)
LEMMA CancelledIdle ==
    ASSUME NEW r, RecOK(r), r.state \in {"LISTEN", "REQ_SENT", "REP_WAIT", "REP_SENT",
                                         "MRA_REP_RCVD"}
    PROVE  LET s == SetNotification(CepToIdle(CmTimerStop([r EXCEPT !.pending = <<>>])),
                                    "USRE_CANCEL")
           IN  /\ RecOK(s) /\ s.state = "IDLE" /\ s.pending = <<>> /\ s.parent = None
               /\ (Destroying(r) => Destroying(s))
  <1> DEFINE p == [r EXCEPT !.pending = <<>>]
             t == CepToIdle(CmTimerStop(p))
             s == SetNotification(t, "USRE_CANCEL")
  <1>0. r \in CepObject /\ r.parent = None
    BY DEF RecOK, Queued
  <1>1. p \in CepObject /\ p.pending = <<>> /\ p.parent = r.parent
        /\ p.flags = r.flags /\ p.cbref = r.cbref /\ p.item = r.item
    <2> DEFINE q == <<>>
    <2>1. q \in Seq(Cep)
      OBVIOUS
    <2> HIDE DEF q
    <2>2. LET x == [r EXCEPT !.pending = q]
          IN  x \in CepObject /\ x.pending = q /\ x.parent = r.parent
              /\ x.flags = r.flags /\ x.cbref = r.cbref /\ x.item = r.item
      BY <1>0, <2>1, PendingType
    <2> QED
      BY <2>2 DEF q
  <1>2. p.parent = None
    BY <1>0, <1>1
  <1> HIDE DEF p
  <1>3. t \in CepObject
    BY <1>1, CmTimerStopType, CepToIdleType
  <1>4. /\ t.pending = <<>> /\ t.parent = None /\ t.flags = r.flags /\ t.cbref = r.cbref
        /\ t.item = r.item /\ t.state = "IDLE" /\ t.timer = FALSE
    BY <1>1, <1>2 DEF CepObject, CepToIdle, CmTimerStop, ClearEndPoint
  <1> HIDE DEF t
  <1>5. TimerOK(t) /\ CallbackOK(t)
    BY <1>4 DEF TimerOK, Waiting, RecOK, CallbackOK
  <1>6. DestroyOK(t)
    BY <1>4 DEF RecOK, DestroyOK, Destroying
  <1>7. t.state \notin Queued /\ t.state \notin Talking
    BY <1>4 DEF Queued, Talking
  <1>8. RecOK(t)
    BY <1>3, <1>4, <1>5, <1>6, <1>7 DEF RecOK
  <1>9. Keeps(t, s) /\ s.state = "IDLE"
    BY <1>4, <1>7, <1>8, Notified, EventNames
  <1> HIDE DEF s
  <1>10. /\ RecOK(s) /\ s.state = "IDLE" /\ s.pending = <<>> /\ s.parent = None
         /\ (Destroying(r) => Destroying(s))
    BY <1>4, <1>9 DEF Keeps, GoodStep, StillDestroyed, Destroying
  <1> QED
    BY <1>10 DEF s, t, p

-----------------------------------------------------------------------------
(* MADs.                                                                   *)

(* A MAD with the fields every MAD has.                                    *)
LEMMA MadOfType ==
    ASSUME NEW t \in MadType, NEW src \in Host, NEW dst \in Host,
           NEW lcid \in Nat, NEW rcid \in Nat
    PROVE  MadOf(t, src, dst, lcid, rcid) \in Mad
  BY DEF MadOf, Mad

(* The other fields of a MAD.                                              *)
LEMMA MadFieldsType ==
    ASSUME NEW m \in Mad, NEW what \in MadType, NEW why \in Reason,
           NEW q \in Qp \cup {None}, NEW sid \in Sid \cup {None}
    PROVE  /\ [m EXCEPT !.what = what, !.reason = why] \in Mad
           /\ [m EXCEPT !.what = what] \in Mad
           /\ [m EXCEPT !.qp = q] \in Mad
           /\ [m EXCEPT !.rcid = 0, !.qp = q, !.sid = sid] \in Mad
  BY DEF Mad

(* What a CEP that knows its peer sends.                                   *)
LEMMA SentType ==
    ASSUME NEW c \in Cep, NEW r \in CepObject, r.rhost \in Host
    PROVE  /\ \A t \in MadType : MadFrom(c, r, t) \in Mad
           /\ FormatREQ(c, r) \in Mad /\ FormatREP(c, r) \in Mad
           /\ \A what \in MadType, why \in Reason : FormatREJ(c, r, what, why) \in Mad
  <1>1. HostOf[c] \in Host
    BY CmAssumption
  <1>2. r.lcid \in Nat /\ r.rcid \in Nat /\ r.lep \in Qp \cup {None}
        /\ r.sid \in Sid \cup {None}
    BY DEF CepObject
  <1>3. ASSUME NEW t \in MadType PROVE MadFrom(c, r, t) \in Mad
    BY <1>1, <1>2, MadOfType DEF MadFrom
  <1>4. {"REQ", "REP", "REJ"} \subseteq MadType
    BY MadNames
  <1>5. MadFrom(c, r, "REQ") \in Mad /\ MadFrom(c, r, "REP") \in Mad
        /\ MadFrom(c, r, "REJ") \in Mad
    BY <1>3, <1>4
  <1>6. "REQ" \in MadType /\ "TIMEOUT" \in Reason
    BY <1>4 DEF Reason
  <1>7. FormatREQ(c, r) \in Mad
    BY <1>2, <1>5, <1>6, MadFieldsType DEF FormatREQ
  <1>8. FormatREP(c, r) \in Mad
    BY <1>2, <1>5, <1>6, MadFieldsType DEF FormatREP
  <1>9. ASSUME NEW what \in MadType, NEW why \in Reason PROVE FormatREJ(c, r, what, why) \in Mad
    BY <1>2, <1>5, <1>9, MadFieldsType DEF FormatREJ
  <1> QED
    BY <1>3, <1>7, <1>8, <1>9

(* The answers to a MAD.                                                   *)
LEMMA AnswerType ==
    ASSUME NEW m \in Mad
    PROVE  /\ \A lcid \in Nat, what \in MadType, why \in Reason :
                 SendREJ(m, lcid, what, why) \in Mad
           /\ \A r \in CepObject, what \in MadType : SendMRA(m, r, what) \in Mad
           /\ \A r \in CepObject : MadOf("DREQ", m.dst, m.src, r.lcid, r.rcid) \in Mad
  <1>1. m.src \in Host /\ m.dst \in Host /\ m.lcid \in Nat
    BY DEF Mad
  <1>2. {"REJ", "MRA", "DREQ"} \subseteq MadType
    BY MadNames
  <1>3. "TIMEOUT" \in Reason
    BY DEF Reason
  <1>4. ASSUME NEW lcid \in Nat, NEW what \in MadType, NEW why \in Reason
        PROVE  SendREJ(m, lcid, what, why) \in Mad
    <2>1. MadOf("REJ", m.dst, m.src, lcid, m.lcid) \in Mad
      BY <1>1, <1>2, MadOfType
    <2> QED
      BY <2>1, MadFieldsType DEF SendREJ
  <1>5. ASSUME NEW r \in CepObject, NEW what \in MadType PROVE SendMRA(m, r, what) \in Mad
    <2>1. MadOf("MRA", m.dst, m.src, r.lcid, r.rcid) \in Mad
      BY <1>1, <1>2, MadOfType DEF CepObject
    <2> QED
      BY <1>3, <2>1, MadFieldsType DEF SendMRA
  <1>6. ASSUME NEW r \in CepObject PROVE MadOf("DREQ", m.dst, m.src, r.lcid, r.rcid) \in Mad
    BY <1>1, <1>2, MadOfType DEF CepObject
  <1> QED
    BY <1>4, <1>5, <1>6

-----------------------------------------------------------------------------
(* A step of one CEP preserves the invariant.                              *)

(* A step that changes one CEP, keeps its lists, and does not forget a CEP *)
(* whose handle nobody holds, preserves the invariant.                     *)
LEMMA UpdateStep ==
    ASSUME IInv, NEW c \in Cep, NEW s, net' \subseteq Mad,
           GoodStep(cep[c], s), cep' = [cep EXCEPT ![c] = s],
           commID' \in [Host -> Nat], owned' \subseteq Cep, owned \ {c} \subseteq owned',
           \/ c \in owned'
           \/ c \notin owned /\ StillDestroyed(cep[c], s)
           \/ Destroying(s)
           \/ s.state = "FREE"
    PROVE  IInv'
  <1>1. RecOK(s) /\ s \in CepObject
    BY DEF GoodStep, RecOK
  <1>2. cep' = [cep EXCEPT ![c] = s] /\ cep \in [Cep -> CepObject]
    BY DEF IInv
  <1>3. cep' \in [Cep -> CepObject]
    BY <1>1, <1>2
  <1>4. cep'[c] = s /\ \A d \in Cep \ {c} : cep'[d] = cep[d]
    BY <1>2
  <1>5. \A d \in Cep : cep'[d].parent = cep[d].parent /\ cep'[d].pending = cep[d].pending
    BY <1>4 DEF GoodStep
  <1>6. \A d \in Cep : RecOK(cep'[d])
    BY <1>1, <1>4 DEF IInv
  <1>7. ASSUME NEW d \in Cep PROVE Linked(d)'
    <2>1. Linked(d) /\ cep[d].pending \in Seq(Cep)
      BY <1>2 DEF IInv, CepObject
    <2>2. \A i \in DOMAIN cep[d].pending : cep[d].pending[i] \in Cep
      BY <2>1
    <2> QED
      BY <1>5, <2>1, <2>2 DEF Linked
  <1>8. ASSUME ~ DgrmMayFail, NEW d \in Cep PROVE LeakFree(d)'
    <2>1. LeakFree(d)
      BY <1>8 DEF IInv, NoLeak
    <2>2. CASE d # c
      BY <1>4, <2>1, <2>2 DEF LeakFree, Allocated, Destroying
    <2>3. CASE d = c
      <3>1. Destroying(s) => s.timer \/ s.item # "none"
        BY <1>1, <1>8 DEF RecOK, DestroyOK, TimerOK, Waiting
      <3>2. c \in owned' \/ s.parent # None \/ Destroying(s) \/ s.state = "FREE"
        BY <2>1, <2>3 DEF LeakFree, Allocated, StillDestroyed, GoodStep
      <3> QED
        BY <1>4, <2>3, <3>1, <3>2 DEF LeakFree, Allocated, Destroying
    <2> QED
      BY <2>2, <2>3
  <1> QED
    BY <1>3, <1>6, <1>7, <1>8 DEF IInv, NoLeak

(* The two usual cases: no handle changes hands.                           *)
LEMMA KeepsStep ==
    ASSUME IInv, NEW c \in Cep, NEW s, NEW ms, ms \subseteq Mad,
           Keeps(cep[c], s), Update(c, s, ms), UNCHANGED <<commID, owned>>
    PROVE  IInv'
  <1>1. commID' \in [Host -> Nat] /\ owned' \subseteq Cep /\ owned \ {c} \subseteq owned'
    BY DEF IInv
  <1>2. cep' = [cep EXCEPT ![c] = s] /\ net' \subseteq Mad
    BY DEF Update, Send, IInv
  <1> QED
    BY <1>1, <1>2, UpdateStep DEF Keeps

(* A call that only the holder of the handle makes.                        *)
LEMMA OwnerStep ==
    ASSUME IInv, NEW c \in owned, NEW s, NEW ms, ms \subseteq Mad,
           GoodStep(cep[c], s), Update(c, s, ms), UNCHANGED owned, commID' \in [Host -> Nat]
    PROVE  IInv'
  <1>1. c \in Cep /\ c \in owned' /\ owned' \subseteq Cep /\ owned \ {c} \subseteq owned'
    BY DEF IInv
  <1>2. cep' = [cep EXCEPT ![c] = s] /\ net' \subseteq Mad
    BY DEF Update, Send, IInv
  <1> QED
    BY <1>1, <1>2, UpdateStep

(* An answer to a MAD that no CEP is concerned by.                         *)
LEMMA AnswerStep ==
    ASSUME IInv, NEW ms, ms \subseteq Mad, Answer(ms)
    PROVE  IInv'
  <1>1. cep' = cep /\ commID' = commID /\ owned' = owned /\ net' \subseteq Mad
    BY DEF Answer, Send, IInv
  <1>2. \A c \in Cep : Linked(c)' <=> Linked(c)
    BY <1>1 DEF Linked
  <1>3. NoLeak' <=> NoLeak
    BY <1>1 DEF NoLeak, LeakFree, Allocated
  <1> QED
    BY <1>1, <1>2, <1>3 DEF IInv

-----------------------------------------------------------------------------
(* The queue of a listener.                                                *)

(* A listener whose queue changes, and whose user is perhaps told.         *)
LEMMA Requeued ==
    ASSUME NEW r, RecOK(r), r.state = "LISTEN", NEW q \in Seq(Cep), NEW s,
           LET p == [r EXCEPT !.pending = q] IN s \in {p, SetNotification(p, "RCVD_REQ")}
    PROVE  /\ RecOK(s) /\ s.state = "LISTEN" /\ s.pending = q /\ s.parent = r.parent
           /\ StillDestroyed(r, s)
  <1> DEFINE p == [r EXCEPT !.pending = q]
  <1>0. r \in CepObject
    BY DEF RecOK
  <1>1. /\ p \in CepObject /\ p.pending = q /\ p.state = r.state /\ p.timer = r.timer
        /\ p.rhost = r.rhost /\ p.parent = r.parent /\ p.flags = r.flags
        /\ p.cbref = r.cbref /\ p.item = r.item
    BY <1>0, PendingType
  <1>2. s \in {p, SetNotification(p, "RCVD_REQ")}
    OBVIOUS
  <1> HIDE DEF p
  <1>3. TimerOK(p) /\ CallbackOK(p) /\ DestroyOK(p)
    BY <1>1 DEF RecOK, TimerOK, CallbackOK, DestroyOK, Destroying
  <1>4. RecOK(p)
    BY <1>1, <1>3 DEF RecOK
  <1>5. p.state # "FREE" /\ p.state \notin Queued
    BY <1>1 DEF Queued
  <1>6. LET t == SetNotification(p, "RCVD_REQ") IN Keeps(p, t) /\ t.state = p.state
    BY <1>4, <1>5, Notified, EventNames
  <1> QED
    BY <1>1, <1>2, <1>4, <1>6 DEF Keeps, GoodStep, StillDestroyed, Destroying

(* The head of the queue leaves it, to be accepted or destroyed.           *)
LEMMA DequeueStep ==
    ASSUME IInv, NEW l \in Cep, HasPending(l), NEW s, NEW ms, ms \subseteq Mad,
           RecOK(s), s.parent = None, s.pending = <<>>,
           Update2(l, Dequeued(l), PendingCEP(l), s, ms),
           commID' \in [Host -> Nat], owned \subseteq owned', owned' \subseteq Cep,
           PendingCEP(l) \in owned' \/ s.state = "FREE"
    PROVE  IInv'
  <1> DEFINE c == PendingCEP(l)
             q == cep[l].pending
             r == Dequeued(l)
  <1>1. cep \in [Cep -> CepObject] /\ q \in Seq(Cep) /\ q # <<>> /\ cep[l].state = "LISTEN"
    BY DEF IInv, CepObject, HasPending
  <1>2. c = q[1] /\ c \in Cep /\ 1 \in DOMAIN q /\ Len(q) \in Nat /\ DOMAIN q = 1 .. Len(q)
    BY <1>1 DEF PendingCEP
  <1>3. Linked(l) /\ RecOK(cep[l]) /\ RecOK(cep[c])
    BY <1>2 DEF IInv
  <1>4. cep[c].parent = l /\ l # None
    BY <1>2, <1>3, CmAssumption DEF Linked
  <1>5. cep[c].state \in Queued /\ c # l /\ cep[c].pending = <<>>
    BY <1>1, <1>3, <1>4 DEF RecOK, Queued
  <1>6. Tail(q) \in Seq(Cep)
    BY <1>1
  <1>7. RecOK(r) /\ r.pending = Tail(q) /\ r.parent = cep[l].parent /\ r.state = "LISTEN"
        /\ StillDestroyed(cep[l], r)
    <2> DEFINE t == Tail(q)
               o == cep[l]
               p == [o EXCEPT !.pending = t]
    <2>1. r \in {p, SetNotification(p, "RCVD_REQ")}
      BY DEF Dequeued
    <2>2. t \in Seq(Cep) /\ RecOK(o) /\ o.state = "LISTEN"
      BY <1>1, <1>3, <1>6
    <2> HIDE DEF r, t, o
    <2>3. RecOK(r) /\ r.pending = t /\ r.parent = o.parent /\ r.state = "LISTEN"
          /\ StillDestroyed(o, r)
      BY <2>1, <2>2, Requeued
    <2> QED
      BY <2>3 DEF t, o
  <1>8. /\ cep' = [cep EXCEPT ![l] = r, ![c] = s] /\ net' \subseteq Mad
    BY DEF Update2, Send, IInv
  <1> HIDE DEF c, r
  <1>9. cep'[l] = r /\ cep'[c] = s /\ \A d \in Cep \ {l, c} : cep'[d] = cep[d]
    BY <1>1, <1>2, <1>5, <1>8
  <1>10. cep' \in [Cep -> CepObject]
    BY <1>1, <1>7, <1>8 DEF RecOK
  <1>11. \A d \in Cep : RecOK(cep'[d])
    BY <1>7, <1>9 DEF IInv
  <1>12. \A d \in Cep : cep'[d].parent = IF d = c THEN None ELSE cep[d].parent
    BY <1>5, <1>7, <1>9
  <1>13. \A d \in Cep : cep'[d].pending = IF d = l THEN Tail(q) ELSE cep[d].pending
    BY <1>5, <1>7, <1>9
  <1>14. Linked(l)'
    <2> DEFINE t == Tail(q)
    <2>1. Len(t) = Len(q) - 1 /\ DOMAIN t = 1 .. Len(q) - 1
          /\ \A i \in DOMAIN t : t[i] = q[i + 1] /\ i + 1 \in DOMAIN q /\ i + 1 # 1
      BY <1>1, <1>2
    <2>2. \A i \in DOMAIN q : q[i] \in Cep /\ cep[q[i]].parent = l
          /\ \A j \in DOMAIN q : i # j => q[i] # q[j]
      BY <1>1, <1>3 DEF Linked
    <2>3. cep'[l].pending = t /\ Len(q) <= MaxBackLog
      BY <1>3, <1>13 DEF Linked
    <2>4. MaxBackLog \in Nat
      BY CmAssumption
    <2> HIDE DEF t
    <2>5. Len(t) <= MaxBackLog
      BY <1>2, <2>1, <2>3, <2>4
    <2>6. \A i, j \in DOMAIN t : i # j => t[i] # t[j]
      <3> SUFFICES ASSUME NEW i \in DOMAIN t, NEW j \in DOMAIN t, i # j PROVE t[i] # t[j]
        OBVIOUS
      <3>1. i + 1 # j + 1
        BY <1>2, <2>1
      <3> QED
        BY <2>1, <2>2, <3>1
    <2>7. \A i \in DOMAIN t : cep'[t[i]].parent = l
      <3> SUFFICES ASSUME NEW i \in DOMAIN t PROVE cep'[t[i]].parent = l
        OBVIOUS
      <3>1. t[i] \in Cep /\ cep[t[i]].parent = l /\ t[i] # c
        BY <1>2, <2>1, <2>2
      <3> QED
        BY <1>12, <3>1
    <2>8. \A d \in Cep : cep'[d].parent = l => \E i \in DOMAIN t : t[i] = d
      <3> SUFFICES ASSUME NEW d \in Cep, cep'[d].parent = l
                   PROVE  \E i \in DOMAIN t : t[i] = d
        OBVIOUS
      <3>1. d # c /\ cep[d].parent = l
        BY <1>4, <1>12
      <3>2. PICK k \in DOMAIN q : q[k] = d
        BY <1>3, <3>1 DEF Linked
      <3>3. k - 1 \in DOMAIN t /\ (k - 1) + 1 = k
        BY <1>2, <2>1, <3>1, <3>2
      <3> QED
        BY <2>1, <3>2, <3>3
    <2> QED
      BY <2>3, <2>5, <2>6, <2>7, <2>8 DEF Linked
  <1>15. ASSUME NEW d \in Cep, d # l PROVE Linked(d)'
    <2>1. Linked(d) /\ cep'[d].pending = cep[d].pending /\ d # None
      BY <1>13, <1>15, CmAssumption DEF IInv
    <2>2. \A i \in DOMAIN cep[d].pending :
             cep[d].pending[i] \in Cep /\ cep[d].pending[i] # c
      <3>1. cep[d].pending \in Seq(Cep)
        BY <1>1 DEF CepObject
      <3> QED
        BY <1>4, <1>15, <2>1, <3>1 DEF Linked
    <2> QED
      BY <1>12, <2>1, <2>2 DEF Linked
  <1>16. ASSUME ~ DgrmMayFail, NEW d \in Cep PROVE LeakFree(d)'
    <2>1. LeakFree(d)
      BY <1>16 DEF IInv, NoLeak
    <2>2. CASE d = c
      BY <1>9, <2>2 DEF LeakFree, Allocated, c
    <2>3. CASE d = l
      <3>1. r.state = cep[l].state /\ ~ Destroying(r)
        BY <1>1, <1>7, <1>16 DEF RecOK, DestroyOK
      <3>2. ~ Destroying(cep[l])
        BY <1>7, <3>1 DEF StillDestroyed
      <3> QED
        BY <1>7, <1>9, <2>1, <2>3, <3>1, <3>2 DEF LeakFree, Allocated
    <2>4. CASE d \notin {l, c}
      BY <1>9, <2>1, <2>4 DEF LeakFree, Allocated
    <2> QED
      BY <2>2, <2>3, <2>4
  <1> QED
    BY <1>8, <1>10, <1>11, <1>14, <1>15, <1>16 DEF IInv, NoLeak

(* A new request joins the queue.                                          *)
LEMMA EnqueueStep ==
    ASSUME IInv, NEW l \in Cep, cep[l].state = "LISTEN", Len(cep[l].pending) < MaxBackLog,
           NEW c \in Cep, cep[c].state = "FREE", NEW s, NEW ms, ms \subseteq Mad,
           RecOK(s), s.parent = l, s.pending = <<>>,
           Update2(l, Enqueued(l, c), c, s, ms),
           commID' \in [Host -> Nat], UNCHANGED owned
    PROVE  IInv'
  <1> DEFINE q == cep[l].pending
             r == Enqueued(l, c)
             t == Append(q, c)
  <1>1. cep \in [Cep -> CepObject] /\ q \in Seq(Cep) /\ Len(q) \in Nat
        /\ DOMAIN q = 1 .. Len(q)
    BY DEF IInv, CepObject
  <1>2. Linked(l) /\ RecOK(cep[l]) /\ RecOK(cep[c]) /\ c # l /\ l # None
    BY CmAssumption DEF IInv
  <1>3. cep[c].parent = None /\ cep[c].pending = <<>>
    BY <1>2, OffTheLists DEF Queued
  <1>4. t \in Seq(Cep) /\ Len(t) = Len(q) + 1 /\ DOMAIN t = 1 .. Len(q) + 1
        /\ t[Len(q) + 1] = c /\ \A i \in DOMAIN q : t[i] = q[i]
    BY <1>1
  <1>5. RecOK(r) /\ r.pending = t /\ r.parent = cep[l].parent /\ r.state = "LISTEN"
        /\ StillDestroyed(cep[l], r)
    <2> DEFINE o == cep[l]
               p == [o EXCEPT !.pending = t]
    <2>1. r \in {p, SetNotification(p, "RCVD_REQ")}
      BY DEF Enqueued
    <2>2. t \in Seq(Cep) /\ RecOK(o) /\ o.state = "LISTEN"
      BY <1>2, <1>4
    <2> HIDE DEF r, t, o
    <2>3. RecOK(r) /\ r.pending = t /\ r.parent = o.parent /\ r.state = "LISTEN"
          /\ StillDestroyed(o, r)
      BY <2>1, <2>2, Requeued
    <2> QED
      BY <2>3 DEF o
  <1>6. cep' = [cep EXCEPT ![l] = r, ![c] = s] /\ net' \subseteq Mad
    BY DEF Update2, Send, IInv
  <1> HIDE DEF r, t
  <1>7. cep'[l] = r /\ cep'[c] = s /\ \A d \in Cep \ {l, c} : cep'[d] = cep[d]
    BY <1>1, <1>2, <1>6
  <1>8. cep' \in [Cep -> CepObject]
    BY <1>1, <1>5, <1>6 DEF RecOK
  <1>9. \A d \in Cep : RecOK(cep'[d])
    BY <1>5, <1>7 DEF IInv
  <1>10. \A d \in Cep : cep'[d].parent = IF d = c THEN l ELSE cep[d].parent
    BY <1>2, <1>5, <1>7
  <1>11. \A d \in Cep : cep'[d].pending = IF d = l THEN t ELSE cep[d].pending
    BY <1>2, <1>3, <1>5, <1>7
  <1>12. Linked(l)'
    <2>1. \A i \in DOMAIN q : q[i] \in Cep /\ cep[q[i]].parent = l /\ q[i] # c
          /\ \A j \in DOMAIN q : i # j => q[i] # q[j]
      BY <1>1, <1>2, <1>3 DEF Linked
    <2>2. cep'[l].pending = t
      BY <1>11
    <2>3. Len(t) <= MaxBackLog
      BY <1>1, <1>4, CmAssumption
    <2>4. \A i \in DOMAIN t : i \in DOMAIN q \/ i = Len(q) + 1
      BY <1>1, <1>4
    <2>5. \A i, j \in DOMAIN t : i # j => t[i] # t[j]
      BY <1>4, <2>1, <2>4
    <2>6. \A i \in DOMAIN t : cep'[t[i]].parent = l
      BY <1>4, <1>10, <2>1, <2>4
    <2>7. \A d \in Cep : cep'[d].parent = l => \E i \in DOMAIN t : t[i] = d
      <3> SUFFICES ASSUME NEW d \in Cep, cep'[d].parent = l
                   PROVE  \E i \in DOMAIN t : t[i] = d
        OBVIOUS
      <3>1. CASE d = c
        <4>1. Len(q) + 1 \in DOMAIN t
          BY <1>1, <1>4
        <4> QED
          BY <1>4, <3>1, <4>1
      <3>2. CASE d # c
        <4>1. PICK k \in DOMAIN q : q[k] = d
          BY <1>2, <1>10, <3>2 DEF Linked
        <4>2. k \in DOMAIN t /\ t[k] = d
          BY <1>1, <1>4, <4>1
        <4> QED
          BY <4>2
      <3> QED
        BY <3>1, <3>2
    <2> QED
      BY <2>2, <2>3, <2>5, <2>6, <2>7 DEF Linked
  <1>13. ASSUME NEW d \in Cep, d # l PROVE Linked(d)'
    <2>1. Linked(d) /\ cep'[d].pending = cep[d].pending /\ d # None
      BY <1>11, <1>13, CmAssumption DEF IInv
    <2>2. \A i \in DOMAIN cep[d].pending :
             cep[d].pending[i] \in Cep /\ cep[d].pending[i] # c
      <3>1. cep[d].pending \in Seq(Cep)
        BY <1>1 DEF CepObject
      <3> QED
        BY <1>3, <2>1, <3>1 DEF Linked
    <2> QED
      BY <1>10, <1>13, <2>1, <2>2 DEF Linked
  <1>14. ASSUME ~ DgrmMayFail, NEW d \in Cep PROVE LeakFree(d)'
    <2>1. LeakFree(d)
      BY <1>14 DEF IInv, NoLeak
    <2>2. CASE d = c
      BY <1>2, <1>7, <2>2 DEF LeakFree
    <2>3. CASE d = l
      <3>1. r.state = cep[l].state /\ ~ Destroying(r)
        BY <1>2, <1>5, <1>14 DEF RecOK, DestroyOK
      <3>2. ~ Destroying(cep[l])
        BY <1>5, <3>1 DEF StillDestroyed
      <3> QED
        BY <1>5, <1>7, <2>1, <2>3, <3>1, <3>2 DEF LeakFree, Allocated
    <2>4. CASE d \notin {l, c}
      BY <1>7, <2>1, <2>4 DEF LeakFree, Allocated
    <2> QED
      BY <2>2, <2>3, <2>4
  <1> QED
    BY <1>6, <1>8, <1>9, <1>12, <1>13, <1>14 DEF IInv, NoLeak

(* A CEP goes idle and the requests on its queue are destroyed.            *)
LEMMA DropStep ==
    ASSUME IInv, NEW c \in Cep, NEW s, NEW ms, ms \subseteq Mad,
           cep[c].state \notin Queued, RecOK(s), s.parent = None, s.pending = <<>>,
           UpdateAndDrop(c, s, ms),
           commID' = commID, owned' \subseteq Cep, owned \ {c} \subseteq owned',
           c \in owned' \/ s.state = "FREE" \/ Destroying(s)
    PROVE  IInv'
  <1> DEFINE q == cep[c].pending
             dropped == {q[i] : i \in DOMAIN q}
             gone(d) == DestroyCEP(CepToIdle(cep[d]))
  <1>1. cep \in [Cep -> CepObject] /\ q \in Seq(Cep)
    BY DEF IInv, CepObject
  <1>2. RecOK(cep[c]) /\ Linked(c) /\ c # None
    BY CmAssumption DEF IInv
  <1>3. cep[c].parent = None
    BY <1>2 DEF RecOK
  <1>4. dropped = {d \in Cep : cep[d].parent = c}
    <2>1. \A i \in DOMAIN q : q[i] \in Cep /\ cep[q[i]].parent = c
      BY <1>1, <1>2 DEF Linked
    <2>2. \A d \in Cep : cep[d].parent = c => \E i \in DOMAIN q : q[i] = d
      BY <1>2 DEF Linked
    <2> QED
      BY <2>1, <2>2
  <1>5. /\ cep' = [d \in Cep |-> IF d = c THEN s
                                 ELSE IF d \in dropped THEN gone(d) ELSE cep[d]]
        /\ net' \subseteq Mad
    BY DEF UpdateAndDrop, Send, IInv
  <1>6. c \notin dropped
    BY <1>2, <1>3, <1>4
  <1>7. ASSUME NEW d \in dropped
        PROVE  /\ d \in Cep /\ RecOK(gone(d)) /\ gone(d).state = "FREE"
               /\ gone(d).parent = None /\ gone(d).pending = <<>>
               /\ cep[d].pending = <<>>
    <2>1. d \in Cep /\ cep[d].parent # None /\ RecOK(cep[d]) /\ cep[d] \in CepObject
      BY <1>1, <1>2, <1>4 DEF IInv
    <2>2. cep[d].state \in Queued /\ cep[d].cbref = 0 /\ cep[d].pending = <<>>
      BY <2>1 DEF RecOK, Queued
    <2>3. cep[d].item = "none"
      BY <2>1, <2>2 DEF RecOK, CallbackOK
    <2> DEFINE i == CepToIdle(cep[d])
    <2>4. i \in CepObject
      BY <2>1, CepToIdleType
    <2>5. i.cbref = 0 /\ i.item = "none"
      BY <2>1, <2>2, <2>3 DEF CepToIdle, ClearEndPoint, CepObject
    <2> HIDE DEF i
    <2>6. Keeps(s, DestroyCEP(i)) /\ DestroyCEP(i).state = "FREE"
      BY <2>4, <2>5, Freed
    <2>7. RecOK(DestroyCEP(i)) /\ DestroyCEP(i).parent = None /\ DestroyCEP(i).pending = <<>>
      BY <2>6 DEF Keeps, GoodStep
    <2> QED
      BY <2>1, <2>2, <2>6, <2>7 DEF i
  <1> HIDE DEF dropped, gone
  <1>8. /\ cep'[c] = s
        /\ \A d \in dropped : cep'[d] = gone(d)
        /\ \A d \in Cep \ (dropped \cup {c}) : cep'[d] = cep[d]
    BY <1>5, <1>6, <1>7
  <1>9. \A d \in Cep : RecOK(cep'[d])
    BY <1>7, <1>8 DEF IInv
  <1>10. cep' \in [Cep -> CepObject]
    <2>1. \A d \in Cep : cep'[d] \in CepObject
      BY <1>9 DEF RecOK
    <2>2. cep' = [d \in Cep |-> cep'[d]]
      BY <1>5
    <2> QED
      BY <2>1, <2>2
  <1>11. \A d \in Cep : cep'[d].parent = IF d \in dropped THEN None ELSE cep[d].parent
    BY <1>3, <1>7, <1>8
  <1>12. \A d \in Cep : cep'[d].pending = IF d = c THEN <<>> ELSE cep[d].pending
    BY <1>7, <1>8
  <1>13. Linked(c)'
    <2>1. cep'[c].pending = <<>> /\ Len(<<>>) = 0 /\ MaxBackLog \in Nat /\ DOMAIN <<>> = {}
      BY <1>12, CmAssumption
    <2>2. \A d \in Cep : cep'[d].parent # c
      BY <1>2, <1>4, <1>11
    <2> QED
      BY <2>1, <2>2 DEF Linked
  <1>14. ASSUME NEW d \in Cep, d # c PROVE Linked(d)'
    <2>1. Linked(d) /\ cep'[d].pending = cep[d].pending /\ d # None
      BY <1>12, <1>14, CmAssumption DEF IInv
    <2>2. \A i \in DOMAIN cep[d].pending :
             cep[d].pending[i] \in Cep /\ cep[d].pending[i] \notin dropped
      <3>1. cep[d].pending \in Seq(Cep)
        BY <1>1 DEF CepObject
      <3> QED
        BY <1>4, <1>14, <2>1, <3>1 DEF Linked
    <2> QED
      BY <1>11, <2>1, <2>2 DEF Linked
  <1>15. ASSUME ~ DgrmMayFail, NEW d \in Cep PROVE LeakFree(d)'
    <2>1. LeakFree(d)
      BY <1>15 DEF IInv, NoLeak
    <2>2. CASE d = c
      <3>1. Destroying(s) => s.timer \/ s.item # "none"
        BY <1>15 DEF RecOK, DestroyOK, TimerOK, Waiting
      <3> QED
        BY <1>8, <2>2, <3>1 DEF LeakFree, Allocated
    <2>3. CASE d \in dropped
      BY <1>7, <1>8, <2>3 DEF LeakFree, Allocated
    <2>4. CASE d \notin dropped /\ d # c
      BY <1>8, <2>1, <2>4 DEF LeakFree, Allocated
    <2> QED
      BY <2>2, <2>3, <2>4
  <1> QED
    BY <1>5, <1>9, <1>10, <1>13, <1>14, <1>15 DEF IInv, NoLeak

-----------------------------------------------------------------------------
(* Every action preserves the invariant.                                   *)

(* What the invariant says of one CEP.                                     *)
LEMMA Facts ==
    ASSUME IInv, NEW c \in Cep
    PROVE  /\ RecOK(cep[c]) /\ cep[c] \in CepObject
           /\ cep[c].state \in Talking => cep[c].rhost \in Host
  BY DEF IInv, RecOK

(* What the CEP c sends is a MAD, in every state but FREE, IDLE and LISTEN. *)
LEMMA CepSends ==
    ASSUME IInv, NEW c \in Cep, cep[c].state \in Talking
    PROVE  /\ \A t \in MadType : MadFrom(c, cep[c], t) \in Mad
           /\ FormatREP(c, cep[c]) \in Mad
           /\ \A what \in MadType, why \in Reason : FormatREJ(c, cep[c], what, why) \in Mad
  BY Facts, SentType

(* The states in which a CEP knows its peer.                               *)
LEMMA TalkingStates ==
    {"REQ_SENT", "REQ_RCVD", "REP_SENT", "REP_RCVD", "MRA_REQ_SENT", "MRA_REP_SENT",
     "REP_WAIT", "MRA_REP_RCVD", "ESTABLISHED", "DREQ_SENT", "DREQ_RCVD", "SIM_DREQ_RCVD",
     "TIMEWAIT"} \subseteq Talking
  BY DEF Talking, CepState

(* iba_cm_create_cep preserves the invariant.                              *)
LEMMA CreateAction ==
    ASSUME IInv, NEW c \in Cep, iba_cm_create_cep(c)
    PROVE  IInv'
  <1>1. RecOK(cep[c]) /\ cep[c].state = "FREE"
    BY Facts DEF iba_cm_create_cep, Allocatable
  <1>2. cep[c].parent = None /\ cep[c].pending = <<>>
    BY <1>1, OffTheLists DEF Queued
  <1> DEFINE s == NewCep
  <1>3. s \in CepObject
    BY NewCepType
  <1>4. /\ s.state = "IDLE" /\ s.timer = FALSE /\ s.parent = None /\ s.pending = <<>>
        /\ s.flags = {} /\ s.cbref = 0 /\ s.item = "none"
    BY DEF NewCep
  <1>5. cep' = [cep EXCEPT ![c] = s] /\ owned' = owned \cup {c} /\ commID' = commID
        /\ net' = net
    BY DEF iba_cm_create_cep
  <1> HIDE DEF s
  <1>6. TimerOK(s) /\ CallbackOK(s) /\ DestroyOK(s) /\ s.state \notin Queued
        /\ s.state \notin Talking
    BY <1>4 DEF TimerOK, Waiting, CallbackOK, DestroyOK, Destroying, Queued, Talking
  <1>7. GoodStep(cep[c], s)
    BY <1>2, <1>3, <1>4, <1>6 DEF GoodStep, RecOK
  <1>8. commID' \in [Host -> Nat] /\ owned' \subseteq Cep /\ net' \subseteq Mad
        /\ c \in owned' /\ owned \ {c} \subseteq owned'
    BY <1>5 DEF IInv
  <1> QED
    BY <1>5, <1>7, <1>8, UpdateStep

(* AssignLocalCommID keeps the counter a number.                           *)
LEMMA CommIDAssigned ==
    ASSUME IInv, NEW h \in Host, AssignLocalCommID(h)
    PROVE  commID' \in [Host -> Nat] /\ NextCommID(h) \in Nat
  BY DEF IInv, AssignLocalCommID, NextCommID

(* iba_cm_connect preserves the invariant.                                 *)
LEMMA ConnectAction ==
    ASSUME IInv, NEW c \in Cep, NEW q \in Qp, NEW h \in Host, NEW sid \in Sid,
           Connect(c, q, h, sid)
    PROVE  IInv'
  <1> DEFINE n == NextCommID(HostOf[c])
             b == c \in UserCallback
             r == cep[c]
             p == [r EXCEPT !.lep = q, !.rhost = h, !.sid = sid, !.flags = {},
                            !.retry = 0, !.mode = "ACTIVE", !.lcid = n, !.cb = b]
             s == CmTimerStart(CepSetState(CepSend(p, "REQ"), "REQ_SENT"))
  <1>1. HostOf[c] \in Host
    BY CmAssumption
  <1>2. n \in Nat /\ commID' \in [Host -> Nat]
    BY <1>1, CommIDAssigned DEF Connect
  <1>3. c \in owned /\ r.state = "IDLE" /\ UNCHANGED owned
        /\ Update(c, s, {FormatREQ(c, s)})
    BY DEF Connect
  <1>4. b \in BOOLEAN /\ RecOK(r)
    BY Facts
  <1> HIDE DEF n, b, r
  <1>5. r \in CepObject
    BY <1>4 DEF RecOK
  <1>6. p \in CepObject
    BY <1>2, <1>4, <1>5 DEF CepObject, Mode
  <1>7. /\ p.rhost = h /\ p.parent = r.parent /\ p.pending = r.pending /\ p.flags = {}
        /\ p.cbref = r.cbref /\ p.item = r.item
    BY <1>5 DEF CepObject
  <1> HIDE DEF p
  <1>8. GoodStep(r, s) /\ s.rhost \in Host /\ s \in CepObject
    BY <1>3, <1>4, <1>6, <1>7, ConnectStep
  <1> HIDE DEF s
  <1>9. {FormatREQ(c, s)} \subseteq Mad
    BY <1>8, SentType
  <1> QED
    BY <1>2, <1>3, <1>8, <1>9, OwnerStep DEF r

(* iba_cm_connect without a datagram preserves the invariant.              *)
LEMMA ConnectNoDgrmAction ==
    ASSUME IInv, NEW c \in Cep, NEW q \in Qp, ConnectNoDgrm(c, q)
    PROVE  IInv'
  <1> DEFINE n == NextCommID(HostOf[c])
             b == c \in UserCallback
             s == [cep[c] EXCEPT !.lcid = n, !.mode = "NONE",
                    !.flags = {}, !.retry = 0, !.sid = None, !.rhost = None,
                    !.dgrm = "NONE", !.busy = FALSE, !.cb = b]
  <1>1. HostOf[c] \in Host
    BY CmAssumption
  <1>2. n \in Nat /\ commID' \in [Host -> Nat]
    BY <1>1, CommIDAssigned DEF ConnectNoDgrm
  <1>3. c \in owned /\ cep[c].state = "IDLE" /\ UNCHANGED owned /\ Update(c, s, {})
    BY DEF ConnectNoDgrm
  <1>4. b \in BOOLEAN /\ RecOK(cep[c])
    BY Facts
  <1> HIDE DEF n, b
  <1>5. GoodStep(cep[c], s)
    BY <1>2, <1>3, <1>4, ConnectNoDgrmStep
  <1> HIDE DEF s
  <1> QED
    BY <1>2, <1>3, <1>5, OwnerStep

(* iba_cm_listen preserves the invariant.                                  *)
LEMMA ListenAction ==
    ASSUME IInv, NEW c \in Cep, NEW sid \in Sid, Listen(c, sid)
    PROVE  IInv'
  <1> DEFINE n == NextCommID(HostOf[c])
             b == c \in UserCallback
             s == [cep[c] EXCEPT !.sid = sid, !.mode = "PASSIVE", !.state = "LISTEN",
                    !.flags = {}, !.retry = 0, !.lcid = n,
                    !.dgrm = "NONE", !.busy = FALSE, !.rhost = None, !.cb = b]
  <1>1. HostOf[c] \in Host
    BY CmAssumption
  <1>2. n \in Nat /\ commID' \in [Host -> Nat]
    BY <1>1, CommIDAssigned DEF Listen
  <1>3. c \in owned /\ cep[c].state = "IDLE" /\ UNCHANGED owned /\ Update(c, s, {})
    BY DEF Listen
  <1>4. b \in BOOLEAN /\ RecOK(cep[c])
    BY Facts
  <1> HIDE DEF n, b
  <1>5. GoodStep(cep[c], s)
    BY <1>2, <1>3, <1>4, ListenStep
  <1> HIDE DEF s
  <1> QED
    BY <1>2, <1>3, <1>5, OwnerStep

(* iba_cm_accept on the active side preserves the invariant.               *)
LEMMA AcceptAAction ==
    ASSUME IInv, NEW c \in Cep, AcceptA(c)
    PROVE  IInv'
  <1> DEFINE s == CepSetState(CepSend(cep[c], "RTU"), "ESTABLISHED")
  <1>1. cep[c].state \in {"REP_RCVD", "MRA_REP_SENT"}
        /\ Update(c, s, {MadFrom(c, s, "RTU")}) /\ UNCHANGED <<commID, owned>>
    BY DEF AcceptA
  <1>2. RecOK(cep[c]) /\ cep[c].state \in Talking
    BY <1>1, Facts, TalkingStates
  <1>3. Keeps(cep[c], s)
    BY <1>1, <1>2, AcceptAStep
  <1>4. s \in CepObject /\ s.rhost \in Host
    BY <1>2, <1>3 DEF Keeps, GoodStep, RecOK, CepSetState, CepSend, CepObject
  <1> HIDE DEF s
  <1>5. {MadFrom(c, s, "RTU")} \subseteq Mad
    BY <1>4, SentType, MadNames
  <1> QED
    BY <1>1, <1>3, <1>5, KeepsStep

(* iba_cm_reject on the active side preserves the invariant.               *)
LEMMA RejectAAction ==
    ASSUME IInv, NEW c \in Cep, RejectA(c)
    PROVE  IInv'
  <1> DEFINE ms == {FormatREJ(c, cep[c], "REP", "USER_REJ")}
  <1>1. cep[c].state \in {"REP_RCVD", "MRA_REP_SENT"}
        /\ Update(c, RejectedA(c), ms) /\ UNCHANGED <<commID, owned>>
    BY DEF RejectA
  <1>2. RecOK(cep[c]) /\ cep[c].state \in Talking
    BY <1>1, Facts, TalkingStates
  <1>3. Keeps(cep[c], RejectedA(c))
    BY <1>1, <1>2, RejectAStep DEF RejectedA
  <1>4. ms \subseteq Mad
    BY <1>2, CepSends, MadNames DEF Reason
  <1> HIDE DEF ms
  <1> QED
    BY <1>1, <1>3, <1>4, KeepsStep

(* The request at the head of a listener's queue.                          *)
LEMMA PendingFacts ==
    ASSUME IInv, NEW l \in Cep, HasPending(l)
    PROVE  LET c == PendingCEP(l)
           IN  /\ c \in Cep /\ RecOK(cep[c]) /\ cep[c] \in CepObject
               /\ cep[c].state \in Queued /\ cep[c].state \in Talking
               /\ cep[c].pending = <<>> /\ cep[c].cbref = 0 /\ cep[c].item = "none"
  <1> DEFINE c == PendingCEP(l)
             q == cep[l].pending
  <1>1. cep \in [Cep -> CepObject] /\ q \in Seq(Cep) /\ q # <<>>
    BY DEF IInv, CepObject, HasPending
  <1>2. c = q[1] /\ c \in Cep /\ 1 \in DOMAIN q
    BY <1>1 DEF PendingCEP
  <1>3. cep[c].parent = l /\ l # None /\ RecOK(cep[c]) /\ Linked(l)
    BY <1>2, CmAssumption DEF IInv, Linked
  <1>4. cep[c].state \in Queued /\ cep[c].cbref = 0 /\ cep[c] \in CepObject
    BY <1>3 DEF RecOK
  <1>5. cep[c].state \in Talking /\ cep[c].state # "LISTEN"
    BY <1>4, TalkingStates DEF Queued
  <1>6. cep[c].pending = <<>> /\ cep[c].item = "none"
    BY <1>3, <1>4, <1>5 DEF RecOK, CallbackOK
  <1> QED
    BY <1>2, <1>3, <1>4, <1>5, <1>6

(* iba_cm_accept on the passive side preserves the invariant.              *)
LEMMA AcceptPAction ==
    ASSUME IInv, NEW l \in Cep, NEW q \in Qp, AcceptP(l, q)
    PROVE  IInv'
  <1> DEFINE c == PendingCEP(l)
             r == cep[c]
             b == c \in UserCallback
             p == [r EXCEPT !.lep = q, !.parent = None, !.retry = 0, !.cb = b]
             s == CmTimerStart(CepSetState(CepSend(p, "REP"), "REP_SENT"))
  <1>1. HasPending(l) /\ Update2(l, Dequeued(l), c, s, {FormatREP(c, s)})
        /\ owned' = owned \cup {c} /\ commID' = commID
    BY DEF AcceptP
  <1>2. /\ c \in Cep /\ RecOK(r) /\ r \in CepObject
        /\ r.state \in Queued /\ r.state \in Talking
        /\ r.pending = <<>> /\ r.cbref = 0 /\ r.item = "none"
    BY <1>1, PendingFacts
  <1>3. b \in BOOLEAN
    OBVIOUS
  <1>4. r.rhost \in Host /\ (~ DgrmMayFail => ~ Destroying(r))
    BY <1>2 DEF RecOK, DestroyOK, Queued
  <1> HIDE DEF r, b
  <1>5. p \in CepObject
    BY <1>2, <1>3 DEF CepObject
  <1>6. /\ p.rhost = r.rhost /\ p.parent = None /\ p.pending = <<>>
        /\ p.flags = r.flags /\ p.cbref = 0 /\ p.item = "none"
    BY <1>2 DEF CepObject
  <1> HIDE DEF p
  <1>7. s \in CepObject
    BY <1>5, StateNames, MadNames, CmTimerStartType, CepSetStateType, CepSendType
  <1>8. SameRest(p, s) /\ s.state = "REP_SENT" /\ s.timer = TRUE
    BY <1>5 DEF SameRest, CepObject, CmTimerStart, CepSetState, CepSend
  <1> HIDE DEF s
  <1>9. /\ s.rhost \in Host /\ s.parent = None /\ s.pending = <<>>
        /\ s.flags = r.flags /\ s.cbref = 0 /\ s.item = "none"
    BY <1>4, <1>6, <1>8 DEF SameRest
  <1>10. TimerOK(s) /\ CallbackOK(s) /\ DestroyOK(s) /\ s.state \notin Queued
    BY <1>4, <1>8, <1>9 DEF TimerOK, Waiting, CallbackOK, DestroyOK, Destroying, Queued
  <1>11. RecOK(s)
    BY <1>7, <1>8, <1>9, <1>10 DEF RecOK
  <1>12. {FormatREP(c, s)} \subseteq Mad
    BY <1>2, <1>7, <1>9, SentType
  <1>13. commID' \in [Host -> Nat] /\ owned \subseteq owned' /\ owned' \subseteq Cep
         /\ c \in owned'
    BY <1>1, <1>2 DEF IInv
  <1> QED
    BY <1>1, <1>9, <1>11, <1>12, <1>13, DequeueStep

(* iba_cm_reject on the passive side preserves the invariant.              *)
LEMMA RejectPAction ==
    ASSUME IInv, NEW l \in Cep, RejectP(l)
    PROVE  IInv'
  <1> DEFINE c == PendingCEP(l)
             i == CepToIdle(cep[c])
             s == DestroyCEP(i)
             ms == {FormatREJ(c, cep[c], "REQ", "USER_REJ")}
  <1>1. HasPending(l) /\ Update2(l, Dequeued(l), c, s, ms) /\ owned' = owned
        /\ commID' = commID
    BY DEF RejectP
  <1>2. /\ c \in Cep /\ cep[c] \in CepObject /\ cep[c].state \in Talking
        /\ cep[c].cbref = 0 /\ cep[c].item = "none"
    BY <1>1, PendingFacts
  <1>3. i \in CepObject
    BY <1>2, CepToIdleType
  <1>4. i.cbref = 0 /\ i.item = "none"
    BY <1>2 DEF CepToIdle, ClearEndPoint, CepObject
  <1>5. ms \subseteq Mad
    BY <1>2, CepSends, MadNames DEF Reason
  <1> HIDE DEF i, ms
  <1>6. NewCep.parent = None /\ NewCep.pending = <<>>
    BY DEF NewCep
  <1>7. Keeps(NewCep, s) /\ s.state = "FREE"
    BY <1>3, <1>4, <1>6, Freed
  <1>8. RecOK(s) /\ s.parent = None /\ s.pending = <<>>
    BY <1>6, <1>7 DEF Keeps, GoodStep
  <1>9. commID' \in [Host -> Nat] /\ owned \subseteq owned' /\ owned' \subseteq Cep
    BY <1>1 DEF IInv
  <1> QED
    BY <1>1, <1>5, <1>7, <1>8, <1>9, DequeueStep

(* What CancelA and CancelP leave of a CEP.                                *)
LEMMA CancelledFacts ==
    ASSUME IInv, NEW c \in Cep, cep[c].state \in CancelableA \cup CancelableP
    PROVE  /\ cep[c].state \notin Queued /\ CancelSends(c) \subseteq Mad
           /\ RecOK(Cancelled(c)) /\ Cancelled(c).state = "IDLE"
           /\ Cancelled(c).parent = None /\ Cancelled(c).pending = <<>>
  <1> DEFINE r == cep[c]
  <1>1. RecOK(r) /\ r.state \notin Queued
    BY Facts DEF CancelableA, CancelableP, ReplyArrived, Queued
  <1>2. CancelSends(c) \subseteq Mad
    <2>1. CASE r.state \in ReplyArrived
      <3>1. r.state \in Talking
        BY <2>1, TalkingStates DEF ReplyArrived
      <3> QED
        BY <2>1, <3>1, CepSends, MadNames DEF CancelSends, Reason
    <2>2. CASE r.state \notin ReplyArrived
      BY <2>2 DEF CancelSends
    <2> QED
      BY <2>1, <2>2
  <1>3. CASE r.state \in ReplyArrived
    <2> DEFINE p == RejectedA(c)
               s == SetNotification(p, "USRE_CANCEL")
    <2>1. Cancelled(c) = s
      BY <1>3 DEF Cancelled
    <2>2. Keeps(r, p)
      BY <1>1, <1>3, RejectAStep DEF ReplyArrived, RejectedA
    <2>3. p.state = "IDLE"
      BY Facts DEF RejectedA, CepToIdle, ClearEndPoint, CepSend, CepObject
    <2>4. r.parent = None /\ r.pending = <<>>
      BY <1>1, <1>3, OffTheLists DEF ReplyArrived
    <2> HIDE DEF p
    <2>5. RecOK(p) /\ p.state \notin Queued /\ p.state # "FREE"
      BY <2>2, <2>3 DEF Keeps, GoodStep, Queued
    <2>6. Keeps(p, s) /\ s.state = p.state
      BY <2>5, Notified, EventNames
    <2> HIDE DEF s
    <2> QED
      BY <1>1, <1>2, <2>1, <2>2, <2>3, <2>4, <2>6 DEF Keeps, GoodStep
  <1>4. CASE r.state \notin ReplyArrived
    <2> DEFINE s == SetNotification(CepToIdle(CmTimerStop([r EXCEPT !.pending = <<>>])),
                                    "USRE_CANCEL")
    <2>1. Cancelled(c) = s
      BY <1>4 DEF Cancelled
    <2>2. r.state \in {"LISTEN", "REQ_SENT", "REP_WAIT", "REP_SENT", "MRA_REP_RCVD"}
      BY <1>4 DEF CancelableA, CancelableP, ReplyArrived
    <2>3. RecOK(s) /\ s.state = "IDLE" /\ s.pending = <<>> /\ s.parent = None
      BY <1>1, <2>2, CancelledIdle
    <2> QED
      BY <1>1, <1>2, <2>1, <2>3
  <1> QED
    BY <1>3, <1>4

(* iba_cm_cancel preserves the invariant.                                  *)
LEMMA CancelAction ==
    ASSUME IInv, NEW c \in Cep, iba_cm_cancel(c)
    PROVE  IInv'
  <1>1. c \in owned /\ UpdateAndDrop(c, Cancelled(c), CancelSends(c))
        /\ UNCHANGED <<commID, owned>> /\ cep[c].state \in CancelableA \cup CancelableP
    BY DEF iba_cm_cancel
  <1>2. owned' \subseteq Cep /\ owned \ {c} \subseteq owned' /\ c \in owned'
    BY <1>1 DEF IInv
  <1> QED
    BY <1>1, <1>2, CancelledFacts, DropStep

(* What DisconnectA sends.                                                 *)
LEMMA DisconnectSendsType ==
    ASSUME IInv, NEW c \in Cep, NEW ok \in BOOLEAN, cep[c].state \in Disconnectable
    PROVE  DisconnectSends(c, ok) \subseteq Mad
  <1>1. cep[c].state \in Talking
    BY TalkingStates DEF Disconnectable
  <1>2. MadFrom(c, cep[c], "DREQ") \in Mad /\ MadFrom(c, cep[c], "DREP") \in Mad
    BY <1>1, CepSends, MadNames
  <1> QED
    BY <1>2 DEF DisconnectSends

(* iba_cm_disconnect preserves the invariant.                              *)
LEMMA DisconnectAction ==
    ASSUME IInv, NEW c \in Cep, iba_cm_disconnect(c)
    PROVE  IInv'
  <1>1. PICK ok \in Prepared(cep[c]) :
            Update(c, DisconnectA(cep[c], ok), DisconnectSends(c, ok))
    BY DEF iba_cm_disconnect
  <1>2. ok \in BOOLEAN
    BY <1>1 DEF Prepared
  <1>3. cep[c].state \in Disconnectable /\ UNCHANGED <<commID, owned>>
    BY DEF iba_cm_disconnect
  <1>4. Keeps(cep[c], DisconnectA(cep[c], ok))
    BY <1>2, <1>3, Facts, DisconnectAStep
  <1>5. DisconnectSends(c, ok) \subseteq Mad
    BY <1>2, <1>3, DisconnectSendsType
  <1> QED
    BY <1>1, <1>3, <1>4, <1>5, KeepsStep

(* iba_cm_wait preserves the invariant.                                    *)
LEMMA WaitAction ==
    ASSUME IInv, NEW c \in Cep, iba_cm_wait(c)
    PROVE  IInv'
  <1>1. c \in owned /\ Update(c, GetConnInfo(cep[c]), {}) /\ UNCHANGED <<commID, owned>>
    BY DEF iba_cm_wait
  <1>2. GoodStep(cep[c], GetConnInfo(cep[c]))
    BY Facts, GetConnInfoStep
  <1>3. commID' \in [Host -> Nat]
    BY <1>1 DEF IInv
  <1> QED
    BY <1>1, <1>2, <1>3, OwnerStep

(* A CEP whose handle is given back, and which goes or will be freed.      *)
LEMMA GivenBack ==
    ASSUME IInv, NEW c \in Cep, NEW s, NEW ms, ms \subseteq Mad,
           GoodStep(cep[c], s), Update(c, s, ms),
           owned' = owned \ {c}, commID' = commID, Destroying(s) \/ s.state = "FREE"
    PROVE  IInv'
  <1>1. commID' \in [Host -> Nat] /\ owned' \subseteq Cep /\ owned \ {c} \subseteq owned'
    BY DEF IInv
  <1>2. cep' = [cep EXCEPT ![c] = s] /\ net' \subseteq Mad
    BY DEF Update, Send, IInv
  <1> QED
    BY <1>1, <1>2, UpdateStep

(* iba_cm_destroy_cep preserves the invariant: an idle CEP goes or waits   *)
(* for its callbacks, a connected one for its timer.                       *)
LEMMA DestroyAction ==
    ASSUME IInv, NEW c \in Cep, iba_cm_destroy_cep(c)
    PROVE  IInv'
  <1> DEFINE r == cep[c]
  <1>0. RecOK(r) /\ owned' = owned \ {c} /\ commID' = commID
        /\ owned' \subseteq Cep /\ owned \ {c} \subseteq owned'
    BY Facts DEF iba_cm_destroy_cep, IInv
  <1>1. CASE r.state = "IDLE" /\ Update(c, Released(r), {})
    <2>1. GoodStep(r, Released(r)) /\ (Destroying(Released(r)) \/ Released(r).state = "FREE")
      BY <1>0, <1>1, ReleasedStep DEF Keeps
    <2> QED
      BY <1>0, <1>1, <2>1, GivenBack
  <1>2. CASE r.state \in {"REQ_SENT", "REP_WAIT"} \cup CancelableP
             /\ UpdateAndDrop(c, Released(Cancelled(c)), {})
    <2> DEFINE i == Cancelled(c)
               s == Released(i)
    <2>1. r.state \in CancelableA \cup CancelableP
      BY <1>2 DEF CancelableA
    <2>2. r.state \notin Queued /\ RecOK(i) /\ i.state = "IDLE" /\ i.parent = None
          /\ i.pending = <<>>
      BY <2>1, CancelledFacts
    <2> HIDE DEF i
    <2>3. Keeps(i, s) /\ (s.state = "FREE" \/ Destroying(s))
      BY <2>2, ReleasedStep
    <2>4. RecOK(s) /\ s.parent = None /\ s.pending = <<>>
      BY <2>2, <2>3 DEF Keeps, GoodStep
    <2>5. UpdateAndDrop(c, s, {})
      BY <1>2 DEF i
    <2> HIDE DEF s
    <2> QED
      BY <1>0, <2>2, <2>3, <2>4, <2>5, DropStep
  <1>3. CASE r.state \in ReplyArrived
             /\ Update(c, Released(RejectedA(c)), CancelSends(c))
    <2> DEFINE i == RejectedA(c)
               s == Released(i)
    <2>1. r.state \in CancelableA \cup CancelableP
      BY <1>3 DEF CancelableA
    <2>2. CancelSends(c) \subseteq Mad
      BY <2>1, CancelledFacts
    <2>3. Keeps(r, i)
      BY <1>0, <1>3, RejectAStep DEF ReplyArrived, RejectedA
    <2>4. i.state = "IDLE"
      BY Facts DEF RejectedA, CepToIdle, ClearEndPoint, CepSend, CepObject
    <2>5. Update(c, s, CancelSends(c))
      BY <1>3
    <2> HIDE DEF i
    <2>6. RecOK(i)
      BY <2>3 DEF Keeps, GoodStep
    <2>7. Keeps(i, s) /\ (s.state = "FREE" \/ Destroying(s))
      BY <2>4, <2>6, ReleasedStep
    <2> HIDE DEF s
    <2>8. Keeps(r, s)
      BY <2>3, <2>4, <2>7, KeepsTrans
    <2> QED
      BY <1>0, <2>2, <2>5, <2>7, <2>8, GivenBack DEF Keeps
  <1>4. CASE /\ r.state \in Disconnectable
             /\ \E ok \in Prepared(r) :
                   Update(c, EventSet(DisconnectA(r, ok), "USRE_DESTROY"),
                          DisconnectSends(c, ok))
    <2>1. PICK ok \in Prepared(r) :
              Update(c, EventSet(DisconnectA(r, ok), "USRE_DESTROY"), DisconnectSends(c, ok))
      BY <1>4
    <2>2. ok \in BOOLEAN /\ (~ DgrmMayFail => ok)
      BY <2>1 DEF Prepared
    <2> DEFINE d == DisconnectA(r, ok)
               s == EventSet(d, "USRE_DESTROY")
    <2>3. Keeps(r, d) /\ (ok => d.state \in {"DREQ_SENT", "TIMEWAIT"}) /\ d.state # "FREE"
      BY <1>0, <1>4, <2>2, DisconnectAStep
    <2>4. DisconnectSends(c, ok) \subseteq Mad
      BY <1>4, <2>2, DisconnectSendsType
    <2>5. Update(c, s, DisconnectSends(c, ok))
      BY <2>1
    <2> HIDE DEF d
    <2>6. RecOK(d) /\ "USRE_DESTROY" \in Event
      BY <2>3 DEF Keeps, GoodStep, Event
    <2>7. Keeps(d, s) /\ s.flags = d.flags \cup {"USRE_DESTROY"}
      BY <2>2, <2>3, <2>6, EventQueued
    <2> HIDE DEF s
    <2>8. Keeps(r, s) /\ Destroying(s)
      BY <2>3, <2>7, KeepsTrans DEF Destroying
    <2> QED
      BY <1>0, <2>4, <2>5, <2>8, GivenBack DEF Keeps
  <1>5. CASE r.state \in {"DREQ_SENT", "TIMEWAIT"} /\ Update(c, EventSet(r, "USRE_DESTROY"), {})
    <2> DEFINE s == EventSet(r, "USRE_DESTROY")
    <2>1. "USRE_DESTROY" \in Event /\ r.state # "FREE"
      BY <1>5 DEF Event
    <2>2. Keeps(r, s) /\ s.flags = r.flags \cup {"USRE_DESTROY"}
      BY <1>0, <1>5, <2>1, EventQueued
    <2>3. Update(c, s, {})
      BY <1>5
    <2> HIDE DEF s
    <2>4. Destroying(s)
      BY <2>2 DEF Destroying
    <2> QED
      BY <1>0, <2>2, <2>3, <2>4, GivenBack DEF Keeps
  <1> QED
    BY <1>1, <1>2, <1>3, <1>4, <1>5 DEF iba_cm_destroy_cep

(* CmSystemCallback preserves the invariant.                               *)
LEMMA SystemCallbackAction ==
    ASSUME IInv, NEW c \in Cep, CmSystemCallback(c)
    PROVE  IInv'
  <1> DEFINE r == IF Destroying(cep[c]) THEN cep[c] ELSE GetConnInfo(cep[c])
             s == [r EXCEPT !.item = "running"]
  <1>1. cep[c].item = "queued" /\ Update(c, s, {}) /\ UNCHANGED <<commID, owned>>
    BY DEF CmSystemCallback
  <1>2. Keeps(cep[c], s)
    BY <1>1, Facts, SystemCallbackStep
  <1> HIDE DEF s
  <1> QED
    BY <1>1, <1>2, KeepsStep

(* CmDoneCallback preserves the invariant.                                 *)
LEMMA DoneCallbackAction ==
    ASSUME IInv, NEW c \in Cep, CmDoneCallback(c)
    PROVE  IInv'
  <1>1. cep[c].item = "running" /\ Update(c, Done(cep[c]), {}) /\ UNCHANGED <<commID, owned>>
    BY DEF CmDoneCallback
  <1>2. Keeps(cep[c], Done(cep[c]))
    BY <1>1, Facts, DoneStep
  <1> QED
    BY <1>1, <1>2, KeepsStep

(* GsaSendCompleteCallback preserves the invariant.                        *)
LEMMA SendCompleteAction ==
    ASSUME IInv, NEW c \in Cep, GsaSendCompleteCallback(c)
    PROVE  IInv'
  <1> DEFINE s == [cep[c] EXCEPT !.busy = FALSE]
  <1>1. Update(c, s, {}) /\ UNCHANGED <<commID, owned>>
    BY DEF GsaSendCompleteCallback
  <1>2. Keeps(cep[c], s)
    BY Facts, SendCompleteStep
  <1> HIDE DEF s
  <1> QED
    BY <1>1, <1>2, KeepsStep

(* The expiry of a timer preserves the invariant.                          *)
LEMMA TimerFiresAction ==
    ASSUME IInv, NEW c \in Cep, TimerFires(c)
    PROVE  IInv'
  <1> DEFINE s == [cep[c] EXCEPT !.due = "due"]
  <1>1. Update(c, s, {}) /\ UNCHANGED <<commID, owned>>
    BY DEF TimerFires
  <1>2. Keeps(cep[c], s)
    BY Facts, DueStep DEF Expiry
  <1> HIDE DEF s
  <1> QED
    BY <1>1, <1>2, KeepsStep

(* ProcessRtuPassive preserves the invariant.                              *)
LEMMA RtuPassiveAction ==
    ASSUME IInv, NEW c \in Cep, NEW t \in Held, ProcessRtuPassive(c, t)
    PROVE  IInv'
  <1> DEFINE s == SetNotification(CepSetState(CmDgrmCopyAddrAndMad(CmTimerStop(
                        PrepareCepDgrm(cep[c])), t), "ESTABLISHED"), "RCVD_RTU")
  <1>1. cep[c].state \in {"REP_SENT", "MRA_REP_RCVD"} /\ Update(c, s, {})
        /\ UNCHANGED <<commID, owned>>
    BY DEF ProcessRtuPassive
  <1>2. Keeps(cep[c], s)
    BY <1>1, Facts, RtuReceivedStep
  <1> HIDE DEF s
  <1> QED
    BY <1>1, <1>2, KeepsStep

(* CmTimerCallback preserves the invariant.                                *)
LEMMA TimerCallbackAction ==
    ASSUME IInv, NEW c \in Cep, CmTimerCallback(c)
    PROVE  IInv'
  <1> DEFINE r == Expired(cep[c])
             again == r.retry < MaxCMRetries(r)
  <1>0. RecOK(cep[c]) /\ cep[c] \in CepObject /\ UNCHANGED <<commID, owned>>
    BY Facts DEF CmTimerCallback
  <1>1. CASE cep[c].due = "stale" /\ Update(c, [cep[c] EXCEPT !.due = "no"], {})
    <2> DEFINE s == [cep[c] EXCEPT !.due = "no"]
    <2>1. Keeps(cep[c], s)
      BY <1>0, DueStep DEF Expiry
    <2>2. Update(c, s, {})
      BY <1>1
    <2> HIDE DEF s
    <2> QED
      BY <1>0, <2>1, <2>2, KeepsStep
  <1>2. CASE TimerExpired(c)
    <2>1. again \in BOOLEAN /\ r \in CepObject /\ r.state = cep[c].state
          /\ r.rhost = cep[c].rhost
      <3>1. r \in CepObject /\ r.state = cep[c].state /\ r.rhost = cep[c].rhost
        BY <1>0, ExpiredType DEF SameRest
      <3> HIDE DEF r
      <3>2. r.retry \in Nat /\ MaxCMRetries(r) \in Nat
        BY <3>1, CmAssumption DEF CepObject, MaxCMRetries
      <3> QED
        BY <3>1, <3>2
    <2>2. cep[c].state \in Talking =>
             /\ FormatREQ(c, r) \in Mad /\ FormatREP(c, r) \in Mad
             /\ MadFrom(c, r, "DREQ") \in Mad
             /\ FormatREJ(c, r, "REP", "TIMEOUT") \in Mad
             /\ FormatREJ(c, r, "REQ", "TIMEOUT") \in Mad
      BY <2>1, Facts, SentType, MadNames DEF Reason
    <2> DEFINE resent(m) == IF r.busy THEN {} ELSE {m}
    <2>3. \/ /\ r.state \in {"REQ_SENT", "REP_WAIT"}
             /\ Update(c, ReqTimeout(r, again),
                       IF again THEN resent(FormatREQ(c, r))
                       ELSE {FormatREJ(c, r, "REP", "TIMEOUT")})
          \/ /\ r.state \in {"REP_SENT", "MRA_REP_RCVD"}
             /\ Update(c, RepTimeout(r, again),
                       IF again THEN resent(FormatREP(c, r))
                       ELSE {FormatREJ(c, r, "REQ", "TIMEOUT")})
          \/ /\ r.state = "DREQ_SENT"
             /\ Update(c, DreqTimeout(r, again),
                       IF again THEN resent(MadFrom(c, r, "DREQ")) ELSE {})
          \/ /\ r.state = "TIMEWAIT"
             /\ Update(c, TimewaitOver(r), {})
      BY <1>2 DEF TimerExpired, Expired
    <2> HIDE DEF again
    <2>4. CASE /\ r.state \in {"REQ_SENT", "REP_WAIT"}
               /\ Update(c, ReqTimeout(r, again),
                         IF again THEN resent(FormatREQ(c, r))
                         ELSE {FormatREJ(c, r, "REP", "TIMEOUT")})
      <3>1. Keeps(cep[c], ReqTimeout(r, again))
        BY <1>0, <2>1, <2>4, ReqTimeoutStep
      <3>2. (IF again THEN resent(FormatREQ(c, r))
             ELSE {FormatREJ(c, r, "REP", "TIMEOUT")}) \subseteq Mad
        BY <2>1, <2>2, <2>4, TalkingStates
      <3> QED
        BY <1>0, <2>4, <3>1, <3>2, KeepsStep
    <2>5. CASE /\ r.state \in {"REP_SENT", "MRA_REP_RCVD"}
               /\ Update(c, RepTimeout(r, again),
                         IF again THEN resent(FormatREP(c, r))
                         ELSE {FormatREJ(c, r, "REQ", "TIMEOUT")})
      <3>1. Keeps(cep[c], RepTimeout(r, again))
        BY <1>0, <2>1, <2>5, RepTimeoutStep
      <3>2. (IF again THEN resent(FormatREP(c, r))
             ELSE {FormatREJ(c, r, "REQ", "TIMEOUT")}) \subseteq Mad
        BY <2>1, <2>2, <2>5, TalkingStates
      <3> QED
        BY <1>0, <2>5, <3>1, <3>2, KeepsStep
    <2>6. CASE /\ r.state = "DREQ_SENT"
               /\ Update(c, DreqTimeout(r, again),
                         IF again THEN resent(MadFrom(c, r, "DREQ")) ELSE {})
      <3>1. Keeps(cep[c], DreqTimeout(r, again))
        BY <1>0, <2>1, <2>6, DreqTimeoutStep
      <3>2. (IF again THEN resent(MadFrom(c, r, "DREQ")) ELSE {}) \subseteq Mad
        BY <2>1, <2>2, <2>6, TalkingStates
      <3> QED
        BY <1>0, <2>6, <3>1, <3>2, KeepsStep
    <2>7. CASE r.state = "TIMEWAIT" /\ Update(c, TimewaitOver(r), {})
      <3>1. Keeps(cep[c], TimewaitOver(r))
        BY <1>0, <2>1, <2>7, TimewaitOverStep
      <3> QED
        BY <1>0, <2>7, <3>1, KeepsStep
    <2> QED
      BY <2>3, <2>4, <2>5, <2>6, <2>7
  <1> QED
    BY <1>1, <1>2 DEF CmTimerCallback

-----------------------------------------------------------------------------
(* Receipt of MADs.                                                        *)

(* ProcessReqPassive preserves the invariant.                              *)
LEMMA ReqPassiveAction ==
    ASSUME IInv, NEW m \in Mad, NEW l \in Cep, cep[l].state = "LISTEN",
           ProcessReqPassive(m, l)
    PROVE  IInv'
  <1>0. m.src \in Host /\ m.dst \in Host /\ m.lcid \in Nat /\ m.qp \in Qp \cup {None}
        /\ m.sid \in Sid \cup {None}
    BY DEF Mad
  <1>1. CASE Answer({SendREJ(m, 0, "REQ", "NO_RESOURCES")})
    <2>1. {SendREJ(m, 0, "REQ", "NO_RESOURCES")} \subseteq Mad
      BY AnswerType, MadNames DEF Reason
    <2> QED
      BY <1>1, <2>1, AnswerStep
  <1>2. ASSUME Len(cep[l].pending) < MaxBackLog, AssignLocalCommID(m.dst), UNCHANGED owned,
               NEW c \in Incoming(m.dst), NEW mra \in BOOLEAN,
               LET r == SaveReqToPassiveCEP(l, m, mra)
               IN  Update2(l, Enqueued(l, c), c, r,
                           IF mra THEN {SendMRA(m, r, "REQ")} ELSE {})
        PROVE  IInv'
    <2> DEFINE s == SaveReqToPassiveCEP(l, m, mra)
               ms == IF mra THEN {SendMRA(m, s, "REQ")} ELSE {}
    <2>1. c \in Cep /\ cep[c].state = "FREE"
      BY DEF Incoming, On, Allocatable
    <2>2. commID' \in [Host -> Nat] /\ NextCommID(m.dst) \in Nat
      BY <1>0, <1>2, CommIDAssigned
    <2>3. s \in CepObject
      <3> DEFINE n == NewCep
                 st == IF mra THEN "MRA_REQ_SENT" ELSE "REQ_RCVD"
                 id == NextCommID(m.dst)
      <3>1. n \in CepObject /\ st \in CepState /\ id \in Nat /\ "REQ" \in Held
            /\ "PASSIVE" \in Mode
        BY <2>2, NewCepType, StateNames, MadNames DEF Mode
      <3> HIDE DEF n, st, id
      <3>2. [n EXCEPT !.state = st, !.mode = "PASSIVE", !.lcid = id, !.rcid = m.lcid,
                !.rep = m.qp, !.rhost = m.src, !.sid = m.sid, !.parent = l,
                !.dgrm = "REQ"] \in CepObject
        BY <1>0, <3>1 DEF CepObject
      <3> QED
        BY <3>2 DEF SaveReqToPassiveCEP, n, st, id
    <2>4. /\ s.state \in {"REQ_RCVD", "MRA_REQ_SENT"} /\ s.rhost = m.src /\ s.parent = l
          /\ s.timer = FALSE /\ s.pending = <<>> /\ s.flags = {} /\ s.cbref = 0
          /\ s.item = "none"
      BY DEF SaveReqToPassiveCEP, NewCep
    <2>5. Update2(l, Enqueued(l, c), c, s, ms)
      BY <1>2
    <2>6. ms \subseteq Mad
      <3> HIDE DEF s
      <3> QED
        BY <2>3, AnswerType, MadNames
    <2> HIDE DEF s, ms
    <2>7. TimerOK(s) /\ CallbackOK(s) /\ DestroyOK(s) /\ s.state \in Queued
          /\ s.state # "LISTEN" /\ l # None
      BY <2>4, CmAssumption DEF TimerOK, Waiting, CallbackOK, DestroyOK, Destroying, Queued
    <2>8. RecOK(s)
      BY <1>0, <2>3, <2>4, <2>7 DEF RecOK
    <2> QED
      BY <1>2, <2>1, <2>2, <2>4, <2>5, <2>6, <2>8, EnqueueStep
  <1> QED
    BY <1>1, <1>2 DEF ProcessReqPassive

(* ProcessReqDup preserves the invariant.                                  *)
LEMMA ReqDupAction ==
    ASSUME IInv, NEW m \in Mad, NEW c \in Cep, ProcessReqDup(m, c)
    PROVE  IInv'
  <1>0. RecOK(cep[c]) /\ cep[c] \in CepObject /\ UNCHANGED <<commID, owned>>
    BY Facts DEF ProcessReqDup
  <1>1. CASE cep[c].state = "REP_SENT"
             /\ Update(c, CmTimerStart(CepResend(CmTimerStop(cep[c]))),
                       IF cep[c].busy THEN {} ELSE {FormatREP(c, cep[c])})
    <2>1. Keeps(cep[c], CmTimerStart(CepResend(CmTimerStop(cep[c]))))
      BY <1>0, <1>1, RepResendStep
    <2>2. FormatREP(c, cep[c]) \in Mad
      BY <1>1, CepSends, TalkingStates
    <2>3. (IF cep[c].busy THEN {} ELSE {FormatREP(c, cep[c])}) \subseteq Mad
      BY <2>2
    <2> QED
      BY <1>0, <1>1, <2>1, <2>3, KeepsStep
  <1>2. CASE cep[c].state \in {"REQ_RCVD", "MRA_REQ_SENT"}
             /\ Update(c, CepSetState(cep[c], "MRA_REQ_SENT"), {SendMRA(m, cep[c], "REQ")})
    <2>1. Keeps(cep[c], CepSetState(cep[c], "MRA_REQ_SENT"))
      BY <1>0, <1>2, MraReqSentStep
    <2>2. {SendMRA(m, cep[c], "REQ")} \subseteq Mad
      BY <1>0, AnswerType, MadNames
    <2> QED
      BY <1>0, <1>2, <2>1, <2>2, KeepsStep
  <1> QED
    BY <1>1, <1>2 DEF ProcessReqDup

(* ProcessReqStale preserves the invariant.                                *)
LEMMA ReqStaleAction ==
    ASSUME IInv, NEW m \in Mad, NEW c \in Cep, ProcessReqStale(m, c)
    PROVE  IInv'
  <1>0. RecOK(cep[c]) /\ cep[c] \in CepObject
    BY Facts
  <1>1. SendREJ(m, 0, "REQ", "STALE_CONN") \in Mad
        /\ MadOf("DREQ", m.dst, m.src, cep[c].lcid, cep[c].rcid) \in Mad
    BY <1>0, AnswerType, MadNames DEF Reason
  <1>2. CASE Answer({SendREJ(m, 0, "REQ", "STALE_CONN")})
    <2>1. {SendREJ(m, 0, "REQ", "STALE_CONN")} \subseteq Mad
      BY <1>1
    <2> QED
      BY <1>2, <2>1, AnswerStep
  <1>3. CASE /\ cep[c].state = "ESTABLISHED"
             /\ Update(c, DreqReceived(cep[c], "JUNK"),
                       {SendREJ(m, 0, "REQ", "STALE_CONN"),
                        MadOf("DREQ", m.dst, m.src, cep[c].lcid, cep[c].rcid)})
             /\ UNCHANGED <<commID, owned>>
    <2>1. Keeps(cep[c], DreqReceived(cep[c], "JUNK"))
      BY <1>0, <1>3, DreqReceivedStep, StateNames
    <2>2. {SendREJ(m, 0, "REQ", "STALE_CONN"),
           MadOf("DREQ", m.dst, m.src, cep[c].lcid, cep[c].rcid)} \subseteq Mad
      BY <1>1
    <2> QED
      BY <1>3, <2>1, <2>2, KeepsStep
  <1> QED
    BY <1>2, <1>3 DEF ProcessReqStale

(* ProcessReq preserves the invariant.                                     *)
LEMMA ReqAction ==
    ASSUME IInv, NEW m \in Mad, ProcessReq(m)
    PROVE  IInv'
  <1>1. CASE \E c \in FindRemoteEndPoint(m.dst, m.qp) : ProcessReqDup(m, c)
    BY <1>1, ReqDupAction DEF FindRemoteEndPoint, On
  <1>2. CASE \E c \in FindRemoteEndPoint(m.dst, m.qp) : ProcessReqStale(m, c)
    BY <1>2, ReqStaleAction DEF FindRemoteEndPoint, On
  <1>3. CASE \E l \in Listening(m.dst, m.sid) : ProcessReqPassive(m, l)
    BY <1>3, ReqPassiveAction DEF Listening, On
  <1>4. CASE Answer({SendREJ(m, 0, "REQ", "INVALID_SID")})
    <2>1. {SendREJ(m, 0, "REQ", "INVALID_SID")} \subseteq Mad
      BY AnswerType, MadNames DEF Reason
    <2> QED
      BY <1>4, <2>1, AnswerStep
  <1> QED
    BY <1>1, <1>2, <1>3, <1>4 DEF ProcessReq

(* The CEP a MAD names is a CEP.                                           *)
LEMMA Matched ==
    ASSUME NEW h, NEW id, NEW c \in FindLocalCommID(h, id) PROVE c \in Cep
  BY DEF FindLocalCommID, On

(* ProcessRep preserves the invariant.                                     *)
LEMMA RepAction ==
    ASSUME IInv, NEW m \in Mad, ProcessRep(m)
    PROVE  IInv'
  <1> DEFINE match == FindLocalCommID(m.dst, m.rcid)
  <1>0. UNCHANGED <<commID, owned>>
    BY DEF ProcessRep
  <1>1. ASSUME NEW c \in match, cep[c].state \in {"REQ_SENT", "REP_WAIT"},
               Update(c, PrepareCepDgrm(cep[c]),
                      {SendREJ(m, cep[c].lcid, "REP", "STALE_CONN")})
        PROVE  IInv'
    <2>1. c \in Cep /\ RecOK(cep[c]) /\ cep[c].lcid \in Nat
      BY <1>1, Matched, Facts DEF CepObject
    <2>2. {SendREJ(m, cep[c].lcid, "REP", "STALE_CONN")} \subseteq Mad
      BY <2>1, AnswerType, MadNames DEF Reason
    <2>3. Keeps(cep[c], PrepareCepDgrm(cep[c]))
      BY <1>1, <2>1, StaleRepStep
    <2> QED
      BY <1>0, <1>1, <2>1, <2>2, <2>3, KeepsStep
  <1>2. ASSUME NEW c \in match, cep[c].state \in {"REQ_SENT", "REP_WAIT"},
               Update(c, RepReceived(m, cep[c]), {})
        PROVE  IInv'
    <2>1. c \in Cep /\ RecOK(cep[c])
      BY <1>2, Matched, Facts
    <2>2. Keeps(cep[c], RepReceived(m, cep[c]))
      BY <1>2, <2>1, RepReceivedStep
    <2> QED
      BY <1>0, <1>2, <2>1, <2>2, KeepsStep
  <1>3. ASSUME NEW c \in match, cep[c].state \in {"REP_RCVD", "MRA_REP_SENT"},
               Update(c, CepSetState(cep[c], "MRA_REP_SENT"), {SendMRA(m, cep[c], "REP")})
        PROVE  IInv'
    <2>1. c \in Cep /\ RecOK(cep[c]) /\ cep[c] \in CepObject
      BY <1>3, Matched, Facts
    <2>2. {SendMRA(m, cep[c], "REP")} \subseteq Mad
      BY <2>1, AnswerType, MadNames
    <2>3. Keeps(cep[c], CepSetState(cep[c], "MRA_REP_SENT"))
      BY <1>3, <2>1, MraRepSentStep
    <2> QED
      BY <1>0, <1>3, <2>1, <2>2, <2>3, KeepsStep
  <1>4. ASSUME NEW c \in match, cep[c].state = "ESTABLISHED",
               Update(c, CepResend(cep[c]), {MadFrom(c, cep[c], "RTU")})
        PROVE  IInv'
    <2>1. c \in Cep /\ RecOK(cep[c])
      BY <1>4, Matched, Facts
    <2>2. {MadFrom(c, cep[c], "RTU")} \subseteq Mad
      BY <1>4, <2>1, CepSends, TalkingStates, MadNames
    <2>3. Keeps(cep[c], CepResend(cep[c]))
      BY <1>4, <2>1, RtuResentStep
    <2> QED
      BY <1>0, <1>4, <2>1, <2>2, <2>3, KeepsStep
  <1>5. CASE Answer({SendREJ(m, 0, "REP", "INVALID_COMMID")})
    <2>1. {SendREJ(m, 0, "REP", "INVALID_COMMID")} \subseteq Mad
      BY AnswerType, MadNames DEF Reason
    <2> QED
      BY <1>5, <2>1, AnswerStep
  <1> QED
    BY <1>1, <1>2, <1>3, <1>4, <1>5 DEF ProcessRep

(* A handshake that is rejected, for either reason.                        *)
LEMMA RejectedStep ==
    ASSUME NEW r, NEW why, RecOK(r),
           r.state \in {"REQ_SENT", "REP_WAIT", "REP_SENT", "MRA_REP_RCVD"}
    PROVE  Keeps(r, Rejected(r, why))
  <1>1. CASE why = "STALE_CONN"
    BY <1>1, RejectedStaleStep DEF Rejected
  <1>2. CASE why # "STALE_CONN"
    BY <1>2, RejectedIdleStep DEF Rejected
  <1> QED
    BY <1>1, <1>2

(* ProcessRejReq preserves the invariant.                                  *)
LEMMA RejReqAction ==
    ASSUME IInv, NEW m \in Mad, ProcessRejReq(m)
    PROVE  IInv'
  <1>0. UNCHANGED <<commID, owned>>
    BY DEF ProcessRejReq
  <1>1. PICK c \in FindLocalCommID(m.dst, m.rcid) :
          \/ /\ cep[c].state \in {"REQ_SENT", "REP_WAIT"}
             /\ Update(c, Rejected(cep[c], m.reason), {})
          \/ /\ cep[c].state = "ESTABLISHED"
             /\ Update(c, SimDreqReceived(cep[c]), {})
    BY DEF ProcessRejReq
  <1>2. c \in Cep /\ RecOK(cep[c])
    BY <1>1, Matched, Facts
  <1>3. CASE cep[c].state \in {"REQ_SENT", "REP_WAIT"}
             /\ Update(c, Rejected(cep[c], m.reason), {})
    <2>1. Keeps(cep[c], Rejected(cep[c], m.reason))
      BY <1>2, <1>3, RejectedStep
    <2> QED
      BY <1>0, <1>2, <1>3, <2>1, KeepsStep
  <1>4. CASE cep[c].state = "ESTABLISHED" /\ Update(c, SimDreqReceived(cep[c]), {})
    <2>1. Keeps(cep[c], SimDreqReceived(cep[c]))
      BY <1>2, <1>4, SimDreqReceivedStep
    <2> QED
      BY <1>0, <1>2, <1>4, <2>1, KeepsStep
  <1> QED
    BY <1>1, <1>3, <1>4

(* ProcessRejRep preserves the invariant.                                  *)
LEMMA RejRepAction ==
    ASSUME IInv, NEW m \in Mad, ProcessRejRep(m)
    PROVE  IInv'
  <1>0. UNCHANGED <<commID, owned>>
    BY DEF ProcessRejRep
  <1>1. PICK c \in FindLocalCommID(m.dst, m.rcid) :
          /\ cep[c].state \in {"REP_SENT", "MRA_REP_RCVD"}
          /\ Update(c, Rejected(cep[c], m.reason), {})
    BY DEF ProcessRejRep
  <1>2. c \in Cep /\ RecOK(cep[c])
    BY <1>1, Matched, Facts
  <1>3. Keeps(cep[c], Rejected(cep[c], m.reason))
    BY <1>1, <1>2, RejectedStep
  <1> QED
    BY <1>0, <1>1, <1>2, <1>3, KeepsStep

(* ProcessMraReq preserves the invariant.                                  *)
LEMMA MraReqAction ==
    ASSUME IInv, NEW m \in Mad, ProcessMraReq(m)
    PROVE  IInv'
  <1>0. UNCHANGED <<commID, owned>>
    BY DEF ProcessMraReq
  <1>1. PICK c \in FindLocalCommID(m.dst, m.rcid) :
          /\ cep[c].state = "REQ_SENT"
          /\ Update(c, CepSetState(CmTimerStart([CmTimerStop(cep[c]) EXCEPT !.rcid = m.lcid]),
                                   "REP_WAIT"), {})
    BY DEF ProcessMraReq
  <1>2. c \in Cep /\ RecOK(cep[c]) /\ m.lcid \in Nat
    BY <1>1, Matched, Facts DEF Mad
  <1> DEFINE s == CepSetState(CmTimerStart([CmTimerStop(cep[c]) EXCEPT !.rcid = m.lcid]),
                              "REP_WAIT")
  <1>3. Keeps(cep[c], s)
    BY <1>1, <1>2, MraReqStep
  <1>4. Update(c, s, {})
    BY <1>1
  <1> HIDE DEF s
  <1> QED
    BY <1>0, <1>2, <1>3, <1>4, KeepsStep

(* ProcessMraRep preserves the invariant.                                  *)
LEMMA MraRepAction ==
    ASSUME IInv, NEW m \in Mad, ProcessMraRep(m)
    PROVE  IInv'
  <1>0. UNCHANGED <<commID, owned>>
    BY DEF ProcessMraRep
  <1>1. PICK c \in FindLocalCommID(m.dst, m.rcid) :
          /\ cep[c].state = "REP_SENT"
          /\ Update(c, CepSetState(CmTimerStart(CmTimerStop(cep[c])), "MRA_REP_RCVD"), {})
    BY DEF ProcessMraRep
  <1>2. c \in Cep /\ RecOK(cep[c])
    BY <1>1, Matched, Facts
  <1>3. Keeps(cep[c], CepSetState(CmTimerStart(CmTimerStop(cep[c])), "MRA_REP_RCVD"))
    BY <1>1, <1>2, MraRepStep
  <1> QED
    BY <1>0, <1>1, <1>2, <1>3, KeepsStep

(* ProcessDreq preserves the invariant.                                    *)
LEMMA DreqAction ==
    ASSUME IInv, NEW m \in Mad, ProcessDreq(m)
    PROVE  IInv'
  <1>0. UNCHANGED <<commID, owned>>
    BY DEF ProcessDreq
  <1>1. PICK c \in FindLocalCommID(m.dst, m.rcid) :
          \/ /\ cep[c].state = "ESTABLISHED"
             /\ Update(c, DreqReceived(cep[c], "DREQ"), {})
          \/ /\ cep[c].state = "DREQ_SENT"
             /\ Update(c, DreqCrossed(cep[c]),
                       IF Destroying(cep[c]) THEN {MadFrom(c, cep[c], "DREP")} ELSE {})
          \/ /\ cep[c].state \in {"SIM_DREQ_RCVD", "TIMEWAIT"}
             /\ Update(c, CepSend(cep[c], "DREP"), {MadFrom(c, cep[c], "DREP")})
    BY DEF ProcessDreq
  <1>2. c \in Cep /\ RecOK(cep[c])
    BY <1>1, Matched, Facts
  <1>3. MadFrom(c, cep[c], "DREP") \in Mad
        \/ cep[c].state \notin {"DREQ_SENT", "SIM_DREQ_RCVD", "TIMEWAIT"}
    BY <1>2, CepSends, TalkingStates, MadNames
  <1>4. CASE cep[c].state = "ESTABLISHED" /\ Update(c, DreqReceived(cep[c], "DREQ"), {})
    <2>1. Keeps(cep[c], DreqReceived(cep[c], "DREQ"))
      BY <1>2, <1>4, DreqReceivedStep, StateNames, MadNames
    <2> QED
      BY <1>0, <1>2, <1>4, <2>1, KeepsStep
  <1>5. CASE cep[c].state = "DREQ_SENT"
             /\ Update(c, DreqCrossed(cep[c]),
                       IF Destroying(cep[c]) THEN {MadFrom(c, cep[c], "DREP")} ELSE {})
    <2>1. Keeps(cep[c], DreqCrossed(cep[c]))
      BY <1>2, <1>5, DreqCrossedStep
    <2>2. (IF Destroying(cep[c]) THEN {MadFrom(c, cep[c], "DREP")} ELSE {}) \subseteq Mad
      BY <1>3, <1>5
    <2> QED
      BY <1>0, <1>2, <1>5, <2>1, <2>2, KeepsStep
  <1>6. CASE cep[c].state \in {"SIM_DREQ_RCVD", "TIMEWAIT"}
             /\ Update(c, CepSend(cep[c], "DREP"), {MadFrom(c, cep[c], "DREP")})
    <2>1. Keeps(cep[c], CepSend(cep[c], "DREP"))
      BY <1>2, <1>6, DrepResentStep
    <2>2. {MadFrom(c, cep[c], "DREP")} \subseteq Mad
      BY <1>3, <1>6
    <2> QED
      BY <1>0, <1>2, <1>6, <2>1, <2>2, KeepsStep
  <1> QED
    BY <1>1, <1>4, <1>5, <1>6

(* ProcessDrep preserves the invariant.                                    *)
LEMMA DrepAction ==
    ASSUME IInv, NEW m \in Mad, ProcessDrep(m)
    PROVE  IInv'
  <1>0. UNCHANGED <<commID, owned>>
    BY DEF ProcessDrep
  <1>1. PICK c \in FindLocalCommID(m.dst, m.rcid) :
          cep[c].state = "DREQ_SENT" /\ Update(c, DrepReceived(cep[c]), {})
    BY DEF ProcessDrep
  <1>2. c \in Cep /\ RecOK(cep[c])
    BY <1>1, Matched, Facts
  <1>3. Keeps(cep[c], DrepReceived(cep[c]))
    BY <1>1, <1>2, DrepReceivedStep
  <1> QED
    BY <1>0, <1>1, <1>2, <1>3, KeepsStep

-----------------------------------------------------------------------------
(* The invariant holds, and what follows from it.                          *)

(* No CEP exists at the start.                                             *)
LEMMA InitIInv == Init => IInv
  <1> SUFFICES ASSUME Init PROVE IInv
    OBVIOUS
  <1> DEFINE f == DestroyCEP(NewCep)
  <1>1. cep = [c \in Cep |-> f] /\ commID = [h \in Host |-> 0] /\ owned = {} /\ net = {}
    BY DEF Init
  <1>2. NewCep.parent = None /\ NewCep.pending = <<>> /\ NewCep.cbref = 0
        /\ NewCep.item = "none"
    BY DEF NewCep
  <1>3. Keeps(NewCep, f) /\ f.state = "FREE"
    BY <1>2, NewCepType, Freed
  <1> HIDE DEF f
  <1>4. RecOK(f) /\ f \in CepObject /\ f.parent = None /\ f.pending = <<>>
    BY <1>2, <1>3 DEF Keeps, GoodStep, RecOK
  <1>5. \A c \in Cep : cep[c] = f /\ c # None
    BY <1>1, CmAssumption
  <1>6. \A c \in Cep : Linked(c)
    <2>1. Len(<<>>) = 0 /\ DOMAIN <<>> = {} /\ MaxBackLog \in Nat
      BY CmAssumption
    <2> QED
      BY <1>4, <1>5, <2>1 DEF Linked
  <1>7. NoLeak
    BY <1>3, <1>5 DEF NoLeak, LeakFree, Allocated
  <1> QED
    BY <1>1, <1>4, <1>5, <1>6, <1>7 DEF IInv

(* Every step preserves the invariant.                                     *)
LEMMA NextIInv == IInv /\ [Next]_vars => IInv'
  <1> SUFFICES ASSUME IInv, [Next]_vars PROVE IInv'
    OBVIOUS
  <1>1. ASSUME NEW c \in Cep, UserCall(c) PROVE IInv'
    <2>1. CASE \E q \in Qp, h \in Host \ {HostOf[c]}, s \in Sid : Connect(c, q, h, s)
      BY <2>1, ConnectAction
    <2>2. CASE \E q \in Qp : ConnectNoDgrm(c, q)
      BY <2>2, ConnectNoDgrmAction
    <2>3. CASE \E s \in Sid : Listen(c, s)
      BY <2>3, ListenAction
    <2>4. CASE \E q \in Qp : AcceptP(c, q)
      BY <2>4, AcceptPAction
    <2> QED
      BY <1>1, <2>1, <2>2, <2>3, <2>4, CreateAction, AcceptAAction, RejectAAction,
         RejectPAction, CancelAction, DisconnectAction, DestroyAction, WaitAction
         DEF UserCall
  <1>2. ASSUME NEW c \in Cep, Internal(c) PROVE IInv'
    <2>1. CASE VpdAsyncEventCallback(c)
      BY <2>1, RtuPassiveAction, StateNames DEF VpdAsyncEventCallback
    <2> QED
      BY <1>2, <2>1, SystemCallbackAction, DoneCallbackAction, SendCompleteAction,
         TimerFiresAction, TimerCallbackAction DEF Internal
  <1>3. ASSUME NEW m \in net, GsaRecvCallback(m) PROVE IInv'
    <2>1. m \in Mad
      BY DEF IInv
    <2>2. CASE ProcessRtu(m)
      BY <2>2, RtuPassiveAction, Matched, StateNames, MadNames DEF ProcessRtu
    <2> QED
      BY <1>3, <2>1, <2>2, ReqAction, RepAction, RejReqAction, RejRepAction,
         MraReqAction, MraRepAction, DreqAction, DrepAction DEF GsaRecvCallback
  <1>4. CASE UNCHANGED vars
    <2>1. cep' = cep /\ commID' = commID /\ owned' = owned /\ net' = net
      BY <1>4 DEF vars
    <2>2. \A c \in Cep : Linked(c)' <=> Linked(c)
      BY <2>1 DEF Linked
    <2>3. NoLeak' <=> NoLeak
      BY <2>1 DEF NoLeak, LeakFree, Allocated
    <2> QED
      BY <2>1, <2>2, <2>3 DEF IInv
  <1> QED
    BY <1>1, <1>2, <1>3, <1>4 DEF Next

(* The inductive invariant holds in every reachable state.                 *)
THEOREM Invariance == Spec => []IInv
  BY InitIInv, NextIInv, PTL DEF Spec

(* Every variable keeps its type, whatever the users call, the network     *)
(* delivers and the timers do.                                             *)
THEOREM TypeCorrect == Spec => []TypeOK
  <1>1. IInv => TypeOK
    BY DEF IInv, TypeOK
  <1> QED
    BY <1>1, Invariance, PTL

(* CmTimerStart never meets a running timer, CmTimerCallback never a state *)
(* without a case, and no waiting state is without its timer.              *)
THEOREM TimersMatchStates == Spec => []TimerIffWaiting
  <1>1. IInv => TimerIffWaiting
    BY DEF IInv, TimerIffWaiting, RecOK
  <1> QED
    BY <1>1, Invariance, PTL

(* CallbackRefCnt counts exactly the callbacks that hold a CEP, and none   *)
(* holds one that DestroyCEP has freed.                                    *)
THEOREM CallbacksHoldLiveCeps == Spec => []CallbackHolds
  <1>1. IInv => CallbackHolds
    BY DEF IInv, CallbackHolds, RecOK
  <1> QED
    BY <1>1, Invariance, PTL

(* Each listener's pending list holds exactly the CEPs that name it as     *)
(* pParentCEP, once each and within MaxBackLog.                            *)
THEOREM PendingListsAgree == Spec => []PendingOK
  <1>1. IInv => PendingOK
    <2> SUFFICES ASSUME IInv, NEW c \in Cep
                 PROVE  /\ LET q == cep[c].pending
                           IN  /\ Len(q) <= MaxBackLog
                               /\ \A i, j \in DOMAIN q : i # j => q[i] # q[j]
                               /\ {q[i] : i \in DOMAIN q} = {d \in Cep : cep[d].parent = c}
                               /\ q # <<>> => cep[c].state = "LISTEN"
                        /\ cep[c].parent # None <=> cep[c].state \in {"REQ_RCVD", "MRA_REQ_SENT"}
      BY DEF PendingOK
    <2> DEFINE q == cep[c].pending
    <2>1. RecOK(cep[c]) /\ Linked(c) /\ q \in Seq(Cep)
      BY Facts DEF IInv, CepObject
    <2>2. \A i \in DOMAIN q : q[i] \in Cep
      BY <2>1
    <2>3. {q[i] : i \in DOMAIN q} = {d \in Cep : cep[d].parent = c}
      BY <2>1, <2>2 DEF Linked
    <2>4. /\ Len(q) <= MaxBackLog
          /\ \A i, j \in DOMAIN q : i # j => q[i] # q[j]
      BY <2>1 DEF Linked
    <2>5. /\ q # <<>> => cep[c].state = "LISTEN"
          /\ cep[c].parent # None <=> cep[c].state \in {"REQ_RCVD", "MRA_REQ_SENT"}
      BY <2>1 DEF RecOK, Queued
    <2> QED
      BY <2>3, <2>4, <2>5
  <1> QED
    BY <1>1, Invariance, PTL

(* While the datagram pool lasts, no CEP is lost: one that exists is held  *)
(* by a user, queued on a listener, or waits for the timer or the callback *)
(* that will free it.                                                      *)
THEOREM NothingLeaks == ASSUME ~ DgrmMayFail PROVE Spec => []NoLeak
  <1>1. IInv => NoLeak
    BY DEF IInv
  <1> QED
    BY <1>1, Invariance, PTL

=============================================================================
