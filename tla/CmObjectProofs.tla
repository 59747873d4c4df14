--------------------------- MODULE CmObjectProofs ---------------------------
(***************************************************************************)
(* More proofs about Cm: the maps of gCM stay keyed, a CEP at rest has     *)
(* left them, its datagram is ready for what its state sends, its role     *)
(* fits its state, and its events reach its user.  They rest on the        *)
(* invariant of CmProofs.                                                  *)
(***************************************************************************)
EXTENDS CmProofs, FiniteSetTheorems, WellFoundedInduction

-----------------------------------------------------------------------------
(* The second inductive invariant.                                         *)

(* The states in which a server has sent its REP.                          *)
Replied == {"REP_SENT", "MRA_REP_RCVD"}

(* A CEP at rest has left the maps of gCM.                                 *)
IdleOK(r) == r.state \in {"FREE", "IDLE"} =>
    r.lep = None /\ r.rep = None /\ (DgrmMayFail \/ r.lcid = 0)

(* The role fits the state and the events.                                 *)
RoleOK(r) ==
    /\ r.state \in {"REQ_SENT", "REP_WAIT"} \cup ReplyArrived => r.mode = "ACTIVE"
    /\ r.state \in {"LISTEN"} \cup Queued \cup Replied => r.mode = "PASSIVE"
    /\ r.flags \cap {"TIMEOUT_REQ", "RCVD_REP"} # {} => r.mode = "ACTIVE"
    /\ r.flags \cap {"TIMEOUT_REP", "RCVD_RTU", "RCVD_REQ"} # {} => r.mode = "PASSIVE"

(* The datagram is free for an answer, and holds what may be sent again.   *)
DgrmOK(r) ==
    /\ r.state \in ReplyArrived \cup Queued => ~ r.busy
    /\ r.state \in Replied => r.dgrm = "REP"
    /\ r.state = "DREQ_SENT" => r.dgrm = "DREQ"
    /\ r.state = "ESTABLISHED" /\ r.mode = "ACTIVE" => r.dgrm = "RTU"

(* No event is queued on a server that waits, and TIMEOUT_REP, which raises *)
(* no callback when bTimewaitCallback is set, is alone through TIMEWAIT.   *)
EventsOK(r) ==
    /\ r.state \in Queued \cup Replied \cup {"FREE"} => r.flags = {}
    /\ "TIMEOUT_REP" \in r.flags => r.state \in {"TIMEWAIT", "IDLE"}
    /\ "TIMEOUT_REP" \in r.flags /\ r.state = "TIMEWAIT"
           => r.flags \subseteq {"TIMEOUT_REP", "USRE_DESTROY"}

(* A CEP has as many callbacks to come as events that wait for one.        *)
Coming(r) == IF r.item = "running" THEN r.cbref - 1 ELSE r.cbref
Owed(r) == r.flags \ {"TIMEOUT_REP"}
OwedOK(r) == r.cb /\ ~ Destroying(r) => Cardinality(Owed(r)) <= Coming(r)

(* What holds of every CEP by itself.                                      *)
RestOK(r) == IdleOK(r) /\ RoleOK(r) /\ DgrmOK(r) /\ EventsOK(r) /\ OwedOK(r)

(* The communication IDs in use have been handed out.                      *)
CommIDsHandedOut == \A c \in Cep : cep[c].lcid <= commID[HostOf[c]]

(* A user that holds a handle has not destroyed the CEP.                   *)
OwnedAlive == \A c \in owned : ~ Destroying(cep[c])

(* A request waits on a listener of its own host.                          *)
NearOK(c, r) == r.parent # None => HostOf[r.parent] = HostOf[c]
ParentsNear == \A c \in Cep : NearOK(c, cep[c])

RInv ==
    /\ \A c \in Cep : RestOK(cep[c])
    /\ UniqueKeys
    /\ CommIDsHandedOut
    /\ OwnedAlive
    /\ ParentsNear

-----------------------------------------------------------------------------
(* What a step may do to a CEP, r before it and s after it.                *)

(* The queue pair of an established connection stays claimed.              *)
QpKept(r, s) ==
    ~ ReuseQP /\ r.state \in Connected /\ s.lep # r.lep => r.state = "TIMEWAIT" /\ ~ s.timer

(* The event a user must answer is dropped only by reporting it.           *)
AnswerKept(r, s) ==
    r.state \in DOMAIN AnswerDue /\ s.state = r.state /\ AnswerDue[r.state] \in r.flags \ s.flags
        => PickedEvent(r) = AnswerDue[r.state]

(* A CEP comes to rest with a final event.                                 *)
FinalKept(r, s) ==
    TimewaitCallback /\ ~ Destroying(r) /\ ~ Destroying(s)
    /\ r.state \notin {"FREE", "IDLE"} \cup ReplyArrived /\ s.state = "IDLE"
        => s.flags \cap FinalEvent # {}

Sound(r, s) == RestOK(s) /\ QpKept(r, s) /\ AnswerKept(r, s) /\ FinalKept(r, s)

(* It takes no new key, and no new place on a queue.                       *)
KeysKept(r, s) ==
    /\ s.lcid \in {r.lcid, 0} /\ s.lep \in {r.lep, None} /\ s.rep \in {r.rep, None}
    /\ s.parent \in {r.parent, None}

(* Only its user destroys it.                                              *)
Alive(r, s) == Destroying(s) => Destroying(r)

Quiet(r, s) == Sound(r, s) /\ KeysKept(r, s) /\ Alive(r, s)

(* What a step changes besides its notification: neither the events nor    *)
(* the callbacks, and only to a state that suits the role and the events.  *)
SameEvents(r, s) ==
    s.flags = r.flags /\ s.cb = r.cb /\ s.cbref = r.cbref /\ s.item = r.item
StateFits(r, s) ==
    /\ s.state \in Queued \cup Replied \cup {"FREE"} => r.state \in Queued \cup Replied
    /\ s.state = "LISTEN" => r.state = "LISTEN"
    /\ s.state \in {"REQ_SENT", "REP_WAIT"} \cup ReplyArrived
           => r.state \in {"REQ_SENT", "REP_WAIT"} \cup ReplyArrived
    /\ s.state \in {r.state, "IDLE"} \/ r.state \notin {"TIMEWAIT", "IDLE"}
MoveOK(r, s) ==
    /\ SameEvents(r, s) /\ KeysKept(r, s) /\ s.mode = r.mode
    /\ StateFits(r, s) /\ IdleOK(s) /\ DgrmOK(s) /\ QpKept(r, s)

(* The event e may be raised in the state of s.                            *)
EventFits(s, e) ==
    /\ s.state \notin Queued \cup Replied \cup {"FREE"}
    /\ e \in {"TIMEOUT_REQ", "RCVD_REP"} => s.mode = "ACTIVE"
    /\ e \in {"TIMEOUT_REP", "RCVD_RTU", "RCVD_REQ"} => s.mode = "PASSIVE"
    /\ e = "TIMEOUT_REP" => s.state = "TIMEWAIT" /\ s.flags = {}
    /\ s.state = "TIMEWAIT" => "TIMEOUT_REP" \notin s.flags

(* The states named by AnswerDue.                                          *)
LEMMA AnswerStates ==
    /\ DOMAIN AnswerDue = {"REP_RCVD", "DREQ_RCVD", "SIM_DREQ_RCVD"}
    /\ AnswerDue["REP_RCVD"] = "RCVD_REP" /\ AnswerDue["DREQ_RCVD"] = "RCVD_DREQ"
    /\ AnswerDue["SIM_DREQ_RCVD"] = "SIM_RCVD_DREQ"
  BY DEF AnswerDue

(* A step that leaves the CEP alone.                                       *)
LEMMA Unchanged ==
    ASSUME NEW r, RestOK(r) PROVE Quiet(r, r)
  <1>1. r.flags \ r.flags = {}
    OBVIOUS
  <1> QED
    BY <1>1 DEF Quiet, Sound, QpKept, AnswerKept, FinalKept, KeysKept, Alive

(* A step without a notification keeps what holds of the CEP.              *)
LEMMA Settled ==
    ASSUME NEW r, NEW s, RestOK(r), MoveOK(r, s)
    PROVE  RestOK(s) /\ (Destroying(s) <=> Destroying(r))
  <1>1. s.flags = r.flags /\ s.mode = r.mode /\ StateFits(r, s)
    BY DEF MoveOK, SameEvents
  <1>2. RoleOK(r) /\ EventsOK(r) /\ OwedOK(r)
    BY DEF RestOK
  <1>3. RoleOK(s)
    BY <1>1, <1>2 DEF RoleOK, StateFits, Queued, Replied
  <1>4. EventsOK(s)
    BY <1>1, <1>2 DEF EventsOK, StateFits
  <1>5. Destroying(s) <=> Destroying(r)
    BY <1>1 DEF Destroying
  <1>6. OwedOK(s)
    BY <1>2, <1>5 DEF OwedOK, Owed, Coming, MoveOK, SameEvents
  <1> QED
    BY <1>3, <1>4, <1>5, <1>6 DEF RestOK, MoveOK

(* Such a step is quiet, unless it comes to rest without a final event.    *)
LEMMA QuietMove ==
    ASSUME NEW r, NEW s, RestOK(r), MoveOK(r, s),
           s.state = "IDLE" => r.state \in {"FREE", "IDLE"} \cup ReplyArrived
    PROVE  Quiet(r, s)
  <1>1. RestOK(s) /\ (Destroying(s) <=> Destroying(r))
    BY Settled
  <1>2. QpKept(r, s) /\ KeysKept(r, s)
    BY DEF MoveOK
  <1>3. r.flags \ s.flags = {}
    BY DEF MoveOK, SameEvents
  <1>4. AnswerKept(r, s)
    BY <1>3 DEF AnswerKept
  <1>5. FinalKept(r, s)
    BY DEF FinalKept
  <1> QED
    BY <1>1, <1>2, <1>4, <1>5 DEF Quiet, Sound, Alive

(* The events of a CEP are finitely many.                                  *)
LEMMA EventsFinite == IsFiniteSet(Event)
  <1>1. Event = {"RCVD_REQ"} \cup {"RCVD_REP"} \cup {"RCVD_REJ"} \cup {"RCVD_RTU"}
            \cup {"RCVD_DREQ"} \cup {"RCVD_DREP"} \cup {"SIM_RCVD_DREQ"}
            \cup {"TIMEOUT_REQ"} \cup {"TIMEOUT_REP"} \cup {"TIMEOUT_DREQ"}
            \cup {"TIMEOUT_TIMEWAIT"} \cup {"USRE_CANCEL"} \cup {"USRE_DESTROY"}
    BY DEF Event
  <1> QED
    BY <1>1, FS_Singleton, FS_Union

(* What SetNotification changes.                                           *)
LEMMA NotifiedFields ==
    ASSUME NEW s \in CepObject, NEW e \in Event
    PROVE  LET t == SetNotification(s, e)
           IN  /\ t.state = s.state /\ t.mode = s.mode /\ t.lcid = s.lcid /\ t.lep = s.lep
               /\ t.rep = s.rep /\ t.parent = s.parent /\ t.timer = s.timer
               /\ t.dgrm = s.dgrm /\ t.busy = s.busy /\ t.cb = s.cb
               /\ t.flags = IF Destroying(s) THEN s.flags ELSE s.flags \cup {e}
               /\ Destroying(s) \/ ~ s.cb => t.cbref = s.cbref /\ t.item = s.item
               /\ ~ Destroying(s) /\ s.cb =>
                     /\ t.cbref = s.cbref + 1
                     /\ t.item = IF s.cbref = 0 THEN "queued" ELSE s.item
  <1>1. CASE Destroying(s)
    BY <1>1 DEF SetNotification
  <1>2. CASE ~ Destroying(s) /\ ~ s.cb
    BY <1>2 DEF SetNotification, EventSet, CepObject
  <1>3. CASE ~ Destroying(s) /\ s.cb
    <2> DEFINE n == s.cbref + 1
               i == IF s.cbref = 0 THEN "queued" ELSE s.item
               f == s.flags \cup {e}
    <2>1. SetNotification(s, e) = [s EXCEPT !.flags = f, !.cbref = n, !.item = i]
      BY <1>3 DEF SetNotification, EventSet, CepObject
    <2> HIDE DEF n, i, f
    <2>2. LET t == [s EXCEPT !.flags = f, !.cbref = n, !.item = i]
          IN  /\ t.state = s.state /\ t.mode = s.mode /\ t.lcid = s.lcid /\ t.lep = s.lep
              /\ t.rep = s.rep /\ t.parent = s.parent /\ t.timer = s.timer
              /\ t.dgrm = s.dgrm /\ t.busy = s.busy /\ t.cb = s.cb
              /\ t.flags = f /\ t.cbref = n /\ t.item = i
      BY DEF CepObject
    <2> QED
      BY <1>3, <2>1, <2>2 DEF n, i, f
  <1> QED
    BY <1>1, <1>2, <1>3

(* A notification raises one event and one callback.                       *)
LEMMA NotifiedOwed ==
    ASSUME NEW s \in CepObject, NEW e \in Event \ {"USRE_DESTROY"}, CallbackOK(s), OwedOK(s)
    PROVE  OwedOK(SetNotification(s, e))
  <1> DEFINE t == SetNotification(s, e)
  <1>1. /\ t.cb = s.cb /\ t.flags = IF Destroying(s) THEN s.flags ELSE s.flags \cup {e}
        /\ ~ Destroying(s) /\ s.cb =>
              t.cbref = s.cbref + 1 /\ t.item = IF s.cbref = 0 THEN "queued" ELSE s.item
    BY NotifiedFields
  <1> HIDE DEF t
  <1>2. SUFFICES ASSUME t.cb, ~ Destroying(t) PROVE Cardinality(Owed(t)) <= Coming(t)
    BY DEF OwedOK, t
  <1>3. s.cb /\ ~ Destroying(s)
    BY <1>1, <1>2 DEF Destroying
  <1>4. Cardinality(Owed(s)) <= Coming(s)
    BY <1>3 DEF OwedOK
  <1>5. s.cbref \in Nat /\ s.flags \subseteq Event /\ s.item \in {"none", "queued", "running"}
    BY DEF CepObject
  <1>6. Coming(t) = Coming(s) + 1 /\ Coming(s) \in Int
    BY <1>1, <1>3, <1>5 DEF Coming, CallbackOK
  <1>7. IsFiniteSet(Owed(s)) /\ Cardinality(Owed(s)) \in Nat
    BY <1>5, EventsFinite, FS_Subset, FS_CardinalityType DEF Owed
  <1>8. IsFiniteSet(Owed(s) \cup {e})
        /\ Cardinality(Owed(s) \cup {e}) \in {Cardinality(Owed(s)), Cardinality(Owed(s)) + 1}
    BY <1>7, FS_AddElement
  <1>9. Owed(t) \subseteq Owed(s) \cup {e}
    BY <1>1, <1>3 DEF Owed
  <1>10. Cardinality(Owed(t)) <= Cardinality(Owed(s) \cup {e}) /\ Cardinality(Owed(t)) \in Nat
    BY <1>8, <1>9, FS_Subset, FS_CardinalityType
  <1> QED
    BY <1>4, <1>6, <1>7, <1>8, <1>10

(* A step that ends in a notification.                                     *)
LEMMA QuietTold ==
    ASSUME NEW r, NEW s \in CepObject, NEW e \in Event \ {"USRE_DESTROY"},
           RecOK(r), RestOK(r), MoveOK(r, s), EventFits(s, e),
           s.state = "IDLE" => e \in FinalEvent \/ r.state \in {"FREE", "IDLE"} \cup ReplyArrived
    PROVE  Quiet(r, SetNotification(s, e))
  <1> DEFINE t == SetNotification(s, e)
  <1>1. /\ t.state = s.state /\ t.mode = s.mode /\ t.lcid = s.lcid /\ t.lep = s.lep
        /\ t.rep = s.rep /\ t.parent = s.parent /\ t.timer = s.timer
        /\ t.dgrm = s.dgrm /\ t.busy = s.busy
        /\ t.flags = IF Destroying(s) THEN s.flags ELSE s.flags \cup {e}
    BY NotifiedFields
  <1>2. RestOK(s) /\ (Destroying(s) <=> Destroying(r))
    BY Settled
  <1>3. CallbackOK(s)
    BY DEF RecOK, CallbackOK, MoveOK, SameEvents, EventFits
  <1>4. OwedOK(t)
    BY <1>2, <1>3, NotifiedOwed DEF RestOK
  <1> HIDE DEF t
  <1>5. Destroying(t) <=> Destroying(s)
    BY <1>1 DEF Destroying
  <1>6. IdleOK(t) /\ DgrmOK(t)
    BY <1>1, <1>2 DEF RestOK, IdleOK, DgrmOK
  <1>7. RoleOK(t)
    <2>1. RoleOK(s)
      BY <1>2 DEF RestOK
    <2>2. ASSUME NEW x \in {"TIMEOUT_REQ", "RCVD_REP"}, x \in t.flags PROVE t.mode = "ACTIVE"
      BY <1>1, <2>1, <2>2 DEF RoleOK, EventFits
    <2>3. ASSUME NEW x \in {"TIMEOUT_REP", "RCVD_RTU", "RCVD_REQ"}, x \in t.flags
          PROVE  t.mode = "PASSIVE"
      BY <1>1, <2>1, <2>3 DEF RoleOK, EventFits
    <2> QED
      BY <1>1, <2>1, <2>2, <2>3 DEF RoleOK
  <1>8. EventsOK(t)
    BY <1>1, <1>2 DEF RestOK, EventsOK, EventFits
  <1>9. r.flags \ t.flags = {}
    BY <1>1 DEF MoveOK, SameEvents
  <1>10. AnswerKept(r, t)
    BY <1>9 DEF AnswerKept
  <1>11. FinalKept(r, t)
    BY <1>1, <1>2 DEF FinalKept
  <1>12. QpKept(r, t) /\ KeysKept(r, t)
    BY <1>1 DEF MoveOK, QpKept, KeysKept
  <1>13. Quiet(r, t)
    BY <1>2, <1>4, <1>5, <1>6, <1>7, <1>8, <1>10, <1>11, <1>12 DEF Quiet, Sound, RestOK, Alive
  <1> QED
    BY <1>13 DEF t

-----------------------------------------------------------------------------
(* The handshake, step by step, on one CEP.                                *)

(* AcceptA: the RTU leaves in a datagram that was free.                    *)
LEMMA AcceptAQuiet ==
    ASSUME NEW r, RecOK(r), RestOK(r), r.state \in ReplyArrived
    PROVE  Quiet(r, CepSetState(CepSend(r, "RTU"), "ESTABLISHED"))
  <1> DEFINE s == CepSetState(CepSend(r, "RTU"), "ESTABLISHED")
  <1>0. r \in CepObject
    BY DEF RecOK
  <1>1. /\ s.state = "ESTABLISHED" /\ s.dgrm = "RTU" /\ s.busy = SlowSends /\ s.lep = r.lep
        /\ SameEvents(r, s) /\ KeysKept(r, s) /\ s.mode = r.mode
    BY <1>0 DEF SameEvents, KeysKept, CepObject, CepSetState, CepSend
  <1> HIDE DEF s
  <1>2. MoveOK(r, s)
    BY <1>1 DEF MoveOK, StateFits, IdleOK, DgrmOK, QpKept, RestOK, RoleOK, EventsOK,
       Queued, Replied, ReplyArrived, Connected
  <1>3. Quiet(r, s)
    BY <1>1, <1>2, QuietMove DEF ReplyArrived
  <1> QED
    BY <1>3 DEF s

(* RejectA: the CEP leaves the maps.                                       *)
LEMMA RejectAQuiet ==
    ASSUME NEW r, RecOK(r), RestOK(r), r.state \in ReplyArrived
    PROVE  Quiet(r, CepToIdle(CepSend(r, "REJ")))
  <1> DEFINE s == CepToIdle(CepSend(r, "REJ"))
  <1>0. r \in CepObject
    BY DEF RecOK
  <1>1. /\ s.state = "IDLE" /\ s.busy = SlowSends /\ s.lcid = 0 /\ s.lep = None /\ s.rep = None
        /\ SameEvents(r, s) /\ KeysKept(r, s) /\ s.mode = r.mode
    BY <1>0 DEF SameEvents, KeysKept, CepObject, CepToIdle, ClearEndPoint, CepSend
  <1> HIDE DEF s
  <1>2. MoveOK(r, s)
    BY <1>1 DEF MoveOK, StateFits, IdleOK, DgrmOK, QpKept, RestOK, RoleOK, EventsOK,
       Queued, Replied, ReplyArrived, Connected
  <1>3. Quiet(r, s)
    BY <1>1, <1>2, QuietMove DEF ReplyArrived
  <1> QED
    BY <1>3 DEF s

(* ProcessReqDup: the datagram still holds the REP.                        *)
LEMMA RepResendQuiet ==
    ASSUME NEW r, RecOK(r), RestOK(r), r.state = "REP_SENT"
    PROVE  Quiet(r, CmTimerStart(CepResend(CmTimerStop(r))))
  <1> DEFINE s == CmTimerStart(CepResend(CmTimerStop(r)))
  <1>0. r \in CepObject
    BY DEF RecOK
  <1>1. /\ s.state = r.state /\ s.dgrm = r.dgrm /\ s.busy = (r.busy \/ SlowSends) /\ s.lep = r.lep
        /\ SameEvents(r, s) /\ KeysKept(r, s) /\ s.mode = r.mode
    BY <1>0 DEF SameEvents, KeysKept, CepObject, CmTimerStart, CepResend, CmTimerStop
  <1> HIDE DEF s
  <1>2. MoveOK(r, s)
    BY <1>1 DEF MoveOK, StateFits, IdleOK, DgrmOK, QpKept, RestOK, RoleOK, EventsOK,
       Queued, Replied, ReplyArrived, Connected
  <1>3. Quiet(r, s)
    BY <1>1, <1>2, QuietMove DEF ReplyArrived
  <1> QED
    BY <1>3 DEF s

(* ProcessReqDup: an MRA for a request that waits.                         *)
LEMMA MraReqSentQuiet ==
    ASSUME NEW r, RecOK(r), RestOK(r), r.state \in Queued
    PROVE  Quiet(r, CepSetState(r, "MRA_REQ_SENT"))
  <1> DEFINE s == CepSetState(r, "MRA_REQ_SENT")
  <1>0. r \in CepObject
    BY DEF RecOK
  <1>1. /\ s.state = "MRA_REQ_SENT" /\ s.dgrm = r.dgrm /\ s.busy = r.busy /\ s.lep = r.lep
        /\ SameEvents(r, s) /\ KeysKept(r, s) /\ s.mode = r.mode
    BY <1>0 DEF SameEvents, KeysKept, CepObject, CepSetState
  <1> HIDE DEF s
  <1>2. MoveOK(r, s)
    BY <1>1 DEF MoveOK, StateFits, IdleOK, DgrmOK, QpKept, RestOK, RoleOK, EventsOK,
       Queued, Replied, ReplyArrived, Connected
  <1>3. Quiet(r, s)
    BY <1>1, <1>2, QuietMove DEF ReplyArrived
  <1> QED
    BY <1>3 DEF s

(* ProcessRep: an MRA for a reply its user has yet to answer.              *)
LEMMA MraRepSentQuiet ==
    ASSUME NEW r, RecOK(r), RestOK(r), r.state \in ReplyArrived
    PROVE  Quiet(r, CepSetState(r, "MRA_REP_SENT"))
  <1> DEFINE s == CepSetState(r, "MRA_REP_SENT")
  <1>0. r \in CepObject
    BY DEF RecOK
  <1>1. /\ s.state = "MRA_REP_SENT" /\ s.dgrm = r.dgrm /\ s.busy = r.busy /\ s.lep = r.lep
        /\ SameEvents(r, s) /\ KeysKept(r, s) /\ s.mode = r.mode
    BY <1>0 DEF SameEvents, KeysKept, CepObject, CepSetState
  <1> HIDE DEF s
  <1>2. MoveOK(r, s)
    BY <1>1 DEF MoveOK, StateFits, IdleOK, DgrmOK, QpKept, RestOK, RoleOK, EventsOK,
       Queued, Replied, ReplyArrived, Connected
  <1>3. Quiet(r, s)
    BY <1>1, <1>2, QuietMove DEF ReplyArrived
  <1> QED
    BY <1>3 DEF s

(* ProcessMraReq: the client waits longer.                                 *)
LEMMA MraReqQuiet ==
    ASSUME NEW r, NEW n \in Nat, RecOK(r), RestOK(r), r.state = "REQ_SENT"
    PROVE  Quiet(r, CepSetState(CmTimerStart([CmTimerStop(r) EXCEPT !.rcid = n]), "REP_WAIT"))
  <1> DEFINE s == CepSetState(CmTimerStart([CmTimerStop(r) EXCEPT !.rcid = n]), "REP_WAIT")
  <1>0. r \in CepObject
    BY DEF RecOK
  <1>1. /\ s.state = "REP_WAIT" /\ s.dgrm = r.dgrm /\ s.busy = r.busy /\ s.lep = r.lep
        /\ SameEvents(r, s) /\ KeysKept(r, s) /\ s.mode = r.mode
    BY <1>0 DEF SameEvents, KeysKept, CepObject, CepSetState, CmTimerStart, CmTimerStop
  <1> HIDE DEF s
  <1>2. MoveOK(r, s)
    BY <1>1 DEF MoveOK, StateFits, IdleOK, DgrmOK, QpKept, RestOK, RoleOK, EventsOK,
       Queued, Replied, ReplyArrived, Connected
  <1>3. Quiet(r, s)
    BY <1>1, <1>2, QuietMove DEF ReplyArrived
  <1> QED
    BY <1>3 DEF s

(* ProcessMraRep: the server waits longer.                                 *)
LEMMA MraRepQuiet ==
    ASSUME NEW r, RecOK(r), RestOK(r), r.state = "REP_SENT"
    PROVE  Quiet(r, CepSetState(CmTimerStart(CmTimerStop(r)), "MRA_REP_RCVD"))
  <1> DEFINE s == CepSetState(CmTimerStart(CmTimerStop(r)), "MRA_REP_RCVD")
  <1>0. r \in CepObject
    BY DEF RecOK
  <1>1. /\ s.state = "MRA_REP_RCVD" /\ s.dgrm = r.dgrm /\ s.busy = r.busy /\ s.lep = r.lep
        /\ SameEvents(r, s) /\ KeysKept(r, s) /\ s.mode = r.mode
    BY <1>0 DEF SameEvents, KeysKept, CepObject, CepSetState, CmTimerStart, CmTimerStop
  <1> HIDE DEF s
  <1>2. MoveOK(r, s)
    BY <1>1 DEF MoveOK, StateFits, IdleOK, DgrmOK, QpKept, RestOK, RoleOK, EventsOK,
       Queued, Replied, ReplyArrived, Connected
  <1>3. Quiet(r, s)
    BY <1>1, <1>2, QuietMove DEF ReplyArrived
  <1> QED
    BY <1>3 DEF s

(* ProcessRep: a stale reply takes the datagram, which is junk if it was   *)
(* in use.                                                                 *)
LEMMA StaleRepQuiet ==
    ASSUME NEW r, RecOK(r), RestOK(r), r.state \in {"REQ_SENT", "REP_WAIT"}
    PROVE  Quiet(r, PrepareCepDgrm(r))
  <1> DEFINE s == PrepareCepDgrm(r)
  <1>0. r \in CepObject
    BY DEF RecOK
  <1>1. /\ s.state = r.state /\ s.dgrm = (IF r.busy THEN "JUNK" ELSE r.dgrm) /\ s.busy = FALSE
        /\ s.lep = r.lep
        /\ SameEvents(r, s) /\ KeysKept(r, s) /\ s.mode = r.mode
    BY <1>0 DEF SameEvents, KeysKept, CepObject, PrepareCepDgrm
  <1> HIDE DEF s
  <1>2. MoveOK(r, s)
    BY <1>1 DEF MoveOK, StateFits, IdleOK, DgrmOK, QpKept, RestOK, RoleOK, EventsOK,
       Queued, Replied, ReplyArrived, Connected
  <1>3. Quiet(r, s)
    BY <1>1, <1>2, QuietMove DEF ReplyArrived
  <1> QED
    BY <1>3 DEF s

(* ProcessRep: the RTU is sent again.                                      *)
LEMMA RtuResentQuiet ==
    ASSUME NEW r, RecOK(r), RestOK(r), r.state = "ESTABLISHED"
    PROVE  Quiet(r, CepResend(r))
  <1> DEFINE s == CepResend(r)
  <1>0. r \in CepObject
    BY DEF RecOK
  <1>1. /\ s.state = r.state /\ s.dgrm = r.dgrm /\ s.busy = (r.busy \/ SlowSends) /\ s.lep = r.lep
        /\ SameEvents(r, s) /\ KeysKept(r, s) /\ s.mode = r.mode
    BY <1>0 DEF SameEvents, KeysKept, CepObject, CepResend
  <1> HIDE DEF s
  <1>2. MoveOK(r, s)
    BY <1>1 DEF MoveOK, StateFits, IdleOK, DgrmOK, QpKept, RestOK, RoleOK, EventsOK,
       Queued, Replied, ReplyArrived, Connected
  <1>3. Quiet(r, s)
    BY <1>1, <1>2, QuietMove DEF ReplyArrived
  <1> QED
    BY <1>3 DEF s

(* ProcessRtuPassive: the server is connected.                             *)
LEMMA RtuReceivedQuiet ==
    ASSUME NEW r, NEW h \in Held, RecOK(r), RestOK(r), r.state \in Replied
    PROVE  Quiet(r, SetNotification(CepSetState(CmDgrmCopyAddrAndMad(CmTimerStop(
                        PrepareCepDgrm(r)), h), "ESTABLISHED"), "RCVD_RTU"))
  <1> DEFINE s == CepSetState(CmDgrmCopyAddrAndMad(CmTimerStop(PrepareCepDgrm(r)), h),
                          "ESTABLISHED")
  <1>0. r \in CepObject
    BY DEF RecOK
  <1>1. /\ s.state = "ESTABLISHED" /\ s.busy = FALSE /\ s.lep = r.lep
        /\ SameEvents(r, s) /\ KeysKept(r, s) /\ s.mode = r.mode
    BY <1>0 DEF SameEvents, KeysKept, CepObject, CepSetState,
       CmDgrmCopyAddrAndMad, CmTimerStop, PrepareCepDgrm
  <1>2. s \in CepObject
    BY <1>0, StateNames, MadNames, CepSetStateType, CmTimerStopType,
       PrepareCepDgrmType, CmDgrmCopyType
  <1> HIDE DEF s
  <1>3. MoveOK(r, s) /\ EventFits(s, "RCVD_RTU")
    BY <1>1 DEF MoveOK, StateFits, IdleOK, DgrmOK, QpKept, RestOK, RoleOK, EventsOK,
       Queued, Replied, ReplyArrived, Connected, EventFits, SameEvents
  <1>4. Quiet(r, SetNotification(s, "RCVD_RTU"))
    BY <1>1, <1>2, <1>3, QuietTold, EventNames
  <1> QED
    BY <1>4 DEF s

(* Rejected: a stale connection has a TIMEWAIT ahead.                      *)
LEMMA RejectedStaleQuiet ==
    ASSUME NEW r, RecOK(r), RestOK(r), r.state \in {"REQ_SENT", "REP_WAIT"} \cup Replied
    PROVE  Quiet(r, Rejected(r, "STALE_CONN"))
  <1> DEFINE s == CepToTimewait(CmDgrmCopyAddrAndMad(CmTimerStop(PrepareCepDgrm(r)), "REJ"))
  <1>0. r \in CepObject
    BY DEF RecOK
  <1>1. /\ s.state = "TIMEWAIT" /\ s.busy = FALSE
        /\ SameEvents(r, s) /\ KeysKept(r, s) /\ s.mode = r.mode
    BY <1>0 DEF SameEvents, KeysKept, CepObject, CepToTimewait,
       CepToDisconnecting, CepSetState, ClearEndPoint, CmTimerStart,
       CmDgrmCopyAddrAndMad, CmTimerStop, PrepareCepDgrm
  <1>2. s \in CepObject
    BY <1>0, StateNames, MadNames, CepToTimewaitType, CmTimerStopType,
       PrepareCepDgrmType, CmDgrmCopyType
  <1> HIDE DEF s
  <1>3. MoveOK(r, s) /\ EventFits(s, "RCVD_REJ")
    BY <1>1 DEF MoveOK, StateFits, IdleOK, DgrmOK, QpKept, RestOK, RoleOK, EventsOK,
       Queued, Replied, ReplyArrived, Connected, EventFits, SameEvents
  <1>4. Quiet(r, SetNotification(s, "RCVD_REJ"))
    BY <1>1, <1>2, <1>3, QuietTold, EventNames
  <1> QED
    BY <1>4 DEF Rejected, s

(* Rejected: another one is over.                                          *)
LEMMA RejectedIdleQuiet ==
    ASSUME NEW r, RecOK(r), RestOK(r), r.state \in {"REQ_SENT", "REP_WAIT"} \cup Replied,
           NEW why, why # "STALE_CONN"
    PROVE  Quiet(r, Rejected(r, why))
  <1> DEFINE s == CepToIdle(CmDgrmCopyAddrAndMad(CmTimerStop(PrepareCepDgrm(r)), "REJ"))
  <1>0. r \in CepObject
    BY DEF RecOK
  <1>1. /\ s.state = "IDLE" /\ s.busy = FALSE /\ s.lcid = 0 /\ s.lep = None /\ s.rep = None
        /\ SameEvents(r, s) /\ KeysKept(r, s) /\ s.mode = r.mode
    BY <1>0 DEF SameEvents, KeysKept, CepObject, CepToIdle,
       ClearEndPoint, CmDgrmCopyAddrAndMad, CmTimerStop, PrepareCepDgrm
  <1>2. s \in CepObject
    BY <1>0, StateNames, MadNames, CepToIdleType, CmTimerStopType,
       PrepareCepDgrmType, CmDgrmCopyType
  <1> HIDE DEF s
  <1>3. MoveOK(r, s) /\ EventFits(s, "RCVD_REJ")
    BY <1>1 DEF MoveOK, StateFits, IdleOK, DgrmOK, QpKept, RestOK, RoleOK, EventsOK,
       Queued, Replied, ReplyArrived, Connected, EventFits, SameEvents
  <1>4. Quiet(r, SetNotification(s, "RCVD_REJ"))
    BY <1>1, <1>2, <1>3, QuietTold, EventNames DEF FinalEvent
  <1> QED
    BY <1>4 DEF Rejected, s

-----------------------------------------------------------------------------
(* The teardown.                                                           *)

(* DreqReceived: the other end is gone.                                    *)
LEMMA DreqReceivedQuiet ==
    ASSUME NEW r, NEW h \in Held, RecOK(r), RestOK(r), r.state = "ESTABLISHED"
    PROVE  Quiet(r, DreqReceived(r, h))
  <1> DEFINE s == CepToDisconnecting(CmDgrmCopyAddrAndMad(r, h), "DREQ_RCVD")
  <1>0. r \in CepObject
    BY DEF RecOK
  <1>1. /\ s.state = "DREQ_RCVD" /\ s.busy = r.busy /\ (~ ReuseQP => s.lep = r.lep)
        /\ SameEvents(r, s) /\ KeysKept(r, s) /\ s.mode = r.mode
    BY <1>0 DEF SameEvents, KeysKept, CepObject, CepToDisconnecting,
       CepSetState, ClearEndPoint, CmDgrmCopyAddrAndMad
  <1>2. s \in CepObject
    BY <1>0, StateNames, MadNames, CmDgrmCopyType, CepToDisconnectingType
  <1> HIDE DEF s
  <1>3. MoveOK(r, s) /\ EventFits(s, "RCVD_DREQ")
    BY <1>1 DEF MoveOK, StateFits, IdleOK, DgrmOK, QpKept, RestOK, RoleOK, EventsOK,
       Queued, Replied, ReplyArrived, Connected, EventFits, SameEvents
  <1>4. Quiet(r, SetNotification(s, "RCVD_DREQ"))
    BY <1>1, <1>2, <1>3, QuietTold, EventNames
  <1> QED
    BY <1>4 DEF DreqReceived, s

(* SimDreqReceived: the other end saw no connection.                       *)
LEMMA SimDreqReceivedQuiet ==
    ASSUME NEW r, RecOK(r), RestOK(r), r.state = "ESTABLISHED"
    PROVE  Quiet(r, SimDreqReceived(r))
  <1> DEFINE s == CepToDisconnecting(CmDgrmCopyAddrAndMad(r, "JUNK"), "SIM_DREQ_RCVD")
  <1>0. r \in CepObject
    BY DEF RecOK
  <1>1. /\ s.state = "SIM_DREQ_RCVD" /\ s.busy = r.busy /\ (~ ReuseQP => s.lep = r.lep)
        /\ SameEvents(r, s) /\ KeysKept(r, s) /\ s.mode = r.mode
    BY <1>0 DEF SameEvents, KeysKept, CepObject, CepToDisconnecting,
       CepSetState, ClearEndPoint, CmDgrmCopyAddrAndMad
  <1>2. s \in CepObject
    BY <1>0, StateNames, MadNames, CmDgrmCopyType, CepToDisconnectingType
  <1> HIDE DEF s
  <1>3. MoveOK(r, s) /\ EventFits(s, "SIM_RCVD_DREQ")
    BY <1>1 DEF MoveOK, StateFits, IdleOK, DgrmOK, QpKept, RestOK, RoleOK, EventsOK,
       Queued, Replied, ReplyArrived, Connected, EventFits, SameEvents
  <1>4. Quiet(r, SetNotification(s, "SIM_RCVD_DREQ"))
    BY <1>1, <1>2, <1>3, QuietTold, EventNames
  <1> QED
    BY <1>4 DEF SimDreqReceived, s

(* DrepReceived: TIMEWAIT begins.                                          *)
LEMMA DrepReceivedQuiet ==
    ASSUME NEW r, RecOK(r), RestOK(r), r.state = "DREQ_SENT"
    PROVE  Quiet(r, DrepReceived(r))
  <1> DEFINE s == CepToTimewait(CmTimerStop(CmDgrmCopyAddrAndMad(PrepareCepDgrm(r), "DREP")))
  <1>0. r \in CepObject
    BY DEF RecOK
  <1>1. /\ s.state = "TIMEWAIT" /\ s.busy = FALSE /\ (~ ReuseQP => s.lep = r.lep)
        /\ SameEvents(r, s) /\ KeysKept(r, s) /\ s.mode = r.mode
    BY <1>0 DEF SameEvents, KeysKept, CepObject, CepToDisconnecting,
       CepSetState, ClearEndPoint, CepToTimewait, CmTimerStart,
       CmDgrmCopyAddrAndMad, CmTimerStop, PrepareCepDgrm
  <1>2. s \in CepObject
    BY <1>0, StateNames, MadNames, CepToTimewaitType, CmTimerStopType,
       PrepareCepDgrmType, CmDgrmCopyType
  <1> HIDE DEF s
  <1>3. MoveOK(r, s) /\ EventFits(s, "RCVD_DREP")
    BY <1>1 DEF MoveOK, StateFits, IdleOK, DgrmOK, QpKept, RestOK, RoleOK, EventsOK,
       Queued, Replied, ReplyArrived, Connected, EventFits, SameEvents
  <1>4. Quiet(r, SetNotification(s, "RCVD_DREP"))
    BY <1>1, <1>2, <1>3, QuietTold, EventNames
  <1> QED
    BY <1>4 DEF DrepReceived, s

(* ProcessDreq: the DREP is sent again.                                    *)
LEMMA DrepResentQuiet ==
    ASSUME NEW r, RecOK(r), RestOK(r), r.state \in {"SIM_DREQ_RCVD", "TIMEWAIT"}
    PROVE  Quiet(r, CepSend(r, "DREP"))
  <1> DEFINE s == CepSend(r, "DREP")
  <1>0. r \in CepObject
    BY DEF RecOK
  <1>1. /\ s.state = r.state /\ s.busy = SlowSends /\ s.lep = r.lep
        /\ SameEvents(r, s) /\ KeysKept(r, s) /\ s.mode = r.mode
    BY <1>0 DEF SameEvents, KeysKept, CepObject, CepSend
  <1> HIDE DEF s
  <1>2. MoveOK(r, s)
    BY <1>1 DEF MoveOK, StateFits, IdleOK, DgrmOK, QpKept, RestOK, RoleOK, EventsOK,
       Queued, Replied, ReplyArrived, Connected
  <1>3. Quiet(r, s)
    BY <1>1, <1>2, QuietMove DEF ReplyArrived
  <1> QED
    BY <1>3 DEF s

(* DisconnectA: the DREP answers the DREQ.                                 *)
LEMMA DreqAnsweredQuiet ==
    ASSUME NEW r, RecOK(r), RestOK(r), r.state = "DREQ_RCVD"
    PROVE  Quiet(r, CepToTimewait(CepSend(PrepareCepDgrm(r), "DREP")))
  <1> DEFINE s == CepToTimewait(CepSend(PrepareCepDgrm(r), "DREP"))
  <1>0. r \in CepObject
    BY DEF RecOK
  <1>1. /\ s.state = "TIMEWAIT" /\ s.busy = SlowSends /\ (~ ReuseQP => s.lep = r.lep)
        /\ SameEvents(r, s) /\ KeysKept(r, s) /\ s.mode = r.mode
    BY <1>0 DEF SameEvents, KeysKept, CepObject, CepToDisconnecting,
       CepSetState, ClearEndPoint, CepToTimewait, CmTimerStart,
       CepSend, PrepareCepDgrm
  <1> HIDE DEF s
  <1>2. MoveOK(r, s)
    BY <1>1 DEF MoveOK, StateFits, IdleOK, DgrmOK, QpKept, RestOK, RoleOK, EventsOK,
       Queued, Replied, ReplyArrived, Connected
  <1>3. Quiet(r, s)
    BY <1>1, <1>2, QuietMove DEF ReplyArrived
  <1> QED
    BY <1>3 DEF s

(* DisconnectA: a simulated DREQ needs no answer.                          *)
LEMMA SimDreqAnsweredQuiet ==
    ASSUME NEW r, RecOK(r), RestOK(r), r.state = "SIM_DREQ_RCVD"
    PROVE  Quiet(r, CepToTimewait(r))
  <1> DEFINE s == CepToTimewait(r)
  <1>0. r \in CepObject
    BY DEF RecOK
  <1>1. /\ s.state = "TIMEWAIT" /\ s.busy = r.busy /\ (~ ReuseQP => s.lep = r.lep)
        /\ SameEvents(r, s) /\ KeysKept(r, s) /\ s.mode = r.mode
    BY <1>0 DEF SameEvents, KeysKept, CepObject, CepToDisconnecting,
       CepSetState, ClearEndPoint, CepToTimewait, CmTimerStart
  <1> HIDE DEF s
  <1>2. MoveOK(r, s)
    BY <1>1 DEF MoveOK, StateFits, IdleOK, DgrmOK, QpKept, RestOK, RoleOK, EventsOK,
       Queued, Replied, ReplyArrived, Connected
  <1>3. Quiet(r, s)
    BY <1>1, <1>2, QuietMove DEF ReplyArrived
  <1> QED
    BY <1>3 DEF s

(* DisconnectA: the DREQ is sent.                                          *)
LEMMA DreqSentQuiet ==
    ASSUME NEW r, RecOK(r), RestOK(r), r.state = "ESTABLISHED"
    PROVE  Quiet(r, CmTimerStart([CepToDisconnecting(CepSend(PrepareCepDgrm(r), "DREQ"), "DREQ_SENT")
                               EXCEPT !.retry = 0]))
  <1> DEFINE s == CmTimerStart([CepToDisconnecting(CepSend(PrepareCepDgrm(r), "DREQ"), "DREQ_SENT")
                               EXCEPT !.retry = 0])
  <1>0. r \in CepObject
    BY DEF RecOK
  <1>1. /\ s.state = "DREQ_SENT" /\ s.dgrm = "DREQ" /\ s.busy = SlowSends /\ (~ ReuseQP => s.lep = r.lep)
        /\ SameEvents(r, s) /\ KeysKept(r, s) /\ s.mode = r.mode
    BY <1>0 DEF SameEvents, KeysKept, CepObject, CepToDisconnecting,
       CepSetState, ClearEndPoint, CmTimerStart,
       CepSend, PrepareCepDgrm
  <1> HIDE DEF s
  <1>2. MoveOK(r, s)
    BY <1>1 DEF MoveOK, StateFits, IdleOK, DgrmOK, QpKept, RestOK, RoleOK, EventsOK,
       Queued, Replied, ReplyArrived, Connected
  <1>3. Quiet(r, s)
    BY <1>1, <1>2, QuietMove DEF ReplyArrived
  <1> QED
    BY <1>3 DEF s

(* DisconnectA, whether or not there is a datagram to send with.           *)
LEMMA DisconnectAQuiet ==
    ASSUME NEW r, NEW ok \in BOOLEAN, RecOK(r), RestOK(r), r.state \in Disconnectable
    PROVE  Quiet(r, DisconnectA(r, ok))
  <1>1. CASE r.state = "ESTABLISHED" /\ ok
    BY <1>1, DreqSentQuiet DEF DisconnectA
  <1>2. CASE r.state = "DREQ_RCVD" /\ ok
    BY <1>2, DreqAnsweredQuiet DEF DisconnectA
  <1>3. CASE r.state = "SIM_DREQ_RCVD"
    BY <1>3, SimDreqAnsweredQuiet DEF DisconnectA
  <1>4. CASE ~ ok /\ r.state # "SIM_DREQ_RCVD"
    <2>1. DisconnectA(r, ok) = r
      BY <1>4 DEF DisconnectA
    <2> QED
      BY <2>1, Unchanged
  <1> QED
    BY <1>1, <1>2, <1>3, <1>4 DEF Disconnectable

(* DREQs that cross: the user is told, or the CEP answers by itself.       *)
LEMMA DreqCrossedQuiet ==
    ASSUME NEW r, RecOK(r), RestOK(r), r.state = "DREQ_SENT"
    PROVE  Quiet(r, DreqCrossed(r))
  <1> DEFINE p == CepSetState(CmDgrmCopyAddrAndMad(CmTimerStop(PrepareCepDgrm(r)), "DREQ"),
                              "DREQ_RCVD")
             s == CepToTimewait(CepSend(PrepareCepDgrm(p), "DREP"))
  <1>0. r \in CepObject
    BY DEF RecOK
  <1>1. /\ p.state = "DREQ_RCVD" /\ p.busy = FALSE /\ p.lep = r.lep /\ p.lcid = r.lcid
        /\ p.rep = r.rep /\ p.parent = r.parent /\ SameEvents(r, p) /\ p.mode = r.mode
    BY <1>0 DEF SameEvents, CepObject, CepSetState, CmDgrmCopyAddrAndMad, CmTimerStop,
       PrepareCepDgrm
  <1>2. p \in CepObject
    BY <1>0, StateNames, MadNames, CepSetStateType, CmTimerStopType, PrepareCepDgrmType,
       CmDgrmCopyType
  <1>3. DreqCrossed(r) = IF Destroying(r) THEN s ELSE SetNotification(p, "RCVD_DREQ")
    BY <1>1 DEF DreqCrossed, DisconnectA
  <1> HIDE DEF p
  <1>4. CASE ~ Destroying(r)
    <2>1. MoveOK(r, p) /\ EventFits(p, "RCVD_DREQ")
      BY <1>1 DEF MoveOK, StateFits, IdleOK, DgrmOK, QpKept, KeysKept, RestOK, RoleOK, EventsOK,
         Queued, Replied, ReplyArrived, Connected, EventFits, SameEvents
    <2>2. Quiet(r, SetNotification(p, "RCVD_DREQ"))
      BY <1>1, <1>2, <2>1, QuietTold, EventNames
    <2> QED
      BY <1>3, <1>4, <2>2
  <1>5. CASE Destroying(r)
    <2>1. /\ s.state = "TIMEWAIT" /\ s.busy = SlowSends /\ (~ ReuseQP => s.lep = p.lep)
          /\ SameEvents(p, s) /\ KeysKept(p, s) /\ s.mode = p.mode
      BY <1>2 DEF SameEvents, KeysKept, CepObject, CepToDisconnecting, CepSetState,
         ClearEndPoint, CepToTimewait, CmTimerStart, CepSend, PrepareCepDgrm
    <2> HIDE DEF s
    <2>2. SameEvents(r, s) /\ KeysKept(r, s)
      BY <1>1, <2>1 DEF SameEvents, KeysKept
    <2>3. MoveOK(r, s)
      BY <1>1, <2>1, <2>2 DEF MoveOK, StateFits, IdleOK, DgrmOK, QpKept, RestOK, RoleOK,
         EventsOK, Queued, Replied, ReplyArrived, Connected
    <2>4. Quiet(r, s)
      BY <2>1, <2>3, QuietMove
    <2> QED
      BY <1>3, <1>5, <2>4
  <1> QED
    BY <1>4, <1>5

-----------------------------------------------------------------------------
(* Timers.                                                                 *)

(* What the callback of a timer finds.                                     *)
LEMMA ExpiredFields ==
    ASSUME NEW r \in CepObject
    PROVE  LET x == Expired(r)
           IN  /\ x \in CepObject /\ SameEvents(r, x) /\ x.mode = r.mode /\ x.state = r.state
               /\ x.lcid = r.lcid /\ x.lep = r.lep /\ x.rep = r.rep /\ x.parent = r.parent
               /\ x.dgrm = r.dgrm /\ x.busy = r.busy /\ x.timer = FALSE
  <1>1. Expired(r) \in CepObject
    BY ExpiredType
  <1> QED
    BY <1>1 DEF Expired, SameEvents, CepObject

(* A retransmission of what the datagram holds.                            *)
LEMMA RetryQuiet ==
    ASSUME NEW r, NEW st, RecOK(r), RestOK(r),
           \/ r.state \in {"REQ_SENT", "REP_WAIT"} /\ st = "REQ_SENT"
           \/ r.state \in Replied /\ st = "REP_SENT"
           \/ r.state = "DREQ_SENT" /\ st = "DREQ_SENT"
    PROVE  Quiet(r, Retry(Expired(r), st))
  <1> DEFINE x == Expired(r)
             s == Retry(x, st)
  <1>0. r \in CepObject
    BY DEF RecOK
  <1>1. /\ x \in CepObject /\ SameEvents(r, x) /\ x.mode = r.mode
        /\ x.lcid = r.lcid /\ x.lep = r.lep /\ x.rep = r.rep /\ x.parent = r.parent
        /\ x.dgrm = r.dgrm /\ x.busy = r.busy
    BY <1>0, ExpiredFields
  <1> HIDE DEF x
  <1>2. /\ s.state = st /\ s.dgrm = x.dgrm /\ s.busy = (x.busy \/ SlowSends) /\ s.lep = x.lep
        /\ SameEvents(x, s) /\ KeysKept(x, s) /\ s.mode = x.mode
    BY <1>1 DEF Retry, SameEvents, KeysKept, CepObject, CmTimerStart, CepSetState, CepResend
  <1> HIDE DEF s
  <1>3. SameEvents(r, s) /\ KeysKept(r, s)
    BY <1>1, <1>2 DEF SameEvents, KeysKept
  <1>4. MoveOK(r, s)
    BY <1>1, <1>2, <1>3 DEF MoveOK, StateFits, IdleOK, DgrmOK, QpKept, RestOK, RoleOK, EventsOK,
       Queued, Replied, ReplyArrived, Connected
  <1>5. Quiet(r, s)
    BY <1>2, <1>4, QuietMove DEF Replied
  <1> QED
    BY <1>5 DEF s, x

(* The end of the retries, or of TIMEWAIT: to IDLE ...                     *)
LEMMA TimedOutIdle ==
    ASSUME NEW r, RecOK(r), RestOK(r), r.state \in {"REQ_SENT", "REP_WAIT", "TIMEWAIT"}
    PROVE  LET s == [CepToIdle(Expired(r)) EXCEPT !.retry = 0]
           IN  s \in CepObject /\ MoveOK(r, s) /\ s.state = "IDLE"
  <1> DEFINE x == Expired(r)
             p == CepToIdle(x)
             s == [p EXCEPT !.retry = 0]
  <1>0. r \in CepObject
    BY DEF RecOK
  <1>1. /\ x \in CepObject /\ SameEvents(r, x) /\ x.mode = r.mode /\ x.timer = FALSE
        /\ x.lcid = r.lcid /\ x.lep = r.lep /\ x.rep = r.rep /\ x.parent = r.parent
        /\ x.dgrm = r.dgrm /\ x.busy = r.busy
    BY <1>0, ExpiredFields
  <1> HIDE DEF x
  <1>2. p \in CepObject
    BY <1>1, CepToIdleType
  <1>3. /\ p.state = "IDLE" /\ p.lcid = 0 /\ p.lep = None /\ p.rep = None /\ p.busy = x.busy
        /\ p.parent = x.parent /\ p.timer = FALSE /\ SameEvents(x, p) /\ p.mode = x.mode
    BY <1>1 DEF SameEvents, CepObject, CepToIdle, ClearEndPoint
  <1> HIDE DEF p
  <1>4. s \in CepObject
    BY <1>2 DEF CepObject
  <1>5. /\ s.state = "IDLE" /\ s.lcid = 0 /\ s.lep = None /\ s.rep = None /\ s.busy = p.busy
        /\ s.parent = p.parent /\ s.timer = FALSE /\ SameEvents(p, s) /\ s.mode = p.mode
    BY <1>2, <1>3 DEF SameEvents, CepObject
  <1> HIDE DEF s
  <1>6. SameEvents(r, s) /\ KeysKept(r, s) /\ s.mode = r.mode /\ s.busy = r.busy
    BY <1>1, <1>3, <1>5 DEF SameEvents, KeysKept
  <1>7. MoveOK(r, s)
    BY <1>5, <1>6 DEF MoveOK, StateFits, IdleOK, DgrmOK, QpKept, RestOK, Queued, Replied,
       ReplyArrived, Connected
  <1> QED
    BY <1>4, <1>5, <1>7 DEF s, p, x

(* ... or to TIMEWAIT.                                                     *)
LEMMA TimedOutTimewait ==
    ASSUME NEW r, RecOK(r), RestOK(r), r.state \in Replied \cup {"DREQ_SENT"}
    PROVE  LET s == CepToTimewait(Expired(r))
               t == [s EXCEPT !.retry = 0]
           IN  /\ s \in CepObject /\ MoveOK(r, s) /\ s.state = "TIMEWAIT"
               /\ t \in CepObject /\ MoveOK(r, t) /\ t.state = "TIMEWAIT"
  <1> DEFINE x == Expired(r)
             s == CepToTimewait(x)
             t == [s EXCEPT !.retry = 0]
  <1>0. r \in CepObject
    BY DEF RecOK
  <1>1. /\ x \in CepObject /\ SameEvents(r, x) /\ x.mode = r.mode
        /\ x.lcid = r.lcid /\ x.lep = r.lep /\ x.rep = r.rep /\ x.parent = r.parent
        /\ x.busy = r.busy
    BY <1>0, ExpiredFields
  <1> HIDE DEF x
  <1>2. s \in CepObject
    BY <1>1, CepToTimewaitType
  <1>3. /\ s.state = "TIMEWAIT" /\ s.busy = x.busy /\ (~ ReuseQP => s.lep = x.lep)
        /\ KeysKept(x, s) /\ SameEvents(x, s) /\ s.mode = x.mode
    BY <1>1 DEF SameEvents, KeysKept, CepObject, CepToDisconnecting, CepSetState, CepToTimewait,
       ClearEndPoint, CmTimerStart
  <1> HIDE DEF s
  <1>4. t \in CepObject
    BY <1>2 DEF CepObject
  <1>5. /\ t.state = "TIMEWAIT" /\ t.busy = s.busy /\ t.lcid = s.lcid /\ t.lep = s.lep
        /\ t.rep = s.rep /\ t.parent = s.parent /\ SameEvents(s, t) /\ t.mode = s.mode
    BY <1>2, <1>3 DEF SameEvents, CepObject
  <1> HIDE DEF t
  <1>6. SameEvents(r, s) /\ KeysKept(r, s) /\ SameEvents(r, t) /\ KeysKept(r, t)
    BY <1>1, <1>3, <1>5 DEF SameEvents, KeysKept
  <1>7. MoveOK(r, s)
    BY <1>1, <1>3, <1>6 DEF MoveOK, StateFits, IdleOK, DgrmOK, QpKept, RestOK, Queued, Replied,
       ReplyArrived, Connected
  <1>8. MoveOK(r, t)
    BY <1>1, <1>3, <1>5, <1>6 DEF MoveOK, StateFits, IdleOK, DgrmOK, QpKept, RestOK, Queued,
       Replied, ReplyArrived, Connected
  <1> QED
    BY <1>2, <1>3, <1>4, <1>5, <1>7, <1>8 DEF t, s, x

(* What DestroyCEP leaves of a CEP that had left the maps.                 *)
LEMMA FreedFields ==
    ASSUME NEW i, i.lep = None, i.rep = None, DgrmMayFail \/ i.lcid = 0
    PROVE  LET s == DestroyCEP(i)
           IN  /\ RestOK(s) /\ s.state = "FREE" /\ s.lcid = i.lcid /\ s.lep = None /\ s.rep = None
               /\ s.parent = None /\ s.timer = FALSE /\ s.flags = {} /\ ~ Destroying(s)
  <1> DEFINE s == DestroyCEP(i)
  <1>1. /\ s.state = "FREE" /\ s.lcid = i.lcid /\ s.lep = None /\ s.rep = None
        /\ s.parent = None /\ s.timer = FALSE /\ s.flags = {} /\ s.busy = FALSE /\ s.cb = FALSE
    BY DEF DestroyCEP, NewCep
  <1> HIDE DEF s
  <1>2. IdleOK(s) /\ RoleOK(s) /\ DgrmOK(s) /\ EventsOK(s) /\ OwedOK(s)
    BY <1>1 DEF IdleOK, RoleOK, DgrmOK, EventsOK, OwedOK, ReplyArrived, Queued, Replied
  <1>3. RestOK(s) /\ ~ Destroying(s)
    BY <1>1, <1>2 DEF RestOK, Destroying
  <1> QED
    BY <1>1, <1>3 DEF s

(* The callback of the REQ timer.                                          *)
LEMMA ReqTimeoutQuiet ==
    ASSUME NEW r, NEW again \in BOOLEAN, RecOK(r), RestOK(r), r.state \in {"REQ_SENT", "REP_WAIT"}
    PROVE  Quiet(r, ReqTimeout(Expired(r), again))
  <1>1. CASE again
    BY <1>1, RetryQuiet DEF ReqTimeout
  <1>2. CASE ~ again
    <2> DEFINE s == [CepToIdle(Expired(r)) EXCEPT !.retry = 0]
    <2>1. s \in CepObject /\ MoveOK(r, s) /\ s.state = "IDLE"
      BY TimedOutIdle
    <2>2. ReqTimeout(Expired(r), again) = SetNotification(s, "TIMEOUT_REQ")
      BY <1>2 DEF ReqTimeout
    <2> HIDE DEF s
    <2>3. EventFits(s, "TIMEOUT_REQ")
      BY <2>1 DEF EventFits, MoveOK, RestOK, RoleOK, Queued, Replied
    <2>4. Quiet(r, SetNotification(s, "TIMEOUT_REQ"))
      BY <2>1, <2>3, QuietTold, EventNames DEF FinalEvent
    <2> QED
      BY <2>2, <2>4
  <1> QED
    BY <1>1, <1>2

(* The callback of the REP timer: TIMEWAIT begins, and the user hears of   *)
(* it now or at its end.                                                   *)
LEMMA RepTimeoutQuiet ==
    ASSUME NEW r, NEW again \in BOOLEAN, RecOK(r), RestOK(r), r.state \in Replied
    PROVE  Quiet(r, RepTimeout(Expired(r), again))
  <1>1. CASE again
    BY <1>1, RetryQuiet DEF RepTimeout
  <1>2. CASE ~ again
    <2> DEFINE t == [CepToTimewait(Expired(r)) EXCEPT !.retry = 0]
               s == EventSet(t, "TIMEOUT_REP")
    <2>1. t \in CepObject /\ MoveOK(r, t) /\ t.state = "TIMEWAIT"
      BY TimedOutTimewait
    <2>2. RepTimeout(Expired(r), again) = IF TimewaitCallback THEN s
                                          ELSE SetNotification(t, "TIMEOUT_REP")
      BY <1>2 DEF RepTimeout
    <2> HIDE DEF t
    <2>3. t.mode = "PASSIVE" /\ t.flags = {} /\ RestOK(t)
      BY <2>1, Settled DEF MoveOK, SameEvents, RestOK, RoleOK, EventsOK
    <2>4. CASE ~ TimewaitCallback
      <3>1. EventFits(t, "TIMEOUT_REP")
        BY <2>1, <2>3 DEF EventFits, Queued, Replied
      <3>2. Quiet(r, SetNotification(t, "TIMEOUT_REP"))
        BY <2>1, <3>1, QuietTold, EventNames
      <3> QED
        BY <2>2, <2>4, <3>2
    <2>5. CASE TimewaitCallback
      <3>1. /\ s.state = t.state /\ s.mode = t.mode /\ s.lcid = t.lcid /\ s.lep = t.lep
            /\ s.rep = t.rep /\ s.parent = t.parent /\ s.timer = t.timer /\ s.dgrm = t.dgrm
            /\ s.busy = t.busy /\ s.cb = t.cb /\ s.cbref = t.cbref /\ s.item = t.item
            /\ s.flags = {"TIMEOUT_REP"}
        BY <2>1, <2>3 DEF EventSet, CepObject
      <3> HIDE DEF s
      <3>2. IdleOK(s) /\ RoleOK(s) /\ DgrmOK(s) /\ EventsOK(s)
        BY <2>1, <2>3, <3>1 DEF RestOK, IdleOK, RoleOK, DgrmOK, EventsOK, ReplyArrived, Queued,
           Replied
      <3>3. t.cbref \in Nat /\ t.item \in {"none", "queued", "running"} /\ CallbackOK(t)
        BY <2>1 DEF CepObject, RecOK, CallbackOK, MoveOK, SameEvents
      <3>4. Owed(s) = {} /\ Coming(s) >= 0
        BY <3>1, <3>3 DEF Owed, Coming, CallbackOK
      <3>5. OwedOK(s)
        BY <3>4, FS_EmptySet DEF OwedOK
      <3>6. KeysKept(r, s) /\ QpKept(r, s) /\ ~ Destroying(s)
        BY <2>1, <3>1 DEF MoveOK, KeysKept, QpKept, Destroying
      <3>7. AnswerKept(r, s) /\ FinalKept(r, s)
        BY <2>1, <3>1, AnswerStates DEF AnswerKept, FinalKept, Replied
      <3>8. Quiet(r, s)
        BY <3>2, <3>5, <3>6, <3>7 DEF Quiet, Sound, RestOK, Alive
      <3> QED
        BY <2>2, <2>5, <3>8
    <2> QED
      BY <2>4, <2>5
  <1> QED
    BY <1>1, <1>2

(* The callback of the DREQ timer.                                         *)
LEMMA DreqTimeoutQuiet ==
    ASSUME NEW r, NEW again \in BOOLEAN, RecOK(r), RestOK(r), r.state = "DREQ_SENT"
    PROVE  Quiet(r, DreqTimeout(Expired(r), again))
  <1>1. CASE again
    BY <1>1, RetryQuiet DEF DreqTimeout
  <1>2. CASE ~ again
    <2> DEFINE s == CepToTimewait(Expired(r))
    <2>1. s \in CepObject /\ MoveOK(r, s) /\ s.state = "TIMEWAIT"
      BY TimedOutTimewait
    <2>2. DreqTimeout(Expired(r), again) = IF TimewaitCallback THEN s
                                           ELSE SetNotification(s, "TIMEOUT_DREQ")
      BY <1>2 DEF DreqTimeout
    <2> HIDE DEF s
    <2>3. EventFits(s, "TIMEOUT_DREQ")
      BY <2>1 DEF EventFits, MoveOK, SameEvents, RestOK, EventsOK, Queued, Replied
    <2>4. Quiet(r, s) /\ Quiet(r, SetNotification(s, "TIMEOUT_DREQ"))
      BY <2>1, <2>3, QuietMove, QuietTold, EventNames
    <2> QED
      BY <2>2, <2>4
  <1> QED
    BY <1>1, <1>2

(* The end of TIMEWAIT.                                                    *)
LEMMA TimewaitOverQuiet ==
    ASSUME NEW r, RecOK(r), RestOK(r), r.state = "TIMEWAIT"
    PROVE  Quiet(r, TimewaitOver(Expired(r)))
  <1> DEFINE i == [CepToIdle(Expired(r)) EXCEPT !.retry = 0]
  <1>1. i \in CepObject /\ MoveOK(r, i) /\ i.state = "IDLE"
    BY TimedOutIdle
  <1>2. TimewaitOver(Expired(r)) =
            IF Destroying(i) /\ i.cbref = 0 THEN DestroyCEP(i)
            ELSE IF TimewaitCallback THEN SetNotification(i, "TIMEOUT_TIMEWAIT") ELSE i
    BY DEF TimewaitOver
  <1> HIDE DEF i
  <1>3. RestOK(i) /\ (Destroying(i) <=> Destroying(r)) /\ IdleOK(i)
    BY <1>1, Settled DEF MoveOK
  <1>4. Quiet(r, DestroyCEP(i))
    <2> DEFINE s == DestroyCEP(i)
    <2>1. /\ RestOK(s) /\ s.state = "FREE" /\ s.lcid = i.lcid /\ s.lep = None /\ s.rep = None
          /\ s.parent = None /\ s.timer = FALSE /\ ~ Destroying(s)
      BY <1>1, <1>3, FreedFields DEF IdleOK
    <2> HIDE DEF s
    <2>2. KeysKept(r, s) /\ QpKept(r, s)
      BY <1>1, <2>1 DEF MoveOK, KeysKept, QpKept
    <2>3. AnswerKept(r, s) /\ FinalKept(r, s)
      BY <2>1 DEF AnswerKept, FinalKept
    <2>4. Quiet(r, s)
      BY <2>1, <2>2, <2>3 DEF Quiet, Sound, Alive
    <2> QED
      BY <2>4 DEF s
  <1>5. Quiet(r, SetNotification(i, "TIMEOUT_TIMEWAIT"))
    <2>1. EventFits(i, "TIMEOUT_TIMEWAIT")
      BY <1>1 DEF EventFits, Queued, Replied
    <2> QED
      BY <1>1, <2>1, QuietTold, EventNames DEF FinalEvent
  <1>6. ASSUME ~ TimewaitCallback PROVE Quiet(r, i)
    <2>1. r.flags \ i.flags = {}
      BY <1>1 DEF MoveOK, SameEvents
    <2>2. AnswerKept(r, i) /\ FinalKept(r, i)
      BY <1>6, <2>1 DEF AnswerKept, FinalKept
    <2> QED
      BY <1>1, <1>3, <2>2 DEF Quiet, Sound, Alive, MoveOK
  <1> QED
    BY <1>2, <1>4, <1>5, <1>6

-----------------------------------------------------------------------------
(* Expiry, send completion and user callbacks.                             *)

(* The expiry of a timer by itself.                                        *)
LEMMA DueQuiet ==
    ASSUME NEW r, NEW x, RecOK(r), RestOK(r)
    PROVE  Quiet(r, [r EXCEPT !.due = x])
  <1> DEFINE s == [r EXCEPT !.due = x]
  <1>0. r \in CepObject
    BY DEF RecOK
  <1>1. /\ s.state = r.state /\ s.dgrm = r.dgrm /\ s.busy = r.busy /\ s.lep = r.lep
        /\ s.rep = r.rep /\ s.lcid = r.lcid /\ s.parent = r.parent
        /\ s.mode = r.mode /\ SameEvents(r, s)
    BY <1>0 DEF SameEvents, CepObject
  <1> HIDE DEF s
  <1>2. RestOK(s) /\ (Destroying(s) <=> Destroying(r)) /\ r.flags \ s.flags = {}
    BY <1>1 DEF RestOK, IdleOK, RoleOK, DgrmOK, EventsOK, OwedOK, Owed, Coming, Destroying,
       SameEvents
  <1>3. Quiet(r, s)
    BY <1>1, <1>2 DEF Quiet, Sound, QpKept, AnswerKept, FinalKept, KeysKept, Alive
  <1> QED
    BY <1>3 DEF s

(* GsaSendCompleteCallback.                                                *)
LEMMA SendCompleteQuiet ==
    ASSUME NEW r, RecOK(r), RestOK(r)
    PROVE  Quiet(r, [r EXCEPT !.busy = FALSE])
  <1> DEFINE s == [r EXCEPT !.busy = FALSE]
  <1>0. r \in CepObject
    BY DEF RecOK
  <1>1. /\ s.state = r.state /\ s.dgrm = r.dgrm /\ s.busy = FALSE /\ s.lep = r.lep
        /\ s.rep = r.rep /\ s.lcid = r.lcid /\ s.parent = r.parent
        /\ s.mode = r.mode /\ SameEvents(r, s)
    BY <1>0 DEF SameEvents, CepObject
  <1> HIDE DEF s
  <1>2. RestOK(s) /\ (Destroying(s) <=> Destroying(r)) /\ r.flags \ s.flags = {}
    BY <1>1 DEF RestOK, IdleOK, RoleOK, DgrmOK, EventsOK, OwedOK, Owed, Coming, Destroying,
       SameEvents
  <1>3. Quiet(r, s)
    BY <1>1, <1>2 DEF Quiet, Sound, QpKept, AnswerKept, FinalKept, KeysKept, Alive
  <1> QED
    BY <1>3 DEF s

(* A set of numbers that is not empty has a least element.                 *)
LEMMA LeastOf ==
    ASSUME NEW T, T \subseteq Nat, T # {}
    PROVE  \E i \in T : \A j \in T : i <= j
  <1> DEFINE R == OpToRel(<, Nat)
  <1>1. IsWellFoundedOn(R, Nat)
    BY NatLessThanWellFounded
  <1>2. PICK x \in T : \A y \in T : ~ (<<y, x>> \in R)
    BY <1>1, WFMin, Zenon
  <1>3. \A y \in T : y < x => <<y, x>> \in R
    BY DEF OpToRel
  <1> HIDE DEF R
  <1>4. ASSUME NEW y \in T PROVE x <= y
    <2>1. ~ (y < x)
      BY <1>2, <1>3, Zenon
    <2>2. x \in Nat /\ y \in Nat
      OBVIOUS
    <2> QED
      BY <2>1, <2>2
  <1> QED
    BY <1>4

(* The list of GetConnInfo is finite.                                      *)
LEMMA ReportedDomain == \A s : DOMAIN Reported(s) \subseteq Nat
  BY DEF Reported

(* GetConnInfo picks one of the events it looks for, if one is queued.     *)
LEMMA Picked ==
    ASSUME NEW r
    PROVE  LET order == Reported(r.state)
               hits == {i \in DOMAIN order : order[i] \in r.flags}
           IN  /\ hits = {} => PickedEvent(r) = None
               /\ hits # {} => \E i \in hits : PickedEvent(r) = order[i]
  <1> DEFINE order == Reported(r.state)
             hits == {i \in DOMAIN order : order[i] \in r.flags}
             k == CHOOSE i \in hits : \A j \in hits : i <= j
  <1>1. PickedEvent(r) = IF hits = {} THEN None ELSE order[k]
    BY DEF PickedEvent
  <1>2. hits \subseteq Nat
    BY ReportedDomain
  <1> HIDE DEF hits
  <1>3. hits # {} => k \in hits
    BY <1>2, LeastOf
  <1> HIDE DEF k, order
  <1>4. /\ hits = {} => PickedEvent(r) = None
        /\ hits # {} => \E i \in hits : PickedEvent(r) = order[i]
    BY <1>1, <1>3
  <1> QED
    BY <1>4 DEF hits, order

(* What it leaves queued is fewer by an event, if one was owed, and lacks  *)
(* the event the user must answer only if that was picked.                 *)
LEMMA KeptFacts ==
    ASSUME NEW r, RecOK(r), RestOK(r), ~ Destroying(r)
    PROVE  /\ KeptEvents(r) \subseteq r.flags
           /\ \/ KeptEvents(r) \subseteq {"TIMEOUT_REP"}
              \/ \E e \in Owed(r) : KeptEvents(r) = r.flags \ {e}
           /\ r.state \in DOMAIN AnswerDue /\ AnswerDue[r.state] \in r.flags \ KeptEvents(r)
                  => PickedEvent(r) = AnswerDue[r.state]
  <1> DEFINE e == PickedEvent(r)
             order == Reported(r.state)
             hits == {i \in DOMAIN order : order[i] \in r.flags}
  <1>1. /\ hits = {} => e = None
        /\ hits # {} => \E i \in hits : e = order[i]
    BY Picked
  <1>2. e = None \/ e \in r.flags
    BY <1>1
  <1>3. e \in Event => e \in r.flags
    BY <1>2, NoneIsNoEvent
  <1>4. KeptEvents(r) =
            CASE r.state = "TIMEWAIT" /\ e = "TIMEOUT_REP" /\ TimewaitCallback -> r.flags
              [] r.state = "IDLE" /\ e \in {"RCVD_REJ", "RCVD_DREP"} -> r.flags \ {e}
              [] r.state \in {"DREQ_RCVD", "SIM_DREQ_RCVD"} /\ e = "RCVD_RTU" -> r.flags \ {e}
              [] OTHER -> {}
    BY DEF KeptEvents
  <1>5. ASSUME r.state \in DOMAIN AnswerDue, AnswerDue[r.state] \in r.flags \ KeptEvents(r)
        PROVE  e = AnswerDue[r.state]
    <2>1. CASE r.state = "REP_RCVD"
      <3>1. order = <<"RCVD_REP">> /\ "RCVD_REP" \in r.flags
        BY <1>5, <2>1, AnswerStates DEF Reported
      <3>2. 1 \in hits /\ hits \subseteq {1}
        BY <3>1
      <3>3. e = order[1]
        BY <1>1, <3>2
      <3> QED
        BY <2>1, <3>1, <3>3, AnswerStates
    <2>2. CASE r.state = "DREQ_RCVD"
      <3>1. order = <<"RCVD_RTU", "RCVD_DREQ">> /\ "RCVD_DREQ" \in r.flags
        BY <1>5, <2>2, AnswerStates DEF Reported
      <3>2. 2 \in hits /\ hits \subseteq {1, 2}
        BY <3>1
      <3>3. e = "RCVD_RTU" \/ e = "RCVD_DREQ"
        BY <1>1, <3>1, <3>2
      <3>4. e # "RCVD_RTU"
        BY <1>4, <1>5, <2>2, AnswerStates
      <3> QED
        BY <2>2, <3>3, <3>4, AnswerStates
    <2>3. CASE r.state = "SIM_DREQ_RCVD"
      <3>1. order = <<"RCVD_RTU", "SIM_RCVD_DREQ">> /\ "SIM_RCVD_DREQ" \in r.flags
        BY <1>5, <2>3, AnswerStates DEF Reported
      <3>2. 2 \in hits /\ hits \subseteq {1, 2}
        BY <3>1
      <3>3. e = "RCVD_RTU" \/ e = "SIM_RCVD_DREQ"
        BY <1>1, <3>1, <3>2
      <3>4. e # "RCVD_RTU"
        BY <1>4, <1>5, <2>3, AnswerStates
      <3> QED
        BY <2>3, <3>3, <3>4, AnswerStates
    <2> QED
      BY <1>5, <2>1, <2>2, <2>3, AnswerStates
  <1> HIDE DEF e, hits, order
  <1>6. KeptEvents(r) \subseteq r.flags
    BY <1>4
  <1>7. \/ KeptEvents(r) \subseteq {"TIMEOUT_REP"}
        \/ \E x \in Owed(r) : KeptEvents(r) = r.flags \ {x}
    <2>1. CASE r.state = "TIMEWAIT" /\ e = "TIMEOUT_REP" /\ TimewaitCallback
      <3>1. "TIMEOUT_REP" \in r.flags
        BY <1>3, <2>1 DEF Event
      <3>2. r.flags \subseteq {"TIMEOUT_REP", "USRE_DESTROY"}
        BY <2>1, <3>1 DEF RestOK, EventsOK
      <3>3. r.flags \subseteq {"TIMEOUT_REP"}
        BY <3>2 DEF Destroying
      <3> QED
        BY <1>6, <3>3
    <2>2. CASE \/ r.state = "IDLE" /\ e \in {"RCVD_REJ", "RCVD_DREP"}
               \/ r.state \in {"DREQ_RCVD", "SIM_DREQ_RCVD"} /\ e = "RCVD_RTU"
      <3>1. KeptEvents(r) = r.flags \ {e}
        BY <1>4, <2>2
      <3>2. e \in Owed(r)
        BY <1>3, <2>2 DEF Owed, Event
      <3> QED
        BY <3>1, <3>2
    <2>3. CASE /\ ~ (r.state = "TIMEWAIT" /\ e = "TIMEOUT_REP" /\ TimewaitCallback)
               /\ ~ (r.state = "IDLE" /\ e \in {"RCVD_REJ", "RCVD_DREP"})
               /\ ~ (r.state \in {"DREQ_RCVD", "SIM_DREQ_RCVD"} /\ e = "RCVD_RTU")
      BY <1>4, <2>3
    <2> QED
      BY <2>1, <2>2, <2>3
  <1> QED
    BY <1>5, <1>6, <1>7 DEF e

(* GetConnInfo, followed by a callback (n = "running") or not.             *)
LEMMA ConnInfoQuiet ==
    ASSUME NEW r, NEW s, RecOK(r), RestOK(r), ~ Destroying(r),
           s.state = r.state, s.lcid = r.lcid, s.lep = r.lep, s.rep = r.rep,
           s.parent = r.parent, s.dgrm = r.dgrm, s.busy = r.busy, s.cb = r.cb,
           s.cbref = r.cbref, s.flags = KeptEvents(r),
           s.mode = IF r.state = "IDLE" /\ KeptEvents(r) = {} THEN "NONE" ELSE r.mode,
           ~ r.cb \/ (r.item = "queued" /\ s.item = "running")
    PROVE  Quiet(r, s)
  <1>1. /\ s.flags \subseteq r.flags
        /\ s.flags \subseteq {"TIMEOUT_REP"} \/ \E e \in Owed(r) : s.flags = r.flags \ {e}
        /\ r.state \in DOMAIN AnswerDue /\ AnswerDue[r.state] \in r.flags \ s.flags
               => PickedEvent(r) = AnswerDue[r.state]
    BY KeptFacts
  <1>2. ~ Destroying(s)
    BY <1>1 DEF Destroying
  <1>3. IdleOK(s) /\ DgrmOK(s) /\ EventsOK(s)
    BY <1>1 DEF RestOK, IdleOK, DgrmOK, EventsOK
  <1>4. RoleOK(s)
    <2>1. RoleOK(r) /\ s.flags = KeptEvents(r)
      BY DEF RestOK
    <2>2. CASE r.state = "IDLE" /\ KeptEvents(r) = {}
      BY <2>2 DEF RoleOK, ReplyArrived, Queued, Replied
    <2>3. CASE ~ (r.state = "IDLE" /\ KeptEvents(r) = {})
      <3>1. s.mode = r.mode
        BY <2>3
      <3> QED
        BY <1>1, <2>1, <3>1 DEF RoleOK
    <2> QED
      BY <2>2, <2>3
  <1>5. OwedOK(s)
    <2>1. SUFFICES ASSUME s.cb PROVE Cardinality(Owed(s)) <= Coming(s)
      BY DEF OwedOK
    <2>2. r.item = "queued" /\ s.item = "running" /\ r.cb
      BY <2>1
    <2>3. r.cbref \in Nat /\ r.cbref > 0 /\ r.flags \subseteq Event
      BY <2>2 DEF RecOK, CallbackOK, CepObject
    <2>4. Coming(s) = r.cbref - 1 /\ Coming(r) = r.cbref
      BY <2>2 DEF Coming
    <2>5. CASE s.flags \subseteq {"TIMEOUT_REP"}
      <3>1. Owed(s) = {}
        BY <2>5 DEF Owed
      <3> QED
        BY <2>3, <2>4, <3>1, FS_EmptySet
    <2>6. CASE \E e \in Owed(r) : s.flags = r.flags \ {e}
      <3>1. PICK e \in Owed(r) : s.flags = r.flags \ {e}
        BY <2>6
      <3>2. Owed(s) = Owed(r) \ {e}
        BY <3>1 DEF Owed
      <3>3. IsFiniteSet(Owed(r)) /\ Cardinality(Owed(r)) \in Nat
        BY <2>3, EventsFinite, FS_Subset, FS_CardinalityType DEF Owed
      <3>4. Cardinality(Owed(s)) = Cardinality(Owed(r)) - 1
        BY <3>1, <3>2, <3>3, FS_RemoveElement
      <3>5. Cardinality(Owed(r)) <= Coming(r)
        BY <2>2 DEF RestOK, OwedOK
      <3> QED
        BY <2>3, <2>4, <3>3, <3>4, <3>5
    <2> QED
      BY <1>1, <2>5, <2>6
  <1>6. QpKept(r, s) /\ KeysKept(r, s) /\ FinalKept(r, s)
    BY DEF QpKept, KeysKept, FinalKept
  <1>7. AnswerKept(r, s)
    BY <1>1 DEF AnswerKept
  <1> QED
    BY <1>2, <1>3, <1>4, <1>5, <1>6, <1>7 DEF Quiet, Sound, RestOK, Alive

(* iba_cm_wait, for a user without a callback.                             *)
LEMMA WaitQuiet ==
    ASSUME NEW r, RecOK(r), RestOK(r), ~ Destroying(r), ~ r.cb
    PROVE  Quiet(r, GetConnInfo(r))
  <1> DEFINE s == GetConnInfo(r)
  <1>0. r \in CepObject
    BY DEF RecOK
  <1>1. /\ s.state = r.state /\ s.lcid = r.lcid /\ s.lep = r.lep /\ s.rep = r.rep
        /\ s.parent = r.parent /\ s.dgrm = r.dgrm /\ s.busy = r.busy /\ s.cb = r.cb
        /\ s.cbref = r.cbref /\ s.flags = KeptEvents(r)
        /\ s.mode = IF r.state = "IDLE" /\ KeptEvents(r) = {} THEN "NONE" ELSE r.mode
    BY <1>0 DEF GetConnInfo, CepObject
  <1> HIDE DEF s
  <1>2. Quiet(r, s)
    BY <1>1, ConnInfoQuiet
  <1> QED
    BY <1>2 DEF s

(* CmSystemCallback: the callback takes an event with it.                  *)
LEMMA SystemCallbackQuiet ==
    ASSUME NEW r, RecOK(r), RestOK(r), r.item = "queued"
    PROVE  LET s == IF Destroying(r) THEN r ELSE GetConnInfo(r)
           IN  Quiet(r, [s EXCEPT !.item = "running"])
  <1>0. r \in CepObject
    BY DEF RecOK
  <1>1. CASE Destroying(r)
    <2> DEFINE s == [r EXCEPT !.item = "running"]
    <2>1. /\ s.state = r.state /\ s.dgrm = r.dgrm /\ s.busy = r.busy /\ s.lep = r.lep
          /\ s.rep = r.rep /\ s.lcid = r.lcid /\ s.parent = r.parent
          /\ s.mode = r.mode /\ s.flags = r.flags
      BY <1>0 DEF CepObject
    <2> HIDE DEF s
    <2>2. Destroying(s) /\ RestOK(s) /\ r.flags \ s.flags = {}
      BY <1>1, <2>1 DEF RestOK, IdleOK, RoleOK, DgrmOK, EventsOK, OwedOK, Destroying
    <2>3. Quiet(r, s)
      BY <1>1, <2>1, <2>2 DEF Quiet, Sound, QpKept, AnswerKept, FinalKept, KeysKept, Alive
    <2> QED
      BY <1>1, <2>3 DEF s
  <1>2. CASE ~ Destroying(r)
    <2> DEFINE k == KeptEvents(r)
               m == IF r.state = "IDLE" /\ k = {} THEN "NONE" ELSE r.mode
               s == [[r EXCEPT !.flags = k, !.mode = m] EXCEPT !.item = "running"]
    <2>1. [GetConnInfo(r) EXCEPT !.item = "running"] = s
      BY DEF GetConnInfo
    <2> HIDE DEF k, m
    <2>2. /\ s.state = r.state /\ s.lcid = r.lcid /\ s.lep = r.lep /\ s.rep = r.rep
          /\ s.parent = r.parent /\ s.dgrm = r.dgrm /\ s.busy = r.busy /\ s.cb = r.cb
          /\ s.cbref = r.cbref /\ s.flags = k /\ s.mode = m /\ s.item = "running"
      BY <1>0 DEF CepObject
    <2> HIDE DEF s
    <2>3. Quiet(r, s)
      BY <1>2, <2>2, ConnInfoQuiet DEF k, m
    <2> QED
      BY <1>2, <2>1, <2>3
  <1> QED
    BY <1>1, <1>2

(* The item of a CEP changes hands: the callbacks to come stay the same    *)
(* unless its user has destroyed it.                                       *)
LEMMA ItemQuiet ==
    ASSUME NEW r, NEW n, NEW i, RecOK(r), RestOK(r), r.item = "running",
           Destroying(r) \/ (n = r.cbref - 1 /\ i # "running")
    PROVE  Quiet(r, [r EXCEPT !.cbref = n, !.item = i])
  <1> DEFINE s == [r EXCEPT !.cbref = n, !.item = i]
  <1>0. r \in CepObject
    BY DEF RecOK
  <1>1. /\ s.state = r.state /\ s.dgrm = r.dgrm /\ s.busy = r.busy /\ s.lep = r.lep
        /\ s.rep = r.rep /\ s.lcid = r.lcid /\ s.parent = r.parent
        /\ s.mode = r.mode /\ s.flags = r.flags /\ s.cb = r.cb /\ s.cbref = n /\ s.item = i
    BY <1>0 DEF CepObject
  <1> HIDE DEF s
  <1>2. IdleOK(s) /\ RoleOK(s) /\ DgrmOK(s) /\ EventsOK(s)
    BY <1>1 DEF RestOK, IdleOK, RoleOK, DgrmOK, EventsOK
  <1>3. OwedOK(s)
    BY <1>1 DEF RestOK, OwedOK, Owed, Coming, Destroying
  <1>4. r.flags \ s.flags = {} /\ (Destroying(s) <=> Destroying(r))
    BY <1>1 DEF Destroying
  <1>5. Quiet(r, s)
    BY <1>1, <1>2, <1>3, <1>4 DEF Quiet, Sound, RestOK, QpKept, AnswerKept, FinalKept,
       KeysKept, Alive
  <1> QED
    BY <1>5 DEF s

(* CmDoneCallback: the callback is over.                                   *)
LEMMA DoneQuiet ==
    ASSUME NEW r, RecOK(r), RestOK(r), r.item = "running"
    PROVE  Quiet(r, Done(r))
  <1>0. r \in CepObject
    BY DEF RecOK
  <1>1. CASE ~ Destroying(r)
    <2> DEFINE n == r.cbref - 1
               i == IF r.cbref > 1 THEN "queued" ELSE "none"
    <2>1. Done(r) = [r EXCEPT !.cbref = n, !.item = i]
      BY <1>1 DEF Done
    <2>2. n = r.cbref - 1 /\ i # "running"
      OBVIOUS
    <2> HIDE DEF n, i
    <2>3. Quiet(r, [r EXCEPT !.cbref = n, !.item = i])
      BY <2>2, ItemQuiet
    <2> QED
      BY <2>1, <2>3
  <1>2. CASE Destroying(r) /\ r.state # "IDLE"
    <2> DEFINE n == 0
               i == "none"
    <2>1. Done(r) = [r EXCEPT !.cbref = n, !.item = i]
      BY <1>2 DEF Done
    <2> HIDE DEF n, i
    <2>2. Quiet(r, [r EXCEPT !.cbref = n, !.item = i])
      BY <1>2, ItemQuiet
    <2> QED
      BY <2>1, <2>2
  <1>3. CASE Destroying(r) /\ r.state = "IDLE"
    <2> DEFINE last == [r EXCEPT !.cbref = 0, !.item = "none"]
               s == DestroyCEP(last)
    <2>1. Done(r) = s
      BY <1>3 DEF Done
    <2>2. /\ last.lcid = r.lcid /\ last.lep = None /\ last.rep = None
          /\ DgrmMayFail \/ last.lcid = 0
          /\ r.lep = None /\ r.rep = None
      BY <1>0, <1>3 DEF RestOK, IdleOK, CepObject
    <2> HIDE DEF last
    <2>3. /\ RestOK(s) /\ s.state = "FREE" /\ s.lcid = r.lcid /\ s.lep = None /\ s.rep = None
          /\ s.parent = None /\ ~ Destroying(s)
      BY <2>2, FreedFields
    <2> HIDE DEF s
    <2>4. AnswerKept(r, s) /\ FinalKept(r, s) /\ QpKept(r, s) /\ KeysKept(r, s)
      BY <1>3, <2>2, <2>3 DEF AnswerKept, FinalKept, QpKept, KeysKept
    <2> QED
      BY <2>1, <2>3, <2>4 DEF Quiet, Sound, Alive
  <1> QED
    BY <1>1, <1>2, <1>3

-----------------------------------------------------------------------------
(* Beginnings and ends, and the steps on two CEPs.                         *)

(* A CEP without events, in a state that its role and its datagram fit.    *)
LEMMA FreshSound ==
    ASSUME NEW r, NEW s, s.cbref \in Nat, CallbackOK(s), s.flags = {}, IdleOK(s), DgrmOK(s),
           s.state \in {"REQ_SENT", "REP_WAIT"} \cup ReplyArrived => s.mode = "ACTIVE",
           s.state \in {"LISTEN"} \cup Queued \cup Replied => s.mode = "PASSIVE",
           r.state \notin Connected \cup {"REP_RCVD"},
           s.state = "IDLE" => r.state \in {"FREE", "IDLE"}
    PROVE  Sound(r, s) /\ ~ Destroying(s)
  <1>1. Owed(s) = {} /\ Coming(s) >= 0
    BY DEF Owed, Coming, CallbackOK
  <1>2. RestOK(s) /\ ~ Destroying(s)
    BY <1>1, FS_EmptySet DEF RestOK, RoleOK, EventsOK, OwedOK, Destroying
  <1>3. QpKept(r, s) /\ FinalKept(r, s)
    BY DEF QpKept, FinalKept
  <1>4. AnswerKept(r, s)
    BY AnswerStates DEF AnswerKept, Connected
  <1> QED
    BY <1>2, <1>3, <1>4 DEF Sound

(* iba_cm_create_cep.                                                      *)
LEMMA CreateQuiet ==
    ASSUME NEW r, r.state = "FREE"
    PROVE  Quiet(r, NewCep)
  <1> DEFINE s == NewCep
  <1>1. /\ s.state = "IDLE" /\ s.lcid = 0 /\ s.lep = None /\ s.rep = None /\ s.parent = None
        /\ s.cbref = 0 /\ s.item = "none" /\ s.flags = {} /\ s.busy = FALSE
    BY DEF NewCep
  <1> HIDE DEF s
  <1>2. CallbackOK(s) /\ IdleOK(s) /\ DgrmOK(s)
    BY <1>1 DEF CallbackOK, IdleOK, DgrmOK, ReplyArrived, Queued, Replied
  <1>3. Sound(r, s) /\ ~ Destroying(s)
    BY <1>1, <1>2, FreshSound DEF ReplyArrived, Queued, Replied, Connected
  <1>4. Quiet(r, s)
    BY <1>1, <1>3 DEF Quiet, KeysKept, Alive
  <1> QED
    BY <1>4 DEF s

(* iba_cm_connect, from the CEP p that it has filled in.                   *)
LEMMA ConnectSound ==
    ASSUME NEW r, NEW p \in CepObject, RecOK(r), r.state = "IDLE", p.flags = {},
           p.mode = "ACTIVE", p.cbref = r.cbref, p.item = r.item
    PROVE  LET s == CmTimerStart(CepSetState(CepSend(p, "REQ"), "REQ_SENT"))
           IN  /\ Sound(r, s) /\ ~ Destroying(s)
               /\ s.lcid = p.lcid /\ s.lep = p.lep /\ s.rep = p.rep /\ s.parent = p.parent
  <1> DEFINE s == CmTimerStart(CepSetState(CepSend(p, "REQ"), "REQ_SENT"))
  <1>1. /\ s.state = "REQ_SENT" /\ s.mode = p.mode /\ s.dgrm = "REQ" /\ s.busy = SlowSends
        /\ s.flags = p.flags /\ s.cbref = p.cbref /\ s.item = p.item
        /\ s.lcid = p.lcid /\ s.lep = p.lep /\ s.rep = p.rep /\ s.parent = p.parent
    BY DEF CepObject, CmTimerStart, CepSetState, CepSend
  <1> HIDE DEF s
  <1>2. CallbackOK(s) /\ s.cbref \in Nat
    BY <1>1 DEF RecOK, CallbackOK, CepObject
  <1>3. IdleOK(s) /\ DgrmOK(s)
    BY <1>1 DEF IdleOK, DgrmOK, ReplyArrived, Queued, Replied
  <1>4. Sound(r, s) /\ ~ Destroying(s)
    BY <1>1, <1>2, <1>3, FreshSound DEF ReplyArrived, Queued, Replied, Connected
  <1> QED
    BY <1>1, <1>4 DEF s

(* iba_cm_connect without a datagram.                                      *)
LEMMA ConnectNoDgrmSound ==
    ASSUME NEW r, NEW s, RecOK(r), RestOK(r), r.state = "IDLE", DgrmMayFail,
           s.state = "IDLE", s.busy = FALSE, s.flags = {}, s.cbref = r.cbref, s.item = r.item,
           s.lep = r.lep, s.rep = r.rep
    PROVE  Sound(r, s) /\ ~ Destroying(s)
  <1>1. CallbackOK(s) /\ s.cbref \in Nat
    BY DEF RecOK, CallbackOK, CepObject
  <1>2. IdleOK(s) /\ DgrmOK(s)
    BY DEF RestOK, IdleOK, DgrmOK, ReplyArrived, Queued, Replied
  <1> QED
    BY <1>1, <1>2, FreshSound DEF ReplyArrived, Queued, Replied, Connected

(* iba_cm_listen.                                                          *)
LEMMA ListenSound ==
    ASSUME NEW r, NEW s, RecOK(r), r.state = "IDLE", s.state = "LISTEN", s.mode = "PASSIVE",
           s.busy = FALSE, s.flags = {}, s.cbref = r.cbref, s.item = r.item
    PROVE  Sound(r, s) /\ ~ Destroying(s)
  <1>1. CallbackOK(s) /\ s.cbref \in Nat
    BY DEF RecOK, CallbackOK, CepObject
  <1>2. IdleOK(s) /\ DgrmOK(s)
    BY DEF IdleOK, DgrmOK, ReplyArrived, Queued, Replied
  <1> QED
    BY <1>1, <1>2, FreshSound DEF ReplyArrived, Queued, Replied, Connected

(* iba_cm_accept on the passive side, from the request p that has got a    *)
(* queue pair.                                                             *)
LEMMA AcceptPSound ==
    ASSUME NEW r, NEW p \in CepObject, RecOK(r), RestOK(r), r.state \in Queued,
           p.mode = r.mode, p.flags = r.flags, p.cbref = r.cbref, p.item = r.item
    PROVE  LET s == CmTimerStart(CepSetState(CepSend(p, "REP"), "REP_SENT"))
           IN  /\ Sound(r, s) /\ ~ Destroying(s)
               /\ s.lcid = p.lcid /\ s.lep = p.lep /\ s.rep = p.rep /\ s.parent = p.parent
  <1> DEFINE s == CmTimerStart(CepSetState(CepSend(p, "REP"), "REP_SENT"))
  <1>1. /\ s.state = "REP_SENT" /\ s.mode = p.mode /\ s.dgrm = "REP" /\ s.busy = SlowSends
        /\ s.flags = p.flags /\ s.cbref = p.cbref /\ s.item = p.item
        /\ s.lcid = p.lcid /\ s.lep = p.lep /\ s.rep = p.rep /\ s.parent = p.parent
    BY DEF CepObject, CmTimerStart, CepSetState, CepSend
  <1> HIDE DEF s
  <1>2. s.flags = {} /\ s.mode = "PASSIVE"
    BY <1>1 DEF RestOK, RoleOK, EventsOK
  <1>3. CallbackOK(s) /\ s.cbref \in Nat
    BY <1>1 DEF RecOK, CallbackOK, CepObject
  <1>4. IdleOK(s) /\ DgrmOK(s)
    BY <1>1 DEF IdleOK, DgrmOK, ReplyArrived, Queued, Replied
  <1>5. Sound(r, s) /\ ~ Destroying(s)
    BY <1>1, <1>2, <1>3, <1>4, FreshSound DEF ReplyArrived, Queued, Replied, Connected
  <1> QED
    BY <1>1, <1>5 DEF s

(* SaveReqToPassiveCEP.                                                    *)
LEMMA ReqSavedSound ==
    ASSUME NEW r, r.state = "FREE", NEW l, NEW m, NEW mra \in BOOLEAN
    PROVE  LET s == SaveReqToPassiveCEP(l, m, mra)
           IN  /\ Sound(r, s) /\ ~ Destroying(s)
               /\ s.lcid = NextCommID(m.dst) /\ s.lep = None /\ s.rep = m.qp /\ s.parent = l
  <1> DEFINE s == SaveReqToPassiveCEP(l, m, mra)
  <1>1. /\ s.state = IF mra THEN "MRA_REQ_SENT" ELSE "REQ_RCVD"
        /\ s.mode = "PASSIVE" /\ s.busy = FALSE /\ s.cbref = 0 /\ s.item = "none"
        /\ s.flags = {}
        /\ s.lcid = NextCommID(m.dst) /\ s.lep = None /\ s.rep = m.qp /\ s.parent = l
    BY DEF SaveReqToPassiveCEP, NewCep
  <1> HIDE DEF s
  <1>2. CallbackOK(s) /\ IdleOK(s) /\ DgrmOK(s)
    BY <1>1 DEF CallbackOK, IdleOK, DgrmOK, ReplyArrived, Queued, Replied
  <1>3. Sound(r, s) /\ ~ Destroying(s)
    BY <1>1, <1>2, FreshSound DEF ReplyArrived, Queued, Replied, Connected
  <1> QED
    BY <1>1, <1>3 DEF s

(* ProcessRep: the reply is taken, with the queue pair of its sender.      *)
LEMMA RepReceivedSound ==
    ASSUME NEW r, NEW m \in Mad, RecOK(r), RestOK(r), r.state \in {"REQ_SENT", "REP_WAIT"}
    PROVE  LET t == RepReceived(m, r)
           IN  /\ Sound(r, t) /\ Alive(r, t)
               /\ t.lcid = r.lcid /\ t.lep = r.lep /\ t.rep = m.qp /\ t.parent = r.parent
  <1> DEFINE p == PrepareCepDgrm(r)
             q == [p EXCEPT !.rep = m.qp, !.rcid = m.lcid]
             s == CepSetState(CmDgrmCopyAddrAndMad(CmTimerStop(q), "REP"), "REP_RCVD")
             r1 == [r EXCEPT !.rep = m.qp]
             t == SetNotification(s, "RCVD_REP")
  <1>0. r \in CepObject
    BY DEF RecOK
  <1>1. p \in CepObject
    BY <1>0, PrepareCepDgrmType
  <1>2. /\ p.flags = r.flags /\ p.cb = r.cb /\ p.cbref = r.cbref /\ p.item = r.item
        /\ p.lcid = r.lcid /\ p.lep = r.lep /\ p.parent = r.parent /\ p.mode = r.mode
        /\ p.busy = FALSE
    BY <1>0 DEF CepObject, PrepareCepDgrm
  <1> HIDE DEF p
  <1>3. q \in CepObject
    BY <1>1 DEF CepObject, Mad
  <1>4. /\ q.flags = r.flags /\ q.cb = r.cb /\ q.cbref = r.cbref /\ q.item = r.item
        /\ q.lcid = r.lcid /\ q.lep = r.lep /\ q.parent = r.parent /\ q.mode = r.mode
        /\ q.busy = FALSE /\ q.rep = m.qp
    BY <1>1, <1>2 DEF CepObject
  <1> HIDE DEF q
  <1>5. s \in CepObject
    BY <1>3, StateNames, MadNames, CmTimerStopType, CmDgrmCopyType, CepSetStateType
  <1>6. /\ s.flags = q.flags /\ s.cb = q.cb /\ s.cbref = q.cbref /\ s.item = q.item
        /\ s.lcid = q.lcid /\ s.lep = q.lep /\ s.parent = q.parent /\ s.mode = q.mode
        /\ s.busy = q.busy /\ s.rep = q.rep /\ s.state = "REP_RCVD"
    BY <1>3 DEF CepObject, CepSetState, CmDgrmCopyAddrAndMad, CmTimerStop
  <1>7. RepReceived(m, r) = t
    BY DEF RepReceived, q, p
  <1> HIDE DEF s
  <1>8. m.qp \in Qp \cup {None}
    BY DEF Mad
  <1>9. r1 \in CepObject
    BY <1>0, <1>8 DEF CepObject
  <1>10. /\ r1.state = r.state /\ r1.timer = r.timer /\ r1.rhost = r.rhost
         /\ r1.parent = r.parent /\ r1.pending = r.pending /\ r1.dgrm = r.dgrm
         /\ r1.busy = r.busy /\ r1.lcid = r.lcid /\ r1.lep = r.lep /\ r1.rep = m.qp
         /\ r1.mode = r.mode /\ SameEvents(r, r1)
    BY <1>0 DEF CepObject, SameEvents
  <1> HIDE DEF r1
  <1>11. RecOK(r1)
    BY <1>9, <1>10 DEF RecOK, SameEvents, TimerOK, CallbackOK, DestroyOK, Destroying
  <1>12. RestOK(r1)
    BY <1>10 DEF RestOK, SameEvents, IdleOK, RoleOK, DgrmOK, EventsOK, OwedOK, Owed, Coming,
       Destroying
  <1>13. s.mode = "ACTIVE"
    BY <1>4, <1>6 DEF RestOK, RoleOK
  <1>14. SameEvents(r1, s) /\ KeysKept(r1, s) /\ s.mode = r1.mode
    BY <1>4, <1>6, <1>10 DEF SameEvents, KeysKept
  <1>15. StateFits(r1, s) /\ IdleOK(s) /\ QpKept(r1, s)
    BY <1>6, <1>10 DEF StateFits, IdleOK, QpKept, Queued, Replied, ReplyArrived, Connected
  <1>16. DgrmOK(s)
    BY <1>4, <1>6 DEF DgrmOK, ReplyArrived, Queued, Replied
  <1>17. EventFits(s, "RCVD_REP")
    BY <1>6, <1>13 DEF EventFits, Queued, Replied
  <1>18. Quiet(r1, t)
    BY <1>5, <1>6, <1>11, <1>12, <1>14, <1>15, <1>16, <1>17, QuietTold, EventNames DEF MoveOK
  <1>19. t.state = "REP_RCVD" /\ t.lcid = s.lcid /\ t.lep = s.lep /\ t.rep = s.rep
         /\ t.parent = s.parent
    <2>1. "RCVD_REP" \in Event
      BY DEF Event
    <2> QED
      BY <1>5, <1>6, <2>1, NotifiedFields
  <1> HIDE DEF t
  <1>20. RestOK(t) /\ Alive(r, t)
    BY <1>10, <1>18 DEF Quiet, Sound, Alive, SameEvents, Destroying
  <1>21. QpKept(r, t) /\ FinalKept(r, t) /\ AnswerKept(r, t)
    BY <1>19, AnswerStates DEF QpKept, FinalKept, AnswerKept, Connected
  <1>22. t.lcid = r.lcid /\ t.lep = r.lep /\ t.rep = m.qp /\ t.parent = r.parent
    BY <1>4, <1>6, <1>19
  <1>23. Sound(r, t)
    BY <1>20, <1>21 DEF Sound
  <1> QED
    BY <1>7, <1>20, <1>22, <1>23, Zenon

(* What EventSet changes.                                                  *)
LEMMA DestroyFields ==
    ASSUME NEW i \in CepObject
    PROVE  LET s == EventSet(i, "USRE_DESTROY")
           IN  /\ s.state = i.state /\ s.mode = i.mode /\ s.lcid = i.lcid /\ s.lep = i.lep
               /\ s.rep = i.rep /\ s.parent = i.parent /\ s.timer = i.timer
               /\ s.dgrm = i.dgrm /\ s.busy = i.busy
               /\ s.flags = i.flags \cup {"USRE_DESTROY"} /\ Destroying(s)
  BY DEF EventSet, CepObject, Destroying

(* The user gives up a connection: the CEP lives on until its timer or its *)
(* callbacks free it.                                                      *)
LEMMA GivenUpSound ==
    ASSUME NEW r, NEW i \in CepObject, Sound(r, i), KeysKept(r, i),
           i.state \notin Queued \cup Replied \cup {"FREE"}
    PROVE  Sound(r, EventSet(i, "USRE_DESTROY")) /\ KeysKept(r, EventSet(i, "USRE_DESTROY"))
  <1> DEFINE s == EventSet(i, "USRE_DESTROY")
  <1>1. /\ s.state = i.state /\ s.mode = i.mode /\ s.lcid = i.lcid /\ s.lep = i.lep
        /\ s.rep = i.rep /\ s.parent = i.parent /\ s.timer = i.timer
        /\ s.dgrm = i.dgrm /\ s.busy = i.busy
        /\ s.flags = i.flags \cup {"USRE_DESTROY"} /\ Destroying(s)
    BY DestroyFields
  <1> HIDE DEF s
  <1>2. RestOK(i)
    BY DEF Sound
  <1>3. IdleOK(s) /\ DgrmOK(s)
    BY <1>1, <1>2 DEF RestOK, IdleOK, DgrmOK
  <1>4. OwedOK(s) /\ FinalKept(r, s)
    BY <1>1 DEF OwedOK, FinalKept
  <1>5. EventsOK(s)
    BY <1>1, <1>2 DEF RestOK, EventsOK
  <1>6. RoleOK(s)
    <2>1. RoleOK(i)
      BY <1>2 DEF RestOK
    <2>2. s.flags \cap {"TIMEOUT_REQ", "RCVD_REP"} = i.flags \cap {"TIMEOUT_REQ", "RCVD_REP"}
          /\ s.flags \cap {"TIMEOUT_REP", "RCVD_RTU", "RCVD_REQ"}
             = i.flags \cap {"TIMEOUT_REP", "RCVD_RTU", "RCVD_REQ"}
      BY <1>1
    <2> QED
      BY <1>1, <2>1, <2>2 DEF RoleOK
  <1>7. QpKept(r, s) /\ KeysKept(r, s)
    BY <1>1 DEF Sound, QpKept, KeysKept
  <1>8. AnswerKept(r, s)
    BY <1>1 DEF Sound, AnswerKept
  <1>9. Sound(r, s) /\ KeysKept(r, s)
    BY <1>3, <1>4, <1>5, <1>6, <1>7, <1>8 DEF Sound, RestOK
  <1> QED
    BY <1>9 DEF s

(* The end of iba_cm_destroy_cep for a CEP that has come to rest.          *)
LEMMA ReleasedSound ==
    ASSUME NEW r, NEW i, RecOK(i), i.state = "IDLE", Sound(r, i), KeysKept(r, i)
    PROVE  Sound(r, Released(i)) /\ KeysKept(r, Released(i))
  <1>0. i \in CepObject /\ RestOK(i)
    BY DEF RecOK, Sound
  <1>1. CASE i.cbref > 0
    <2>1. Sound(r, EventSet(i, "USRE_DESTROY")) /\ KeysKept(r, EventSet(i, "USRE_DESTROY"))
      BY <1>0, GivenUpSound DEF Queued, Replied
    <2> QED
      BY <1>1, <2>1 DEF Released
  <1>2. CASE ~ (i.cbref > 0)
    <2> DEFINE s == DestroyCEP(i)
    <2>1. /\ RestOK(s) /\ s.state = "FREE" /\ s.lcid = i.lcid /\ s.lep = None /\ s.rep = None
          /\ s.parent = None /\ s.timer = FALSE /\ i.lep = None
      BY <1>0, FreedFields DEF RestOK, IdleOK
    <2> HIDE DEF s
    <2>2. KeysKept(r, s) /\ QpKept(r, s)
      BY <2>1 DEF Sound, KeysKept, QpKept
    <2>3. AnswerKept(r, s) /\ FinalKept(r, s)
      BY <2>1, AnswerStates DEF AnswerKept, FinalKept
    <2>4. Sound(r, s) /\ KeysKept(r, s)
      BY <2>1, <2>2, <2>3 DEF Sound
    <2> QED
      BY <1>2, <2>4 DEF Released, s
  <1> QED
    BY <1>1, <1>2

(* A new pending list changes nothing else that matters here.              *)
LEMMA PendingFields ==
    ASSUME NEW r, RecOK(r), RestOK(r), r.state # "FREE", NEW q \in Seq(Cep)
    PROVE  LET s == [r EXCEPT !.pending = q]
           IN  s \in CepObject /\ MoveOK(r, s) /\ s.state = r.state
  <1> DEFINE s == [r EXCEPT !.pending = q]
  <1>0. r \in CepObject
    BY DEF RecOK
  <1>1. s \in CepObject
    BY <1>0 DEF CepObject
  <1>2. /\ s.state = r.state /\ s.mode = r.mode /\ s.lcid = r.lcid /\ s.lep = r.lep
        /\ s.rep = r.rep /\ s.parent = r.parent /\ s.timer = r.timer
        /\ s.dgrm = r.dgrm /\ s.busy = r.busy /\ SameEvents(r, s)
    BY <1>0 DEF CepObject, SameEvents
  <1> HIDE DEF s
  <1>3. KeysKept(r, s) /\ StateFits(r, s) /\ QpKept(r, s)
    BY <1>2 DEF KeysKept, StateFits, QpKept, Queued, Replied, ReplyArrived
  <1>4. IdleOK(s) /\ DgrmOK(s)
    BY <1>2 DEF RestOK, IdleOK, DgrmOK
  <1>5. s \in CepObject /\ MoveOK(r, s) /\ s.state = r.state
    BY <1>1, <1>2, <1>3, <1>4 DEF MoveOK
  <1> QED
    BY <1>5 DEF s

(* A listener whose queue has grown or shrunk, told of it or not.          *)
LEMMA ListenerQuiet ==
    ASSUME NEW r, RecOK(r), RestOK(r), r.state = "LISTEN", NEW q \in Seq(Cep)
    PROVE  LET s == [r EXCEPT !.pending = q]
           IN  Quiet(r, s) /\ Quiet(r, SetNotification(s, "RCVD_REQ"))
  <1> DEFINE s == [r EXCEPT !.pending = q]
  <1>1. s \in CepObject /\ MoveOK(r, s) /\ s.state = "LISTEN"
    BY PendingFields
  <1> HIDE DEF s
  <1>2. EventFits(s, "RCVD_REQ")
    BY <1>1 DEF EventFits, MoveOK, RestOK, RoleOK, Queued, Replied
  <1>3. Quiet(r, s)
    BY <1>1, QuietMove
  <1>4. Quiet(r, SetNotification(s, "RCVD_REQ"))
    BY <1>1, <1>2, QuietTold, EventNames
  <1> QED
    BY <1>3, <1>4 DEF s

(* CancelA and CancelP in a state without a reply to reject.               *)
LEMMA CancelledIdleQuiet ==
    ASSUME NEW r, RecOK(r), RestOK(r),
           r.state \in {"LISTEN", "REQ_SENT", "REP_WAIT", "REP_SENT", "MRA_REP_RCVD"}
    PROVE  Quiet(r, SetNotification(CepToIdle(CmTimerStop([r EXCEPT !.pending = <<>>])),
                                    "USRE_CANCEL"))
  <1> DEFINE q == <<>>
             p == [r EXCEPT !.pending = q]
             s == CepToIdle(CmTimerStop(p))
  <1>0. q \in Seq(Cep)
    OBVIOUS
  <1> HIDE DEF q
  <1>1. p \in CepObject /\ MoveOK(r, p)
    BY <1>0, PendingFields
  <1> HIDE DEF p
  <1>2. s \in CepObject
    BY <1>1, CmTimerStopType, CepToIdleType
  <1>3. /\ s.state = "IDLE" /\ s.mode = p.mode /\ s.lcid = 0 /\ s.lep = None
        /\ s.rep = None /\ s.parent = p.parent /\ s.dgrm = p.dgrm /\ s.busy = p.busy
        /\ SameEvents(p, s)
    BY <1>1 DEF CepObject, CepToIdle, CmTimerStop, ClearEndPoint, SameEvents
  <1> HIDE DEF s
  <1>4. SameEvents(r, s) /\ KeysKept(r, s) /\ s.mode = r.mode
    BY <1>1, <1>3 DEF MoveOK, SameEvents, KeysKept
  <1>5. StateFits(r, s) /\ IdleOK(s) /\ QpKept(r, s)
    BY <1>3 DEF StateFits, IdleOK, QpKept, Queued, Replied, ReplyArrived, Connected
  <1>6. DgrmOK(s)
    BY <1>1, <1>3 DEF MoveOK, DgrmOK, ReplyArrived, Queued, Replied
  <1>7. EventFits(s, "USRE_CANCEL")
    BY <1>3 DEF EventFits, Queued, Replied
  <1>8. MoveOK(r, s)
    BY <1>4, <1>5, <1>6 DEF MoveOK
  <1>9. Quiet(r, SetNotification(s, "USRE_CANCEL"))
    BY <1>2, <1>7, <1>8, QuietTold, EventNames DEF FinalEvent
  <1> QED
    BY <1>9 DEF s, p, q

(* CancelA of a reply: it is rejected.                                     *)
LEMMA CancelledReplyQuiet ==
    ASSUME NEW r, RecOK(r), RestOK(r), r.state \in ReplyArrived
    PROVE  Quiet(r, SetNotification(CepToIdle(CepSend(r, "REJ")), "USRE_CANCEL"))
  <1> DEFINE s == CepToIdle(CepSend(r, "REJ"))
  <1>0. r \in CepObject
    BY DEF RecOK
  <1>1. /\ s.state = "IDLE" /\ s.busy = SlowSends /\ s.lcid = 0 /\ s.lep = None /\ s.rep = None
        /\ SameEvents(r, s) /\ KeysKept(r, s) /\ s.mode = r.mode
    BY <1>0 DEF SameEvents, KeysKept, CepObject, CepToIdle, ClearEndPoint, CepSend
  <1>2. s \in CepObject
    BY <1>0, MadNames, CepSendType, CepToIdleType
  <1> HIDE DEF s
  <1>3. MoveOK(r, s)
    BY <1>1 DEF MoveOK, StateFits, IdleOK, DgrmOK, QpKept, RestOK, RoleOK, EventsOK,
       Queued, Replied, ReplyArrived, Connected
  <1>4. EventFits(s, "USRE_CANCEL")
    BY <1>1 DEF EventFits, Queued, Replied
  <1>5. Quiet(r, SetNotification(s, "USRE_CANCEL"))
    BY <1>1, <1>2, <1>3, <1>4, QuietTold, EventNames DEF FinalEvent
  <1> QED
    BY <1>5 DEF s

(* iba_cm_cancel on any CEP it may cancel.                                 *)
LEMMA CancelledQuiet ==
    ASSUME NEW c \in Cep, RecOK(cep[c]), RestOK(cep[c]),
           cep[c].state \in CancelableA \cup CancelableP
    PROVE  Quiet(cep[c], Cancelled(c))
  <1> DEFINE r == cep[c]
  <1>1. CASE r.state \in ReplyArrived
    <2>1. Cancelled(c) = SetNotification(CepToIdle(CepSend(r, "REJ")), "USRE_CANCEL")
      BY <1>1 DEF Cancelled, RejectedA
    <2> QED
      BY <1>1, <2>1, CancelledReplyQuiet
  <1>2. CASE r.state \notin ReplyArrived
    <2>1. Cancelled(c) = SetNotification(CepToIdle(CmTimerStop([r EXCEPT !.pending = <<>>])),
                                         "USRE_CANCEL")
      BY <1>2 DEF Cancelled
    <2>2. r.state \in {"LISTEN", "REQ_SENT", "REP_WAIT", "REP_SENT", "MRA_REP_RCVD"}
      BY <1>2 DEF CancelableA, CancelableP, ReplyArrived
    <2> QED
      BY <2>1, <2>2, CancelledIdleQuiet
  <1> QED
    BY <1>1, <1>2

(* A request that is rejected or dropped from its queue goes.              *)
LEMMA DroppedQuiet ==
    ASSUME NEW r, RecOK(r), r.state \in Queued
    PROVE  Quiet(r, DestroyCEP(CepToIdle(r)))
  <1> DEFINE i == CepToIdle(r)
             s == DestroyCEP(i)
  <1>1. i.lcid = 0 /\ i.lep = None /\ i.rep = None
    BY DEF RecOK, CepObject, CepToIdle, ClearEndPoint
  <1> HIDE DEF i
  <1>2. /\ RestOK(s) /\ s.state = "FREE" /\ s.lcid = 0 /\ s.lep = None /\ s.rep = None
        /\ s.parent = None /\ ~ Destroying(s)
    BY <1>1, FreedFields
  <1> HIDE DEF s
  <1>3. KeysKept(r, s) /\ QpKept(r, s)
    BY <1>2 DEF KeysKept, QpKept, Queued, Connected
  <1>4. AnswerKept(r, s) /\ FinalKept(r, s)
    BY <1>2, AnswerStates DEF AnswerKept, FinalKept
  <1>5. Quiet(r, s)
    BY <1>2, <1>3, <1>4 DEF Quiet, Sound, Alive
  <1> QED
    BY <1>5 DEF s, i

-----------------------------------------------------------------------------
(* From one CEP to all of them.                                            *)

(* What a step of the specification keeps.                                 *)
RKept == RInv' /\ \A d \in Cep : Sound(cep[d], cep'[d])

(* What the two invariants say of one CEP.                                 *)
LEMMA Known ==
    ASSUME IInv, RInv, NEW c \in Cep
    PROVE  /\ RecOK(cep[c]) /\ RestOK(cep[c]) /\ cep[c] \in CepObject
           /\ HostOf[c] \in Host /\ (c \in owned => ~ Destroying(cep[c]))
  BY CmAssumption DEF IInv, RInv, RecOK, OwnedAlive

(* Only c may take a new key or a new place on a queue: an ID that was     *)
(* never handed out, a queue pair that no CEP of its host has.             *)
LEMMA AllKept ==
    ASSUME IInv, RInv, IInv', NEW c \in Cep,
           \A d \in Cep : Sound(cep[d], cep'[d]),
           \A d \in Cep \ {c} : KeysKept(cep[d], cep'[d]),
           cep'[c].lcid \in {cep[c].lcid, 0, commID[HostOf[c]] + 1},
           cep'[c].lcid \in {cep[c].lcid, 0} \/ commID'[HostOf[c]] = commID[HostOf[c]] + 1,
           cep'[c].lep \in {cep[c].lep, None} \/ ~ LocalEndPointInUse(HostOf[c], cep'[c].lep),
           cep'[c].rep \in {cep[c].rep, None} \/ FindRemoteEndPoint(HostOf[c], cep'[c].rep) = {},
           NearOK(c, cep'[c]),
           \A h \in Host : commID'[h] >= commID[h],
           \A d \in owned' : d \in Cep /\ ~ Destroying(cep'[d])
    PROVE  RKept
  <1>1. \A d \in Cep : RestOK(cep'[d])
    BY DEF Sound
  <1>2. \A d \in Cep : /\ HostOf[d] \in Host /\ cep[d].lcid \in Nat /\ cep'[d].lcid \in Nat
                       /\ commID[HostOf[d]] \in Nat /\ commID'[HostOf[d]] \in Nat
                       /\ cep[d].lcid <= commID[HostOf[d]]
    BY CmAssumption DEF IInv, CepObject, RInv, CommIDsHandedOut
  <1>3. CommIDsHandedOut'
    <2>1. ASSUME NEW d \in Cep PROVE cep'[d].lcid <= commID'[HostOf[d]]
      <3>1. commID'[HostOf[d]] >= commID[HostOf[d]]
        BY <1>2
      <3>2. CASE d = c
        BY <1>2, <3>1, <3>2
      <3>3. CASE d # c
        <4>1. cep'[d].lcid \in {cep[d].lcid, 0}
          BY <3>3 DEF KeysKept
        <4> QED
          BY <1>2, <3>1, <4>1
      <3> QED
        BY <3>2, <3>3
    <2> QED
      BY <2>1 DEF CommIDsHandedOut
  <1>4. UniqueKeys'
    <2> SUFFICES ASSUME NEW a \in Cep, NEW b \in Cep, a # b, HostOf[a] = HostOf[b]
                 PROVE  /\ cep'[a].lcid # 0 => cep'[a].lcid # cep'[b].lcid
                        /\ cep'[a].lep # None => cep'[a].lep # cep'[b].lep
                        /\ cep'[a].rep # None => cep'[a].rep # cep'[b].rep
      BY DEF UniqueKeys
    <2>1. /\ cep[a].lcid # 0 => cep[a].lcid # cep[b].lcid
          /\ cep[a].lep # None => cep[a].lep # cep[b].lep
          /\ cep[a].rep # None => cep[a].rep # cep[b].rep
          /\ cep[b].lcid # 0 => cep[a].lcid # cep[b].lcid
          /\ cep[b].lep # None => cep[a].lep # cep[b].lep
          /\ cep[b].rep # None => cep[a].rep # cep[b].rep
      BY DEF RInv, UniqueKeys
    <2>2. a # c => KeysKept(cep[a], cep'[a])
      OBVIOUS
    <2>3. b # c => KeysKept(cep[b], cep'[b])
      OBVIOUS
    <2>4. \A d \in Cep : HostOf[d] = HostOf[c] => cep[d].lcid < commID[HostOf[c]] + 1
      BY <1>2
    <2>5. cep'[a].lcid # 0 => cep'[a].lcid # cep'[b].lcid
      <3>1. CASE a = c
        BY <1>2, <2>1, <2>3, <2>4, <3>1 DEF KeysKept
      <3>2. CASE b = c
        BY <1>2, <2>1, <2>2, <2>4, <3>2 DEF KeysKept
      <3>3. CASE a # c /\ b # c
        BY <2>1, <2>2, <2>3, <3>3 DEF KeysKept
      <3> QED
        BY <3>1, <3>2, <3>3
    <2>6. cep'[a].lep # None => cep'[a].lep # cep'[b].lep
      <3>1. CASE a = c
        BY <2>1, <2>3, <3>1 DEF KeysKept, LocalEndPointInUse, On
      <3>2. CASE b = c
        BY <2>1, <2>2, <3>2 DEF KeysKept, LocalEndPointInUse, On
      <3>3. CASE a # c /\ b # c
        BY <2>1, <2>2, <2>3, <3>3 DEF KeysKept
      <3> QED
        BY <3>1, <3>2, <3>3
    <2>7. cep'[a].rep # None => cep'[a].rep # cep'[b].rep
      <3>1. CASE a = c
        BY <2>1, <2>3, <3>1 DEF KeysKept, FindRemoteEndPoint, On
      <3>2. CASE b = c
        BY <2>1, <2>2, <3>2 DEF KeysKept, FindRemoteEndPoint, On
      <3>3. CASE a # c /\ b # c
        BY <2>1, <2>2, <2>3, <3>3 DEF KeysKept
      <3> QED
        BY <3>1, <3>2, <3>3
    <2> QED
      BY <2>5, <2>6, <2>7
  <1>5. ParentsNear'
    <2>1. ASSUME NEW d \in Cep, d # c PROVE NearOK(d, cep'[d])
      BY <2>1 DEF KeysKept, NearOK, RInv, ParentsNear
    <2> QED
      BY <2>1 DEF ParentsNear
  <1>6. OwnedAlive'
    BY DEF OwnedAlive, Destroying
  <1>7. RInv'
    BY <1>1, <1>3, <1>4, <1>5, <1>6 DEF RInv, RestOK, IdleOK, RoleOK, DgrmOK, EventsOK, OwedOK
  <1> QED
    BY <1>7 DEF RKept

(* A step that leaves every CEP alone.                                     *)
LEMMA NothingKept ==
    ASSUME IInv, RInv, UNCHANGED <<cep, commID, owned>>
    PROVE  RKept
  <1>1. RInv'
    BY DEF RInv, UniqueKeys, CommIDsHandedOut, OwnedAlive, ParentsNear, Destroying
  <1>2. ASSUME NEW d \in Cep PROVE Sound(cep[d], cep'[d])
    BY Known, Unchanged DEF Quiet
  <1> QED
    BY <1>1, <1>2 DEF RKept

(* A step on the CEP c alone that may take keys.                           *)
LEMMA OneKept ==
    ASSUME IInv, RInv, IInv', NEW c \in Cep, NEW s, cep' = [cep EXCEPT ![c] = s],
           Sound(cep[c], s), NearOK(c, s),
           s.lcid \in {cep[c].lcid, 0, commID[HostOf[c]] + 1},
           s.lcid \in {cep[c].lcid, 0} \/ commID'[HostOf[c]] = commID[HostOf[c]] + 1,
           s.lep \in {cep[c].lep, None} \/ ~ LocalEndPointInUse(HostOf[c], s.lep),
           s.rep \in {cep[c].rep, None} \/ FindRemoteEndPoint(HostOf[c], s.rep) = {},
           \A h \in Host : commID'[h] >= commID[h],
           owned' \subseteq owned \cup {c}, c \in owned' => ~ Destroying(s)
    PROVE  RKept
  <1>1. cep'[c] = s /\ \A d \in Cep \ {c} : cep'[d] = cep[d]
    BY DEF IInv
  <1>2. \A d \in Cep \ {c} : Quiet(cep[d], cep'[d])
    BY <1>1, Known, Unchanged
  <1>3. \A d \in Cep : Sound(cep[d], cep'[d])
    BY <1>1, <1>2 DEF Quiet
  <1>4. \A d \in Cep \ {c} : KeysKept(cep[d], cep'[d])
    BY <1>2 DEF Quiet
  <1>5. \A d \in owned' : d \in Cep /\ ~ Destroying(cep'[d])
    BY <1>1 DEF RInv, OwnedAlive, IInv
  <1> QED
    BY <1>1, <1>3, <1>4, <1>5, AllKept

(* The counters of the communication IDs stay where they are.              *)
LEMMA CommIDsStay ==
    ASSUME IInv, commID' = commID
    PROVE  \A h \in Host : commID'[h] >= commID[h]
  BY DEF IInv

(* AssignLocalCommID advances one counter.                                 *)
LEMMA CommIDsGrow ==
    ASSUME IInv, NEW h \in Host, AssignLocalCommID(h)
    PROVE  /\ commID'[h] = commID[h] + 1 /\ NextCommID(h) = commID[h] + 1
           /\ NextCommID(h) \in Nat
           /\ \A g \in Host : commID'[g] >= commID[g]
  BY DEF IInv, AssignLocalCommID, NextCommID

(* A quiet step on one CEP.                                                *)
LEMMA QuietStep ==
    ASSUME IInv, RInv, IInv', NEW c \in Cep, NEW s, NEW ms, Update(c, s, ms),
           Quiet(cep[c], s), UNCHANGED <<commID, owned>>
    PROVE  RKept
  <1>1. cep' = [cep EXCEPT ![c] = s] /\ commID' = commID /\ owned' = owned
    BY DEF Update
  <1>2. NearOK(c, s)
    BY DEF Quiet, KeysKept, NearOK, RInv, ParentsNear
  <1>3. c \in owned' => ~ Destroying(s)
    BY <1>1, Known DEF Quiet, Alive
  <1> QED
    BY <1>1, <1>2, <1>3, CommIDsStay, OneKept DEF Quiet, KeysKept

(* A step that gives the handle of c back.                                 *)
LEMMA GivenBackKept ==
    ASSUME IInv, RInv, IInv', NEW c \in Cep, NEW s, NEW ms, Update(c, s, ms),
           Sound(cep[c], s), KeysKept(cep[c], s), owned' = owned \ {c}, commID' = commID
    PROVE  RKept
  <1>1. cep' = [cep EXCEPT ![c] = s]
    BY DEF Update
  <1>2. NearOK(c, s)
    BY DEF KeysKept, NearOK, RInv, ParentsNear
  <1> QED
    BY <1>1, <1>2, CommIDsStay, OneKept DEF KeysKept

(* A step on c that also destroys the CEPs on its queue.                   *)
LEMMA DropKept ==
    ASSUME IInv, RInv, IInv', NEW c \in Cep, NEW s, NEW ms, UpdateAndDrop(c, s, ms),
           cep[c].state \notin Queued, Sound(cep[c], s), KeysKept(cep[c], s), commID' = commID,
           owned' \subseteq owned, c \in owned' => ~ Destroying(s)
    PROVE  RKept
  <1> DEFINE dropped == {cep[c].pending[i] : i \in DOMAIN cep[c].pending}
  <1>1. cep' = [d \in Cep |-> IF d = c THEN s
                              ELSE IF d \in dropped THEN DestroyCEP(CepToIdle(cep[d]))
                              ELSE cep[d]]
    BY DEF UpdateAndDrop
  <1>2. \A d \in dropped : cep[d].parent = c
    BY DEF IInv, Linked
  <1> HIDE DEF dropped
  <1>3. ASSUME NEW d \in Cep \ {c} PROVE Quiet(cep[d], cep'[d])
    <2>1. CASE d \in dropped
      <3>1. cep[d].state \in Queued /\ RecOK(cep[d])
        BY <1>2, <2>1, Known, CmAssumption DEF RecOK
      <3>2. Quiet(cep[d], DestroyCEP(CepToIdle(cep[d])))
        BY <3>1, DroppedQuiet
      <3> QED
        BY <1>1, <2>1, <3>2
    <2>2. CASE d \notin dropped
      <3>1. cep'[d] = cep[d]
        BY <1>1, <2>2
      <3> QED
        BY <3>1, Known, Unchanged
    <2> QED
      BY <2>1, <2>2
  <1>4. cep'[c] = s
    BY <1>1
  <1>5. NearOK(c, cep'[c])
    BY <1>4 DEF KeysKept, NearOK, RInv, ParentsNear
  <1>6. \A d \in Cep : Sound(cep[d], cep'[d])
    BY <1>3, <1>4 DEF Quiet
  <1>7. \A d \in Cep \ {c} : KeysKept(cep[d], cep'[d])
    BY <1>3 DEF Quiet
  <1>8. ASSUME NEW d \in owned' PROVE d \in Cep /\ ~ Destroying(cep'[d])
    <2>1. d \in owned /\ d \in Cep
      BY DEF IInv
    <2>2. CASE d = c
      BY <1>4, <2>2
    <2>3. CASE d # c
      BY <1>3, <2>1, <2>3, Known DEF Quiet, Alive
    <2> QED
      BY <2>1, <2>2, <2>3
  <1>9. cep'[c].lcid \in {cep[c].lcid, 0} /\ cep'[c].lep \in {cep[c].lep, None}
        /\ cep'[c].rep \in {cep[c].rep, None}
    BY <1>4 DEF KeysKept
  <1> QED
    BY <1>5, <1>6, <1>7, <1>8, <1>9, CommIDsStay, AllKept

(* A step on the listener l and on the CEP c that may take keys.           *)
LEMMA TwoKept ==
    ASSUME IInv, RInv, IInv', NEW l \in Cep, NEW c \in Cep, l # c, NEW t, NEW s, NEW ms,
           Update2(l, t, c, s, ms), Quiet(cep[l], t), Sound(cep[c], s), NearOK(c, s),
           s.lcid \in {cep[c].lcid, 0, commID[HostOf[c]] + 1},
           s.lcid \in {cep[c].lcid, 0} \/ commID'[HostOf[c]] = commID[HostOf[c]] + 1,
           s.lep \in {cep[c].lep, None} \/ ~ LocalEndPointInUse(HostOf[c], s.lep),
           s.rep \in {cep[c].rep, None} \/ FindRemoteEndPoint(HostOf[c], s.rep) = {},
           \A h \in Host : commID'[h] >= commID[h],
           owned' \subseteq owned \cup {c}, c \in owned' => ~ Destroying(s)
    PROVE  RKept
  <1>1. /\ cep'[l] = t /\ cep'[c] = s
        /\ \A d \in Cep \ {l, c} : cep'[d] = cep[d]
    BY DEF Update2, IInv
  <1>2. ASSUME NEW d \in Cep \ {c} PROVE Quiet(cep[d], cep'[d])
    <2>1. CASE d = l
      BY <1>1, <2>1
    <2>2. CASE d # l
      BY <1>1, <2>2, Known, Unchanged
    <2> QED
      BY <2>1, <2>2
  <1>3. \A d \in Cep : Sound(cep[d], cep'[d])
    BY <1>1, <1>2 DEF Quiet
  <1>4. \A d \in Cep \ {c} : KeysKept(cep[d], cep'[d])
    BY <1>2 DEF Quiet
  <1>5. ASSUME NEW d \in owned' PROVE d \in Cep /\ ~ Destroying(cep'[d])
    <2>1. CASE d = c
      BY <1>1, <2>1
    <2>2. CASE d # c
      <3>1. d \in owned /\ d \in Cep
        BY <2>2 DEF IInv
      <3> QED
        BY <1>2, <2>2, <3>1, Known DEF Quiet, Alive
    <2> QED
      BY <2>1, <2>2
  <1> QED
    BY <1>1, <1>3, <1>4, <1>5, AllKept

-----------------------------------------------------------------------------
(* Every action keeps them: the calls of the users.                        *)

(* iba_cm_create_cep.                                                      *)
LEMMA CreateKept ==
    ASSUME IInv, RInv, IInv', NEW c \in Cep, iba_cm_create_cep(c)
    PROVE  RKept
  <1>1. cep' = [cep EXCEPT ![c] = NewCep] /\ owned' = owned \cup {c} /\ commID' = commID
        /\ cep[c].state = "FREE"
    BY DEF iba_cm_create_cep, Allocatable
  <1>2. Quiet(cep[c], NewCep)
    BY <1>1, CreateQuiet
  <1>3. ~ Destroying(NewCep) /\ NearOK(c, NewCep)
    BY DEF Destroying, NewCep, NearOK
  <1> QED
    BY <1>1, <1>2, <1>3, CommIDsStay, OneKept DEF Quiet, KeysKept

(* iba_cm_connect: the ID is new, the queue pair free.                     *)
LEMMA ConnectKept ==
    ASSUME IInv, RInv, IInv', NEW c \in Cep, NEW q \in Qp, NEW h \in Host, NEW sid \in Sid,
           Connect(c, q, h, sid)
    PROVE  RKept
  <1> DEFINE n == NextCommID(HostOf[c])
             b == c \in UserCallback
             r == cep[c]
             p == [r EXCEPT !.lep = q, !.rhost = h, !.sid = sid, !.flags = {},
                            !.retry = 0, !.mode = "ACTIVE", !.lcid = n, !.cb = b]
             s == CmTimerStart(CepSetState(CepSend(p, "REQ"), "REQ_SENT"))
  <1>1. /\ r.state = "IDLE" /\ UNCHANGED owned /\ cep' = [cep EXCEPT ![c] = s]
        /\ AssignLocalCommID(HostOf[c]) /\ ~ LocalEndPointInUse(HostOf[c], q) /\ c \in owned
    BY DEF Connect, Update
  <1>2. /\ commID'[HostOf[c]] = commID[HostOf[c]] + 1 /\ n = commID[HostOf[c]] + 1 /\ n \in Nat
        /\ \A g \in Host : commID'[g] >= commID[g]
    BY <1>1, Known, CommIDsGrow
  <1>3. b \in BOOLEAN /\ RecOK(r) /\ r \in CepObject
    BY Known
  <1>4. NearOK(c, r)
    BY DEF RInv, ParentsNear
  <1> HIDE DEF n, b, r
  <1>5. p \in CepObject
    BY <1>2, <1>3 DEF CepObject, Mode
  <1>6. /\ p.parent = r.parent /\ p.flags = {} /\ p.cbref = r.cbref /\ p.item = r.item
        /\ p.mode = "ACTIVE" /\ p.lcid = n /\ p.lep = q /\ p.rep = r.rep
    BY <1>3 DEF CepObject
  <1> HIDE DEF p
  <1>7. /\ Sound(r, s) /\ ~ Destroying(s)
        /\ s.lcid = n /\ s.lep = q /\ s.rep = r.rep /\ s.parent = r.parent
    BY <1>1, <1>3, <1>5, <1>6, ConnectSound
  <1> HIDE DEF s
  <1>8. NearOK(c, s)
    BY <1>4, <1>7 DEF NearOK
  <1>9. owned' \subseteq owned \cup {c}
    BY <1>1
  <1> QED
    BY <1>1, <1>2, <1>7, <1>8, <1>9, OneKept DEF r

(* iba_cm_connect without a datagram: the ID stays behind.                 *)
LEMMA ConnectNoDgrmKept ==
    ASSUME IInv, RInv, IInv', NEW c \in Cep, NEW q \in Qp, ConnectNoDgrm(c, q)
    PROVE  RKept
  <1> DEFINE n == NextCommID(HostOf[c])
             b == c \in UserCallback
             r == cep[c]
             s == [r EXCEPT !.lcid = n, !.mode = "NONE",
                    !.flags = {}, !.retry = 0, !.sid = None, !.rhost = None,
                    !.dgrm = "NONE", !.busy = FALSE, !.cb = b]
  <1>1. /\ r.state = "IDLE" /\ UNCHANGED owned /\ cep' = [cep EXCEPT ![c] = s]
        /\ AssignLocalCommID(HostOf[c]) /\ DgrmMayFail
    BY DEF ConnectNoDgrm, Update
  <1>2. /\ commID'[HostOf[c]] = commID[HostOf[c]] + 1 /\ n = commID[HostOf[c]] + 1 /\ n \in Nat
        /\ \A g \in Host : commID'[g] >= commID[g]
    BY <1>1, Known, CommIDsGrow
  <1>3. b \in BOOLEAN /\ RecOK(r) /\ RestOK(r)
    BY Known
  <1>4. NearOK(c, r)
    BY DEF RInv, ParentsNear
  <1> HIDE DEF n, b, r
  <1>5. /\ s.state = r.state /\ s.busy = FALSE /\ s.flags = {} /\ s.cbref = r.cbref
        /\ s.item = r.item
        /\ s.lcid = n /\ s.lep = r.lep /\ s.rep = r.rep /\ s.parent = r.parent
    BY <1>3 DEF RecOK, CepObject
  <1> HIDE DEF s
  <1>6. Sound(r, s) /\ ~ Destroying(s)
    BY <1>1, <1>3, <1>5, ConnectNoDgrmSound
  <1>7. NearOK(c, s)
    BY <1>4, <1>5 DEF NearOK
  <1>8. owned' \subseteq owned \cup {c}
    BY <1>1
  <1> QED
    BY <1>1, <1>2, <1>5, <1>6, <1>7, <1>8, OneKept DEF r

(* iba_cm_listen.                                                          *)
LEMMA ListenKept ==
    ASSUME IInv, RInv, IInv', NEW c \in Cep, NEW sid \in Sid, Listen(c, sid)
    PROVE  RKept
  <1> DEFINE n == NextCommID(HostOf[c])
             b == c \in UserCallback
             r == cep[c]
             s == [r EXCEPT !.sid = sid, !.mode = "PASSIVE", !.state = "LISTEN",
                    !.flags = {}, !.retry = 0, !.lcid = n,
                    !.dgrm = "NONE", !.busy = FALSE, !.rhost = None, !.cb = b]
  <1>1. /\ r.state = "IDLE" /\ UNCHANGED owned /\ cep' = [cep EXCEPT ![c] = s]
        /\ AssignLocalCommID(HostOf[c])
    BY DEF Listen, Update
  <1>2. /\ commID'[HostOf[c]] = commID[HostOf[c]] + 1 /\ n = commID[HostOf[c]] + 1 /\ n \in Nat
        /\ \A g \in Host : commID'[g] >= commID[g]
    BY <1>1, Known, CommIDsGrow
  <1>3. b \in BOOLEAN /\ RecOK(r)
    BY Known
  <1>4. NearOK(c, r)
    BY DEF RInv, ParentsNear
  <1> HIDE DEF n, b, r
  <1>5. /\ s.state = "LISTEN" /\ s.mode = "PASSIVE" /\ s.busy = FALSE /\ s.flags = {}
        /\ s.cbref = r.cbref /\ s.item = r.item
        /\ s.lcid = n /\ s.lep = r.lep /\ s.rep = r.rep /\ s.parent = r.parent
    BY <1>3 DEF RecOK, CepObject
  <1> HIDE DEF s
  <1>6. Sound(r, s) /\ ~ Destroying(s)
    BY <1>1, <1>3, <1>5, ListenSound
  <1>7. NearOK(c, s)
    BY <1>4, <1>5 DEF NearOK
  <1>8. owned' \subseteq owned \cup {c}
    BY <1>1
  <1> QED
    BY <1>1, <1>2, <1>5, <1>6, <1>7, <1>8, OneKept DEF r

(* iba_cm_accept on the active side.                                       *)
LEMMA AcceptAKept ==
    ASSUME IInv, RInv, IInv', NEW c \in Cep, AcceptA(c)
    PROVE  RKept
  <1> DEFINE s == CepSetState(CepSend(cep[c], "RTU"), "ESTABLISHED")
  <1>1. cep[c].state \in ReplyArrived
        /\ Update(c, s, {MadFrom(c, s, "RTU")}) /\ UNCHANGED <<commID, owned>>
    BY DEF AcceptA, ReplyArrived
  <1>2. Quiet(cep[c], s)
    BY <1>1, Known, AcceptAQuiet
  <1> QED
    BY <1>1, <1>2, QuietStep

(* A listener whose first request has left its queue.                      *)
LEMMA DequeuedQuiet ==
    ASSUME IInv, RInv, NEW l \in Cep, HasPending(l)
    PROVE  /\ Quiet(cep[l], Dequeued(l))
           /\ cep[PendingCEP(l)].parent = l /\ l # PendingCEP(l)
           /\ HostOf[PendingCEP(l)] = HostOf[l]
  <1> DEFINE r == cep[l]
             q == Tail(r.pending)
             s == [r EXCEPT !.pending = q]
             c == PendingCEP(l)
  <1>1. r.pending \in Seq(Cep) /\ r.pending # <<>> /\ r.state = "LISTEN"
    BY Known DEF CepObject, HasPending
  <1>2. q \in Seq(Cep) /\ c = r.pending[1] /\ 1 \in DOMAIN r.pending /\ c \in Cep
    BY <1>1 DEF PendingCEP
  <1>3. cep[c].parent = l /\ l # None
    BY <1>2, CmAssumption DEF IInv, Linked
  <1>4. cep[c].state \in Queued
    BY <1>2, <1>3, Known DEF RecOK
  <1>5. HostOf[c] = HostOf[l]
    BY <1>2, <1>3 DEF RInv, ParentsNear, NearOK
  <1>6. Dequeued(l) = s \/ Dequeued(l) = SetNotification(s, "RCVD_REQ")
    BY DEF Dequeued
  <1>7. RecOK(r) /\ RestOK(r)
    BY Known
  <1> HIDE DEF r, q
  <1>8. Quiet(r, s) /\ Quiet(r, SetNotification(s, "RCVD_REQ"))
    BY <1>1, <1>2, <1>7, ListenerQuiet
  <1>9. Quiet(r, Dequeued(l))
    BY <1>6, <1>8
  <1> QED
    BY <1>1, <1>3, <1>4, <1>5, <1>9 DEF r, Queued

(* iba_cm_accept on the passive side: the queue pair is free on the host   *)
(* of the listener, where the request waits.                               *)
LEMMA AcceptPKept ==
    ASSUME IInv, RInv, IInv', NEW l \in Cep, NEW q \in Qp, AcceptP(l, q)
    PROVE  RKept
  <1> DEFINE c == PendingCEP(l)
             r == cep[c]
             b == c \in UserCallback
             p == [r EXCEPT !.lep = q, !.parent = None, !.retry = 0, !.cb = b]
             s == CmTimerStart(CepSetState(CepSend(p, "REP"), "REP_SENT"))
  <1>1. HasPending(l) /\ Update2(l, Dequeued(l), c, s, {FormatREP(c, s)})
        /\ owned' = owned \cup {c} /\ commID' = commID
        /\ ~ LocalEndPointInUse(HostOf[l], q)
    BY DEF AcceptP
  <1>2. c \in Cep /\ RecOK(r) /\ RestOK(r) /\ r.state \in Queued /\ b \in BOOLEAN
    BY <1>1, PendingFacts, Known
  <1>3. Quiet(cep[l], Dequeued(l)) /\ l # c /\ HostOf[c] = HostOf[l]
    BY <1>1, DequeuedQuiet
  <1> HIDE DEF r, b
  <1>4. p \in CepObject
    BY <1>2 DEF RecOK, CepObject
  <1>5. /\ p.mode = r.mode /\ p.flags = r.flags /\ p.cbref = r.cbref /\ p.item = r.item
        /\ p.lcid = r.lcid /\ p.lep = q /\ p.rep = r.rep /\ p.parent = None
    BY <1>2 DEF RecOK, CepObject
  <1> HIDE DEF p
  <1>6. /\ Sound(r, s) /\ ~ Destroying(s)
        /\ s.lcid = r.lcid /\ s.lep = q /\ s.rep = r.rep /\ s.parent = None
    BY <1>2, <1>4, <1>5, AcceptPSound
  <1> HIDE DEF s, c
  <1>7. NearOK(c, s)
    BY <1>6 DEF NearOK
  <1> QED
    BY <1>1, <1>2, <1>3, <1>6, <1>7, CommIDsStay, TwoKept DEF r

(* iba_cm_reject on the active side.                                       *)
LEMMA RejectAKept ==
    ASSUME IInv, RInv, IInv', NEW c \in Cep, RejectA(c)
    PROVE  RKept
  <1>1. cep[c].state \in ReplyArrived
        /\ Update(c, RejectedA(c), {FormatREJ(c, cep[c], "REP", "USER_REJ")})
        /\ UNCHANGED <<commID, owned>>
    BY DEF RejectA, ReplyArrived
  <1>2. Quiet(cep[c], RejectedA(c))
    BY <1>1, Known, RejectAQuiet DEF RejectedA
  <1> QED
    BY <1>1, <1>2, QuietStep

(* iba_cm_reject on the passive side.                                      *)
LEMMA RejectPKept ==
    ASSUME IInv, RInv, IInv', NEW l \in Cep, RejectP(l)
    PROVE  RKept
  <1> DEFINE c == PendingCEP(l)
             s == DestroyCEP(CepToIdle(cep[c]))
             ms == {FormatREJ(c, cep[c], "REQ", "USER_REJ")}
  <1>1. HasPending(l) /\ Update2(l, Dequeued(l), c, s, ms) /\ owned' = owned
        /\ commID' = commID
    BY DEF RejectP
  <1>2. c \in Cep /\ RecOK(cep[c]) /\ cep[c].state \in Queued
    BY <1>1, PendingFacts
  <1>3. Quiet(cep[l], Dequeued(l)) /\ l # c
    BY <1>1, DequeuedQuiet
  <1>4. Quiet(cep[c], s)
    BY <1>2, DroppedQuiet
  <1>5. NearOK(c, s)
    BY DEF NearOK, DestroyCEP, NewCep
  <1>6. ~ Destroying(s)
    BY DEF Destroying, DestroyCEP, NewCep
  <1> HIDE DEF s, ms, c
  <1>7. owned' \subseteq owned \cup {c}
    BY <1>1
  <1> QED
    BY <1>1, <1>2, <1>3, <1>4, <1>5, <1>6, <1>7, CommIDsStay, TwoKept DEF Quiet, KeysKept

(* iba_cm_cancel: the requests on the queue of a listener go with it.      *)
LEMMA CancelKept ==
    ASSUME IInv, RInv, IInv', NEW c \in Cep, iba_cm_cancel(c)
    PROVE  RKept
  <1>1. c \in owned /\ UpdateAndDrop(c, Cancelled(c), CancelSends(c))
        /\ UNCHANGED <<commID, owned>> /\ cep[c].state \in CancelableA \cup CancelableP
    BY DEF iba_cm_cancel
  <1>2. cep[c].state \notin Queued
    BY <1>1 DEF CancelableA, CancelableP, ReplyArrived, Queued
  <1>3. Quiet(cep[c], Cancelled(c))
    BY <1>1, Known, CancelledQuiet
  <1>4. ~ Destroying(Cancelled(c))
    BY <1>1, <1>3, Known DEF Quiet, Alive
  <1>5. owned' \subseteq owned /\ commID' = commID
    BY <1>1
  <1> QED
    BY <1>1, <1>2, <1>3, <1>4, <1>5, DropKept DEF Quiet

(* iba_cm_disconnect.                                                      *)
LEMMA DisconnectKept ==
    ASSUME IInv, RInv, IInv', NEW c \in Cep, iba_cm_disconnect(c)
    PROVE  RKept
  <1>1. PICK ok \in Prepared(cep[c]) :
            Update(c, DisconnectA(cep[c], ok), DisconnectSends(c, ok))
    BY DEF iba_cm_disconnect
  <1>2. ok \in BOOLEAN
    BY <1>1 DEF Prepared
  <1>3. cep[c].state \in Disconnectable /\ UNCHANGED <<commID, owned>>
    BY DEF iba_cm_disconnect
  <1>4. Quiet(cep[c], DisconnectA(cep[c], ok))
    BY <1>2, <1>3, Known, DisconnectAQuiet
  <1> QED
    BY <1>1, <1>3, <1>4, QuietStep

(* The states in which DisconnectA leaves a CEP.                           *)
LEMMA DisconnectAState ==
    ASSUME NEW r \in CepObject, NEW ok \in BOOLEAN, r.state \in Disconnectable
    PROVE  DisconnectA(r, ok).state \in Disconnectable \cup {"DREQ_SENT", "TIMEWAIT"}
  <1>1. CASE r.state = "ESTABLISHED" /\ ok
    <2> DEFINE t == CmTimerStart([CepToDisconnecting(
                        CepSend(PrepareCepDgrm(r), "DREQ"), "DREQ_SENT") EXCEPT !.retry = 0])
    <2>1. t.state = "DREQ_SENT"
      BY DEF CepObject, CepSend, CepSetState, CepToDisconnecting, ClearEndPoint,
         CmTimerStart, PrepareCepDgrm
    <2>2. DisconnectA(r, ok) = t
      BY <1>1 DEF DisconnectA
    <2> QED
      BY <2>1, <2>2
  <1>2. CASE r.state = "DREQ_RCVD" /\ ok
    <2> DEFINE t == CepToTimewait(CepSend(PrepareCepDgrm(r), "DREP"))
    <2>1. t.state = "TIMEWAIT"
      BY DEF CepObject, CepSend, CepSetState, CepToDisconnecting, CepToTimewait,
         ClearEndPoint, CmTimerStart, PrepareCepDgrm
    <2>2. DisconnectA(r, ok) = t
      BY <1>2 DEF DisconnectA
    <2> QED
      BY <2>1, <2>2
  <1>3. CASE r.state = "SIM_DREQ_RCVD"
    <2>1. CepToTimewait(r).state = "TIMEWAIT"
      BY DEF CepObject, CepSetState, CepToDisconnecting, CepToTimewait,
         ClearEndPoint, CmTimerStart
    <2>2. DisconnectA(r, ok) = CepToTimewait(r)
      BY <1>3 DEF DisconnectA
    <2> QED
      BY <2>1, <2>2
  <1>4. CASE ~ ok /\ r.state # "SIM_DREQ_RCVD"
    BY <1>4 DEF DisconnectA
  <1> QED
    BY <1>1, <1>2, <1>3, <1>4 DEF Disconnectable

(* iba_cm_destroy_cep: the handle is given back.                           *)
LEMMA DestroyKept ==
    ASSUME IInv, RInv, IInv', NEW c \in Cep, iba_cm_destroy_cep(c)
    PROVE  RKept
  <1> DEFINE r == cep[c]
  <1>0. RecOK(r) /\ RestOK(r) /\ r \in CepObject /\ owned' = owned \ {c} /\ commID' = commID
    BY Known DEF iba_cm_destroy_cep
  <1>1. CASE r.state = "IDLE" /\ Update(c, Released(r), {})
    <2>1. Quiet(r, r)
      BY <1>0, Unchanged
    <2>2. Sound(r, Released(r)) /\ KeysKept(r, Released(r))
      BY <1>0, <1>1, <2>1, ReleasedSound DEF Quiet
    <2> QED
      BY <1>0, <1>1, <2>2, GivenBackKept
  <1>2. CASE r.state \in {"REQ_SENT", "REP_WAIT"} \cup CancelableP
             /\ UpdateAndDrop(c, Released(Cancelled(c)), {})
    <2> DEFINE i == Cancelled(c)
               s == Released(i)
    <2>1. r.state \in CancelableA \cup CancelableP
      BY <1>2 DEF CancelableA
    <2>2. r.state \notin Queued /\ RecOK(i) /\ i.state = "IDLE"
      BY <2>1, CancelledFacts
    <2>3. Quiet(r, i)
      BY <1>0, <2>1, CancelledQuiet
    <2>4. UpdateAndDrop(c, s, {})
      BY <1>2
    <2> HIDE DEF i
    <2>5. Sound(r, s) /\ KeysKept(r, s)
      BY <2>2, <2>3, ReleasedSound DEF Quiet
    <2>6. owned' \subseteq owned /\ c \notin owned'
      BY <1>0
    <2> HIDE DEF s
    <2> QED
      BY <1>0, <2>2, <2>4, <2>5, <2>6, DropKept
  <1>3. CASE r.state \in ReplyArrived
             /\ Update(c, Released(RejectedA(c)), CancelSends(c))
    <2> DEFINE i == RejectedA(c)
               s == Released(i)
    <2>1. Quiet(r, i)
      BY <1>0, <1>3, RejectAQuiet DEF RejectedA
    <2>2. Keeps(r, i)
      BY <1>0, <1>3, RejectAStep DEF ReplyArrived, RejectedA
    <2>3. i.state = "IDLE"
      BY <1>0 DEF RejectedA, CepToIdle, ClearEndPoint, CepSend, CepObject
    <2>4. Update(c, s, CancelSends(c))
      BY <1>3
    <2> HIDE DEF i
    <2>5. Sound(r, s) /\ KeysKept(r, s)
      BY <2>1, <2>2, <2>3, ReleasedSound DEF Quiet, Keeps, GoodStep
    <2> HIDE DEF s
    <2> QED
      BY <1>0, <2>4, <2>5, GivenBackKept
  <1>4. CASE /\ r.state \in Disconnectable
             /\ \E ok \in Prepared(r) :
                   Update(c, EventSet(DisconnectA(r, ok), "USRE_DESTROY"),
                          DisconnectSends(c, ok))
    <2>1. PICK ok \in Prepared(r) :
              Update(c, EventSet(DisconnectA(r, ok), "USRE_DESTROY"), DisconnectSends(c, ok))
      BY <1>4
    <2>2. ok \in BOOLEAN
      BY <2>1 DEF Prepared
    <2> DEFINE d == DisconnectA(r, ok)
               s == EventSet(d, "USRE_DESTROY")
    <2>3. Keeps(r, d)
      BY <1>0, <1>4, <2>2, DisconnectAStep
    <2>4. Quiet(r, d)
      BY <1>0, <1>4, <2>2, DisconnectAQuiet
    <2>5. d.state \in Disconnectable \cup {"DREQ_SENT", "TIMEWAIT"}
      BY <1>0, <1>4, <2>2, DisconnectAState
    <2>6. Update(c, s, DisconnectSends(c, ok))
      BY <2>1
    <2> HIDE DEF d
    <2>7. d \in CepObject /\ d.state \notin Queued \cup Replied \cup {"FREE"}
      BY <2>3, <2>5 DEF Keeps, GoodStep, RecOK, Disconnectable, Queued, Replied
    <2>8. Sound(r, s) /\ KeysKept(r, s)
      BY <2>4, <2>7, GivenUpSound DEF Quiet
    <2> HIDE DEF s
    <2> QED
      BY <1>0, <2>6, <2>8, GivenBackKept
  <1>5. CASE r.state \in {"DREQ_SENT", "TIMEWAIT"} /\ Update(c, EventSet(r, "USRE_DESTROY"), {})
    <2> DEFINE s == EventSet(r, "USRE_DESTROY")
    <2>1. Quiet(r, r) /\ r.state \notin Queued \cup Replied \cup {"FREE"}
      BY <1>0, <1>5, Unchanged DEF Queued, Replied
    <2>2. Sound(r, s) /\ KeysKept(r, s)
      BY <1>0, <2>1, GivenUpSound DEF Quiet
    <2>3. Update(c, s, {})
      BY <1>5
    <2> HIDE DEF s
    <2> QED
      BY <1>0, <2>2, <2>3, GivenBackKept
  <1> QED
    BY <1>1, <1>2, <1>3, <1>4, <1>5 DEF iba_cm_destroy_cep

(* iba_cm_wait.                                                            *)
LEMMA WaitKept ==
    ASSUME IInv, RInv, IInv', NEW c \in Cep, iba_cm_wait(c)
    PROVE  RKept
  <1>1. /\ c \in owned /\ ~ cep[c].cb /\ Update(c, GetConnInfo(cep[c]), {})
        /\ UNCHANGED <<commID, owned>>
    BY DEF iba_cm_wait
  <1>2. Quiet(cep[c], GetConnInfo(cep[c]))
    BY <1>1, Known, WaitQuiet
  <1> QED
    BY <1>1, <1>2, QuietStep

-----------------------------------------------------------------------------
(* Callbacks and timers.                                                   *)

(* CmSystemCallback.                                                       *)
LEMMA SystemCallbackKept ==
    ASSUME IInv, RInv, IInv', NEW c \in Cep, CmSystemCallback(c)
    PROVE  RKept
  <1> DEFINE r == IF Destroying(cep[c]) THEN cep[c] ELSE GetConnInfo(cep[c])
             s == [r EXCEPT !.item = "running"]
  <1>1. cep[c].item = "queued" /\ Update(c, s, {}) /\ UNCHANGED <<commID, owned>>
    BY DEF CmSystemCallback
  <1>2. Quiet(cep[c], s)
    BY <1>1, Known, SystemCallbackQuiet
  <1> HIDE DEF s
  <1> QED
    BY <1>1, <1>2, QuietStep

(* CmDoneCallback.                                                         *)
LEMMA DoneCallbackKept ==
    ASSUME IInv, RInv, IInv', NEW c \in Cep, CmDoneCallback(c)
    PROVE  RKept
  <1>1. cep[c].item = "running" /\ Update(c, Done(cep[c]), {}) /\ UNCHANGED <<commID, owned>>
    BY DEF CmDoneCallback
  <1>2. Quiet(cep[c], Done(cep[c]))
    BY <1>1, Known, DoneQuiet
  <1> QED
    BY <1>1, <1>2, QuietStep

(* GsaSendCompleteCallback.                                                *)
LEMMA SendCompleteKept ==
    ASSUME IInv, RInv, IInv', NEW c \in Cep, GsaSendCompleteCallback(c)
    PROVE  RKept
  <1> DEFINE s == [cep[c] EXCEPT !.busy = FALSE]
  <1>1. Update(c, s, {}) /\ UNCHANGED <<commID, owned>>
    BY DEF GsaSendCompleteCallback
  <1>2. Quiet(cep[c], s)
    BY Known, SendCompleteQuiet
  <1> HIDE DEF s
  <1> QED
    BY <1>1, <1>2, QuietStep

(* The expiry of a timer.                                                  *)
LEMMA TimerFiresKept ==
    ASSUME IInv, RInv, IInv', NEW c \in Cep, TimerFires(c)
    PROVE  RKept
  <1> DEFINE s == [cep[c] EXCEPT !.due = "due"]
  <1>1. Update(c, s, {}) /\ UNCHANGED <<commID, owned>>
    BY DEF TimerFires
  <1>2. Quiet(cep[c], s)
    BY Known, DueQuiet
  <1> HIDE DEF s
  <1> QED
    BY <1>1, <1>2, QuietStep

(* ProcessRtuPassive.                                                      *)
LEMMA RtuPassiveKept ==
    ASSUME IInv, RInv, IInv', NEW c \in Cep, NEW t \in Held, ProcessRtuPassive(c, t)
    PROVE  RKept
  <1> DEFINE s == SetNotification(CepSetState(CmDgrmCopyAddrAndMad(CmTimerStop(
                        PrepareCepDgrm(cep[c])), t), "ESTABLISHED"), "RCVD_RTU")
  <1>1. cep[c].state \in Replied /\ Update(c, s, {}) /\ UNCHANGED <<commID, owned>>
    BY DEF ProcessRtuPassive, Replied
  <1>2. Quiet(cep[c], s)
    BY <1>1, Known, RtuReceivedQuiet
  <1> HIDE DEF s
  <1> QED
    BY <1>1, <1>2, QuietStep

(* CmTimerCallback.                                                        *)
LEMMA TimerCallbackKept ==
    ASSUME IInv, RInv, IInv', NEW c \in Cep, CmTimerCallback(c)
    PROVE  RKept
  <1> DEFINE r == Expired(cep[c])
             again == r.retry < MaxCMRetries(r)
  <1>0. RecOK(cep[c]) /\ RestOK(cep[c]) /\ cep[c] \in CepObject /\ UNCHANGED <<commID, owned>>
    BY Known DEF CmTimerCallback
  <1>1. CASE cep[c].due = "stale" /\ Update(c, [cep[c] EXCEPT !.due = "no"], {})
    <2> DEFINE s == [cep[c] EXCEPT !.due = "no"]
    <2>1. Quiet(cep[c], s)
      BY <1>0, DueQuiet
    <2>2. Update(c, s, {})
      BY <1>1
    <2> HIDE DEF s
    <2> QED
      BY <1>0, <2>1, <2>2, QuietStep
  <1>2. CASE TimerExpired(c)
    <2>1. again \in BOOLEAN /\ r.state = cep[c].state
      <3>1. r \in CepObject /\ r.state = cep[c].state
        BY <1>0, ExpiredType DEF SameRest
      <3> HIDE DEF r
      <3>2. r.retry \in Nat /\ MaxCMRetries(r) \in Nat
        BY <3>1, CmAssumption DEF CepObject, MaxCMRetries
      <3> QED
        BY <3>1, <3>2
    <2>2. \/ r.state \in {"REQ_SENT", "REP_WAIT"}
             /\ \E ms : Update(c, ReqTimeout(r, again), ms)
          \/ r.state \in Replied /\ \E ms : Update(c, RepTimeout(r, again), ms)
          \/ r.state = "DREQ_SENT" /\ \E ms : Update(c, DreqTimeout(r, again), ms)
          \/ r.state = "TIMEWAIT" /\ \E ms : Update(c, TimewaitOver(r), ms)
      BY <1>2 DEF TimerExpired, Expired, Replied
    <2> HIDE DEF again
    <2>3. r.state \in {"REQ_SENT", "REP_WAIT"} => Quiet(cep[c], ReqTimeout(r, again))
      BY <1>0, <2>1, ReqTimeoutQuiet
    <2>4. r.state \in Replied => Quiet(cep[c], RepTimeout(r, again))
      BY <1>0, <2>1, RepTimeoutQuiet
    <2>5. r.state = "DREQ_SENT" => Quiet(cep[c], DreqTimeout(r, again))
      BY <1>0, <2>1, DreqTimeoutQuiet
    <2>6. r.state = "TIMEWAIT" => Quiet(cep[c], TimewaitOver(r))
      BY <1>0, <2>1, TimewaitOverQuiet
    <2>7. PICK s : Quiet(cep[c], s) /\ \E ms : Update(c, s, ms)
      BY <2>2, <2>3, <2>4, <2>5, <2>6, Zenon
    <2> QED
      BY <1>0, <2>7, QuietStep
  <1> QED
    BY <1>1, <1>2 DEF CmTimerCallback

-----------------------------------------------------------------------------
(* Receipt of MADs.                                                        *)

(* A listener that takes a request into its back log.                      *)
LEMMA EnqueuedQuiet ==
    ASSUME IInv, RInv, NEW l \in Cep, NEW c \in Cep, cep[l].state = "LISTEN"
    PROVE  Quiet(cep[l], Enqueued(l, c))
  <1> DEFINE q == Append(cep[l].pending, c)
             r == [cep[l] EXCEPT !.pending = q]
  <1>1. RecOK(cep[l]) /\ RestOK(cep[l]) /\ q \in Seq(Cep)
    BY Known DEF CepObject
  <1> HIDE DEF q
  <1>2. Quiet(cep[l], r) /\ Quiet(cep[l], SetNotification(r, "RCVD_REQ"))
    BY <1>1, ListenerQuiet
  <1>3. Enqueued(l, c) = r \/ Enqueued(l, c) = SetNotification(r, "RCVD_REQ")
    BY DEF Enqueued, q
  <1> QED
    BY <1>2, <1>3

(* ProcessReqPassive.                                                      *)
LEMMA ReqPassiveKept ==
    ASSUME IInv, RInv, IInv', NEW m \in Mad, NEW l \in Listening(m.dst, m.sid),
           FindRemoteEndPoint(m.dst, m.qp) = {}, ProcessReqPassive(m, l)
    PROVE  RKept
  <1>1. CASE Answer({SendREJ(m, 0, "REQ", "NO_RESOURCES")})
    BY <1>1, NothingKept DEF Answer
  <1>2. ASSUME AssignLocalCommID(m.dst), UNCHANGED owned,
               NEW c \in Incoming(m.dst), NEW mra \in BOOLEAN,
               LET r == SaveReqToPassiveCEP(l, m, mra)
               IN  Update2(l, Enqueued(l, c), c, r,
                           IF mra THEN {SendMRA(m, r, "REQ")} ELSE {})
        PROVE  RKept
    <2> DEFINE s == SaveReqToPassiveCEP(l, m, mra)
               ms == IF mra THEN {SendMRA(m, s, "REQ")} ELSE {}
               t == Enqueued(l, c)
    <2>1. /\ l \in Cep /\ cep[l].state = "LISTEN" /\ HostOf[l] = m.dst
          /\ c \in Cep /\ cep[c].state = "FREE" /\ HostOf[c] = m.dst
      BY DEF Listening, Incoming, On, Allocatable
    <2>2. Quiet(cep[l], t) /\ l # c /\ m.dst \in Host
      BY <2>1, EnqueuedQuiet DEF Mad
    <2>3. Update2(l, t, c, s, ms)
      BY <1>2
    <2>4. /\ Sound(cep[c], s) /\ ~ Destroying(s)
          /\ s.lcid = NextCommID(m.dst) /\ s.lep = None /\ s.rep = m.qp /\ s.parent = l
      BY <2>1, ReqSavedSound
    <2> HIDE DEF s, t, ms
    <2>5. NearOK(c, s)
      BY <2>1, <2>4 DEF NearOK
    <2>6. /\ commID'[m.dst] = commID[m.dst] + 1 /\ NextCommID(m.dst) = commID[m.dst] + 1
          /\ \A h \in Host : commID'[h] >= commID[h]
      BY <1>2, <2>2, CommIDsGrow
    <2>7. owned' \subseteq owned \cup {c}
      BY <1>2
    <2> QED
      BY <2>1, <2>2, <2>3, <2>4, <2>5, <2>6, <2>7, TwoKept
  <1> QED
    BY <1>1, <1>2 DEF ProcessReqPassive

(* ProcessReqDup.                                                          *)
LEMMA ReqDupKept ==
    ASSUME IInv, RInv, IInv', NEW m \in Mad, NEW c \in Cep, ProcessReqDup(m, c)
    PROVE  RKept
  <1>1. PICK ms :
          \/ /\ cep[c].state = "REP_SENT"
             /\ Update(c, CmTimerStart(CepResend(CmTimerStop(cep[c]))), ms)
          \/ /\ cep[c].state \in {"REQ_RCVD", "MRA_REQ_SENT"}
             /\ Update(c, CepSetState(cep[c], "MRA_REQ_SENT"), ms)
    BY DEF ProcessReqDup
  <1>2. RecOK(cep[c]) /\ RestOK(cep[c]) /\ UNCHANGED <<commID, owned>>
    BY Known DEF ProcessReqDup
  <1>3. cep[c].state = "REP_SENT"
            => Quiet(cep[c], CmTimerStart(CepResend(CmTimerStop(cep[c]))))
    BY <1>2, RepResendQuiet
  <1>4. cep[c].state \in {"REQ_RCVD", "MRA_REQ_SENT"}
            => Quiet(cep[c], CepSetState(cep[c], "MRA_REQ_SENT"))
    BY <1>2, MraReqSentQuiet DEF Queued
  <1>5. PICK s : Quiet(cep[c], s) /\ Update(c, s, ms)
    BY <1>1, <1>3, <1>4, Zenon
  <1> QED
    BY <1>2, <1>5, QuietStep

(* ProcessReqStale.                                                        *)
LEMMA ReqStaleKept ==
    ASSUME IInv, RInv, IInv', NEW m \in Mad, NEW c \in Cep, ProcessReqStale(m, c)
    PROVE  RKept
  <1>1. CASE Answer({SendREJ(m, 0, "REQ", "STALE_CONN")})
    BY <1>1, NothingKept DEF Answer
  <1>2. CASE /\ cep[c].state = "ESTABLISHED"
             /\ Update(c, DreqReceived(cep[c], "JUNK"),
                       {SendREJ(m, 0, "REQ", "STALE_CONN"),
                        MadOf("DREQ", m.dst, m.src, cep[c].lcid, cep[c].rcid)})
             /\ UNCHANGED <<commID, owned>>
    <2>1. Quiet(cep[c], DreqReceived(cep[c], "JUNK"))
      BY <1>2, Known, DreqReceivedQuiet, StateNames
    <2> QED
      BY <1>2, <2>1, QuietStep
  <1> QED
    BY <1>1, <1>2 DEF ProcessReqStale

(* ProcessReq.                                                             *)
LEMMA ReqKept ==
    ASSUME IInv, RInv, IInv', NEW m \in Mad, ProcessReq(m)
    PROVE  RKept
  <1>1. CASE \E c \in FindRemoteEndPoint(m.dst, m.qp) : ProcessReqDup(m, c)
    BY <1>1, ReqDupKept DEF FindRemoteEndPoint, On
  <1>2. CASE \E c \in FindRemoteEndPoint(m.dst, m.qp) : ProcessReqStale(m, c)
    BY <1>2, ReqStaleKept DEF FindRemoteEndPoint, On
  <1>3. CASE /\ FindRemoteEndPoint(m.dst, m.qp) = {}
             /\ \E l \in Listening(m.dst, m.sid) : ProcessReqPassive(m, l)
    BY <1>3, ReqPassiveKept
  <1>4. CASE Answer({SendREJ(m, 0, "REQ", "INVALID_SID")})
    BY <1>4, NothingKept DEF Answer
  <1> QED
    BY <1>1, <1>2, <1>3, <1>4 DEF ProcessReq

(* The CEP a MAD names is one of its destination.                          *)
LEMMA MatchedNear ==
    ASSUME NEW h, NEW id, NEW c \in FindLocalCommID(h, id) PROVE c \in Cep /\ HostOf[c] = h
  BY DEF FindLocalCommID, On

(* A REP that is accepted.                                                 *)
LEMMA RepReceivedKept ==
    ASSUME IInv, RInv, IInv', NEW m \in Mad, NEW c \in Cep, HostOf[c] = m.dst,
           cep[c].state \in {"REQ_SENT", "REP_WAIT"}, FindRemoteEndPoint(m.dst, m.qp) = {},
           Update(c, RepReceived(m, cep[c]), {}), UNCHANGED <<commID, owned>>
    PROVE  RKept
  <1> DEFINE s == RepReceived(m, cep[c])
  <1>1. RecOK(cep[c]) /\ RestOK(cep[c]) /\ (c \in owned => ~ Destroying(cep[c]))
    BY Known
  <1>2. cep' = [cep EXCEPT ![c] = s]
    BY DEF Update
  <1>3. /\ Sound(cep[c], s) /\ Alive(cep[c], s)
        /\ s.lcid = cep[c].lcid /\ s.lep = cep[c].lep /\ s.rep = m.qp
        /\ s.parent = cep[c].parent
    BY <1>1, RepReceivedSound
  <1> HIDE DEF s
  <1>4. NearOK(c, s)
    BY <1>3 DEF RInv, ParentsNear, NearOK
  <1>5. c \in owned' => ~ Destroying(s)
    BY <1>1, <1>3 DEF Alive
  <1> QED
    BY <1>2, <1>3, <1>4, <1>5, CommIDsStay, OneKept

(* ProcessRep.                                                             *)
LEMMA RepKept ==
    ASSUME IInv, RInv, IInv', NEW m \in Mad, ProcessRep(m)
    PROVE  RKept
  <1> DEFINE match == FindLocalCommID(m.dst, m.rcid)
  <1>0. UNCHANGED <<commID, owned>>
    BY DEF ProcessRep
  <1>1. ASSUME NEW c \in match, cep[c].state \in {"REQ_SENT", "REP_WAIT"},
               Update(c, PrepareCepDgrm(cep[c]),
                      {SendREJ(m, cep[c].lcid, "REP", "STALE_CONN")})
        PROVE  RKept
    <2>1. c \in Cep
      BY MatchedNear
    <2>2. Quiet(cep[c], PrepareCepDgrm(cep[c]))
      BY <1>1, <2>1, Known, StaleRepQuiet
    <2> QED
      BY <1>0, <1>1, <2>1, <2>2, QuietStep
  <1>2. ASSUME NEW c \in match, cep[c].state \in {"REQ_SENT", "REP_WAIT"},
               FindRemoteEndPoint(m.dst, m.qp) = {},
               Update(c, RepReceived(m, cep[c]), {})
        PROVE  RKept
    BY <1>0, <1>2, MatchedNear, RepReceivedKept
  <1>3. ASSUME NEW c \in match, cep[c].state \in {"REP_RCVD", "MRA_REP_SENT"},
               Update(c, CepSetState(cep[c], "MRA_REP_SENT"), {SendMRA(m, cep[c], "REP")})
        PROVE  RKept
    <2>1. c \in Cep /\ cep[c].state \in ReplyArrived
      BY <1>3, MatchedNear DEF ReplyArrived
    <2>2. Quiet(cep[c], CepSetState(cep[c], "MRA_REP_SENT"))
      BY <2>1, Known, MraRepSentQuiet
    <2> QED
      BY <1>0, <1>3, <2>1, <2>2, QuietStep
  <1>4. ASSUME NEW c \in match, cep[c].state = "ESTABLISHED",
               Update(c, CepResend(cep[c]), {MadFrom(c, cep[c], "RTU")})
        PROVE  RKept
    <2>1. c \in Cep
      BY MatchedNear
    <2>2. Quiet(cep[c], CepResend(cep[c]))
      BY <1>4, <2>1, Known, RtuResentQuiet
    <2> QED
      BY <1>0, <1>4, <2>1, <2>2, QuietStep
  <1>5. CASE Answer({SendREJ(m, 0, "REP", "INVALID_COMMID")})
    BY <1>5, NothingKept DEF Answer
  <1> QED
    BY <1>1, <1>2, <1>3, <1>4, <1>5 DEF ProcessRep

(* A handshake that is rejected, for either reason.                        *)
LEMMA RejectedQuiet ==
    ASSUME NEW r, NEW why, RecOK(r), RestOK(r),
           r.state \in {"REQ_SENT", "REP_WAIT"} \cup Replied
    PROVE  Quiet(r, Rejected(r, why))
  <1>1. CASE why = "STALE_CONN"
    BY <1>1, RejectedStaleQuiet
  <1>2. CASE why # "STALE_CONN"
    BY <1>2, RejectedIdleQuiet
  <1> QED
    BY <1>1, <1>2

(* ProcessRejReq.                                                          *)
LEMMA RejReqKept ==
    ASSUME IInv, RInv, IInv', NEW m \in Mad, ProcessRejReq(m)
    PROVE  RKept
  <1>0. UNCHANGED <<commID, owned>>
    BY DEF ProcessRejReq
  <1>1. PICK c \in FindLocalCommID(m.dst, m.rcid) :
          \/ /\ cep[c].state \in {"REQ_SENT", "REP_WAIT"}
             /\ Update(c, Rejected(cep[c], m.reason), {})
          \/ /\ cep[c].state = "ESTABLISHED"
             /\ Update(c, SimDreqReceived(cep[c]), {})
    BY DEF ProcessRejReq
  <1>2. c \in Cep /\ RecOK(cep[c]) /\ RestOK(cep[c])
    BY MatchedNear, Known
  <1>3. cep[c].state \in {"REQ_SENT", "REP_WAIT"}
            => Quiet(cep[c], Rejected(cep[c], m.reason))
    BY <1>2, RejectedQuiet
  <1>4. cep[c].state = "ESTABLISHED" => Quiet(cep[c], SimDreqReceived(cep[c]))
    BY <1>2, SimDreqReceivedQuiet
  <1>5. PICK s : Quiet(cep[c], s) /\ Update(c, s, {})
    BY <1>1, <1>3, <1>4, Zenon
  <1> QED
    BY <1>0, <1>2, <1>5, QuietStep

(* ProcessRejRep.                                                          *)
LEMMA RejRepKept ==
    ASSUME IInv, RInv, IInv', NEW m \in Mad, ProcessRejRep(m)
    PROVE  RKept
  <1>0. UNCHANGED <<commID, owned>>
    BY DEF ProcessRejRep
  <1>1. PICK c \in FindLocalCommID(m.dst, m.rcid) :
          /\ cep[c].state \in Replied
          /\ Update(c, Rejected(cep[c], m.reason), {})
    BY DEF ProcessRejRep, Replied
  <1>2. c \in Cep
    BY MatchedNear
  <1>3. Quiet(cep[c], Rejected(cep[c], m.reason))
    BY <1>1, <1>2, Known, RejectedQuiet
  <1> QED
    BY <1>0, <1>1, <1>2, <1>3, QuietStep

(* ProcessMraReq.                                                          *)
LEMMA MraReqKept ==
    ASSUME IInv, RInv, IInv', NEW m \in Mad, ProcessMraReq(m)
    PROVE  RKept
  <1>0. UNCHANGED <<commID, owned>>
    BY DEF ProcessMraReq
  <1>1. PICK c \in FindLocalCommID(m.dst, m.rcid) :
          /\ cep[c].state = "REQ_SENT"
          /\ Update(c, CepSetState(CmTimerStart([CmTimerStop(cep[c]) EXCEPT !.rcid = m.lcid]),
                                   "REP_WAIT"), {})
    BY DEF ProcessMraReq
  <1> DEFINE s == CepSetState(CmTimerStart([CmTimerStop(cep[c]) EXCEPT !.rcid = m.lcid]),
                              "REP_WAIT")
  <1>2. c \in Cep /\ m.lcid \in Nat
    BY MatchedNear DEF Mad
  <1>3. Quiet(cep[c], s)
    BY <1>1, <1>2, Known, MraReqQuiet
  <1>4. Update(c, s, {})
    BY <1>1
  <1> HIDE DEF s
  <1> QED
    BY <1>0, <1>2, <1>3, <1>4, QuietStep

(* ProcessMraRep.                                                          *)
LEMMA MraRepKept ==
    ASSUME IInv, RInv, IInv', NEW m \in Mad, ProcessMraRep(m)
    PROVE  RKept
  <1>0. UNCHANGED <<commID, owned>>
    BY DEF ProcessMraRep
  <1>1. PICK c \in FindLocalCommID(m.dst, m.rcid) :
          /\ cep[c].state = "REP_SENT"
          /\ Update(c, CepSetState(CmTimerStart(CmTimerStop(cep[c])), "MRA_REP_RCVD"), {})
    BY DEF ProcessMraRep
  <1>2. c \in Cep
    BY MatchedNear
  <1>3. Quiet(cep[c], CepSetState(CmTimerStart(CmTimerStop(cep[c])), "MRA_REP_RCVD"))
    BY <1>1, <1>2, Known, MraRepQuiet
  <1> QED
    BY <1>0, <1>1, <1>2, <1>3, QuietStep

(* ProcessDreq.                                                            *)
LEMMA DreqKept ==
    ASSUME IInv, RInv, IInv', NEW m \in Mad, ProcessDreq(m)
    PROVE  RKept
  <1>0. UNCHANGED <<commID, owned>>
    BY DEF ProcessDreq
  <1>1. PICK c \in FindLocalCommID(m.dst, m.rcid) : \E ms :
          \/ cep[c].state = "ESTABLISHED" /\ Update(c, DreqReceived(cep[c], "DREQ"), ms)
          \/ cep[c].state = "DREQ_SENT" /\ Update(c, DreqCrossed(cep[c]), ms)
          \/ cep[c].state \in {"SIM_DREQ_RCVD", "TIMEWAIT"}
             /\ Update(c, CepSend(cep[c], "DREP"), ms)
    BY DEF ProcessDreq
  <1>2. c \in Cep /\ RecOK(cep[c]) /\ RestOK(cep[c]) /\ "DREQ" \in Held
    BY MatchedNear, Known, StateNames, MadNames
  <1>3. cep[c].state = "ESTABLISHED" => Quiet(cep[c], DreqReceived(cep[c], "DREQ"))
    BY <1>2, DreqReceivedQuiet
  <1>4. cep[c].state = "DREQ_SENT" => Quiet(cep[c], DreqCrossed(cep[c]))
    BY <1>2, DreqCrossedQuiet
  <1>5. cep[c].state \in {"SIM_DREQ_RCVD", "TIMEWAIT"}
            => Quiet(cep[c], CepSend(cep[c], "DREP"))
    BY <1>2, DrepResentQuiet
  <1>6. PICK s : Quiet(cep[c], s) /\ \E ms : Update(c, s, ms)
    BY <1>1, <1>3, <1>4, <1>5, Zenon
  <1> QED
    BY <1>0, <1>2, <1>6, QuietStep

(* ProcessDrep.                                                            *)
LEMMA DrepKept ==
    ASSUME IInv, RInv, IInv', NEW m \in Mad, ProcessDrep(m)
    PROVE  RKept
  <1>0. UNCHANGED <<commID, owned>>
    BY DEF ProcessDrep
  <1>1. PICK c \in FindLocalCommID(m.dst, m.rcid) :
          cep[c].state = "DREQ_SENT" /\ Update(c, DrepReceived(cep[c]), {})
    BY DEF ProcessDrep
  <1>2. c \in Cep
    BY MatchedNear
  <1>3. Quiet(cep[c], DrepReceived(cep[c]))
    BY <1>1, <1>2, Known, DrepReceivedQuiet
  <1> QED
    BY <1>0, <1>1, <1>2, <1>3, QuietStep

-----------------------------------------------------------------------------
(* The invariant holds, and what follows from it.                          *)

(* No CEP exists at the start.                                             *)
LEMMA InitRInv == Init => RInv
  <1> SUFFICES ASSUME Init PROVE RInv
    OBVIOUS
  <1> DEFINE f == DestroyCEP(NewCep)
  <1>1. cep = [c \in Cep |-> f] /\ commID = [h \in Host |-> 0] /\ owned = {}
    BY DEF Init
  <1>2. NewCep.lep = None /\ NewCep.rep = None /\ NewCep.lcid = 0
    BY DEF NewCep
  <1>3. /\ RestOK(f) /\ f.lcid = 0 /\ f.lep = None /\ f.rep = None /\ f.parent = None
    BY <1>2, FreedFields
  <1> HIDE DEF f
  <1>4. \A c \in Cep : cep[c] = f /\ commID[HostOf[c]] = 0
    BY <1>1, CmAssumption
  <1> QED
    BY <1>1, <1>3, <1>4
       DEF RInv, UniqueKeys, CommIDsHandedOut, OwnedAlive, ParentsNear, NearOK

(* Every step keeps it, and does to each CEP only what Sound allows.       *)
LEMMA NextRKept == IInv /\ RInv /\ [Next]_vars => RKept
  <1> SUFFICES ASSUME IInv, RInv, [Next]_vars PROVE RKept
    OBVIOUS
  <1>0. IInv'
    BY NextIInv
  <1>1. ASSUME NEW c \in Cep, UserCall(c) PROVE RKept
    <2>1. CASE \E q \in Qp, h \in Host \ {HostOf[c]}, s \in Sid : Connect(c, q, h, s)
      BY <1>0, <2>1, ConnectKept
    <2>2. CASE \E q \in Qp : ConnectNoDgrm(c, q)
      BY <1>0, <2>2, ConnectNoDgrmKept
    <2>3. CASE \E s \in Sid : Listen(c, s)
      BY <1>0, <2>3, ListenKept
    <2>4. CASE \E q \in Qp : AcceptP(c, q)
      BY <1>0, <2>4, AcceptPKept
    <2> QED
      BY <1>0, <1>1, <2>1, <2>2, <2>3, <2>4, CreateKept, AcceptAKept, RejectAKept,
         RejectPKept, CancelKept, DisconnectKept, DestroyKept, WaitKept DEF UserCall
  <1>2. ASSUME NEW c \in Cep, Internal(c) PROVE RKept
    <2>1. CASE VpdAsyncEventCallback(c)
      BY <1>0, <2>1, RtuPassiveKept, StateNames DEF VpdAsyncEventCallback
    <2> QED
      BY <1>0, <1>2, <2>1, SystemCallbackKept, DoneCallbackKept, SendCompleteKept,
         TimerFiresKept, TimerCallbackKept DEF Internal
  <1>3. ASSUME NEW m \in net, GsaRecvCallback(m) PROVE RKept
    <2>1. m \in Mad
      BY DEF IInv
    <2>2. CASE ProcessRtu(m)
      BY <1>0, <2>2, RtuPassiveKept, Matched, StateNames, MadNames DEF ProcessRtu
    <2> QED
      BY <1>0, <1>3, <2>1, <2>2, ReqKept, RepKept, RejReqKept, RejRepKept,
         MraReqKept, MraRepKept, DreqKept, DrepKept DEF GsaRecvCallback
  <1>4. CASE UNCHANGED vars
    BY <1>4, NothingKept DEF vars
  <1> QED
    BY <1>1, <1>2, <1>3, <1>4 DEF Next

(* The second inductive invariant holds in every reachable state, whatever *)
(* the users, the network, the timers and the callbacks do.                *)
THEOREM ObjectInvariance == Spec => []RInv
  <1>1. IInv /\ RInv /\ [Next]_vars => RInv'
    BY NextRKept DEF RKept
  <1> QED
    BY <1>1, InitRInv, Invariance, PTL DEF Spec

(* The maps of gCM are keyed: on one host no two CEPs share a local        *)
(* communication ID, a local queue pair or a remote one, though every      *)
(* handler inserts and removes them on its own.                            *)
THEOREM KeysAreUnique == Spec => []UniqueKeys
  <1>1. RInv => UniqueKeys
    BY DEF RInv
  <1> QED
    BY <1>1, ObjectInvariance, PTL

(* While the datagram pool lasts, a CEP at rest has left every map and     *)
(* list, and its events fit the role it had: the ASSERTs of DestroyCEP and *)
(* GetConnInfo.                                                            *)
THEOREM CepsAtRest == ASSUME ~ DgrmMayFail PROVE Spec => []AtRest
  <1>1. IInv /\ RInv => AtRest
    <2> SUFFICES ASSUME IInv, RInv, NEW c \in Cep
                 PROVE  /\ CleanOK(cep[c])
                        /\ cep[c].state \in {"FREE", "IDLE"} => cep[c].lcid = 0
                        /\ RoleOK(cep[c])
      BY DEF AtRest, IdleIsClean, IdleHasNoCommID, ModeMatches, RoleOK, ReplyArrived,
             Queued, Replied
    <2>1. RecOK(cep[c]) /\ RestOK(cep[c])
      BY Known
    <2>2. CleanOK(cep[c])
      BY <2>1 DEF CleanOK, RecOK, RestOK, IdleOK, Queued
    <2> QED
      BY <2>1, <2>2 DEF RestOK, IdleOK
  <1> QED
    BY <1>1, Invariance, ObjectInvariance, PTL

(* However late sends complete, the datagram is free for an answer to a    *)
(* REQ or a REP, and a REP, RTU or DREQ that ResendREP, ProcessRep or the  *)
(* timer sends again is the one the datagram holds.                        *)
THEOREM AnswersKeepTheDatagram == Spec => [](DatagramFree /\ AnswersHeld)
  <1>1. RInv => DatagramFree /\ AnswersHeld
    BY DEF RInv, RestOK, DgrmOK, DatagramFree, AnswersHeld, ReplyArrived, Queued, Replied
  <1> QED
    BY <1>1, ObjectInvariance, PTL

(* An event raised for a user with a callback has a callback on its way:   *)
(* CmNotifyUser queues one for each, and CmDoneCallback only returns       *)
(* those that were delivered.                                              *)
THEOREM EventsNotStranded == Spec => []NoEventStranded
  <1>1. IInv /\ RInv => NoEventStranded
    <2> SUFFICES ASSUME IInv, RInv, NEW c \in Cep, cep[c].cb, ~ Destroying(cep[c]),
                        cep[c].flags \ {"TIMEOUT_REP"} # {}
                 PROVE  cep[c].cbref > 0
      BY DEF NoEventStranded
    <2>1. RestOK(cep[c]) /\ cep[c] \in CepObject /\ RecOK(cep[c])
      BY Known
    <2> DEFINE o == Owed(cep[c])
    <2>2. o # {} /\ o \subseteq Event
      BY <2>1 DEF Owed, CepObject
    <2>3. IsFiniteSet(o)
      BY <2>2, EventsFinite, FS_Subset
    <2>4. Cardinality(o) # 0 /\ Cardinality(o) \in Nat
      BY <2>2, <2>3, FS_EmptySet, FS_CardinalityType
    <2>5. Cardinality(o) <= Coming(cep[c])
      BY <2>1 DEF RestOK, OwedOK
    <2> HIDE DEF o
    <2>6. cep[c].cbref \in Nat
      BY <2>1 DEF CepObject
    <2> QED
      BY <2>4, <2>5, <2>6 DEF Coming
  <1> QED
    BY <1>1, Invariance, ObjectInvariance, PTL

(* The queue pair of a connection that was established stays claimed until *)
(* TIMEWAIT is over, unless gCmParams allows its reuse: no call, MAD or    *)
(* timer takes it from the CEP earlier.                                    *)
THEOREM QueuePairsAreHeld == Spec => QpHeldUntilTimewait
  <1> DEFINE Held1 == ~ ReuseQP => \A c \in Cep :
                        cep[c].state \in Connected /\ cep'[c].lep # cep[c].lep
                            => cep[c].state = "TIMEWAIT" /\ ~ cep'[c].timer
  <1>1. IInv /\ RInv /\ [Next]_vars => Held1
    BY NextRKept DEF RKept, Sound, QpKept
  <1>2. IInv /\ RInv /\ [Next]_vars => [Held1]_vars
    BY <1>1
  <1> QED
    BY <1>2, Invariance, ObjectInvariance, PTL DEF Spec, QpHeldUntilTimewait

(* No event is lost on its way to the user: GetConnInfo drops the one that *)
(* the user must answer only by reporting it, and with bTimewaitCallback a *)
(* CEP comes to rest only with a final event.                              *)
THEOREM UsersHearOfEvents == Spec => EventsReachUser
  <1> DEFINE Told == \A c \in Cep :
                       Dropped(c) => PickedEvent(cep[c]) = AnswerDue[cep[c].state]
             Final == TimewaitCallback => \A c \in owned \cap owned' :
                        cep[c].state \notin {"FREE", "IDLE"} \cup ReplyArrived
                        /\ cep'[c].state = "IDLE"
                            => cep'[c].flags \cap FinalEvent # {}
  <1>1. ASSUME IInv, RInv, [Next]_vars PROVE Told /\ Final
    <2>1. RInv' /\ \A c \in Cep : Sound(cep[c], cep'[c])
      BY <1>1, NextRKept DEF RKept
    <2>2. Told
      BY <2>1 DEF Dropped, Sound, AnswerKept
    <2>3. \A c \in owned \cap owned' : c \in Cep /\ ~ Destroying(cep[c]) /\ ~ Destroying(cep'[c])
      BY <1>1, <2>1 DEF RInv, OwnedAlive, IInv
    <2>4. Final
      BY <2>1, <2>3 DEF Sound, FinalKept
    <2> QED
      BY <2>2, <2>4
  <1> HIDE DEF Told, Final
  <1>2. IInv /\ RInv /\ [Next]_vars => [Told]_vars /\ [Final]_vars
    BY <1>1
  <1>3. Spec => [][Told]_vars /\ [][Final]_vars
    BY <1>2, Invariance, ObjectInvariance, PTL DEF Spec
  <1> QED
    BY <1>3 DEF EventsReachUser, EventsAreReported, FinalEventRaised, Told, Final

=============================================================================
