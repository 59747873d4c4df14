----------------------------- MODULE RmppProofs -----------------------------
(***************************************************************************)
(* ContextHeld and TransferWhole for any contexts, transactions, lengths,  *)
(* windows and noise.  RInv says of every context what its state, timer    *)
(* and callback allow (RecOK), who refers to it (RefsOK, ListOK) and what  *)
(* the datagrams are (DgrmsBalanced, GivenOK).  AInv, on top of it, says   *)
(* what an acknowledgement is worth.                                       *)
(***************************************************************************)
EXTENDS Rmpp, FiniteSetTheorems, SequenceTheorems, TLAPS

Armed == {"ACTIVE", "TIMEWAIT", "TIMEWAIT_RECV"}
RecvRec == [pc : {"idle", "lock", "notfound", "put"}, ctx : Ctx \cup {NoCtx}, mad : RmppMad \cup {NoCtx}]
RTypes ==
    /\ sar \in [Ctx -> SarContext] /\ recvList \in Seq(Ctx) /\ rmppNet \subseteq RmppMad
    /\ recv \in RecvRec /\ sarUnload \in {"no", "yes"} \cup Ctx

(* What is held of a message that is not complete.                         *)
Collecting(h) == h # << >> /\ \A i \in DOMAIN h : h[i].seg = i /\ ~h[i].last
Window(r) == r.exp <= r.wl /\ (r.total # 0 => r.wl <= r.total)
RecOK(r) ==
    /\ r.state \in Armed \cup {"FREE", "DESTROY"}
    /\ r.state = "FREE" => r = FreeContext
    /\ r.state # "FREE" => r.tid \in Tid
    /\ r.state \in Armed => r.exp >= 1
    /\ r.state = "ACTIVE" => Collecting(r.head) /\ r.exp = Len(r.head) + 1 /\ Window(r)
    /\ r.state # "ACTIVE" => r.head = << >>
    /\ r.timer => r.state \in Armed
    /\ r.timer /\ r.cb \in {"fired", "lock"} => r.stopped
    /\ r.cb = "remove" => r.state = "DESTROY"
    /\ r.reap => r.ref = 0

(* The holders of a context; the unload takes over the list's reference.   *)
SarHolders(c) == One(SarListed(c) \/ sarUnload = c) + One(sar[c].timer) + One(sar[c].cb # "none")
              + One(recv.ctx = c)
RefsOK == \A c \in Ctx : /\ sar[c].ref >= SarHolders(c)
                         /\ sarUnload = "no" => sar[c].ref = SarHolders(c)
ListOK ==
    /\ \A i, j \in DOMAIN recvList : recvList[i] = recvList[j] => i = j
    /\ \A c \in Ctx : /\ SarListed(c) = (sar[c].state \in Armed \/ sar[c].cb = "remove")
                      /\ sarUnload = c => sar[c].state = "DESTROY" /\ sar[c].cb # "remove"
                      /\ sarUnload = "no" /\ sar[c].state = "DESTROY" => sar[c].cb \notin {"fired", "lock"}
RecvOK ==
    /\ (recv.ctx # NoCtx) = (recv.pc \in {"lock", "put"})
    /\ recv.pc \in {"lock", "notfound"} => recv.mad \in RmppMad
    /\ recv.pc = "lock" => sar[recv.ctx].tid = recv.mad.tid
    /\ sarUnload # "no" => recv.pc = "idle"

WholeMessage(g) ==
    /\ g.tid \in Tid /\ g.mads \in Seq(RmppMad) /\ g.mads # << >>
    /\ \A i \in DOMAIN g.mads : g.mads[i].seg = i /\ g.mads[i].last = (i = Len(g.mads))
    /\ g.len = (Len(g.mads) - 1) * DataSize + g.mads[Len(g.mads)].len
GivenOK == \A g \in given : WholeMessage(g)

RInv == /\ RTypes /\ (\A c \in Ctx : RecOK(sar[c])) /\ RefsOK /\ ListOK /\ RecvOK
        /\ GivenOK /\ IsFiniteSet(Heads) /\ DgrmsBalanced

(* Only the reaper and the unload destroy a lock.                          *)
LInv == noLock \subseteq Ctx /\ \A c \in noLock : sar[c].reap \/ sarUnload = c

(* A first segment, unless it is noise, is the sender's.                   *)
Genuine(m) == m.type = "DATA" /\ m.seg = 1 => m = DataMad(m.tid, 1)
Told(G, t) == \E g \in G : g.tid = t
KnownTotal(r) == r.state = "ACTIVE" /\ LenKnown[r.tid] => r.total = Segments(MsgLen[r.tid])
Worth(r, G) == KnownTotal(r) /\ (r.state = "TIMEWAIT_RECV" => Told(G, r.tid))
AInv ==
    /\ \A m \in rmppNet : Genuine(m)
    /\ recv.pc \in {"lock", "notfound"} => Genuine(recv.mad)
    /\ \A c \in Ctx : Worth(sar[c], given)
    /\ AckedIsGiven

-----------------------------------------------------------------------------
(* The operations on a context *)

(* The fields of a context.                                                *)
LEMMA ContextFields ==
    ASSUME NEW r \in SarContext
    PROVE  /\ r.state \in SarState /\ r.tid \in Tid \cup {NoCtx} /\ r.exp \in Nat /\ r.wl \in Nat
           /\ r.total \in Nat /\ r.head \in Seq(RmppMad) /\ r.ref \in Nat /\ r.timer \in BOOLEAN
           /\ r.cb \in {"none", "fired", "lock", "remove", "put"} /\ r.stopped \in BOOLEAN
           /\ r.reap \in BOOLEAN
  BY DEF SarContext

(* A reference is given up.                                                *)
LEMMA DecrementFields ==
    ASSUME NEW r \in SarContext, r.ref >= 1
    PROVE  LET t == DecrementSarContextUsageCount(r) IN
           /\ t \in SarContext /\ t.state = r.state /\ t.tid = r.tid /\ t.exp = r.exp /\ t.wl = r.wl
           /\ t.total = r.total /\ t.head = r.head /\ t.ref = r.ref - 1 /\ t.timer = r.timer
           /\ t.cb = r.cb /\ t.stopped = r.stopped /\ t.reap = (r.ref = 1)
  <1> DEFINE b == r.ref = 1
             n == r.ref - 1
  <1>1. b \in BOOLEAN /\ n \in Nat
    BY ContextFields
  <1>2. DecrementSarContextUsageCount(r) = [r EXCEPT !.ref = n, !.reap = b]
    BY DEF DecrementSarContextUsageCount, SarContext
  <1> HIDE DEF b, n
  <1>3. [r EXCEPT !.ref = n, !.reap = b] \in SarContext
    BY <1>1 DEF SarContext
  <1> QED BY <1>1, <1>2, <1>3 DEF SarContext, b, n

(* The timer is started.                                                   *)
LEMMA StartFields ==
    ASSUME NEW r \in SarContext
    PROVE  LET t == StartSarContextTimer(r) IN
           /\ t \in SarContext /\ t.state = r.state /\ t.tid = r.tid /\ t.exp = r.exp /\ t.wl = r.wl
           /\ t.total = r.total /\ t.head = r.head /\ t.ref = r.ref + 1 /\ t.timer
           /\ t.cb = r.cb /\ t.stopped = r.stopped /\ t.reap = r.reap
  <1> DEFINE n == r.ref + 1
  <1>1. n \in Nat
    BY ContextFields
  <1>2. StartSarContextTimer(r) = [r EXCEPT !.ref = n, !.timer = TRUE]
    BY DEF StartSarContextTimer, SarContext
  <1> HIDE DEF n
  <1>3. [r EXCEPT !.ref = n, !.timer = TRUE] \in SarContext
    BY <1>1 DEF SarContext
  <1> QED BY <1>1, <1>2, <1>3 DEF SarContext, n

(* The timer is stopped: its reference goes with it, unless its callback   *)
(* has begun, which is told.                                               *)
LEMMA StopFields ==
    ASSUME NEW r \in SarContext, r.timer => r.ref >= 1
    PROVE  LET t == StopSarContextTimer(r) IN
           /\ t \in SarContext /\ t.state = r.state /\ t.tid = r.tid /\ t.exp = r.exp /\ t.wl = r.wl
           /\ t.total = r.total /\ t.head = r.head /\ t.ref = r.ref - One(r.timer) /\ ~t.timer
           /\ t.cb = r.cb /\ t.stopped = (r.stopped \/ ~r.timer)
           /\ t.reap = (IF r.timer THEN r.ref = 1 ELSE r.reap)
  <1>1. CASE r.timer
    <2> DEFINE d == DecrementSarContextUsageCount(r)
    <2>1. /\ d \in SarContext /\ d.state = r.state /\ d.tid = r.tid /\ d.exp = r.exp /\ d.wl = r.wl
          /\ d.total = r.total /\ d.head = r.head /\ d.ref = r.ref - 1 /\ d.timer = r.timer
          /\ d.cb = r.cb /\ d.stopped = r.stopped /\ d.reap = (r.ref = 1)
      BY <1>1, DecrementFields
    <2>2. StopSarContextTimer(r) = [d EXCEPT !.timer = FALSE]
      BY <1>1 DEF StopSarContextTimer
    <2> HIDE DEF d
    <2>3. One(r.timer) = 1
      BY <1>1 DEF One
    <2> DEFINE t == [d EXCEPT !.timer = FALSE]
    <2>4. /\ t \in SarContext /\ t.state = d.state /\ t.tid = d.tid /\ t.exp = d.exp /\ t.wl = d.wl
          /\ t.total = d.total /\ t.head = d.head /\ t.ref = d.ref /\ ~t.timer
          /\ t.cb = d.cb /\ t.stopped = d.stopped /\ t.reap = d.reap
      BY <2>1 DEF SarContext
    <2> HIDE DEF t
    <2>5. r.stopped = (r.stopped \/ ~r.timer)
      BY <1>1 DEF SarContext
    <2>6. StopSarContextTimer(r) = t
      BY <2>2 DEF t
    <2> QED BY <1>1, <2>1, <2>3, <2>4, <2>5, <2>6
  <1>2. CASE ~r.timer
    <2>1. StopSarContextTimer(r) = [r EXCEPT !.stopped = TRUE] /\ One(r.timer) = 0
      BY <1>2 DEF StopSarContextTimer, One
    <2>2. [r EXCEPT !.stopped = TRUE] \in SarContext
      BY DEF SarContext
    <2>3. r.ref - 0 = r.ref
      BY ContextFields
    <2> QED BY <1>2, <2>1, <2>2, <2>3 DEF SarContext
  <1> QED BY <1>1, <1>2

(* A context whose reception ends while list and receive thread hold it.   *)
Ending(r) ==
    /\ r \in SarContext /\ r.tid \in Tid /\ r.ref >= 2 + One(r.timer) /\ ~r.reap /\ r.cb # "remove"
    /\ r.exp >= 1
    /\ r.timer => r.state \in Armed
    /\ r.timer /\ r.cb \in {"fired", "lock"} => r.stopped
    /\ r.state \notin Armed /\ r.cb \in {"fired", "lock"} => r.stopped

(* RmppReceiverTerminate keeps the balance and leaves the timer running.   *)
LEMMA TerminateFields ==
    ASSUME NEW r, Ending(r), NEW new \in {"TIMEWAIT", "TIMEWAIT_RECV"}
    PROVE  LET t == RmppReceiverTerminate(r, new) IN
           /\ t \in SarContext /\ t.state = new /\ t.tid = r.tid /\ t.exp = r.exp /\ t.wl = r.wl
           /\ t.total = r.total /\ t.head = << >> /\ t.ref = r.ref + 1 - One(r.timer) /\ t.timer
           /\ t.cb = r.cb /\ ~t.reap /\ RecOK(t)
  <1> DEFINE s == [r EXCEPT !.state = new, !.head = << >>]
             u == IF SarContextTimerArmed(r) THEN StopSarContextTimer(s) ELSE s
             t == RmppReceiverTerminate(r, new)
  <1>0. r \in SarContext /\ r.ref \in Nat
    BY ContextFields DEF Ending
  <1>1. /\ s \in SarContext /\ s.state = new /\ s.tid = r.tid /\ s.exp = r.exp /\ s.wl = r.wl
        /\ s.total = r.total /\ s.head = << >> /\ s.ref = r.ref /\ s.timer = r.timer
        /\ s.cb = r.cb /\ s.stopped = r.stopped /\ s.reap = r.reap
    <2>1. new \in SarState /\ << >> \in Seq(RmppMad)
      BY DEF SarState
    <2>2. s \in SarContext
      BY <1>0, <2>1 DEF SarContext
    <2> QED BY <1>0, <2>1, <2>2 DEF SarContext
  <1>2. One(r.timer) \in {0, 1} /\ (r.timer => One(r.timer) = 1) /\ (~r.timer => One(r.timer) = 0)
    BY DEF One
  <1> HIDE DEF s
  <1>3. /\ u \in SarContext /\ u.state = new /\ u.tid = r.tid /\ u.exp = r.exp /\ u.wl = r.wl
        /\ u.total = r.total /\ u.head = << >> /\ u.ref = r.ref - One(r.timer) /\ ~u.timer
        /\ u.cb = r.cb /\ ~u.reap /\ (u.cb \in {"fired", "lock"} => u.stopped)
    <2>1. CASE r.state \in Armed
      <3>1. u = StopSarContextTimer(s)
        BY <2>1 DEF SarContextTimerArmed, Armed
      <3>0. s.ref >= 2
        BY <1>0, <1>1, <1>2 DEF Ending
      <3>2. s.timer => s.ref >= 1
        BY <3>0, <1>0, <1>1
      <3>3. s.timer => s.ref # 1
        BY <3>0
      <3> HIDE DEF u
      <3>4. /\ u \in SarContext /\ u.state = new /\ u.tid = r.tid /\ u.exp = r.exp /\ u.wl = r.wl
            /\ u.total = r.total /\ u.head = << >> /\ u.ref = r.ref - One(r.timer) /\ ~u.timer
            /\ u.cb = r.cb /\ u.stopped = (r.stopped \/ ~r.timer)
            /\ u.reap = (IF r.timer THEN s.ref = 1 ELSE r.reap)
        BY <1>1, <3>1, <3>2, StopFields
      <3> QED BY <1>1, <3>3, <3>4 DEF Ending
    <2>2. CASE r.state \notin Armed
      <3>1. u = s /\ ~r.timer
        BY <2>2 DEF SarContextTimerArmed, Armed, Ending
      <3> QED BY <1>0, <1>1, <1>2, <2>2, <3>1 DEF Ending
    <2> QED BY <2>1, <2>2
  <1>4. t = StartSarContextTimer(u)
    BY DEF RmppReceiverTerminate, s
  <1> HIDE DEF u, t
  <1>5. /\ t \in SarContext /\ t.state = new /\ t.tid = r.tid /\ t.exp = r.exp /\ t.wl = r.wl
        /\ t.total = r.total /\ t.head = << >> /\ t.ref = u.ref + 1 /\ t.timer
        /\ t.cb = r.cb /\ ~t.reap /\ (t.cb \in {"fired", "lock"} => t.stopped)
    BY <1>3, <1>4, StartFields
  <1>6. t.ref = r.ref + 1 - One(r.timer)
    BY <1>0, <1>2, <1>3, <1>5
  <1>7. RecOK(t)
    BY <1>5 DEF RecOK, Armed, Ending
  <1> QED BY <1>5, <1>6, <1>7 DEF t

-----------------------------------------------------------------------------
(* Lengths and segments *)

(* Division with a rest.                                                   *)
LEMMA DivFacts ==
    ASSUME NEW a \in Nat, NEW d \in Nat \ {0}
    PROVE  a \div d \in Nat /\ (a \div d) * d <= a /\ a < (a \div d) * d + d
  <1>1. a = d * (a \div d) + (a % d) /\ (a % d) \in 0..(d - 1)
    OBVIOUS
  <1> QED BY <1>1

(* A payload has a number of segments, and the last of them is not empty   *)
(* and not too long.                                                       *)
LEMMA SegmentFacts ==
    ASSUME NEW len \in Nat
    PROVE  /\ Segments(len) \in Nat
           /\ len # 0 => /\ Segments(len) # 0
                         /\ len - (Segments(len) - 1) * DataSize \in 1..DataSize
  <1> DEFINE n == Segments(len)
  <1>1. DataSize \in Nat \ {0} /\ len + DataSize - 1 \in Nat
    BY RmppAssumption
  <1>2. n \in Nat /\ n * DataSize <= len + DataSize - 1 /\ len + DataSize - 1 < n * DataSize + DataSize
    BY <1>1, DivFacts DEF Segments
  <1> HIDE DEF n
  <1>3. len # 0 => n # 0
    BY <1>1, <1>2
  <1>4. (n - 1) * DataSize = n * DataSize - DataSize
    BY <1>1, <1>2
  <1>5. n * DataSize \in Nat
    BY <1>1, <1>2
  <1> QED BY <1>1, <1>2, <1>3, <1>4, <1>5 DEF n

(* The segments of a response are MADs.                                    *)
LEMMA DataMadType ==
    ASSUME NEW t \in Tid, NEW s \in Nat
    PROVE  DataMad(t, s) \in RmppMad
  <1> DEFINE n == Segments(MsgLen[t])
             l == IF s = n THEN MsgLen[t] - (n - 1) * DataSize ELSE IF s = 1 /\ LenKnown[t] THEN MsgLen[t] ELSE 0
  <1>1. MsgLen[t] \in Nat \ {0}
    BY RmppAssumption
  <1>2. MsgLen[t] - (n - 1) * DataSize \in Nat
    BY <1>1, SegmentFacts
  <1>3. l \in Nat
    BY <1>1, <1>2
  <1>4. DataMad(t, s) = [type |-> "DATA", tid |-> t, seg |-> s, first |-> s = 1, last |-> s = n,
                         valid |-> TRUE, len |-> l]
    BY DEF DataMad
  <1> HIDE DEF l
  <1> QED BY <1>3, <1>4 DEF RmppMad, RmppType

(* The receiver's answers are MADs.                                        *)
LEMMA ReplyTypes ==
    /\ \A type \in RmppType, t \in Tid, n, l \in Nat : Reply(type, t, n, l) \in RmppMad
    /\ \A t \in Tid : BuildRmppStop(t) \subseteq RmppMad /\ BuildRmppAbort(t) \subseteq RmppMad
    /\ \A r \in SarContext : r.tid \in Tid /\ r.exp >= 1 => BuildRmppAck(r) \subseteq RmppMad
  <1>1. \A type \in RmppType, t \in Tid, n, l \in Nat : Reply(type, t, n, l) \in RmppMad
    BY DEF Reply, RmppMad
  <1>2. \A t \in Tid : BuildRmppStop(t) \subseteq RmppMad /\ BuildRmppAbort(t) \subseteq RmppMad
    BY <1>1 DEF BuildRmppStop, BuildRmppAbort, RmppType
  <1>3. ASSUME NEW r \in SarContext, r.tid \in Tid, r.exp >= 1 PROVE BuildRmppAck(r) \subseteq RmppMad
    <2>1. r.exp - 1 \in Nat /\ r.wl \in Nat /\ "ACK" \in RmppType
      BY <1>3, ContextFields DEF RmppType
    <2>2. Reply("ACK", r.tid, r.exp - 1, r.wl) \in RmppMad
      BY <1>3, <2>1, <1>1
    <2> QED BY <2>2 DEF BuildRmppAck
  <1> QED BY <1>1, <1>2, <1>3

-----------------------------------------------------------------------------
(* What the receiver makes of a MAD *)

Receiving(r, m) ==
    /\ r \in SarContext /\ r.tid \in Tid /\ m \in RmppMad /\ m.tid = r.tid
    /\ r.ref >= 2 + One(r.timer) /\ ~r.reap /\ r.cb # "remove"
    /\ \/ r.state \in Armed /\ RecOK(r)
       \/ r = Created(m) /\ m.type = "DATA" /\ m.seg = 1
Took(r, status) == IF status = "FREJECT" THEN 1 ELSE IF status = "FPENDING" THEN 0 ELSE Len(r.head) + 1
Processed(r, m, o) ==
    /\ o.r \in SarContext /\ RecOK(o.r) /\ o.r.state \in Armed /\ o.r.tid = r.tid /\ o.r.cb = r.cb
    /\ ~o.r.reap /\ o.r.ref = r.ref - One(r.timer) + One(o.r.timer)
    /\ o.sent \subseteq RmppMad /\ o.put \in Nat /\ o.status \in {"FREJECT", "FPENDING", "FCOMPLETED"}
    /\ Len(o.r.head) + o.put + Took(r, o.status) = Len(r.head) + 1
    /\ \A g \in o.msg : WholeMessage([tid |-> m.tid, mads |-> g.mads, len |-> g.len])
(* What an acknowledgement is worth.                                       *)
Acks(r, m, o) ==
    /\ o.r.state = "TIMEWAIT_RECV" => r.state = "TIMEWAIT_RECV" \/ o.msg # {}
    /\ KnownTotal(r) /\ Genuine(m) => KnownTotal(o.r)
    /\ \A a \in o.sent : a.type = "DATA" => FALSE
    /\ \A a \in o.sent : a.type = "ACK" =>
         /\ a.tid = r.tid
         /\ \/ o.msg # {} \/ r.state = "TIMEWAIT_RECV"
            \/ o.r.state = "ACTIVE" /\ (o.r.total # 0 => a.seg < o.r.total)

(* One of a Boolean.                                                       *)
LEMMA OneOf == \A b \in BOOLEAN : One(b) \in {0, 1} /\ (b => One(b) = 1) /\ (~b => One(b) = 0)
  BY DEF One

(* One is a number.                                                        *)
LEMMA OneType == \A b : \E n \in Int : One(b) = n
  BY DEF One

(* The fields of a new context.                                            *)
LEMMA CreatedFields ==
    ASSUME NEW m \in RmppMad
    PROVE  LET r == Created(m) IN
           /\ r \in SarContext /\ r.state = "CREATED" /\ r.tid = m.tid /\ r.exp = 1 /\ r.wl = 1 /\ r.total = 0
           /\ r.head = << >> /\ r.ref = 2 /\ r.timer = FALSE /\ r.cb = "none" /\ r.stopped = FALSE
           /\ r.reap = FALSE
  <1> DEFINE f == FreeContext
  <1>1. << >> \in Seq(RmppMad) /\ m.tid \in Tid
    BY DEF RmppMad
  <1>2. /\ f \in SarContext /\ f.total = 0 /\ f.head = << >> /\ f.timer = FALSE /\ f.cb = "none"
        /\ f.stopped = FALSE /\ f.reap = FALSE
    BY <1>1 DEF FreeContext, SarContext, SarState
  <1>3. Created(m) = [f EXCEPT !.state = "CREATED", !.tid = m.tid, !.exp = 1, !.wl = 1, !.ref = 2]
    BY DEF Created
  <1> HIDE DEF f
  <1>4. Created(m) \in SarContext
    <2>1. "CREATED" \in SarState
      BY DEF SarState
    <2> DEFINE e == [f EXCEPT !.state = "CREATED", !.tid = m.tid]
    <2>2. e \in SarContext
      BY <1>1, <1>2, <2>1 DEF SarContext
    <2>3. Created(m) = [e EXCEPT !.exp = 1, !.wl = 1, !.ref = 2]
      BY <1>2, <1>3 DEF SarContext
    <2> HIDE DEF e
    <2>4. [e EXCEPT !.exp = 1, !.wl = 1, !.ref = 2] \in SarContext
      BY <2>2 DEF SarContext
    <2> QED BY <2>3, <2>4
  <1> QED BY <1>2, <1>3, <1>4 DEF SarContext

(* A context that receives may end.                                        *)
LEMMA ReceivingEnds == ASSUME NEW r, NEW m, Receiving(r, m) PROVE Ending(r)
  <1>1. CASE r.state \in Armed /\ RecOK(r)
    BY <1>1 DEF Receiving, Ending, RecOK
  <1>2. CASE r = Created(m)
    <2>1. m \in RmppMad
      BY DEF Receiving
    <2>2. r.state = "CREATED" /\ r.exp = 1 /\ r.timer = FALSE /\ r.cb = "none"
      BY <1>2, <2>1, CreatedFields
    <2>3. r.exp >= 1
      BY <2>2
    <2> QED BY <2>2, <2>3 DEF Receiving, Ending, Armed
  <1> QED BY <1>1, <1>2 DEF Receiving

(* The transaction ends here.                                              *)
LEMMA TerminateProcessed ==
    ASSUME NEW r, NEW m, r \in SarContext, m \in RmppMad, m.tid = r.tid, r.tid \in Tid,
           NEW q, Ending(q), q.tid = r.tid, q.cb = r.cb, q.ref - One(q.timer) = r.ref - One(r.timer),
           NEW sent \in SUBSET RmppMad, \A a \in sent : a.type \notin {"ACK", "DATA"},
           NEW status \in {"FREJECT", "FPENDING"}, Len(q.head) + Took(r, status) = Len(r.head) + 1
    PROVE  LET o == Terminate(q, sent, status) IN Processed(r, m, o) /\ Acks(r, m, o)
  <1> DEFINE t == RmppReceiverTerminate(q, "TIMEWAIT")
             o == Terminate(q, sent, status)
  <1>1. /\ t \in SarContext /\ t.state = "TIMEWAIT" /\ t.tid = q.tid /\ t.head = << >>
        /\ t.ref = q.ref + 1 - One(q.timer) /\ t.timer /\ t.cb = q.cb /\ ~t.reap /\ RecOK(t)
    BY TerminateFields
  <1> HIDE DEF t
  <1>2. o = [r |-> t, sent |-> sent, status |-> status, put |-> Len(q.head), msg |-> {}]
    BY DEF Terminate, Outcome, t
  <1>3. q.ref \in Nat /\ r.ref \in Nat /\ q.timer \in BOOLEAN /\ r.timer \in BOOLEAN /\ Len(q.head) \in Nat
    BY ContextFields DEF Ending
  <1>4. One(q.timer) \in {0, 1} /\ One(r.timer) \in {0, 1} /\ One(t.timer) = 1
    BY <1>1, <1>3, OneOf
  <1>5. t.ref = r.ref - One(r.timer) + One(t.timer)
    <2> DEFINE x == One(q.timer)
               y == One(r.timer)
    <2>1. q.ref - x = r.ref - y /\ x \in {0, 1} /\ y \in {0, 1} /\ t.ref = q.ref + 1 - x
      BY <1>1, <1>4
    <2> HIDE DEF x, y
    <2>2. t.ref = r.ref - y + 1
      BY <1>3, <2>1
    <2> QED BY <1>4, <2>2 DEF y
  <1>6. Len(t.head) = 0 /\ t.state \in Armed
    BY <1>1 DEF Armed
  <1> HIDE DEF o
  <1>7. Len(o.r.head) + o.put + Took(r, o.status) = Len(r.head) + 1
    <2>1. Took(r, status) \in Nat
      BY ContextFields DEF Took
    <2>2. Len(r.head) \in Nat
      BY ContextFields
    <2>3. Len(o.r.head) = 0 /\ o.put = Len(q.head) /\ o.status = status
      BY <1>2, <1>6
    <2>4. 0 + Len(q.head) + Took(r, status) = Len(q.head) + Took(r, status)
      BY <1>3, <2>1
    <2> QED BY <2>3, <2>4
  <1>8. Processed(r, m, o)
    BY <1>1, <1>2, <1>3, <1>5, <1>6, <1>7 DEF Processed
  <1>9. Acks(r, m, o)
    BY <1>1, <1>2 DEF Acks, KnownTotal
  <1> QED BY <1>8, <1>9 DEF o

(* The MAD changes nothing, whether it is answered or not.                 *)
LEMMA DiscardProcessed ==
    ASSUME NEW r, NEW m, Receiving(r, m), r.state \in Armed, RecOK(r),
           NEW sent \in SUBSET RmppMad, sent = {} \/ (r.state = "ACTIVE" /\ sent = BuildRmppAck(r))
    PROVE  LET o == Discard(r, sent) IN Processed(r, m, o) /\ Acks(r, m, o)
  <1> DEFINE o == Discard(r, sent)
  <1>1. o = [r |-> r, sent |-> sent, status |-> "FREJECT", put |-> 0, msg |-> {}]
    BY DEF Discard, Outcome
  <1>2. r \in SarContext /\ r.ref \in Nat /\ r.timer \in BOOLEAN /\ Len(r.head) \in Nat
    BY ContextFields DEF Receiving
  <1>3. One(r.timer) \in {0, 1}
    BY <1>2, OneOf
  <1> HIDE DEF o
  <1>4. Len(o.r.head) + o.put + Took(r, o.status) = Len(r.head) + 1
    BY <1>1, <1>2 DEF Took
  <1>5. o.r.ref = r.ref - One(r.timer) + One(o.r.timer)
    BY <1>1, <1>2, <1>3
  <1>6. Processed(r, m, o)
    BY <1>1, <1>2, <1>4, <1>5 DEF Processed, Receiving
  <1>7. ASSUME NEW a \in o.sent
        PROVE  a.type = "ACK" /\ a.tid = r.tid /\ r.state = "ACTIVE" /\ (r.total # 0 => a.seg < r.total)
    <2>1. r.state = "ACTIVE" /\ a = Reply("ACK", r.tid, r.exp - 1, r.wl)
      BY <1>1, <1>7 DEF BuildRmppAck
    <2>2. a.type = "ACK" /\ a.tid = r.tid /\ a.seg = r.exp - 1
      BY <2>1 DEF Reply
    <2>3. r.total # 0 => r.exp <= r.total
      BY <1>2, <2>1, ContextFields DEF RecOK, Window
    <2> QED BY <1>2, <2>1, <2>2, <2>3, ContextFields
  <1>8. Acks(r, m, o)
    BY <1>1, <1>7 DEF Acks
  <1> QED BY <1>6, <1>8 DEF o

(* The context with the expected segment linked to its list.               *)
Linked(r, m) ==
    IF m.seg = 1
    THEN StartSarContextTimer([r EXCEPT !.total = Segments(m.len), !.state = "ACTIVE",
                                        !.head = <<m>>, !.exp = 2])
    ELSE [r EXCEPT !.head = Append(@, m), !.exp = @ + 1]

(* What is held up to the segment m, which may be the last.                *)
LEMMA LinkedFields ==
    ASSUME NEW r, NEW m, Receiving(r, m), m.type = "DATA", m.seg = r.exp, r.state \in {"ACTIVE", "CREATED"}
    PROVE  LET s == Linked(r, m) IN
           /\ s \in SarContext /\ s.state = "ACTIVE" /\ s.tid = r.tid /\ s.cb = r.cb
           /\ s.ref - One(s.timer) = r.ref - One(r.timer) /\ Ending(s)
           /\ Len(s.head) = Len(r.head) + 1 /\ s.exp = Len(s.head) + 1 /\ s.head[Len(s.head)] = m
           /\ m.seg = Len(s.head)
           /\ \A i \in DOMAIN s.head : s.head[i].seg = i /\ (i # Len(s.head) => ~s.head[i].last)
           /\ s.total # 0 /\ s.exp <= s.wl => s.wl <= s.total
           /\ s.total # 0 /\ m.seg # 1 => s.wl <= s.total
           /\ (s.timer /\ s.cb \in {"fired", "lock"} => s.stopped)
           /\ m.seg = 1 => s.total = Segments(m.len) /\ s.wl = 1
           /\ m.seg # 1 => s.total = r.total /\ r.state = "ACTIVE"
  <1> DEFINE s == Linked(r, m)
  <1>0. /\ r \in SarContext /\ r.ref \in Nat /\ r.timer \in BOOLEAN /\ r.head \in Seq(RmppMad) /\ m \in RmppMad
        /\ r.exp \in Nat /\ r.wl \in Nat /\ r.total \in Nat /\ r.tid \in Tid /\ m.len \in Nat
    BY ContextFields DEF Receiving, RmppMad
  <1>1. CASE r.state = "CREATED"
    <2>1. /\ r = Created(m) /\ r.exp = 1 /\ r.wl = 1 /\ r.head = << >> /\ r.ref = 2 /\ r.timer = FALSE
          /\ r.cb = "none" /\ r.reap = FALSE
      <3>1. r = Created(m)
        BY <1>1 DEF Receiving, Armed
      <3> QED BY <1>0, <3>1, CreatedFields
    <2> DEFINE n == Segments(m.len)
               q == [r EXCEPT !.total = n, !.state = "ACTIVE", !.head = <<m>>, !.exp = 2]
    <2>2. n \in Nat /\ <<m>> \in Seq(RmppMad) /\ "ACTIVE" \in SarState
      <3>1. n \in Nat
        BY <1>0, SegmentFacts
      <3>2. <<m>> \in Seq(RmppMad) /\ "ACTIVE" \in SarState
        BY <1>0 DEF SarState
      <3> QED BY <3>1, <3>2
    <2>3. s = StartSarContextTimer(q)
      BY <2>1 DEF Linked
    <2> HIDE DEF n
    <2>4. q \in SarContext
      BY <1>0, <2>2 DEF SarContext
    <2>5. /\ q.total = n /\ q.state = "ACTIVE" /\ q.head = <<m>> /\ q.exp = 2 /\ q.tid = r.tid /\ q.wl = 1
          /\ q.ref = 2 /\ q.cb = "none" /\ q.reap = FALSE
      BY <1>0, <2>1, <2>4 DEF SarContext
    <2> HIDE DEF q, s
    <2>6. /\ s \in SarContext /\ s.total = n /\ s.state = "ACTIVE" /\ s.head = <<m>> /\ s.exp = 2
          /\ s.tid = r.tid /\ s.wl = 1 /\ s.ref = 3 /\ s.timer /\ s.cb = "none" /\ s.reap = FALSE
      BY <2>3, <2>4, <2>5, StartFields
    <2>7. One(s.timer) = 1 /\ One(r.timer) = 0
      BY <2>1, <2>6 DEF One
    <2>8. Len(s.head) = 1 /\ s.head[1] = m /\ DOMAIN s.head = {1} /\ Len(r.head) = 0
      BY <2>1, <2>6
    <2>9. Ending(s)
      <3>0. s.ref = 3
        BY <2>6
      <3>1. s.ref >= 2 + One(s.timer)
        BY <2>7, <3>0
      <3>2. s.exp >= 1
        BY <2>6
      <3> QED BY <1>0, <2>6, <3>1, <3>2 DEF Ending, Armed
    <2>10. s.ref - One(s.timer) = r.ref - One(r.timer)
      <3>1. s.ref = 3 /\ r.ref = 2
        BY <2>1, <2>6
      <3> QED BY <2>7, <3>1
    <2>11. Len(s.head) = Len(r.head) + 1 /\ s.exp = Len(s.head) + 1 /\ m.seg = Len(s.head) /\ m.seg = 1
      BY <2>1, <2>6, <2>8
    <2>12. s.total = Segments(m.len)
      BY <2>6 DEF n
    <2>13. \A i \in DOMAIN s.head : s.head[i].seg = i /\ (i # Len(s.head) => ~s.head[i].last)
      BY <2>8, <2>11
    <2>14. s.total # 0 /\ s.exp <= s.wl => s.wl <= s.total
      BY <2>6
    <2>15. s.cb = r.cb /\ ~(s.timer /\ s.cb \in {"fired", "lock"})
      BY <2>1, <2>6
    <2>16. s.head[Len(s.head)] = m
      BY <2>8
    <2> QED BY <2>6, <2>9, <2>10, <2>11, <2>12, <2>13, <2>14, <2>15, <2>16 DEF s
  <1>2. CASE r.state = "ACTIVE"
    <2>1. /\ Collecting(r.head) /\ r.exp = Len(r.head) + 1 /\ Window(r) /\ RecOK(r)
          /\ Len(r.head) \in Nat \ {0} /\ DOMAIN r.head = 1..Len(r.head)
      <3>1. RecOK(r)
        BY <1>0, <1>2, CreatedFields DEF Receiving
      <3> QED BY <1>0, <1>2, <3>1 DEF RecOK, Collecting
    <2>2. m.seg # 1
      BY <2>1
    <2> DEFINE h == Append(r.head, m)
               e == r.exp + 1
    <2>3. /\ h \in Seq(RmppMad) /\ e \in Nat /\ Len(h) = Len(r.head) + 1 /\ DOMAIN h = 1..Len(h)
          /\ h[Len(h)] = m /\ \A i \in 1..Len(r.head) : h[i] = r.head[i]
      BY <1>0, <2>1
    <2>4. s = [r EXCEPT !.head = h, !.exp = e]
      BY <1>0, <2>2 DEF Linked, SarContext
    <2> HIDE DEF h
    <2>5. \A i \in DOMAIN h : h[i].seg = i /\ (i # Len(h) => ~h[i].last)
      BY <2>1, <2>3 DEF Collecting
    <2> HIDE DEF e, s
    <2>6. s \in SarContext
      BY <1>0, <2>3, <2>4 DEF SarContext
    <2>7. /\ s.state = "ACTIVE" /\ s.tid = r.tid /\ s.cb = r.cb /\ s.ref = r.ref /\ s.timer = r.timer
          /\ s.head = h /\ s.exp = e /\ s.wl = r.wl /\ s.total = r.total /\ s.stopped = r.stopped /\ s.reap = r.reap
      BY <1>0, <1>2, <2>4 DEF SarContext
    <2>8. Ending(s)
      <3>1. s.ref >= 2 + One(s.timer) /\ s.tid \in Tid /\ ~s.reap /\ s.cb # "remove"
        BY <2>7 DEF Receiving
      <3>2. s.exp >= 1
        BY <1>0, <2>7 DEF e
      <3> QED BY <2>1, <2>6, <2>7, <3>1, <3>2 DEF Ending, Armed, RecOK
    <2>9. s.timer /\ s.cb \in {"fired", "lock"} => s.stopped
      BY <2>1, <2>7 DEF RecOK
    <2>10. s.total # 0 => s.wl <= s.total
      BY <2>1, <2>7 DEF Window
    <2>11. s.exp = Len(s.head) + 1 /\ m.seg = Len(s.head)
      BY <2>1, <2>3, <2>7 DEF e
    <2> QED BY <1>2, <2>2, <2>3, <2>5, <2>6, <2>7, <2>8, <2>9, <2>10, <2>11 DEF s
  <1> QED BY <1>1, <1>2

(* The last segment: the message is handed up as it was collected, or the  *)
(* transaction ends because its length was announced otherwise.            *)
LEMMA GotLastProcessed ==
    ASSUME NEW r, NEW m, Receiving(r, m), m.type = "DATA", m.seg = r.exp, r.state \in {"ACTIVE", "CREATED"}, m.last
    PROVE  LET o == RmppReceiverGotLast(Linked(r, m), m) IN Processed(r, m, o) /\ Acks(r, m, o)
  <1> DEFINE s == Linked(r, m)
             o == RmppReceiverGotLast(s, m)
  <1>0. r \in SarContext /\ r.tid \in Tid /\ m \in RmppMad /\ m.tid = r.tid /\ m.len \in Nat /\ m.seg \in Nat
    BY DEF Receiving, RmppMad
  <1>1. /\ s \in SarContext /\ s.state = "ACTIVE" /\ s.tid = r.tid /\ s.cb = r.cb
        /\ s.ref - One(s.timer) = r.ref - One(r.timer) /\ Ending(s)
        /\ Len(s.head) = Len(r.head) + 1 /\ s.exp = Len(s.head) + 1 /\ s.head[Len(s.head)] = m
        /\ m.seg = Len(s.head)
        /\ \A i \in DOMAIN s.head : s.head[i].seg = i /\ (i # Len(s.head) => ~s.head[i].last)
        /\ s.timer /\ s.cb \in {"fired", "lock"} => s.stopped
    BY LinkedFields
  <1> HIDE DEF s
  <1>2. /\ r.ref \in Nat /\ s.ref \in Nat /\ r.timer \in BOOLEAN /\ s.timer \in BOOLEAN /\ s.stopped \in BOOLEAN
        /\ s.head \in Seq(RmppMad) /\ r.head \in Seq(RmppMad) /\ Len(r.head) \in Nat /\ Len(s.head) \in Nat
    BY <1>0, <1>1, ContextFields
  <1>3. One(r.timer) \in {0, 1} /\ One(s.timer) \in {0, 1}
    BY <1>2, OneOf
  <1>4. CASE s.total # 0 /\ m.seg # s.total
    <2>1. o = Terminate(s, BuildRmppAbort(m.tid), "FPENDING")
      BY <1>4 DEF RmppReceiverGotLast
    <2>2. BuildRmppAbort(m.tid) \in SUBSET RmppMad /\ \A a \in BuildRmppAbort(m.tid) : a.type \notin {"ACK", "DATA"}
      BY <1>0, ReplyTypes DEF BuildRmppAbort, Reply
    <2>3. Len(s.head) + Took(r, "FPENDING") = Len(r.head) + 1
      BY <1>1, <1>2 DEF Took
    <2> HIDE DEF o
    <2> QED BY <1>0, <1>1, <2>1, <2>2, <2>3, TerminateProcessed DEF o, s
  <1>5. CASE ~(s.total # 0 /\ m.seg # s.total)
    <2> DEFINE q == [s EXCEPT !.state = "DONE", !.head = << >>]
               d == StopSarContextTimer(q)
               t == RmppReceiverTerminate(d, "TIMEWAIT_RECV")
               g == [mads |-> s.head, len |-> (m.seg - 1) * DataSize + m.len]
    <2>1. /\ q \in SarContext /\ q.state = "DONE" /\ q.tid = s.tid /\ q.ref = s.ref /\ q.timer = s.timer
          /\ q.cb = s.cb /\ q.exp = s.exp /\ q.stopped = s.stopped /\ q.reap = s.reap
      <3>1. "DONE" \in SarState /\ << >> \in Seq(RmppMad)
        BY DEF SarState
      <3>2. q \in SarContext
        BY <1>1, <3>1 DEF SarContext
      <3> QED BY <1>1, <3>1, <3>2 DEF SarContext
    <2> HIDE DEF q
    <2>2. q.ref >= 2 + One(s.timer) /\ q.ref >= 2 /\ ~q.reap /\ s.cb # "remove"
      BY <1>1, <1>2, <1>3, <2>1 DEF Ending
    <2>3. /\ d \in SarContext /\ d.state = "DONE" /\ d.tid = s.tid /\ d.ref = s.ref - One(s.timer) /\ ~d.timer
          /\ d.cb = s.cb /\ d.exp = s.exp /\ d.stopped = (s.stopped \/ ~s.timer) /\ d.reap = (IF q.timer THEN q.ref = 1 ELSE q.reap)
      <3>1. q.timer => q.ref >= 1
        BY <1>2, <2>1, <2>2
      <3> QED BY <2>1, <3>1, StopFields
    <2>4. ~d.reap
      <3>1. q.ref # 1
        BY <2>2
      <3> QED BY <2>2, <2>3, <3>1
    <2>5. d.ref >= 2 /\ One(d.timer) = 0 /\ d.ref \in Nat
      BY <1>2, <1>3, <2>1, <2>2, <2>3, ContextFields DEF One
    <2> HIDE DEF d
    <2>6. Ending(d)
      <3>1. d.ref >= 2 + One(d.timer)
        BY <2>5
      <3>2. d.cb \in {"fired", "lock"} => d.stopped
        BY <1>1, <2>3
      <3> QED BY <1>0, <1>1, <2>2, <2>3, <2>4, <3>1, <3>2 DEF Ending
    <2>7. /\ t \in SarContext /\ t.state = "TIMEWAIT_RECV" /\ t.tid = d.tid /\ t.head = << >>
          /\ t.ref = d.ref + 1 - One(d.timer) /\ t.timer /\ t.cb = d.cb /\ ~t.reap /\ RecOK(t)
      BY <2>6, TerminateFields
    <2>8. o = [r |-> t, sent |-> BuildRmppAck(s), status |-> "FCOMPLETED", put |-> 0, msg |-> {g}]
      BY <1>5 DEF RmppReceiverGotLast, Outcome, q, d
    <2> HIDE DEF t
    <2>9. t.ref = r.ref - One(r.timer) + One(t.timer)
      <3>1. One(t.timer) = 1
        BY <2>7 DEF One
      <3>2. t.ref = s.ref - One(s.timer) + 1
        BY <1>2, <1>3, <2>3, <2>5, <2>7
      <3>3. s.ref - One(s.timer) = r.ref - One(r.timer)
        BY <1>1
      <3> QED BY <3>1, <3>2, <3>3
    <2>10. WholeMessage([tid |-> m.tid, mads |-> g.mads, len |-> g.len])
      <3>1. \A i \in DOMAIN s.head : s.head[i].last = (i = Len(s.head))
        <4>1. \A i \in DOMAIN s.head : s.head[i].last \in BOOLEAN
          <5>1. \A i \in DOMAIN s.head : s.head[i] \in RmppMad
            BY <1>2
          <5> QED BY <5>1 DEF RmppMad
        <4>2. \A i \in DOMAIN s.head : i = Len(s.head) => s.head[i].last
          BY <1>1
        <4> QED BY <1>1, <4>1, <4>2
      <3>2. m.tid \in Tid /\ s.head \in Seq(RmppMad) /\ s.head # << >>
        BY <1>0, <1>1, <1>2
      <3>3. \A i \in DOMAIN s.head : s.head[i].seg = i
        BY <1>1
      <3>4. (m.seg - 1) * DataSize + m.len = (Len(s.head) - 1) * DataSize + s.head[Len(s.head)].len
        BY <1>1
      <3>5. g.mads = s.head /\ g.len = (m.seg - 1) * DataSize + m.len
        OBVIOUS
      <3> QED BY <3>1, <3>2, <3>3, <3>4, <3>5 DEF WholeMessage
    <2> HIDE DEF g
    <2>11. BuildRmppAck(s) \subseteq RmppMad /\ \A a \in BuildRmppAck(s) : a.type = "ACK" /\ a.tid = r.tid
      <3>1. s.exp >= 1 /\ s.tid \in Tid
        BY <1>0, <1>1, <1>2
      <3>2. BuildRmppAck(s) \subseteq RmppMad
        BY <1>1, <3>1, ReplyTypes
      <3> QED BY <1>1, <3>2 DEF BuildRmppAck, Reply
    <2>12. Len(t.head) + 0 + Took(r, "FCOMPLETED") = Len(r.head) + 1
      BY <1>2, <2>7 DEF Took
    <2>13. t.state \in Armed /\ t.cb = r.cb /\ t.tid = r.tid
      BY <1>1, <2>3, <2>7 DEF Armed
    <2> HIDE DEF o
    <2>14. Processed(r, m, o)
      BY <2>7, <2>8, <2>9, <2>10, <2>11, <2>12, <2>13 DEF Processed
    <2>15. Acks(r, m, o)
      BY <2>7, <2>8, <2>11 DEF Acks, KnownTotal
    <2> QED BY <2>14, <2>15 DEF o, s
  <1> QED BY <1>4, <1>5

(* A segment in the middle: the window moves on when it is due.            *)
LEMMA SendAckProcessed ==
    ASSUME NEW r, NEW m, Receiving(r, m), m.type = "DATA", m.seg = r.exp, r.state \in {"ACTIVE", "CREATED"}, ~m.last,
           Linked(r, m).total # 0 => Linked(r, m).exp <= Linked(r, m).total
    PROVE  LET o == RmppReceiverSendAckIfNeeded(Linked(r, m)) IN Processed(r, m, o) /\ Acks(r, m, o)
  <1> DEFINE s == Linked(r, m)
             o == RmppReceiverSendAckIfNeeded(s)
  <1>0. r \in SarContext /\ r.tid \in Tid /\ m \in RmppMad /\ m.tid = r.tid /\ m.len \in Nat /\ m.seg \in Nat
    BY DEF Receiving, RmppMad
  <1>1. /\ s \in SarContext /\ s.state = "ACTIVE" /\ s.tid = r.tid /\ s.cb = r.cb
        /\ s.ref - One(s.timer) = r.ref - One(r.timer) /\ Ending(s)
        /\ Len(s.head) = Len(r.head) + 1 /\ s.exp = Len(s.head) + 1 /\ s.head[Len(s.head)] = m
        /\ m.seg = Len(s.head)
        /\ \A i \in DOMAIN s.head : s.head[i].seg = i /\ (i # Len(s.head) => ~s.head[i].last)
        /\ s.timer /\ s.cb \in {"fired", "lock"} => s.stopped
        /\ s.total # 0 /\ s.exp <= s.wl => s.wl <= s.total
        /\ m.seg = 1 => s.total = Segments(m.len) /\ s.wl = 1
        /\ m.seg # 1 => s.total = r.total /\ r.state = "ACTIVE"
    BY LinkedFields
  <1>s. s.total # 0 => s.exp <= s.total
    OBVIOUS
  <1> HIDE DEF s
  <1>2. /\ r.ref \in Nat /\ s.ref \in Nat /\ r.timer \in BOOLEAN /\ s.timer \in BOOLEAN
        /\ s.head \in Seq(RmppMad) /\ Len(r.head) \in Nat /\ Len(s.head) \in Nat /\ DOMAIN s.head = 1..Len(s.head)
        /\ s.exp \in Nat /\ s.wl \in Nat /\ s.total \in Nat
    BY <1>0, <1>1, ContextFields
  <1>3. One(r.timer) \in {0, 1} /\ One(s.timer) \in {0, 1}
    BY <1>2, OneOf
  <1> DEFINE w == s.exp + RmppWindowSize - 1
             n == IF s.total # 0 /\ w > s.total THEN s.total ELSE w
             t == [s EXCEPT !.wl = n]
             ack == s.exp > s.wl \/ s.wl - (s.exp - 1) >= RmppWindowLowWater
             u == IF ack THEN t ELSE s
  <1>4. o = [r |-> u, sent |-> IF ack THEN BuildRmppAck(t) ELSE {}, status |-> "FPENDING", put |-> 0, msg |-> {}]
    BY DEF RmppReceiverSendAckIfNeeded, Outcome
  <1>5. n \in Nat /\ s.exp <= n /\ (s.total # 0 => n <= s.total)
    BY <1>2, <1>s, RmppAssumption
  <1> HIDE DEF n
  <1>6. /\ t \in SarContext /\ t.state = "ACTIVE" /\ t.tid = s.tid /\ t.cb = s.cb /\ t.ref = s.ref
        /\ t.timer = s.timer /\ t.head = s.head /\ t.exp = s.exp /\ t.total = s.total /\ t.stopped = s.stopped
        /\ t.reap = s.reap /\ t.wl = n
    BY <1>1, <1>5 DEF SarContext
  <1> HIDE DEF t
  <1>7. /\ u \in SarContext /\ u.state = "ACTIVE" /\ u.tid = s.tid /\ u.cb = s.cb /\ u.ref = s.ref
        /\ u.timer = s.timer /\ u.head = s.head /\ u.exp = s.exp /\ u.total = s.total /\ u.stopped = s.stopped
        /\ u.reap = s.reap /\ Window(u)
    <2>1. CASE ack
      BY <1>5, <1>6, <2>1 DEF Window
    <2>2. CASE ~ack
      <3>1. s.exp <= s.wl
        BY <1>2, <2>2
      <3> QED BY <1>1, <2>2, <3>1 DEF Window
    <2> QED BY <2>1, <2>2
  <1> HIDE DEF u, ack, o
  <1>8. Collecting(s.head)
    BY <1>1, <1>2 DEF Collecting
  <1>9. u.tid \in Tid /\ ~u.reap /\ u.cb # "remove"
    BY <1>0, <1>1, <1>7 DEF Ending
  <1>10. RecOK(u)
    BY <1>1, <1>7, <1>8, <1>9 DEF RecOK, Armed
  <1>11. u.ref = r.ref - One(r.timer) + One(u.timer)
    <2>1. u.ref = s.ref /\ One(u.timer) = One(s.timer)
      BY <1>7
    <2>2. s.ref = r.ref - One(r.timer) + One(s.timer)
      <3> DEFINE x == One(r.timer)
                 y == One(s.timer)
      <3>1. s.ref - y = r.ref - x /\ x \in {0, 1} /\ y \in {0, 1}
        BY <1>1, <1>3
      <3> HIDE DEF x, y
      <3>2. s.ref = r.ref - x + y
        BY <1>2, <3>1
      <3> QED BY <3>2 DEF x, y
    <2> QED BY <2>1, <2>2
  <1>12. Len(u.head) + 0 + Took(r, "FPENDING") = Len(r.head) + 1
    BY <1>1, <1>2, <1>7 DEF Took
  <1>13. o.sent \subseteq BuildRmppAck(t) /\ BuildRmppAck(t) \subseteq RmppMad
    <2>1. t.exp >= 1 /\ t.tid \in Tid
      BY <1>0, <1>1, <1>2, <1>6
    <2> QED BY <1>4, <1>6, <2>1, ReplyTypes
  <1>14. Processed(r, m, o)
    BY <1>1, <1>4, <1>7, <1>9, <1>10, <1>11, <1>12, <1>13 DEF Processed, Armed
  <1>15. KnownTotal(r) /\ Genuine(m) => KnownTotal(u)
    <2> SUFFICES ASSUME KnownTotal(r), Genuine(m), LenKnown[r.tid] PROVE s.total = Segments(MsgLen[r.tid])
      BY <1>1, <1>7 DEF KnownTotal
    <2>1. CASE m.seg = 1
      <3> DEFINE k == Segments(MsgLen[m.tid])
      <3>1. m = DataMad(m.tid, 1)
        BY <2>1 DEF Genuine
      <3>2. DataMad(m.tid, 1).last = (1 = k) /\ (1 # k /\ LenKnown[m.tid] => DataMad(m.tid, 1).len = MsgLen[m.tid])
        BY DEF DataMad
      <3>3. m.len = MsgLen[m.tid]
        BY <1>0, <3>1, <3>2
      <3> QED BY <1>0, <1>1, <2>1, <3>3
    <2>2. CASE m.seg # 1
      BY <1>1, <2>2 DEF KnownTotal
    <2> QED BY <2>1, <2>2
  <1>16. ASSUME NEW a \in o.sent
         PROVE  a.type = "ACK" /\ a.tid = r.tid /\ (u.total # 0 => a.seg < u.total)
    <2>1. a = Reply("ACK", t.tid, t.exp - 1, t.wl)
      BY <1>13, <1>16 DEF BuildRmppAck
    <2>2. a.type = "ACK" /\ a.tid = t.tid /\ a.seg = t.exp - 1
      BY <2>1 DEF Reply
    <2>3. s.total # 0 => s.exp - 1 < s.total
      BY <1>2, <1>s
    <2> QED BY <1>1, <1>6, <1>7, <2>2, <2>3
  <1>17. Acks(r, m, o)
    BY <1>4, <1>7, <1>15, <1>16 DEF Acks
  <1> QED BY <1>14, <1>17 DEF o, s

(* The expected segment.                                                   *)
LEMMA AcceptedProcessed ==
    ASSUME NEW r, NEW m, Receiving(r, m), m.type = "DATA", m.seg = r.exp, r.state \in {"ACTIVE", "CREATED"}
    PROVE  LET o == Accepted(r, m) IN Processed(r, m, o) /\ Acks(r, m, o)
  <1> DEFINE s == Linked(r, m)
             o == Accepted(r, m)
  <1>1. o = IF m.last THEN RmppReceiverGotLast(s, m)
            ELSE IF s.total # 0 /\ s.exp > s.total THEN Terminate(s, BuildRmppAbort(m.tid), "FPENDING")
            ELSE RmppReceiverSendAckIfNeeded(s)
    BY DEF Accepted, Linked
  <1>2. /\ s \in SarContext /\ s.tid = r.tid /\ s.cb = r.cb
        /\ s.ref - One(s.timer) = r.ref - One(r.timer) /\ Ending(s)
        /\ Len(s.head) = Len(r.head) + 1
    BY LinkedFields
  <1> HIDE DEF o
  <1>3. CASE m.last
    BY <1>1, <1>3, GotLastProcessed DEF o
  <1>4. CASE ~m.last /\ s.total # 0 /\ s.exp > s.total
    <2>0. r \in SarContext /\ r.tid \in Tid /\ m \in RmppMad /\ m.tid = r.tid /\ Len(r.head) \in Nat
      BY ContextFields DEF Receiving
    <2>1. o = Terminate(s, BuildRmppAbort(m.tid), "FPENDING")
      BY <1>1, <1>4
    <2>2. BuildRmppAbort(m.tid) \in SUBSET RmppMad /\ \A a \in BuildRmppAbort(m.tid) : a.type \notin {"ACK", "DATA"}
      BY <2>0, ReplyTypes DEF BuildRmppAbort, Reply
    <2> HIDE DEF s
    <2>3. Len(s.head) + Took(r, "FPENDING") = Len(r.head) + 1
      BY <1>2, <2>0 DEF Took
    <2> QED BY <1>2, <2>0, <2>1, <2>2, <2>3, TerminateProcessed DEF o
  <1>5. CASE ~m.last /\ ~(s.total # 0 /\ s.exp > s.total)
    <2>1. s.total # 0 => s.exp <= s.total
      BY <1>2, <1>5, ContextFields
    <2>2. o = RmppReceiverSendAckIfNeeded(s)
      BY <1>1, <1>5
    <2> QED BY <1>5, <2>1, <2>2, SendAckProcessed DEF o
  <1> QED BY <1>3, <1>4, <1>5

(* Whatever the MAD is.                                                    *)
LEMMA RecvProcessed ==
    ASSUME NEW r, NEW m, Receiving(r, m)
    PROVE  LET o == RmppReceiverProcessRecv(r, m) IN Processed(r, m, o) /\ Acks(r, m, o)
  <1> DEFINE o == RmppReceiverProcessRecv(r, m)
  <1>0. /\ r \in SarContext /\ r.tid \in Tid /\ m \in RmppMad /\ m.tid = r.tid /\ Ending(r)
        /\ Len(r.head) \in Nat /\ r.ref \in Nat /\ r.timer \in BOOLEAN /\ m.type \in RmppType
    BY ReceivingEnds, ContextFields DEF Receiving, RmppMad
  <1>1. BuildRmppAbort(m.tid) \in SUBSET RmppMad /\ \A a \in BuildRmppAbort(m.tid) : a.type \notin {"ACK", "DATA"}
    BY <1>0, ReplyTypes DEF BuildRmppAbort, Reply
  <1>2. ASSUME NEW sent \in SUBSET RmppMad, \A a \in sent : a.type \notin {"ACK", "DATA"},
               o = Terminate(r, sent, "FREJECT")
        PROVE  Processed(r, m, o) /\ Acks(r, m, o)
    <2>1. Len(r.head) + Took(r, "FREJECT") = Len(r.head) + 1
      BY DEF Took
    <2> HIDE DEF o
    <2> QED BY <1>0, <1>2, <2>1, TerminateProcessed
  <1>3. r.state \in Armed => RecOK(r)
    BY CreatedFields, <1>0 DEF Receiving, Armed
  <1>4. r.state \notin Armed => r.state = "CREATED" /\ r.exp = 1 /\ m.type = "DATA" /\ m.seg = 1
    BY CreatedFields, <1>0 DEF Receiving
  <1>5. CASE ~RmppMadCheck(m)
    <2>1. o = Terminate(r, BuildRmppAbort(m.tid), "FREJECT")
      BY <1>5 DEF RmppReceiverProcessRecv
    <2> QED BY <1>1, <1>2, <2>1
  <1>6. CASE RmppMadCheck(m) /\ r.state = "TIMEWAIT"
    <2>1. o = Discard(r, {})
      BY <1>6 DEF RmppReceiverProcessRecv
    <2> QED BY <1>3, <1>6, <2>1, DiscardProcessed DEF Armed
  <1>7. CASE RmppMadCheck(m) /\ r.state # "TIMEWAIT" /\ m.type \in {"STOP", "ABORT"}
    <2>1. o = Terminate(r, {}, "FREJECT")
      BY <1>7 DEF RmppReceiverProcessRecv
    <2> QED BY <1>2, <2>1
  <1>8. CASE RmppMadCheck(m) /\ r.state = "TIMEWAIT_RECV" /\ m.type = "DATA"
    <2> DEFINE t == RmppReceiverTerminate(r, "TIMEWAIT_RECV")
    <2>1. o = [r |-> t, sent |-> BuildRmppAck(r), status |-> "FREJECT", put |-> 0, msg |-> {}]
      BY <1>8 DEF RmppReceiverProcessRecv, Discard, Outcome
    <2>2. /\ t \in SarContext /\ t.state = "TIMEWAIT_RECV" /\ t.tid = r.tid /\ t.head = << >>
          /\ t.ref = r.ref + 1 - One(r.timer) /\ t.timer /\ t.cb = r.cb /\ ~t.reap /\ RecOK(t)
      BY <1>0, TerminateFields
    <2> HIDE DEF t, o
    <2>3. t.ref = r.ref - One(r.timer) + One(t.timer)
      <3>1. One(t.timer) = 1 /\ One(r.timer) \in {0, 1}
        BY <1>0, <2>2, OneOf DEF One
      <3>2. t.ref = r.ref + 1 - One(r.timer)
        BY <2>2
      <3> QED BY <1>0, <3>1, <3>2
    <2>4. Len(r.head) = 0 /\ Len(t.head) = 0
      BY <1>3, <1>8, <2>2 DEF RecOK, Armed
    <2>5. Len(t.head) + 0 + Took(r, "FREJECT") = Len(r.head) + 1
      BY <2>4 DEF Took
    <2>6. BuildRmppAck(r) \subseteq RmppMad /\ \A a \in BuildRmppAck(r) : a.type = "ACK" /\ a.tid = r.tid
      <3>1. r.exp >= 1
        BY <1>0, <1>3, <1>8, ContextFields DEF RecOK, Armed
      <3> QED BY <1>0, <3>1, ReplyTypes DEF BuildRmppAck, Reply
    <2>7. Processed(r, m, o)
      BY <2>1, <2>2, <2>3, <2>5, <2>6 DEF Processed, Armed
    <2>8. Acks(r, m, o)
      BY <1>8, <2>1, <2>2, <2>6 DEF Acks, KnownTotal
    <2> QED BY <2>7, <2>8 DEF o
  <1>9. CASE RmppMadCheck(m) /\ r.state = "TIMEWAIT_RECV" /\ m.type = "ACK"
    <2>1. o = Terminate(r, BuildRmppAbort(m.tid), "FREJECT")
      BY <1>9 DEF RmppReceiverProcessRecv
    <2> QED BY <1>1, <1>2, <2>1
  <1>10. CASE RmppMadCheck(m) /\ r.state \notin {"TIMEWAIT", "TIMEWAIT_RECV"} /\ m.type = "ACK"
    <2>1. o = Discard(r, {}) /\ r.state \in Armed
      BY <1>4, <1>10 DEF RmppReceiverProcessRecv
    <2> QED BY <1>3, <2>1, DiscardProcessed
  <1>11. CASE RmppMadCheck(m) /\ r.state \notin {"TIMEWAIT", "TIMEWAIT_RECV"} /\ m.type = "DATA" /\ m.seg # r.exp
    <2>1. o = Discard(r, BuildRmppAck(r)) /\ r.state = "ACTIVE"
      BY <1>4, <1>11 DEF RmppReceiverProcessRecv, Armed
    <2>2. BuildRmppAck(r) \in SUBSET RmppMad
      <3>1. r.exp >= 1
        BY <1>0, <1>3, <2>1, ContextFields DEF RecOK, Armed
      <3> QED BY <1>0, <3>1, ReplyTypes
    <2> QED BY <1>3, <2>1, <2>2, DiscardProcessed DEF Armed
  <1>12. CASE RmppMadCheck(m) /\ r.state \notin {"TIMEWAIT", "TIMEWAIT_RECV"} /\ m.type = "DATA" /\ m.seg = r.exp
    <2>1. o = Accepted(r, m) /\ r.state \in {"ACTIVE", "CREATED"}
      BY <1>4, <1>12 DEF RmppReceiverProcessRecv, Armed
    <2> QED BY <1>12, <2>1, AcceptedProcessed
  <1> QED BY <1>0, <1>5, <1>6, <1>7, <1>8, <1>9, <1>10, <1>11, <1>12 DEF RmppType

-----------------------------------------------------------------------------
(* Counting *)

(* A context's list changes: so does the number of places.                 *)
LEMMA HeadsChange ==
    ASSUME sar \in [Ctx -> SarContext], IsFiniteSet(Heads), NEW c \in Ctx, NEW r \in SarContext,
           sar' = [sar EXCEPT ![c] = r]
    PROVE  /\ IsFiniteSet(Heads') /\ Cardinality(Heads) \in Nat
           /\ Cardinality(Heads') = Cardinality(Heads) - Len(sar[c].head) + Len(r.head)
  <1> DEFINE Rest == UNION {{d} \X DOMAIN sar[d].head : d \in Ctx \ {c}}
             Old == {c} \X (1..Len(sar[c].head))
             New == {c} \X (1..Len(r.head))
  <1>1. /\ sar[c].head \in Seq(RmppMad) /\ r.head \in Seq(RmppMad)
        /\ Len(sar[c].head) \in Nat /\ Len(r.head) \in Nat
        /\ DOMAIN sar[c].head = 1..Len(sar[c].head) /\ DOMAIN r.head = 1..Len(r.head)
    <2>1. sar[c] \in SarContext
      OBVIOUS
    <2>2. sar[c].head \in Seq(RmppMad) /\ r.head \in Seq(RmppMad)
      BY <2>1, ContextFields
    <2> QED BY <2>2
  <1>2. sar'[c] = r /\ \A d \in Ctx \ {c} : sar'[d] = sar[d]
    OBVIOUS
  <1>3. Heads = Rest \cup Old
    BY <1>1 DEF Heads
  <1>4. Heads' = Rest \cup New
    BY <1>1, <1>2 DEF Heads
  <1>5. Rest \cap Old = {} /\ Rest \cap New = {}
    OBVIOUS
  <1>6. /\ IsFiniteSet(Old) /\ Cardinality(Old) = Len(sar[c].head)
        /\ IsFiniteSet(New) /\ Cardinality(New) = Len(r.head)
    <2>1. IsFiniteSet({c}) /\ Cardinality({c}) = 1
      BY FS_Singleton
    <2>2. ASSUME NEW n \in Nat PROVE IsFiniteSet({c} \X (1..n)) /\ Cardinality({c} \X (1..n)) = n
      <3>1. IsFiniteSet(1..n) /\ Cardinality(1..n) = n
        BY FS_Interval
      <3>2. IsFiniteSet({c} \X (1..n)) /\ Cardinality({c} \X (1..n)) = Cardinality({c}) * Cardinality(1..n)
        BY <2>1, <3>1, FS_Product
      <3>3. 1 * n = n
        OBVIOUS
      <3> QED BY <2>1, <3>1, <3>2, <3>3
    <2> QED BY <1>1, <2>2
  <1> HIDE DEF Rest, Old, New
  <1>7. IsFiniteSet(Rest)
    BY <1>3, FS_Subset
  <1>8. /\ Cardinality(Heads) = Cardinality(Rest) + Cardinality(Old) - Cardinality({})
        /\ IsFiniteSet(Heads') /\ Cardinality(Heads') = Cardinality(Rest) + Cardinality(New) - Cardinality({})
    <2>1. Cardinality(Rest \cup Old) = Cardinality(Rest) + Cardinality(Old) - Cardinality(Rest \cap Old)
      BY <1>6, <1>7, FS_Union
    <2>2. /\ IsFiniteSet(Rest \cup New)
          /\ Cardinality(Rest \cup New) = Cardinality(Rest) + Cardinality(New) - Cardinality(Rest \cap New)
      BY <1>6, <1>7, FS_Union
    <2> QED BY <1>3, <1>4, <1>5, <2>1, <2>2
  <1>9. Cardinality({}) = 0 /\ Cardinality(Rest) \in Nat
    BY <1>7, FS_EmptySet, FS_CardinalityType
  <1> QED BY <1>1, <1>6, <1>8, <1>9

(* An entry is taken from a list that has it once.                         *)
LEMMA RemoveAtFacts ==
    ASSUME NEW S, NEW q \in Seq(S), NEW k \in DOMAIN q, \A i, j \in DOMAIN q : q[i] = q[j] => i = j
    PROVE  /\ RemoveAt(q, k) \in Seq(S)
           /\ \A i, j \in DOMAIN RemoveAt(q, k) : RemoveAt(q, k)[i] = RemoveAt(q, k)[j] => i = j
           /\ \A i \in DOMAIN RemoveAt(q, k) :
                 RemoveAt(q, k)[i] # q[k] /\ \E j \in DOMAIN q : q[j] = RemoveAt(q, k)[i]
           /\ \A j \in DOMAIN q : j # k => \E i \in DOMAIN RemoveAt(q, k) : RemoveAt(q, k)[i] = q[j]
  <1> DEFINE t == RemoveAt(q, k)
  <1>1. Len(q) \in Nat /\ DOMAIN q = 1..Len(q) /\ k \in 1..Len(q)
    OBVIOUS
  <1>2. /\ t \in Seq(S) /\ Len(t) = Len(q) - 1 /\ DOMAIN t = 1..(Len(q) - 1)
        /\ \A i \in 1..(Len(q) - 1) : t[i] = IF i < k THEN q[i] ELSE q[i + 1]
    <2> DEFINE a == SubSeq(q, 1, k - 1)
               b == SubSeq(q, k + 1, Len(q))
    <2>1. a \in Seq(S) /\ Len(a) = k - 1 /\ \A i \in 1..(k - 1) : a[i] = q[i]
      <3>1. \A i \in 1..(k - 1) : q[i] \in S
        BY <1>1
      <3>2. /\ a \in Seq(S) /\ Len(a) = IF 1 <= k - 1 THEN (k - 1) - 1 + 1 ELSE 0
            /\ \A i \in 1..((k - 1) - 1 + 1) : a[i] = q[1 + i - 1]
        BY <1>1, <3>1, SubSeqProperties
      <3> HIDE DEF a
      <3> QED BY <1>1, <3>2
    <2>2. b \in Seq(S) /\ Len(b) = Len(q) - k /\ \A i \in 1..(Len(q) - k) : b[i] = q[k + i]
      <3>1. \A i \in (k + 1)..Len(q) : q[i] \in S
        BY <1>1
      <3>2. /\ b \in Seq(S) /\ Len(b) = IF k + 1 <= Len(q) THEN Len(q) - (k + 1) + 1 ELSE 0
            /\ \A i \in 1..(Len(q) - (k + 1) + 1) : b[i] = q[(k + 1) + i - 1]
        BY <1>1, <3>1, SubSeqProperties
      <3> HIDE DEF b
      <3>3. Len(b) = Len(q) - k
        BY <1>1, <3>2
      <3>4. ASSUME NEW i \in 1..(Len(q) - k) PROVE b[i] = q[k + i]
        <4>1. i \in 1..(Len(q) - (k + 1) + 1) /\ (k + 1) + i - 1 = k + i
          BY <1>1
        <4>2. b[i] = q[(k + 1) + i - 1]
          BY <3>2, <4>1
        <4> QED BY <4>1, <4>2
      <3> QED BY <3>2, <3>3, <3>4
    <2>3. t = a \o b
      BY DEF RemoveAt
    <2> HIDE DEF a, b, t
    <2>4. /\ t \in Seq(S) /\ Len(t) = Len(a) + Len(b)
          /\ \A i \in 1..(Len(a) + Len(b)) : t[i] = IF i <= Len(a) THEN a[i] ELSE b[i - Len(a)]
      <3>1. a \in Seq(S) /\ b \in Seq(S)
        BY <2>1, <2>2
      <3>2. /\ a \o b \in Seq(S) /\ Len(a \o b) = Len(a) + Len(b)
            /\ \A i \in 1..(Len(a) + Len(b)) :
                  (a \o b)[i] = IF i <= Len(a) THEN a[i] ELSE b[i - Len(a)]
        BY <3>1, ConcatProperties
      <3> QED BY <2>3, <3>2
    <2>5. Len(a) + Len(b) = Len(q) - 1
      BY <1>1, <2>1, <2>2
    <2>6. DOMAIN t = 1..(Len(q) - 1)
      BY <2>4, <2>5
    <2>7. ASSUME NEW i \in 1..(Len(q) - 1), i < k PROVE t[i] = q[i]
      BY <1>1, <2>1, <2>4, <2>5, <2>7
    <2>8. ASSUME NEW i \in 1..(Len(q) - 1), ~(i < k) PROVE t[i] = q[i + 1]
      <3>1. t[i] = b[i - (k - 1)]
        BY <1>1, <2>1, <2>4, <2>5, <2>8
      <3>2. i - (k - 1) \in 1..(Len(q) - k) /\ k + (i - (k - 1)) = i + 1
        BY <1>1, <2>8
      <3> QED BY <2>2, <3>1, <3>2
    <2> QED BY <2>4, <2>5, <2>6, <2>7, <2>8
  <1> HIDE DEF t
  <1> DEFINE from == [i \in DOMAIN t |-> IF i < k THEN i ELSE i + 1]
  <1>3. \A i \in DOMAIN t : from[i] \in DOMAIN q /\ from[i] # k /\ t[i] = q[from[i]]
    BY <1>1, <1>2
  <1>4. \A i, j \in DOMAIN t : from[i] = from[j] => i = j
    BY <1>1, <1>2
  <1> HIDE DEF from
  <1>6. \A i, j \in DOMAIN t : t[i] = t[j] => i = j
    BY <1>3, <1>4
  <1>7. \A i \in DOMAIN t : t[i] # q[k] /\ \E j \in DOMAIN q : q[j] = t[i]
    BY <1>3
  <1>5. ASSUME NEW j \in DOMAIN q, j # k PROVE \E i \in DOMAIN t : t[i] = q[j]
    <2>1. CASE j < k
      <3>1. j \in DOMAIN t /\ t[j] = q[j]
        BY <1>1, <1>2, <2>1
      <3> QED BY <3>1
    <2>2. CASE j > k
      <3>1. j - 1 \in DOMAIN t /\ t[j - 1] = q[j]
        BY <1>1, <1>2, <2>2
      <3> QED BY <3>1
    <2> QED BY <1>1, <1>5, <2>1, <2>2
  <1> QED BY <1>2, <1>5, <1>6, <1>7 DEF t

(* The list without a context that is on it.                               *)
LEMMA NotInFacts ==
    ASSUME RTypes, ListOK, NEW c \in Ctx, SarListed(c), recvList' = NotIn(c)
    PROVE  /\ recvList' \in Seq(Ctx) /\ \A i, j \in DOMAIN recvList' : recvList'[i] = recvList'[j] => i = j
           /\ ~SarListed(c)' /\ \A d \in Ctx : d # c => SarListed(d)' = SarListed(d)
  <1> DEFINE k == CHOOSE i \in DOMAIN recvList : recvList[i] = c
  <1>1. k \in DOMAIN recvList /\ recvList[k] = c
    BY DEF SarListed
  <1>2. recvList' = RemoveAt(recvList, k)
    BY DEF NotIn
  <1> HIDE DEF k
  <1>3. recvList \in Seq(Ctx) /\ \A i, j \in DOMAIN recvList : recvList[i] = recvList[j] => i = j
    BY DEF RTypes, ListOK
  <1>4. /\ recvList' \in Seq(Ctx)
        /\ \A i, j \in DOMAIN recvList' : recvList'[i] = recvList'[j] => i = j
        /\ \A i \in DOMAIN recvList' : recvList'[i] # c /\ \E j \in DOMAIN recvList : recvList[j] = recvList'[i]
        /\ \A j \in DOMAIN recvList : j # k => \E i \in DOMAIN recvList' : recvList'[i] = recvList[j]
    BY <1>1, <1>2, <1>3, RemoveAtFacts
  <1>5. ~SarListed(c)'
    BY <1>4 DEF SarListed
  <1>6. ASSUME NEW d \in Ctx, d # c PROVE SarListed(d)' = SarListed(d)
    BY <1>1, <1>4, <1>6 DEF SarListed
  <1> QED BY <1>4, <1>5, <1>6

-----------------------------------------------------------------------------
(* A step that changes one context *)

Busy(v) == One(v.pc \in {"lock", "notfound"})

(* The datagrams of a context and of the receive thread change.            *)
LEMMA DgrmsStep ==
    ASSUME sar \in [Ctx -> SarContext], IsFiniteSet(Heads), DgrmsBalanced, NEW c \in Ctx,
           NEW r \in SarContext, sar' = [sar EXCEPT ![c] = r],
           dgrms' = dgrms + Len(r.head) - Len(sar[c].head) + Busy(recv') - Busy(recv)
    PROVE  DgrmsBalanced'
  <1>1. /\ Cardinality(Heads) \in Nat
        /\ Cardinality(Heads') = Cardinality(Heads) - Len(sar[c].head) + Len(r.head)
    BY HeadsChange
  <1>2. dgrms = Cardinality(Heads) + Busy(recv)
    BY DEF DgrmsBalanced, Busy
  <1>3. Busy(recv) \in Int /\ Busy(recv') \in Int
    BY DEF Busy, One
  <1>4. Len(sar[c].head) \in Int /\ Len(r.head) \in Int
    <2>1. sar[c] \in SarContext
      OBVIOUS
    <2> QED BY <2>1, ContextFields
  <1>5. Cardinality(Heads) \in Int /\ Cardinality(Heads') \in Int
    BY <1>1, <1>4
  <1>6. PICK a \in Int : Len(sar[c].head) = a
    BY <1>4
  <1>7. PICK b \in Int : Len(r.head) = b
    BY <1>4
  <1>8. PICK u \in Int : Busy(recv) = u
    BY <1>3
  <1>9. PICK v \in Int : Busy(recv') = v
    BY <1>3
  <1>10. PICK x \in Int : Cardinality(Heads) = x
    BY <1>5
  <1>11. dgrms' = (x + u) + b - a + v - u /\ Cardinality(Heads') = x - a + b
    BY <1>1, <1>2, <1>6, <1>7, <1>8, <1>9, <1>10
  <1>12. (x + u) + b - a + v - u = (x - a + b) + v
    OBVIOUS
  <1>13. dgrms' = Cardinality(Heads') + Busy(recv')
    BY <1>9, <1>11, <1>12
  <1> QED BY <1>13 DEF DgrmsBalanced, Busy

(* A step that changes one context, the list, the receive thread and the   *)
(* unload in agreement keeps the invariant.                                *)
LEMMA ContextStep ==
    ASSUME RInv, NEW c \in Ctx, NEW r \in SarContext, sar' = [sar EXCEPT ![c] = r], RecOK(r),
           recvList' \in Seq(Ctx), \A i, j \in DOMAIN recvList' : recvList'[i] = recvList'[j] => i = j,
           \A d \in Ctx : d # c => SarListed(d)' = SarListed(d),
           SarListed(c)' = (r.state \in Armed \/ r.cb = "remove"),
           sarUnload' \in {"no", "yes"} \cup Ctx, sarUnload' = "no" => sarUnload = "no",
           \A d \in Ctx : d # c => (sarUnload' = d) = (sarUnload = d),
           sarUnload' = c => r.state = "DESTROY" /\ r.cb # "remove",
           sarUnload' = "no" /\ r.state = "DESTROY" => r.cb \notin {"fired", "lock"},
           recv' \in RecvRec, \A d \in Ctx : d # c => (recv'.ctx = d) = (recv.ctx = d),
           r.ref >= SarHolders(c)', sarUnload' = "no" => r.ref = SarHolders(c)',
           RecvOK', rmppNet' \subseteq RmppMad, GivenOK',
           dgrms' = dgrms + Len(r.head) - Len(sar[c].head) + Busy(recv') - Busy(recv)
    PROVE  RInv'
  <1>1. sar \in [Ctx -> SarContext] /\ sar[c] \in SarContext
    BY DEF RInv, RTypes
  <1>2. sar'[c] = r /\ \A d \in Ctx : d # c => sar'[d] = sar[d]
    BY <1>1
  <1>3. RTypes'
    BY <1>1 DEF RTypes
  <1>4. \A d \in Ctx : RecOK(sar[d])'
    BY <1>2 DEF RInv, RecOK
  <1>5. RefsOK'
    <2> SUFFICES ASSUME NEW d \in Ctx PROVE sar'[d].ref >= SarHolders(d)' /\ (sarUnload' = "no" => sar'[d].ref = SarHolders(d)')
      BY DEF RefsOK
    <2>1. CASE d = c
      BY <1>2, <2>1
    <2>2. CASE d # c
      <3>1. SarHolders(d)' = SarHolders(d)
        <4>1. (SarListed(d) \/ sarUnload = d)' = (SarListed(d) \/ sarUnload = d)
          BY <2>2
        <4>2. (recv.ctx = d)' = (recv.ctx = d) /\ sar'[d] = sar[d]
          BY <1>2, <2>2
        <4> QED BY <4>1, <4>2 DEF SarHolders
      <3> QED BY <1>2, <2>2, <3>1 DEF RInv, RefsOK
    <2> QED BY <2>1, <2>2
  <1>6. ListOK'
    <2>1. ASSUME NEW d \in Ctx
          PROVE  /\ SarListed(d)' = (sar'[d].state \in Armed \/ sar'[d].cb = "remove")
                 /\ sarUnload' = d => sar'[d].state = "DESTROY" /\ sar'[d].cb # "remove"
                 /\ sarUnload' = "no" /\ sar'[d].state = "DESTROY" => sar'[d].cb \notin {"fired", "lock"}
      <3>1. CASE d = c
        BY <1>2, <3>1
      <3>2. CASE d # c
        BY <1>2, <3>2 DEF RInv, ListOK
      <3> QED BY <3>1, <3>2
    <2> QED BY <2>1 DEF ListOK
  <1>7. IsFiniteSet(Heads') /\ Cardinality(Heads) \in Nat
        /\ Cardinality(Heads') = Cardinality(Heads) - Len(sar[c].head) + Len(r.head)
    BY <1>1, HeadsChange DEF RInv
  <1>8. DgrmsBalanced'
    BY <1>1, DgrmsStep DEF RInv
  <1> QED BY <1>3, <1>4, <1>5, <1>6, <1>7, <1>8 DEF RInv

(* The datagrams taken are a number.                                       *)
LEMMA DgrmsType == ASSUME RInv PROVE dgrms \in Nat
  <1>1. Cardinality(Heads) \in Nat
    BY FS_CardinalityType DEF RInv
  <1>2. Busy(recv) \in {0, 1} /\ dgrms = Cardinality(Heads) + Busy(recv)
    BY DEF RInv, DgrmsBalanced, Busy, One
  <1> QED BY <1>1, <1>2

(* Who holds a context, as numbers.                                        *)
LEMMA HoldersSum ==
    ASSUME RInv, NEW c \in Ctx
    PROVE  /\ sar[c] \in SarContext /\ RecOK(sar[c]) /\ sar[c].ref \in Nat
           /\ One(SarListed(c) \/ sarUnload = c) \in {0, 1} /\ One(sar[c].timer) \in {0, 1}
           /\ One(sar[c].cb # "none") \in {0, 1} /\ One(recv.ctx = c) \in {0, 1}
           /\ SarListed(c) \/ sarUnload = c => One(SarListed(c) \/ sarUnload = c) = 1
           /\ sar[c].timer => One(sar[c].timer) = 1
           /\ sar[c].cb # "none" => One(sar[c].cb # "none") = 1
           /\ recv.ctx = c => One(recv.ctx = c) = 1
           /\ SarHolders(c) = One(SarListed(c) \/ sarUnload = c) + One(sar[c].timer) + One(sar[c].cb # "none")
                               + One(recv.ctx = c)
           /\ sar[c].ref >= SarHolders(c) /\ (sarUnload = "no" => sar[c].ref = SarHolders(c))
  <1>1. sar[c] \in SarContext /\ RecOK(sar[c])
    BY DEF RInv, RTypes
  <1>2. sar[c].timer \in BOOLEAN /\ sar[c].ref \in Nat
    BY <1>1, ContextFields
  <1> QED BY <1>1, <1>2, OneOf DEF RInv, RefsOK, SarHolders

(* Somebody holds it: it is neither free nor with the reaper.              *)
LEMMA HeldIsLive ==
    ASSUME RInv, NEW c \in Ctx, SarListed(c) \/ sarUnload = c \/ sar[c].timer \/ sar[c].cb # "none" \/ recv.ctx = c
    PROVE  sar[c].ref >= 1 /\ ~sar[c].reap /\ sar[c].state # "FREE" /\ sar[c].tid \in Tid
  <1>1. sar[c].ref >= 1
    BY HoldersSum
  <1>2. sar[c].state # "FREE"
    BY <1>1, HoldersSum DEF RecOK, FreeContext
  <1> QED BY <1>1, <1>2, HoldersSum DEF RecOK

(* The same, for a step that leaves list and unload alone.                 *)
LEMMA SameListStep ==
    ASSUME RInv, NEW c \in Ctx, NEW r \in SarContext, sar' = [sar EXCEPT ![c] = r], RecOK(r),
           recvList' = recvList, sarUnload' = sarUnload,
           (r.state \in Armed \/ r.cb = "remove") = (sar[c].state \in Armed \/ sar[c].cb = "remove"),
           sarUnload = c => r.state = "DESTROY" /\ r.cb # "remove",
           sarUnload = "no" /\ r.state = "DESTROY" => r.cb \notin {"fired", "lock"},
           recv' \in RecvRec, \A d \in Ctx : d # c => (recv'.ctx = d) = (recv.ctx = d),
           r.ref - One(r.timer) - One(r.cb # "none") - One(recv'.ctx = c)
             >= sar[c].ref - One(sar[c].timer) - One(sar[c].cb # "none") - One(recv.ctx = c),
           sarUnload = "no" =>
             r.ref - One(r.timer) - One(r.cb # "none") - One(recv'.ctx = c)
               = sar[c].ref - One(sar[c].timer) - One(sar[c].cb # "none") - One(recv.ctx = c),
           RecvOK', rmppNet' \subseteq RmppMad, GivenOK',
           dgrms' = dgrms + Len(r.head) - Len(sar[c].head) + Busy(recv') - Busy(recv)
    PROVE  RInv'
  <1>1. \A d \in Ctx : SarListed(d)' = SarListed(d)
    BY DEF SarListed
  <1>2. /\ recvList \in Seq(Ctx) /\ sarUnload \in {"no", "yes"} \cup Ctx
        /\ \A i, j \in DOMAIN recvList : recvList[i] = recvList[j] => i = j
        /\ SarListed(c) = (sar[c].state \in Armed \/ sar[c].cb = "remove")
        /\ sar[c] \in SarContext
    BY DEF RInv, RTypes, ListOK
  <1>3. sar'[c] = r
    BY DEF RInv, RTypes
  <1>4. r.ref \in Nat /\ sar[c].ref \in Nat /\ r.timer \in BOOLEAN /\ sar[c].timer \in BOOLEAN
    BY <1>2, ContextFields
  <1>5. PICK l \in Int : One(SarListed(c) \/ sarUnload = c) = l
    BY OneType
  <1>6. PICK t \in Int, b \in Int, v \in Int :
            One(sar[c].timer) = t /\ One(sar[c].cb # "none") = b /\ One(recv.ctx = c) = v
    BY OneType
  <1>7. PICK tt \in Int, bb \in Int, vv \in Int :
            One(r.timer) = tt /\ One(r.cb # "none") = bb /\ One(recv'.ctx = c) = vv
    BY OneType
  <1>8. PICK n \in Int, nn \in Int : sar[c].ref = n /\ r.ref = nn
    BY <1>4
  <1>9. SarHolders(c) = l + t + b + v
    BY <1>5, <1>6 DEF SarHolders
  <1>10. SarHolders(c)' = l + tt + bb + vv
    <2>1. (SarListed(c) \/ sarUnload = c)' = (SarListed(c) \/ sarUnload = c)
      BY <1>1
    <2> QED BY <1>3, <1>5, <1>7, <2>1 DEF SarHolders
  <1>11. n >= l + t + b + v /\ (sarUnload = "no" => n = l + t + b + v)
    BY <1>8, <1>9 DEF RInv, RefsOK
  <1>12. /\ nn - tt - bb - vv >= n - t - b - v
         /\ sarUnload = "no" => nn - tt - bb - vv = n - t - b - v
    BY <1>6, <1>7, <1>8
  <1>13. nn >= l + tt + bb + vv /\ (sarUnload = "no" => nn = l + tt + bb + vv)
    <2>1. nn >= l + tt + bb + vv
      BY <1>11, <1>12
    <2>2. ASSUME sarUnload = "no" PROVE nn = l + tt + bb + vv
      <3>1. n = l + t + b + v /\ nn - tt - bb - vv = n - t - b - v
        BY <1>11, <1>12, <2>2
      <3> QED BY <3>1
    <2> QED BY <2>1, <2>2
  <1>14. r.ref >= SarHolders(c)' /\ (sarUnload' = "no" => r.ref = SarHolders(c)')
    BY <1>8, <1>10, <1>13
  <1>15. /\ recvList' \in Seq(Ctx) /\ sarUnload' \in {"no", "yes"} \cup Ctx
         /\ \A i, j \in DOMAIN recvList' : recvList'[i] = recvList'[j] => i = j
         /\ \A d \in Ctx : d # c => SarListed(d)' = SarListed(d)
         /\ SarListed(c)' = (r.state \in Armed \/ r.cb = "remove")
         /\ \A d \in Ctx : d # c => (sarUnload' = d) = (sarUnload = d)
         /\ sarUnload' = "no" => sarUnload = "no"
    BY <1>1, <1>2
  <1>16. /\ sarUnload' = c => r.state = "DESTROY" /\ r.cb # "remove"
         /\ sarUnload' = "no" /\ r.state = "DESTROY" => r.cb \notin {"fired", "lock"}
    OBVIOUS
  <1> QED BY <1>14, <1>15, <1>16, ContextStep

-----------------------------------------------------------------------------
(* The receive thread *)

(* The receive thread has found the context of a MAD.                      *)
LEMMA FindKeeps == ASSUME RInv, NEW m \in RmppMad, FindSarContext(m) PROVE RInv'
  <1>1. PICK i \in DOMAIN recvList :
          /\ sar[recvList[i]].tid = m.tid
          /\ sar' = [sar EXCEPT ![recvList[i]].ref = @ + 1]
          /\ recv' = [pc |-> "lock", ctx |-> recvList[i], mad |-> m]
    BY DEF FindSarContext
  <1> DEFINE c == recvList[i]
             n == sar[c].ref + 1
             r == [sar[c] EXCEPT !.ref = n]
  <1>2. c \in Ctx /\ SarListed(c)
    BY DEF RInv, RTypes, SarListed
  <1>3. recv.ctx = NoCtx /\ recv.pc = "idle" /\ sarUnload = "no" /\ c # NoCtx
    BY <1>2, RmppAssumption DEF RInv, RecvOK, FindSarContext
  <1>4. sar[c] \in SarContext /\ RecOK(sar[c]) /\ ~sar[c].reap /\ sar[c].ref \in Nat
    BY <1>2, HoldersSum, HeldIsLive
  <1>5. n \in Nat
    BY <1>4
  <1>6. sar' = [sar EXCEPT ![c] = r]
    BY <1>1
  <1> HIDE DEF c, n
  <1>7. r \in SarContext
    BY <1>4, <1>5 DEF SarContext
  <1>8. /\ r.state = sar[c].state /\ r.tid = sar[c].tid /\ r.exp = sar[c].exp /\ r.wl = sar[c].wl
        /\ r.total = sar[c].total /\ r.head = sar[c].head /\ r.ref = n /\ r.timer = sar[c].timer
        /\ r.cb = sar[c].cb /\ r.stopped = sar[c].stopped /\ r.reap = sar[c].reap
    BY <1>4, <1>5 DEF SarContext
  <1> HIDE DEF r
  <1>9. sar[c].state # "FREE" /\ sar[c].tid \in Tid
    BY <1>2, HeldIsLive
  <1>10. RecOK(r)
    BY <1>4, <1>8, <1>9 DEF RecOK, Window
  <1>11. recv' = [pc |-> "lock", ctx |-> c, mad |-> m] /\ sar[c].tid = m.tid
    BY <1>1 DEF c
  <1>12. recv' \in RecvRec /\ RecvOK'
    <2>1. recv' \in RecvRec
      BY <1>2, <1>11 DEF RecvRec
    <2>2. sar'[c] = r /\ sarUnload' = "no"
      BY <1>2, <1>3, <1>6 DEF RInv, RTypes, FindSarContext
    <2> QED BY <1>2, <1>3, <1>8, <1>11, <2>1, <2>2 DEF RecvOK
  <1>13. /\ One(recv'.ctx = c) = 1 /\ One(recv.ctx = c) = 0
         /\ Busy(recv') = 1 /\ Busy(recv) = 0
    BY <1>3, <1>11 DEF One, Busy
  <1>14. /\ recvList' = recvList /\ sarUnload' = sarUnload /\ rmppNet' = rmppNet /\ given' = given
         /\ dgrms' = dgrms + 1
    BY DEF FindSarContext
  <1>15. /\ r.ref - One(r.timer) - One(r.cb # "none") - One(recv'.ctx = c)
            = sar[c].ref - One(sar[c].timer) - One(sar[c].cb # "none") - One(recv.ctx = c)
         /\ r.ref - One(r.timer) - One(r.cb # "none") - One(recv'.ctx = c)
            >= sar[c].ref - One(sar[c].timer) - One(sar[c].cb # "none") - One(recv.ctx = c)
    <2>1. PICK t \in Int, b \in Int : One(sar[c].timer) = t /\ One(sar[c].cb # "none") = b
      BY OneType
    <2>2. PICK k \in Nat : sar[c].ref = k
      BY <1>4
    <2>3. r.ref = k + 1
      BY <1>8, <2>2 DEF n
    <2>4. k + 1 - t - b - 1 = k - t - b - 0 /\ k - t - b - 0 \in Int
      OBVIOUS
    <2>5. k - t - b - 0 >= k - t - b - 0
      OBVIOUS
    <2> QED BY <1>8, <1>13, <2>1, <2>2, <2>3, <2>4, <2>5
  <1>16. dgrms' = dgrms + Len(r.head) - Len(sar[c].head) + Busy(recv') - Busy(recv)
    <2>1. PICK k \in Int : Len(sar[c].head) = k
      BY <1>4, ContextFields
    <2>2. dgrms \in Int
      BY DgrmsType
    <2>3. dgrms + 1 = dgrms + k - k + 1 - 0
      BY <2>2
    <2> QED BY <1>8, <1>13, <1>14, <2>1, <2>3
  <1>17. GivenOK' /\ rmppNet' \subseteq RmppMad
    BY <1>14 DEF RInv, RTypes, GivenOK
  <1>18. /\ (r.state \in Armed \/ r.cb = "remove") = (sar[c].state \in Armed \/ sar[c].cb = "remove")
         /\ (sarUnload = c => r.state = "DESTROY" /\ r.cb # "remove")
         /\ (sarUnload = "no" /\ r.state = "DESTROY" => r.cb \notin {"fired", "lock"})
         /\ \A d \in Ctx : d # c => (recv'.ctx = d) = (recv.ctx = d)
    BY <1>2, <1>3, <1>8, <1>11, RmppAssumption DEF RInv, ListOK
  <1> QED BY <1>2, <1>6, <1>7, <1>10, <1>12, <1>14, <1>15, <1>16, <1>17, <1>18, SameListStep

(* A context the receive thread has, and is not being destroyed, receives. *)
LEMMA IsReceiving ==
    ASSUME RInv, NEW c \in Ctx, recv.pc = "lock", recv.ctx = c, sar[c].state # "DESTROY"
    PROVE  Receiving(sar[c], recv.mad)
  <1>1. recv.mad \in RmppMad /\ sar[c].tid = recv.mad.tid /\ sarUnload = "no"
    BY DEF RInv, RecvOK
  <1>2. /\ sar[c].ref >= 1 /\ ~sar[c].reap /\ sar[c].state # "FREE" /\ sar[c].tid \in Tid
        /\ sar[c] \in SarContext /\ RecOK(sar[c])
    BY HeldIsLive, HoldersSum
  <1>3. sar[c].state \in Armed /\ sar[c].cb # "remove" /\ SarListed(c)
    BY <1>2 DEF RecOK, RInv, ListOK
  <1>4. sar[c].ref = SarHolders(c)
    BY <1>1, HoldersSum
  <1>5. sar[c].ref >= 2 + One(sar[c].timer)
    <2>1. One(SarListed(c) \/ sarUnload = c) = 1 /\ One(recv.ctx = c) = 1
      BY <1>3 DEF One
    <2>2. PICK t \in Int : One(sar[c].timer) = t
      BY OneType
    <2>3. PICK b \in {0, 1} : One(sar[c].cb # "none") = b
      BY DEF One
    <2>4. SarHolders(c) = 1 + t + b + 1
      BY <2>1, <2>2, <2>3 DEF SarHolders
    <2>5. 1 + t + b + 1 >= 2 + t
      OBVIOUS
    <2> QED BY <1>4, <2>2, <2>4, <2>5
  <1> QED BY <1>1, <1>2, <1>3, <1>5 DEF Receiving

(* The receive thread processes a MAD under the lock of its context.       *)
LEMMA LockKeeps == ASSUME RInv, ReceiverHasLock PROVE RInv'
  <1> DEFINE c == recv.ctx
             m == recv.mad
             o == RmppReceiverProcessRecv(sar[c], m)
             r == o.r
  <1>1. recv.pc = "lock" /\ c \in Ctx /\ c # NoCtx /\ sarUnload = "no" /\ sar[c].state # "DESTROY"
    BY RmppAssumption DEF RInv, RecvOK, RTypes, RecvRec, ReceiverHasLock
  <1>2. Receiving(sar[c], m)
    BY <1>1, IsReceiving
  <1>3. Processed(sar[c], m, o)
    BY <1>2, RecvProcessed
  <1>4. sar[c] \in SarContext /\ m \in RmppMad /\ sar[c].cb # "remove" /\ sar[c].state \in Armed
    BY <1>1, <1>2, HoldersSum, HeldIsLive DEF Receiving, RecOK
  <1>5. /\ sar' = [sar EXCEPT ![c] = r] /\ rmppNet' = rmppNet \cup o.sent
        /\ dgrms' = dgrms - o.put - (CASE o.status = "FREJECT" -> 1
                                       [] o.status = "FPENDING" -> 0
                                       [] o.status = "FCOMPLETED" -> Len(sar[c].head) + 1)
        /\ given' = given \cup {[tid |-> m.tid, mads |-> g.mads, len |-> g.len] : g \in o.msg}
        /\ recv' = [pc |-> "put", ctx |-> c, mad |-> NoCtx]
        /\ recvList' = recvList /\ sarUnload' = sarUnload
    BY DEF ReceiverHasLock, Apply
  <1> HIDE DEF c, m, o
  <1>6. /\ r \in SarContext /\ RecOK(r) /\ r.state \in Armed /\ r.tid = sar[c].tid /\ r.cb = sar[c].cb
        /\ r.ref = sar[c].ref - One(sar[c].timer) + One(r.timer)
        /\ o.sent \subseteq RmppMad /\ o.put \in Nat /\ o.status \in {"FREJECT", "FPENDING", "FCOMPLETED"}
        /\ Len(r.head) + o.put + Took(sar[c], o.status) = Len(sar[c].head) + 1
        /\ \A g \in o.msg : WholeMessage([tid |-> m.tid, mads |-> g.mads, len |-> g.len])
    BY <1>3 DEF Processed
  <1> HIDE DEF r
  <1>7. recv' \in RecvRec /\ RecvOK'
    BY <1>1, <1>5 DEF RecvRec, RecvOK
  <1>8. GivenOK' /\ rmppNet' \subseteq RmppMad
    BY <1>5, <1>6 DEF RInv, RTypes, GivenOK
  <1>9. Busy(recv') = 0 /\ Busy(recv) = 1 /\ One(recv'.ctx = c) = 1 /\ One(recv.ctx = c) = 1
    BY <1>1, <1>5 DEF Busy, One, c
  <1>10. dgrms' = dgrms + Len(r.head) - Len(sar[c].head) + Busy(recv') - Busy(recv)
    <2>1. PICK k \in Int : Len(sar[c].head) = k
      BY <1>4, ContextFields
    <2>2. PICK l \in Int : Len(r.head) = l
      BY <1>6, ContextFields
    <2>3. PICK p \in Int : o.put = p
      BY <1>6
    <2>4. PICK t \in Int : Took(sar[c], o.status) = t
      BY <2>1 DEF Took
    <2>5. PICK d \in Int : dgrms = d
      BY DgrmsType
    <2>6. dgrms' = d - p - t
      BY <1>5, <1>6, <2>3, <2>4, <2>5 DEF Took
    <2>7. l + p + t = k + 1
      BY <1>6, <2>1, <2>2, <2>3, <2>4
    <2>8. d - p - t = d + l - k + 0 - 1
      BY <2>7
    <2> QED BY <1>9, <2>1, <2>2, <2>5, <2>6, <2>8
  <1>11. /\ r.ref - One(r.timer) - One(r.cb # "none") - One(recv'.ctx = c)
            = sar[c].ref - One(sar[c].timer) - One(sar[c].cb # "none") - One(recv.ctx = c)
         /\ r.ref - One(r.timer) - One(r.cb # "none") - One(recv'.ctx = c)
            >= sar[c].ref - One(sar[c].timer) - One(sar[c].cb # "none") - One(recv.ctx = c)
    <2>1. PICK t \in Int, u \in Int, b \in Int :
              One(sar[c].timer) = t /\ One(r.timer) = u /\ One(sar[c].cb # "none") = b
      BY OneType
    <2>2. PICK n \in Int : sar[c].ref = n
      BY <1>4, ContextFields
    <2>3. r.ref = n - t + u
      BY <1>6, <2>1, <2>2
    <2>4. n - t + u - u - b - 1 = n - t - b - 1 /\ n - t + u - u - b - 1 >= n - t - b - 1
      OBVIOUS
    <2> QED BY <1>6, <1>9, <2>1, <2>2, <2>3, <2>4
  <1>12. /\ (r.state \in Armed \/ r.cb = "remove") = (sar[c].state \in Armed \/ sar[c].cb = "remove")
         /\ (sarUnload = c => r.state = "DESTROY" /\ r.cb # "remove")
         /\ (sarUnload = "no" /\ r.state = "DESTROY" => r.cb \notin {"fired", "lock"})
         /\ \A d \in Ctx : d # c => (recv'.ctx = d) = (recv.ctx = d)
    <2>1. sarUnload # c
      BY <1>1, RmppAssumption
    <2>2. recv'.ctx = c /\ recv.ctx = c
      BY <1>5 DEF c
    <2> QED BY <1>4, <1>6, <2>1, <2>2 DEF Armed
  <1> QED BY <1>1, <1>5, <1>6, <1>7, <1>8, <1>10, <1>11, <1>12, SameListStep

(* A reference is given up and the context stays what it is.               *)
LEMMA DecrementOK ==
    ASSUME NEW r \in SarContext, RecOK(r), r.ref >= 1, r.state # "FREE"
    PROVE  RecOK(DecrementSarContextUsageCount(r))
  <1> DEFINE t == DecrementSarContextUsageCount(r)
  <1>1. /\ t \in SarContext /\ t.state = r.state /\ t.tid = r.tid /\ t.exp = r.exp /\ t.wl = r.wl
        /\ t.total = r.total /\ t.head = r.head /\ t.ref = r.ref - 1 /\ t.timer = r.timer
        /\ t.cb = r.cb /\ t.stopped = r.stopped /\ t.reap = (r.ref = 1)
    BY DecrementFields
  <1>2. r.ref \in Nat /\ r.tid \in Tid
    BY ContextFields DEF RecOK
  <1> HIDE DEF t
  <1>3. ASSUME t.reap PROVE t.ref = 0
    <2>1. r.ref = 1
      BY <1>1, <1>3
    <2> QED BY <1>1, <2>1
  <1>4. RecOK(t)
    BY <1>1, <1>2, <1>3 DEF RecOK, Window
  <1> QED BY <1>4 DEF t

(* The receive thread gives up its context.                                *)
LEMMA PutKeeps == ASSUME RInv, FoundDestroyed \/ ReceiverDone PROVE RInv'
  <1> DEFINE c == recv.ctx
             r == DecrementSarContextUsageCount(sar[c])
  <1>1. recv.pc \in {"lock", "put"} /\ c \in Ctx /\ c # NoCtx /\ sarUnload = "no"
    BY RmppAssumption DEF RInv, RecvOK, RTypes, RecvRec, FoundDestroyed, ReceiverDone
  <1>2. /\ sar[c].ref >= 1 /\ ~sar[c].reap /\ sar[c].state # "FREE" /\ sar[c].tid \in Tid
        /\ sar[c] \in SarContext /\ RecOK(sar[c]) /\ sar[c].ref \in Nat
    BY <1>1, HeldIsLive, HoldersSum
  <1>3. /\ r \in SarContext /\ r.state = sar[c].state /\ r.tid = sar[c].tid /\ r.head = sar[c].head
        /\ r.ref = sar[c].ref - 1 /\ r.timer = sar[c].timer /\ r.cb = sar[c].cb
    BY <1>2, DecrementFields
  <1>4. RecOK(r)
    BY <1>2, DecrementOK
  <1>5. /\ sar' = [sar EXCEPT ![c] = r] /\ recvList' = recvList /\ rmppNet' = rmppNet
        /\ sarUnload' = sarUnload /\ dgrms' = dgrms /\ given' = given
    BY <1>1 DEF FoundDestroyed, ReceiverDone
  <1>6. /\ recv' \in RecvRec /\ RecvOK' /\ Busy(recv') = Busy(recv)
        /\ One(recv'.ctx = c) = 0 /\ One(recv.ctx = c) = 1 /\ recv'.ctx = NoCtx /\ Busy(recv) \in Int
    <2>1. CASE FoundDestroyed
      <3>1. recv.mad \in RmppMad /\ recv.pc = "lock"
        BY <2>1 DEF FoundDestroyed, RInv, RecvOK
      <3>2. recv' = [pc |-> "notfound", ctx |-> NoCtx, mad |-> recv.mad]
        BY <2>1 DEF FoundDestroyed
      <3>3. recv' \in RecvRec /\ RecvOK'
        BY <1>1, <1>5, <3>1, <3>2 DEF RecvRec, RecvOK
      <3> QED BY <1>1, <3>1, <3>2, <3>3 DEF Busy, One
    <2>2. CASE ReceiverDone
      <3>1. recv.pc = "put"
        BY <2>2 DEF ReceiverDone
      <3>2. recv' = [pc |-> "idle", ctx |-> NoCtx, mad |-> NoCtx]
        BY <2>2 DEF ReceiverDone, SarIdle
      <3>3. recv' \in RecvRec /\ RecvOK'
        BY <1>1, <1>5, <3>1, <3>2 DEF RecvRec, RecvOK
      <3> QED BY <1>1, <3>1, <3>2, <3>3 DEF Busy, One
    <2> QED BY <2>1, <2>2
  <1> HIDE DEF r
  <1>7. GivenOK' /\ rmppNet' \subseteq RmppMad
    BY <1>5 DEF RInv, RTypes, GivenOK
  <1>8. dgrms' = dgrms + Len(r.head) - Len(sar[c].head) + Busy(recv') - Busy(recv)
    <2>1. PICK k \in Int : Len(sar[c].head) = k
      BY <1>2, ContextFields
    <2>2. PICK b \in Int : Busy(recv) = b
      BY <1>6
    <2>3. PICK d \in Int : dgrms = d
      BY DgrmsType
    <2>4. d = d + k - k + b - b
      OBVIOUS
    <2> QED BY <1>3, <1>5, <1>6, <2>1, <2>2, <2>3, <2>4
  <1>9. /\ r.ref - One(r.timer) - One(r.cb # "none") - One(recv'.ctx = c)
            = sar[c].ref - One(sar[c].timer) - One(sar[c].cb # "none") - One(recv.ctx = c)
        /\ r.ref - One(r.timer) - One(r.cb # "none") - One(recv'.ctx = c)
            >= sar[c].ref - One(sar[c].timer) - One(sar[c].cb # "none") - One(recv.ctx = c)
    <2>1. PICK t \in Int, b \in Int : One(sar[c].timer) = t /\ One(sar[c].cb # "none") = b
      BY OneType
    <2>2. PICK n \in Int : sar[c].ref = n
      BY <1>2
    <2>3. n - 1 - t - b - 0 = n - t - b - 1 /\ n - 1 - t - b - 0 >= n - t - b - 1
      OBVIOUS
    <2> QED BY <1>3, <1>6, <2>1, <2>2, <2>3
  <1>10. /\ (r.state \in Armed \/ r.cb = "remove") = (sar[c].state \in Armed \/ sar[c].cb = "remove")
         /\ (sarUnload = c => r.state = "DESTROY" /\ r.cb # "remove")
         /\ (sarUnload = "no" /\ r.state = "DESTROY" => r.cb \notin {"fired", "lock"})
         /\ \A d \in Ctx : d # c => (recv'.ctx = d) = (recv.ctx = d)
    BY <1>1, <1>3, <1>6, RmppAssumption DEF RInv, ListOK
  <1> HIDE DEF c
  <1> QED BY <1>1, <1>3, <1>4, <1>5, <1>6, <1>7, <1>8, <1>9, <1>10, SameListStep

(* A step that changes no context.                                         *)
LEMMA QuietStep ==
    ASSUME RInv, sar' = sar, recvList' = recvList, given' = given, rmppNet' \subseteq RmppMad,
           sarUnload' \in {"no", "yes"} \cup Ctx, sarUnload' = "no" => sarUnload = "no",
           \A d \in Ctx : (sarUnload' = d) = (sarUnload = d),
           recv' \in RecvRec, recv'.ctx = recv.ctx, RecvOK',
           dgrms' - Busy(recv') = dgrms - Busy(recv), dgrms' \in Int
    PROVE  RInv'
  <1>1. RTypes' /\ (\A c \in Ctx : RecOK(sar[c])') /\ GivenOK' /\ IsFiniteSet(Heads')
    BY DEF RInv, RTypes, RecOK, GivenOK, Heads
  <1>2. \A c \in Ctx : SarListed(c)' = SarListed(c)
    BY DEF SarListed
  <1>3. ListOK'
    BY <1>2 DEF RInv, ListOK
  <1>4. RefsOK'
    <2> SUFFICES ASSUME NEW c \in Ctx PROVE sar'[c].ref >= SarHolders(c)' /\ (sarUnload' = "no" => sar'[c].ref = SarHolders(c)')
      BY DEF RefsOK
    <2>1. (SarListed(c) \/ sarUnload = c)' = (SarListed(c) \/ sarUnload = c)
      BY <1>2
    <2>2. SarHolders(c)' = SarHolders(c)
      BY <2>1 DEF SarHolders
    <2> QED BY <2>2 DEF RInv, RefsOK
  <1>5. DgrmsBalanced'
    <2>1. Heads' = Heads
      BY DEF Heads
    <2>2. PICK k \in Nat : Cardinality(Heads) = k
      BY FS_CardinalityType DEF RInv
    <2>3. PICK u \in Int, v \in Int : Busy(recv) = u /\ Busy(recv') = v
      BY DEF Busy, One
    <2>4. dgrms = k + u
      BY <2>2, <2>3 DEF RInv, DgrmsBalanced, Busy
    <2>5. PICK e \in Int : dgrms' = e
      OBVIOUS
    <2>6. e - v = k + u - u
      BY <2>3, <2>4, <2>5
    <2>7. e = k + v
      BY <2>6
    <2>8. dgrms' = Cardinality(Heads') + Busy(recv')
      BY <2>1, <2>2, <2>3, <2>5, <2>7
    <2> QED BY <2>8 DEF DgrmsBalanced, Busy
  <1> QED BY <1>1, <1>3, <1>4, <1>5 DEF RInv

(* A MAD that starts no transaction.                                       *)
LEMMA NotFoundKeeps ==
    ASSUME RInv, NEW m \in RmppMad, NotFound(m), sarUnload = "no", recv.pc \in {"idle", "notfound"},
           dgrms' = IF recv.pc = "idle" THEN dgrms ELSE dgrms - 1
    PROVE  RInv'
  <1>1. /\ sar' = sar /\ recvList' = recvList /\ given' = given /\ sarUnload' = sarUnload
        /\ recv' = [pc |-> "idle", ctx |-> NoCtx, mad |-> NoCtx]
    BY DEF NotFound, SarIdle
  <1>2. rmppNet' \subseteq RmppMad
    <2>1. m.tid \in Tid
      BY DEF RmppMad
    <2> QED BY <2>1, ReplyTypes DEF NotFound, RInv, RTypes
  <1>3. recv' \in RecvRec /\ recv'.ctx = recv.ctx /\ RecvOK' /\ Busy(recv') = 0
    BY <1>1 DEF RecvRec, RInv, RecvOK, Busy, One
  <1>4. dgrms' - Busy(recv') = dgrms - Busy(recv) /\ dgrms' \in Int
    <2>1. dgrms \in Nat
      BY DgrmsType
    <2>2. CASE recv.pc = "idle"
      <3>1. Busy(recv) = 0 /\ dgrms' = dgrms
        BY <2>2 DEF Busy, One
      <3> QED BY <1>3, <2>1, <3>1
    <2>3. CASE recv.pc = "notfound"
      <3>1. Busy(recv) = 1 /\ dgrms' = dgrms - 1
        BY <2>3 DEF Busy, One
      <3> QED BY <1>3, <2>1, <3>1
    <2> QED BY <2>2, <2>3
  <1>5. /\ sarUnload' \in {"no", "yes"} \cup Ctx /\ (sarUnload' = "no" => sarUnload = "no")
        /\ \A d \in Ctx : (sarUnload' = d) = (sarUnload = d)
    BY <1>1 DEF RInv, RTypes
  <1> QED BY <1>1, <1>2, <1>3, <1>4, <1>5, QuietStep

(* GsaUnload begins.                                                       *)
LEMMA UnloadKeeps == ASSUME RInv, GsaUnload PROVE RInv'
  <1>1. /\ sar' = sar /\ recvList' = recvList /\ given' = given /\ recv' = recv /\ rmppNet' = rmppNet
        /\ dgrms' = dgrms /\ sarUnload' = "yes" /\ sarUnload = "no" /\ recv.pc = "idle"
    BY DEF GsaUnload
  <1>2. recv' \in RecvRec /\ RecvOK' /\ rmppNet' \subseteq RmppMad
    BY <1>1 DEF RInv, RecvOK, RTypes
  <1>3. \A d \in Ctx : (sarUnload' = d) = (sarUnload = d)
    BY <1>1, RmppAssumption
  <1>4. dgrms' - Busy(recv') = dgrms - Busy(recv) /\ dgrms' \in Int
    BY <1>1, DgrmsType
  <1> QED BY <1>1, <1>2, <1>3, <1>4, QuietStep

(* The remote sender transmits.                                            *)
LEMMA SendKeeps == ASSUME RInv, NEW t \in Tid, SendSegment(t) PROVE RInv'
  <1>1. /\ sar' = sar /\ recvList' = recvList /\ given' = given /\ recv' = recv /\ sarUnload' = sarUnload
        /\ dgrms' = dgrms
    BY DEF SendSegment
  <1>2. PICK s \in 1..Segments(MsgLen[t]) : rmppNet' = rmppNet \cup {DataMad(t, s)}
    BY DEF SendSegment
  <1>3. s \in Nat
    OBVIOUS
  <1>4. rmppNet' \subseteq RmppMad
    BY <1>2, <1>3, DataMadType DEF RInv, RTypes
  <1>5. recv' \in RecvRec /\ RecvOK' /\ sarUnload' \in {"no", "yes"} \cup Ctx
    BY <1>1 DEF RInv, RecvOK, RTypes
  <1>6. dgrms' - Busy(recv') = dgrms - Busy(recv) /\ dgrms' \in Int
    BY <1>1, DgrmsType
  <1> QED BY <1>1, <1>4, <1>5, <1>6, QuietStep

(* A context is added to the list.                                         *)
LEMMA ConsFacts ==
    ASSUME RTypes, ListOK, NEW c \in Ctx, ~SarListed(c), recvList' = <<c>> \o recvList
    PROVE  /\ recvList' \in Seq(Ctx) /\ \A i, j \in DOMAIN recvList' : recvList'[i] = recvList'[j] => i = j
           /\ SarListed(c)' /\ \A d \in Ctx : d # c => SarListed(d)' = SarListed(d)
  <1>1. recvList \in Seq(Ctx) /\ Len(recvList) \in Nat /\ DOMAIN recvList = 1..Len(recvList)
    BY DEF RTypes
  <1>2. <<c>> \in Seq(Ctx) /\ Len(<<c>>) = 1
    OBVIOUS
  <1>3. /\ recvList' \in Seq(Ctx) /\ Len(recvList') = 1 + Len(recvList)
        /\ \A i \in 1..(1 + Len(recvList)) : recvList'[i] = IF i <= 1 THEN <<c>>[i] ELSE recvList[i - 1]
    BY <1>1, <1>2, ConcatProperties
  <1>4. DOMAIN recvList' = 1..(1 + Len(recvList)) /\ recvList'[1] = c /\ 1 \in DOMAIN recvList'
    BY <1>1, <1>3
  <1>5. \A i \in DOMAIN recvList' : i # 1 => i - 1 \in DOMAIN recvList /\ recvList'[i] = recvList[i - 1]
    BY <1>1, <1>3, <1>4
  <1>6. \A i \in DOMAIN recvList : i + 1 \in DOMAIN recvList' /\ recvList'[i + 1] = recvList[i]
    <2> SUFFICES ASSUME NEW i \in DOMAIN recvList PROVE i + 1 \in DOMAIN recvList' /\ recvList'[i + 1] = recvList[i]
      OBVIOUS
    <2>1. i \in Nat /\ i + 1 \in DOMAIN recvList' /\ i + 1 # 1 /\ (i + 1) - 1 = i
      BY <1>1, <1>4
    <2> QED BY <1>5, <2>1
  <1>7. \A i \in DOMAIN recvList : recvList[i] # c
    BY DEF SarListed
  <1>8. ASSUME NEW i \in DOMAIN recvList', NEW j \in DOMAIN recvList', recvList'[i] = recvList'[j] PROVE i = j
    <2>1. i \in Nat /\ j \in Nat
      BY <1>1, <1>4
    <2>2. CASE i = 1 \/ j = 1
      BY <1>4, <1>5, <1>7, <1>8, <2>2
    <2>3. CASE i # 1 /\ j # 1
      <3>1. i - 1 = j - 1
        BY <1>5, <1>8, <2>3 DEF ListOK
      <3> QED BY <2>1, <3>1
    <2> QED BY <2>2, <2>3
  <1>9. SarListed(c)'
    BY <1>4 DEF SarListed
  <1>10. ASSUME NEW d \in Ctx, d # c PROVE SarListed(d)' = SarListed(d)
    <2>1. SarListed(d)' => SarListed(d)
      BY <1>4, <1>5, <1>10 DEF SarListed
    <2>2. SarListed(d) => SarListed(d)'
      BY <1>6 DEF SarListed
    <2> QED BY <2>1, <2>2 DEF SarListed
  <1> QED BY <1>3, <1>8, <1>9, <1>10

(* A first segment starts a transaction.                                   *)
LEMMA CreateKeeps ==
    ASSUME RInv, NEW m \in RmppMad, RmppReceiverCreateContext(m), sarUnload = "no",
           recv.pc \in {"idle", "notfound"}
    PROVE  RInv'
  <1> DEFINE q == Created(m)
             o == RmppReceiverProcessRecv(q, m)
             r == o.r
  <1>1. PICK c \in Ctx :
          /\ sar[c].state = "FREE" /\ recvList' = <<c>> \o recvList
          /\ sar' = [sar EXCEPT ![c] = r] /\ rmppNet' = rmppNet \cup o.sent
          /\ given' = given \cup {[tid |-> m.tid, mads |-> g.mads, len |-> g.len] : g \in o.msg}
          /\ dgrms' = (IF recv.pc = "idle" THEN dgrms + 1 ELSE dgrms)
                      - o.put - (IF o.status = "FPENDING" THEN 0 ELSE 1)
          /\ recv' = [pc |-> "put", ctx |-> c, mad |-> NoCtx]
    BY DEF RmppReceiverCreateContext
  <1>2. sarUnload' = "no" /\ m.type = "DATA" /\ m.seg = 1 /\ m.tid \in Tid
    BY DEF RmppReceiverCreateContext, Acceptable, RmppMad
  <1>3. /\ q \in SarContext /\ q.state = "CREATED" /\ q.tid = m.tid /\ q.head = << >> /\ q.ref = 2
        /\ q.timer = FALSE /\ q.cb = "none" /\ q.reap = FALSE
    BY CreatedFields
  <1>4. Receiving(q, m)
    <2>1. q.ref >= 2 + One(q.timer)
      BY <1>3 DEF One
    <2> HIDE DEF q
    <2>2. q = Created(m)
      BY DEF q
    <2> QED BY <1>2, <1>3, <2>1, <2>2 DEF Receiving
  <1>5. Processed(q, m, o)
    BY <1>4, RecvProcessed
  <1> HIDE DEF q, o
  <1>6. /\ r \in SarContext /\ RecOK(r) /\ r.state \in Armed /\ r.cb = "none"
        /\ r.ref = q.ref - One(q.timer) + One(r.timer)
        /\ o.sent \subseteq RmppMad /\ o.put \in Nat /\ o.status \in {"FREJECT", "FPENDING", "FCOMPLETED"}
        /\ Len(r.head) + o.put + Took(q, o.status) = Len(q.head) + 1
        /\ \A g \in o.msg : WholeMessage([tid |-> m.tid, mads |-> g.mads, len |-> g.len])
    BY <1>3, <1>5 DEF Processed
  <1> HIDE DEF r
  <1>7. recv.ctx = NoCtx /\ c # NoCtx /\ sarUnload # c
    BY RmppAssumption DEF RInv, RecvOK
  <1>8. sar[c] = FreeContext /\ ~SarListed(c) /\ Len(sar[c].head) = 0
    <2>1. RecOK(sar[c])
      BY DEF RInv
    <2>2. sar[c] = FreeContext
      BY <1>1, <2>1 DEF RecOK
    <2>3. sar[c].cb = "none" /\ sar[c].head = << >>
      BY <2>2 DEF FreeContext
    <2>4. ~SarListed(c)
      BY <1>1, <2>3 DEF RInv, ListOK, Armed
    <2> QED BY <2>2, <2>3, <2>4
  <1>9. /\ recvList' \in Seq(Ctx) /\ \A i, j \in DOMAIN recvList' : recvList'[i] = recvList'[j] => i = j
        /\ SarListed(c)' /\ \A d \in Ctx : d # c => SarListed(d)' = SarListed(d)
    BY <1>1, <1>8, ConsFacts DEF RInv
  <1>10. recv' \in RecvRec /\ RecvOK' /\ recv'.ctx = c /\ Busy(recv') = 0
    BY <1>1, <1>2, <1>7 DEF RecvRec, RecvOK, Busy, One
  <1>11. GivenOK' /\ rmppNet' \subseteq RmppMad
    BY <1>1, <1>6 DEF RInv, RTypes, GivenOK
  <1>12. r.ref = SarHolders(c)' /\ r.ref >= SarHolders(c)'
    <2>1. sar'[c] = r
      BY <1>1 DEF RInv, RTypes
    <2>2. PICK t \in Int : One(r.timer) = t
      BY OneType
    <2>3. r.ref = 2 - 0 + t
      BY <1>3, <1>6, <2>2 DEF One
    <2>4. SarHolders(c)' = 1 + t + 0 + 1
      <3>1. One(SarListed(c) \/ sarUnload = c)' = 1
        BY <1>9 DEF One
      <3>2. One(recv.ctx = c)' = 1 /\ One(sar[c].timer)' = t /\ One(sar[c].cb # "none")' = 0
        BY <1>6, <1>10, <2>1, <2>2 DEF One
      <3> QED BY <3>1, <3>2 DEF SarHolders
    <2>5. 2 - 0 + t = 1 + t + 0 + 1 /\ 2 - 0 + t >= 1 + t + 0 + 1
      OBVIOUS
    <2> QED BY <2>3, <2>4, <2>5
  <1>13. dgrms' = dgrms + Len(r.head) - Len(sar[c].head) + Busy(recv') - Busy(recv)
    <2>1. PICK l \in Int : Len(r.head) = l
      BY <1>6, ContextFields
    <2>2. PICK p \in Int : o.put = p
      BY <1>6
    <2>3. PICK t \in Int : Took(q, o.status) = t
      BY <1>3 DEF Took
    <2>4. PICK d \in Int : dgrms = d
      BY DgrmsType
    <2>5. PICK b \in {0, 1} : Busy(recv) = b
      BY DEF Busy, One
    <2>6. dgrms' = d + (1 - b) - p - t
      <3>1. t = IF o.status = "FPENDING" THEN 0 ELSE 1
        BY <1>3, <1>6, <2>3 DEF Took
      <3>2. CASE recv.pc = "idle"
        <4>1. b = 0
          BY <2>5, <3>2 DEF Busy, One
        <4>2. dgrms' = (d + 1) - p - t
          BY <1>1, <2>2, <2>4, <3>1, <3>2
        <4> QED BY <4>1, <4>2
      <3>3. CASE recv.pc = "notfound"
        <4>1. b = 1
          BY <2>5, <3>3 DEF Busy, One
        <4>2. dgrms' = d - p - t
          BY <1>1, <2>2, <2>4, <3>1, <3>3
        <4> QED BY <4>1, <4>2
      <3> QED BY <3>2, <3>3
    <2>7. l + p + t = 0 + 1
      BY <1>3, <1>6, <2>1, <2>2, <2>3
    <2>8. d + (1 - b) - p - t = d + l - 0 + 0 - b
      BY <2>7
    <2> QED BY <1>8, <1>10, <2>1, <2>4, <2>5, <2>6, <2>8
  <1>14. /\ SarListed(c)' = (r.state \in Armed \/ r.cb = "remove")
         /\ sarUnload' \in {"no", "yes"} \cup Ctx /\ (sarUnload' = "no" => sarUnload = "no")
         /\ (\A d \in Ctx : d # c => (sarUnload' = d) = (sarUnload = d))
         /\ (sarUnload' = c => r.state = "DESTROY" /\ r.cb # "remove")
         /\ (sarUnload' = "no" /\ r.state = "DESTROY" => r.cb \notin {"fired", "lock"})
         /\ \A d \in Ctx : d # c => (recv'.ctx = d) = (recv.ctx = d)
    <2>1. SarListed(c)' = TRUE
      BY <1>9 DEF SarListed
    <2>2. (r.state \in Armed \/ r.cb = "remove") = TRUE
      BY <1>6
    <2>3. \A d \in Ctx : d # c => recv'.ctx # d /\ recv.ctx # d
      BY <1>7, <1>10, RmppAssumption
    <2> QED BY <1>2, <1>6, <1>7, <2>1, <2>2, <2>3 DEF RInv, RTypes
  <1> QED BY <1>1, <1>6, <1>9, <1>10, <1>11, <1>12, <1>13, <1>14, ContextStep

-----------------------------------------------------------------------------
(* Timers, the reaper and the unload *)

(* A step of the timer callback changes neither the thread nor messages.   *)
LEMMA CallbackStep ==
    ASSUME RInv, NEW c \in Ctx, NEW r \in SarContext, sar' = [sar EXCEPT ![c] = r], RecOK(r),
           recvList' = recvList, sarUnload' = sarUnload, recv' = recv, given' = given,
           rmppNet' \subseteq RmppMad, r.tid = sar[c].tid,
           (r.state \in Armed \/ r.cb = "remove") = (sar[c].state \in Armed \/ sar[c].cb = "remove"),
           sarUnload = c => r.state = "DESTROY" /\ r.cb # "remove",
           sarUnload = "no" /\ r.state = "DESTROY" => r.cb \notin {"fired", "lock"},
           r.ref - One(r.timer) - One(r.cb # "none") >= sar[c].ref - One(sar[c].timer) - One(sar[c].cb # "none"),
           sarUnload = "no" =>
               r.ref - One(r.timer) - One(r.cb # "none") = sar[c].ref - One(sar[c].timer) - One(sar[c].cb # "none"),
           dgrms' = dgrms + Len(r.head) - Len(sar[c].head)
    PROVE  RInv'
  <1>1. sar[c] \in SarContext /\ recv' \in RecvRec /\ GivenOK'
    BY DEF RInv, RTypes, GivenOK
  <1>2. RecvOK'
    <2>1. \A d \in Ctx : sar'[d].tid = sar[d].tid
      BY DEF RInv, RTypes
    <2>2. recv.ctx # NoCtx => recv.ctx \in Ctx
      BY DEF RInv, RTypes, RecvRec
    <2> QED BY <2>1, <2>2 DEF RInv, RecvOK
  <1>3. dgrms' = dgrms + Len(r.head) - Len(sar[c].head) + Busy(recv') - Busy(recv)
    <2>1. PICK k \in Int, l \in Int : Len(sar[c].head) = k /\ Len(r.head) = l
      BY <1>1, ContextFields
    <2>2. PICK b \in Int : Busy(recv) = b
      BY DEF Busy, One
    <2>3. PICK d \in Int : dgrms = d
      BY DgrmsType
    <2>4. d + l - k = d + l - k + b - b
      OBVIOUS
    <2> QED BY <2>1, <2>2, <2>3, <2>4
  <1>4. PICK n \in Int, nn \in Int : sar[c].ref = n /\ r.ref = nn
    BY <1>1, ContextFields
  <1>5. PICK t \in Int, b \in Int, v \in Int :
            One(sar[c].timer) = t /\ One(sar[c].cb # "none") = b /\ One(recv.ctx = c) = v
    BY OneType
  <1>6. PICK tt \in Int, bb \in Int : One(r.timer) = tt /\ One(r.cb # "none") = bb
    BY OneType
  <1>7. nn - tt - bb >= n - t - b /\ (sarUnload = "no" => nn - tt - bb = n - t - b)
    BY <1>4, <1>5, <1>6
  <1>8. nn - tt - bb - v >= n - t - b - v
    BY <1>7
  <1>9. ASSUME sarUnload = "no" PROVE nn - tt - bb - v = n - t - b - v
    <2>1. nn - tt - bb = n - t - b
      BY <1>7, <1>9
    <2> QED BY <2>1
  <1>10. /\ r.ref - One(r.timer) - One(r.cb # "none") - One(recv'.ctx = c)
            >= sar[c].ref - One(sar[c].timer) - One(sar[c].cb # "none") - One(recv.ctx = c)
         /\ sarUnload = "no" =>
              r.ref - One(r.timer) - One(r.cb # "none") - One(recv'.ctx = c)
                = sar[c].ref - One(sar[c].timer) - One(sar[c].cb # "none") - One(recv.ctx = c)
    BY <1>4, <1>5, <1>6, <1>8, <1>9
  <1>11. \A d \in Ctx : d # c => (recv'.ctx = d) = (recv.ctx = d)
    OBVIOUS
  <1> QED BY <1>1, <1>2, <1>3, <1>10, <1>11, SameListStep

(* The timer expires.                                                      *)
LEMMA FiresKeeps == ASSUME RInv, NEW c \in Ctx, SarTimerFires(c) PROVE RInv'
  <1> DEFINE r == [sar[c] EXCEPT !.timer = FALSE, !.cb = "fired", !.stopped = FALSE]
  <1>1. sar[c].timer /\ sar[c].cb = "none"
    BY DEF SarTimerFires
  <1>2. sar[c] \in SarContext /\ RecOK(sar[c]) /\ sar[c].ref \in Nat /\ sar[c].state # "FREE" /\ sar[c].state \in Armed
    BY <1>1, HoldersSum, HeldIsLive DEF RecOK
  <1>3. /\ sar' = [sar EXCEPT ![c] = r] /\ recvList' = recvList /\ sarUnload' = sarUnload /\ recv' = recv
        /\ given' = given /\ rmppNet' = rmppNet /\ dgrms' = dgrms
    <2>1. sar' = [sar EXCEPT ![c] = r]
      BY DEF SarTimerFires, RInv, RTypes
    <2> QED BY <2>1 DEF SarTimerFires
  <1>4. r \in SarContext
    BY <1>2 DEF SarContext
  <1>5. /\ r.state = sar[c].state /\ r.tid = sar[c].tid /\ r.exp = sar[c].exp /\ r.wl = sar[c].wl
        /\ r.total = sar[c].total /\ r.head = sar[c].head /\ r.ref = sar[c].ref /\ r.timer = FALSE
        /\ r.cb = "fired" /\ r.stopped = FALSE /\ r.reap = sar[c].reap
    BY <1>2 DEF SarContext
  <1> HIDE DEF r
  <1>6. RecOK(r)
    BY <1>2, <1>5 DEF RecOK, Window
  <1>7. One(r.timer) = 0 /\ One(sar[c].timer) = 1 /\ One(r.cb # "none") = 1 /\ One(sar[c].cb # "none") = 0
    BY <1>1, <1>5 DEF One
  <1>8. r.ref - One(r.timer) - One(r.cb # "none") = sar[c].ref - One(sar[c].timer) - One(sar[c].cb # "none")
        /\ r.ref - One(r.timer) - One(r.cb # "none") >= sar[c].ref - One(sar[c].timer) - One(sar[c].cb # "none")
    BY <1>2, <1>5, <1>7
  <1>9. dgrms' = dgrms + Len(r.head) - Len(sar[c].head) /\ rmppNet' \subseteq RmppMad
    <2>1. dgrms \in Int /\ Len(sar[c].head) \in Int
      BY <1>2, DgrmsType, ContextFields
    <2> QED BY <1>3, <1>5, <2>1 DEF RInv, RTypes
  <1>10. /\ (r.state \in Armed \/ r.cb = "remove") = (sar[c].state \in Armed \/ sar[c].cb = "remove")
         /\ (sarUnload = c => r.state = "DESTROY" /\ r.cb # "remove")
         /\ (sarUnload = "no" /\ r.state = "DESTROY" => r.cb \notin {"fired", "lock"})
    BY <1>1, <1>2, <1>5 DEF RInv, ListOK, Armed
  <1> QED BY <1>3, <1>4, <1>5, <1>6, <1>8, <1>9, <1>10, CallbackStep

(* The callback looks at the state, or learns that it was stopped.         *)
LEMMA LooksKeeps ==
    ASSUME RInv, NEW c \in Ctx, NEW b \in {"none", "lock", "put"},
           sar' = [sar EXCEPT ![c].cb = b], sar[c].cb \in {"fired", "lock"},
           recvList' = recvList, sarUnload' = sarUnload, recv' = recv, given' = given,
           rmppNet' = rmppNet, dgrms' = dgrms,
           b = "none" => sar[c].state = "DESTROY",
           b = "lock" => sar[c].state # "DESTROY"
    PROVE  RInv'
  <1> DEFINE r == [sar[c] EXCEPT !.cb = b]
  <1>1. sar[c] \in SarContext /\ RecOK(sar[c]) /\ sar[c].ref \in Nat /\ sar[c].state # "FREE" /\ sar[c].cb # "none"
    BY HoldersSum, HeldIsLive
  <1>2. sar' = [sar EXCEPT ![c] = r]
    BY DEF RInv, RTypes
  <1>3. r \in SarContext
    BY <1>1 DEF SarContext
  <1>4. /\ r.state = sar[c].state /\ r.tid = sar[c].tid /\ r.exp = sar[c].exp /\ r.wl = sar[c].wl
        /\ r.total = sar[c].total /\ r.head = sar[c].head /\ r.ref = sar[c].ref /\ r.timer = sar[c].timer
        /\ r.cb = b /\ r.stopped = sar[c].stopped /\ r.reap = sar[c].reap
    BY <1>1 DEF SarContext
  <1> HIDE DEF r
  <1>5. RecOK(r)
    BY <1>1, <1>4 DEF RecOK, Window
  <1>6. sarUnload = "no" => b # "none"
    BY DEF RInv, ListOK
  <1>7. PICK t \in Int : One(sar[c].timer) = t
    BY OneType
  <1>8. PICK n \in Int : sar[c].ref = n
    BY <1>1
  <1>9. PICK u \in {0, 1} : One(r.cb # "none") = u /\ (b # "none" => u = 1)
    BY <1>4 DEF One
  <1>10. n - t - u >= n - t - 1 /\ (sarUnload = "no" => n - t - u = n - t - 1)
    BY <1>6, <1>9
  <1>11. One(sar[c].cb # "none") = 1
    BY <1>1 DEF One
  <1>12. /\ r.ref - One(r.timer) - One(r.cb # "none") >= sar[c].ref - One(sar[c].timer) - One(sar[c].cb # "none")
         /\ sarUnload = "no" =>
            r.ref - One(r.timer) - One(r.cb # "none") = sar[c].ref - One(sar[c].timer) - One(sar[c].cb # "none")
    BY <1>4, <1>7, <1>8, <1>9, <1>10, <1>11
  <1>13. dgrms' = dgrms + Len(r.head) - Len(sar[c].head) /\ rmppNet' \subseteq RmppMad
    <2>1. dgrms \in Int /\ Len(sar[c].head) \in Int
      BY <1>1, DgrmsType, ContextFields
    <2> QED BY <1>4, <2>1 DEF RInv, RTypes
  <1>14. /\ (r.state \in Armed \/ r.cb = "remove") = (sar[c].state \in Armed \/ sar[c].cb = "remove")
         /\ (sarUnload = c => r.state = "DESTROY" /\ r.cb # "remove")
         /\ (sarUnload = "no" /\ r.state = "DESTROY" => r.cb \notin {"fired", "lock"})
    BY <1>4 DEF RInv, ListOK
  <1> QED BY <1>2, <1>3, <1>4, <1>5, <1>12, <1>13, <1>14, CallbackStep

LEMMA TimerLooks == ASSUME RInv, NEW c \in Ctx, RmppTimerCallback(c) PROVE RInv'
  <1>1. CASE sar[c].state = "DESTROY"
    BY <1>1, LooksKeeps DEF RmppTimerCallback
  <1>2. CASE sar[c].state # "DESTROY"
    BY <1>2, LooksKeeps DEF RmppTimerCallback
  <1> QED BY <1>1, <1>2

(* The callback destroys its context, or learns that it was stopped.       *)
LEMMA TimeoutKeeps == ASSUME RInv, NEW c \in Ctx, RmppReceiverTimerCallback(c) PROVE RInv'
  <1>1. CASE sar[c].stopped \/ sar[c].state = "DESTROY"
    BY <1>1, LooksKeeps DEF RmppReceiverTimerCallback
  <1>2. CASE ~sar[c].stopped /\ sar[c].state # "DESTROY"
    <2> DEFINE r == RmppReceiverDestroyContext([sar[c] EXCEPT !.cb = "remove"])
    <2>1. sar[c].cb = "lock"
      BY DEF RmppReceiverTimerCallback
    <2>2. /\ sar[c] \in SarContext /\ RecOK(sar[c]) /\ sar[c].ref \in Nat /\ sar[c].state # "FREE"
          /\ sar[c].tid \in Tid /\ ~sar[c].reap
      BY <2>1, HoldersSum, HeldIsLive
    <2>3. sar[c].state \in Armed /\ sar[c].timer = FALSE /\ sarUnload # c
      <3>1. sar[c].timer \in BOOLEAN
        BY <2>2, ContextFields
      <3> QED BY <1>2, <2>1, <2>2, <3>1 DEF RecOK, RInv, ListOK
    <2>4. /\ sar' = [sar EXCEPT ![c] = r] /\ recvList' = recvList /\ sarUnload' = sarUnload /\ recv' = recv
          /\ given' = given /\ dgrms' = dgrms - Len(sar[c].head)
          /\ rmppNet' = rmppNet \cup (IF sar[c].state = "ACTIVE" THEN BuildRmppAbort(sar[c].tid) ELSE {})
      BY <1>2 DEF RmppReceiverTimerCallback, RInv, RTypes
    <2>5. r = [sar[c] EXCEPT !.cb = "remove", !.state = "DESTROY", !.head = << >>]
      BY <2>2 DEF RmppReceiverDestroyContext, SarContext
    <2> HIDE DEF r
    <2>6. << >> \in Seq(RmppMad) /\ "DESTROY" \in SarState
      BY DEF SarState
    <2>7. r \in SarContext
      BY <2>2, <2>5, <2>6 DEF SarContext
    <2>8. /\ r.state = "DESTROY" /\ r.tid = sar[c].tid /\ r.head = << >> /\ r.ref = sar[c].ref
          /\ r.timer = FALSE /\ r.cb = "remove" /\ r.reap = sar[c].reap
      BY <2>2, <2>3, <2>5 DEF SarContext
    <2>9. RecOK(r)
      BY <2>2, <2>8 DEF RecOK, Armed
    <2>10. One(r.timer) = 0 /\ One(sar[c].timer) = 0 /\ One(r.cb # "none") = 1 /\ One(sar[c].cb # "none") = 1
      BY <2>1, <2>3, <2>8 DEF One
    <2>11. /\ r.ref - One(r.timer) - One(r.cb # "none") = sar[c].ref - One(sar[c].timer) - One(sar[c].cb # "none")
           /\ r.ref - One(r.timer) - One(r.cb # "none") >= sar[c].ref - One(sar[c].timer) - One(sar[c].cb # "none")
      BY <2>2, <2>8, <2>10
    <2>12. dgrms' = dgrms + Len(r.head) - Len(sar[c].head)
      <3>1. PICK d \in Int, k \in Int : dgrms = d /\ Len(sar[c].head) = k
        BY <2>2, DgrmsType, ContextFields
      <3>2. Len(r.head) = 0 /\ d - k = d + 0 - k
        BY <2>8
      <3> QED BY <2>4, <3>1, <3>2
    <2>13. rmppNet' \subseteq RmppMad
      BY <2>2, <2>4, ReplyTypes DEF RInv, RTypes
    <2>14. /\ (r.state \in Armed \/ r.cb = "remove") = (sar[c].state \in Armed \/ sar[c].cb = "remove")
           /\ (sarUnload = c => r.state = "DESTROY" /\ r.cb # "remove")
           /\ (sarUnload = "no" /\ r.state = "DESTROY" => r.cb \notin {"fired", "lock"})
      BY <2>3, <2>8
    <2> QED BY <2>4, <2>7, <2>8, <2>9, <2>11, <2>12, <2>13, <2>14, CallbackStep
  <1> QED BY <1>1, <1>2

(* The callback gives up the timer's reference.                            *)
LEMMA CallbackDoneKeeps == ASSUME RInv, NEW c \in Ctx, SarCallbackDone(c) PROVE RInv'
  <1> DEFINE d == DecrementSarContextUsageCount(sar[c])
             r == [d EXCEPT !.cb = "none"]
  <1>1. sar[c].cb = "put"
    BY DEF SarCallbackDone
  <1>2. /\ sar[c] \in SarContext /\ RecOK(sar[c]) /\ sar[c].ref \in Nat /\ sar[c].state # "FREE"
        /\ sar[c].tid \in Tid /\ sar[c].ref >= 1
    BY <1>1, HoldersSum, HeldIsLive
  <1>3. /\ d \in SarContext /\ d.state = sar[c].state /\ d.tid = sar[c].tid /\ d.exp = sar[c].exp
        /\ d.wl = sar[c].wl /\ d.total = sar[c].total /\ d.head = sar[c].head /\ d.ref = sar[c].ref - 1
        /\ d.timer = sar[c].timer /\ d.cb = sar[c].cb /\ d.stopped = sar[c].stopped
    BY <1>2, DecrementFields
  <1>4. RecOK(d)
    BY <1>2, DecrementOK
  <1>5. /\ sar' = [sar EXCEPT ![c] = r] /\ recvList' = recvList /\ sarUnload' = sarUnload /\ recv' = recv
        /\ given' = given /\ rmppNet' = rmppNet /\ dgrms' = dgrms
    BY DEF SarCallbackDone, RInv, RTypes
  <1> HIDE DEF d
  <1>6. r \in SarContext
    BY <1>3 DEF SarContext
  <1>7. /\ r.state = d.state /\ r.tid = d.tid /\ r.exp = d.exp /\ r.wl = d.wl /\ r.total = d.total
        /\ r.head = d.head /\ r.ref = d.ref /\ r.timer = d.timer /\ r.cb = "none" /\ r.stopped = d.stopped
        /\ r.reap = d.reap
    BY <1>3 DEF SarContext
  <1> HIDE DEF r
  <1>8. RecOK(r)
    BY <1>2, <1>3, <1>4, <1>7 DEF RecOK, Window
  <1>9. One(r.cb # "none") = 0 /\ One(sar[c].cb # "none") = 1
    BY <1>1, <1>7 DEF One
  <1>10. /\ r.ref - One(r.timer) - One(r.cb # "none") = sar[c].ref - One(sar[c].timer) - One(sar[c].cb # "none")
         /\ r.ref - One(r.timer) - One(r.cb # "none") >= sar[c].ref - One(sar[c].timer) - One(sar[c].cb # "none")
    <2>1. PICK t \in Int, n \in Int : One(sar[c].timer) = t /\ sar[c].ref = n
      BY <1>2, OneType
    <2>2. n - 1 - t - 0 = n - t - 1 /\ n - 1 - t - 0 >= n - t - 1
      OBVIOUS
    <2> QED BY <1>3, <1>7, <1>9, <2>1, <2>2
  <1>11. dgrms' = dgrms + Len(r.head) - Len(sar[c].head) /\ rmppNet' \subseteq RmppMad
    <2>1. dgrms \in Int /\ Len(sar[c].head) \in Int
      BY <1>2, DgrmsType, ContextFields
    <2> QED BY <1>3, <1>5, <1>7, <2>1 DEF RInv, RTypes
  <1>12. /\ (r.state \in Armed \/ r.cb = "remove") = (sar[c].state \in Armed \/ sar[c].cb = "remove")
         /\ (sarUnload = c => r.state = "DESTROY" /\ r.cb # "remove")
         /\ (sarUnload = "no" /\ r.state = "DESTROY" => r.cb \notin {"fired", "lock"})
    BY <1>1, <1>3, <1>7 DEF RInv, ListOK
  <1> QED BY <1>3, <1>5, <1>6, <1>7, <1>8, <1>10, <1>11, <1>12, CallbackStep

(* A step that takes a context from the list, or frees it: what is left to *)
(* say of the threads and the messages.                                    *)
LEMMA RemovalStep ==
    ASSUME RInv, NEW c \in Ctx, NEW r \in SarContext, sar' = [sar EXCEPT ![c] = r], RecOK(r),
           recvList' \in Seq(Ctx), \A i, j \in DOMAIN recvList' : recvList'[i] = recvList'[j] => i = j,
           \A d \in Ctx : d # c => SarListed(d)' = SarListed(d), ~SarListed(c)',
           r.state \notin Armed, r.cb # "remove",
           sarUnload' \in {"no", "yes"} \cup Ctx, sarUnload' = "no" => sarUnload = "no",
           \A d \in Ctx : d # c => (sarUnload' = d) = (sarUnload = d),
           sarUnload' = c => r.state = "DESTROY",
           sarUnload' = "no" /\ r.state = "DESTROY" => r.cb \notin {"fired", "lock"},
           sarUnload # "no" \/ sarUnload' = "no", r.tid = sar[c].tid \/ recv.ctx # c,
           recv' = recv, rmppNet' = rmppNet, given' = given,
           NEW n \in Int, r.ref >= n, sarUnload' = "no" => r.ref = n,
           One(sarUnload' = c) + One(r.timer) + One(r.cb # "none") + One(recv.ctx = c) = n,
           dgrms' = dgrms + Len(r.head) - Len(sar[c].head)
    PROVE  RInv'
  <1>1. sar[c] \in SarContext /\ recv' \in RecvRec /\ GivenOK' /\ rmppNet' \subseteq RmppMad /\ sar'[c] = r
    BY DEF RInv, RTypes, GivenOK
  <1>2. RecvOK'
    <2>1. \A d \in Ctx : d = recv.ctx => sar'[d].tid = sar[d].tid
      BY DEF RInv, RTypes
    <2>2. recv.ctx # NoCtx => recv.ctx \in Ctx
      BY DEF RInv, RTypes, RecvRec
    <2>3. sarUnload' # "no" => sarUnload # "no"
      OBVIOUS
    <2> QED BY <2>1, <2>2, <2>3 DEF RInv, RecvOK
  <1>3. dgrms' = dgrms + Len(r.head) - Len(sar[c].head) + Busy(recv') - Busy(recv)
    <2>1. PICK k \in Int, l \in Int : Len(sar[c].head) = k /\ Len(r.head) = l
      BY <1>1, ContextFields
    <2>2. PICK b \in Int : Busy(recv) = b
      BY DEF Busy, One
    <2>3. PICK d \in Int : dgrms = d
      BY DgrmsType
    <2>4. d + l - k = d + l - k + b - b
      OBVIOUS
    <2> QED BY <2>1, <2>2, <2>3, <2>4
  <1>4. r.ref >= SarHolders(c)' /\ (sarUnload' = "no" => r.ref = SarHolders(c)')
    <2>1. (SarListed(c) \/ sarUnload = c)' = (sarUnload' = c)
      OBVIOUS
    <2>2. SarHolders(c)' = n
      BY <1>1, <2>1 DEF SarHolders
    <2> QED BY <2>2
  <1>5. SarListed(c)' = (r.state \in Armed \/ r.cb = "remove")
    BY DEF SarListed
  <1>6. /\ \A d \in Ctx : d # c => (recv'.ctx = d) = (recv.ctx = d)
        /\ sarUnload' = c => r.state = "DESTROY" /\ r.cb # "remove"
    OBVIOUS
  <1> QED BY <1>1, <1>2, <1>3, <1>4, <1>5, <1>6, ContextStep

(* The callback takes its context from the list.                           *)
LEMMA RemoveKeeps == ASSUME RInv, NEW c \in Ctx, RemoveSARRecvListEntry(c) PROVE RInv'
  <1> DEFINE d == DecrementSarContextUsageCount(sar[c])
             r == [d EXCEPT !.cb = "put"]
  <1>1. sar[c].cb = "remove" /\ recvList' = NotIn(c)
    BY DEF RemoveSARRecvListEntry
  <1>2. /\ sar[c] \in SarContext /\ RecOK(sar[c]) /\ sar[c].ref \in Nat /\ sar[c].state # "FREE"
        /\ sar[c].tid \in Tid /\ sar[c].ref >= 1
    BY <1>1, HoldersSum, HeldIsLive
  <1>3. SarListed(c) /\ sarUnload # c /\ sar[c].state = "DESTROY" /\ sar[c].timer = FALSE
    <2>1. sar[c].timer \in BOOLEAN
      BY <1>2, ContextFields
    <2> QED BY <1>1, <1>2, <2>1 DEF RInv, ListOK, RecOK, Armed
  <1>4. /\ d \in SarContext /\ d.state = sar[c].state /\ d.tid = sar[c].tid /\ d.exp = sar[c].exp
        /\ d.wl = sar[c].wl /\ d.total = sar[c].total /\ d.head = sar[c].head /\ d.ref = sar[c].ref - 1
        /\ d.timer = sar[c].timer /\ d.cb = sar[c].cb /\ d.stopped = sar[c].stopped
    BY <1>2, DecrementFields
  <1>5. RecOK(d)
    BY <1>2, DecrementOK
  <1>6. /\ sar' = [sar EXCEPT ![c] = r] /\ sarUnload' = sarUnload /\ recv' = recv
        /\ given' = given /\ rmppNet' = rmppNet /\ dgrms' = dgrms
    BY DEF RemoveSARRecvListEntry, RInv, RTypes
  <1>7. /\ recvList' \in Seq(Ctx) /\ \A i, j \in DOMAIN recvList' : recvList'[i] = recvList'[j] => i = j
        /\ ~SarListed(c)' /\ \A e \in Ctx : e # c => SarListed(e)' = SarListed(e)
    BY <1>1, <1>3, NotInFacts DEF RInv
  <1> HIDE DEF d
  <1>8. r \in SarContext
    BY <1>4 DEF SarContext
  <1>9. /\ r.state = d.state /\ r.tid = d.tid /\ r.exp = d.exp /\ r.wl = d.wl /\ r.total = d.total
        /\ r.head = d.head /\ r.ref = d.ref /\ r.timer = d.timer /\ r.cb = "put" /\ r.stopped = d.stopped
        /\ r.reap = d.reap
    BY <1>4 DEF SarContext
  <1> HIDE DEF r
  <1>10. RecOK(r)
    BY <1>2, <1>3, <1>4, <1>5, <1>9 DEF RecOK, Armed
  <1>11. PICK v \in Int : One(recv.ctx = c) = v
    BY OneType
  <1>12. PICK n \in Int : sar[c].ref = n
    BY <1>2
  <1>13. One(sarUnload' = c) + One(r.timer) + One(r.cb # "none") + One(recv.ctx = c) = 0 + 0 + 1 + v
    BY <1>3, <1>4, <1>6, <1>9, <1>11 DEF One
  <1>14. SarHolders(c) = 1 + 0 + 1 + v
    BY <1>1, <1>3, <1>11 DEF SarHolders, One
  <1>15. n >= 1 + 0 + 1 + v /\ (sarUnload = "no" => n = 1 + 0 + 1 + v)
    BY <1>12, <1>14 DEF RInv, RefsOK
  <1>16. /\ r.ref >= 0 + 0 + 1 + v /\ 0 + 0 + 1 + v \in Int
         /\ (sarUnload' = "no" => r.ref = 0 + 0 + 1 + v)
    <2>1. r.ref = n - 1
      BY <1>4, <1>9, <1>12
    <2>2. n - 1 >= 0 + 0 + 1 + v /\ 0 + 0 + 1 + v \in Int
      BY <1>15
    <2>3. ASSUME sarUnload = "no" PROVE n - 1 = 0 + 0 + 1 + v
      <3>1. n = 1 + 0 + 1 + v
        BY <1>15, <2>3
      <3> QED BY <3>1
    <2> QED BY <1>6, <2>1, <2>2, <2>3
  <1>17. dgrms' = dgrms + Len(r.head) - Len(sar[c].head)
    <2>1. dgrms \in Int /\ Len(sar[c].head) \in Int
      BY <1>2, DgrmsType, ContextFields
    <2> QED BY <1>4, <1>6, <1>9, <2>1
  <1>18. /\ r.state \notin Armed /\ r.cb # "remove" /\ sarUnload' \in {"no", "yes"} \cup Ctx
         /\ (sarUnload' = "no" => sarUnload = "no")
         /\ (\A e \in Ctx : e # c => (sarUnload' = e) = (sarUnload = e))
         /\ (sarUnload' = c => r.state = "DESTROY")
         /\ (sarUnload' = "no" /\ r.state = "DESTROY" => r.cb \notin {"fired", "lock"})
         /\ (sarUnload # "no" \/ sarUnload' = "no") /\ r.tid = sar[c].tid
    BY <1>3, <1>4, <1>6, <1>9 DEF RInv, RTypes, Armed
  <1> QED BY <1>6, <1>7, <1>8, <1>10, <1>13, <1>16, <1>17, <1>18, RemovalStep

(* A context nobody holds but the reaper is free.                          *)
LEMMA FreeFacts ==
    /\ FreeContext \in SarContext /\ RecOK(FreeContext) /\ FreeContext.state = "FREE"
    /\ FreeContext.head = << >> /\ FreeContext.ref = 0 /\ FreeContext.timer = FALSE
    /\ FreeContext.cb = "none"
  <1> DEFINE f == FreeContext
  <1>1. << >> \in Seq(RmppMad)
    OBVIOUS
  <1>2. /\ f \in SarContext /\ f.state = "FREE" /\ f.head = << >> /\ f.ref = 0 /\ f.timer = FALSE
        /\ f.cb = "none" /\ f.reap = FALSE
    BY <1>1 DEF FreeContext, SarContext, SarState
  <1>3. f = FreeContext
    OBVIOUS
  <1> HIDE DEF f
  <1>4. RecOK(f)
    BY <1>2, <1>3 DEF RecOK, Armed
  <1> QED BY <1>2, <1>3, <1>4

(* A context whose lock may be destroyed is held by nobody but a callback, *)
(* and holds no datagram.                                                  *)
LEMMA LockedOut ==
    ASSUME RInv, NEW c \in Ctx, sar[c].reap \/ sarUnload = c
    PROVE  /\ ~SarListed(c) /\ recv.ctx # c /\ ~sar[c].timer /\ sar[c].head = << >>
           /\ sar[c].cb # "none" => sarUnload = c
           /\ sar[c].reap => sarUnload # c
  <1>1. CASE sar[c].reap
    <2>1. ~SarListed(c) /\ recv.ctx # c /\ ~sar[c].timer /\ sar[c].cb = "none" /\ sarUnload # c
      BY <1>1, HeldIsLive
    <2>2. sar[c].state # "ACTIVE"
      BY <2>1 DEF RInv, ListOK, Armed
    <2> QED BY <2>1, <2>2 DEF RInv, RecOK
  <1>2. CASE sarUnload = c
    <2>1. sar[c].state = "DESTROY" /\ sar[c].cb # "remove" /\ sarUnload # "no"
      BY <1>2, RmppAssumption DEF RInv, ListOK
    <2>2. recv.ctx = NoCtx /\ c # NoCtx
      BY <2>1, RmppAssumption DEF RInv, RecvOK
    <2>3. ~SarListed(c) /\ ~sar[c].timer /\ sar[c].head = << >>
      BY <2>1 DEF RInv, ListOK, RecOK, Armed
    <2>4. ~sar[c].reap
      BY <1>2, HeldIsLive
    <2> QED BY <1>2, <2>2, <2>3, <2>4
  <1> QED BY <1>1, <1>2

(* To destroy the lock changes no context.                                 *)
LEMMA LockGoes == ASSUME RInv, NEW c \in Ctx, RmppReceiverReapContext(c) PROVE RInv'
  <1>1. /\ sar' = [sar EXCEPT ![c].head = << >>] /\ dgrms' = dgrms - Len(sar[c].head)
        /\ recvList' = recvList /\ rmppNet' = rmppNet /\ recv' = recv /\ given' = given
        /\ sarUnload' = sarUnload /\ (sar[c].reap \/ sarUnload = c)
    BY DEF RmppReceiverReapContext
  <1>2. sar[c].head = << >> /\ sar \in [Ctx -> SarContext]
    BY <1>1, LockedOut DEF RInv, RTypes
  <1>3. sar' = sar
    BY <1>1, <1>2 DEF SarContext
  <1>4. dgrms' = dgrms /\ dgrms \in Int
    BY <1>1, <1>2, DgrmsType
  <1>5. recv' \in RecvRec /\ RecvOK' /\ rmppNet' \subseteq RmppMad /\ sarUnload' \in {"no", "yes"} \cup Ctx
    BY <1>1, <1>3 DEF RInv, RecvOK, RTypes
  <1>6. dgrms' - Busy(recv') = dgrms - Busy(recv)
    BY <1>1, <1>4
  <1> QED BY <1>1, <1>3, <1>4, <1>5, <1>6, QuietStep

(* The context is freed when its callback is over.                         *)
LEMMA ReapKeeps == ASSUME RInv, LInv, NEW c \in Ctx, SarTimerDestroy(c) PROVE RInv'
  <1> DEFINE r == FreeContext
  <1>0. /\ sar[c].reap \/ sarUnload = c
        /\ ~SarListed(c) /\ recv.ctx # c /\ sar[c].head = << >>
        /\ sarUnload' = IF sarUnload = c THEN "yes" ELSE sarUnload
    BY LockedOut DEF LInv, SarTimerDestroy
  <1>1. /\ sar[c].cb = "none" /\ sar' = [sar EXCEPT ![c] = r] /\ dgrms' = dgrms
        /\ recvList' = recvList /\ rmppNet' = rmppNet /\ recv' = recv /\ given' = given
        /\ \/ sar[c].reap /\ sarUnload' = sarUnload
           \/ sarUnload = c /\ sarUnload' = "yes"
    BY <1>0 DEF SarTimerDestroy
  <1>2. /\ r \in SarContext /\ RecOK(r) /\ r.state = "FREE" /\ r.head = << >> /\ r.ref = 0 /\ r.timer = FALSE
        /\ r.cb = "none"
    BY FreeFacts
  <1> HIDE DEF r
  <1>3. sar[c] \in SarContext /\ RecOK(sar[c]) /\ sarUnload \in {"no", "yes"} \cup Ctx
    BY HoldersSum DEF RInv, RTypes
  <1>4. ~SarListed(c) /\ recv.ctx # c /\ sarUnload' # c
    BY <1>0, RmppAssumption
  <1>5. /\ recvList' \in Seq(Ctx) /\ \A i, j \in DOMAIN recvList' : recvList'[i] = recvList'[j] => i = j
        /\ ~SarListed(c)' /\ \A e \in Ctx : e # c => SarListed(e)' = SarListed(e)
    BY <1>1, <1>4 DEF RInv, RTypes, ListOK, SarListed
  <1>6. One(sarUnload' = c) + One(r.timer) + One(r.cb # "none") + One(recv.ctx = c) = 0
    BY <1>2, <1>4 DEF One
  <1>7. dgrms' = dgrms + Len(r.head) - Len(sar[c].head)
    <2>1. PICK d \in Int : dgrms = d
      BY DgrmsType
    <2>2. Len(r.head) = 0 /\ Len(sar[c].head) = 0 /\ d = d + 0 - 0
      BY <1>0, <1>2
    <2> QED BY <1>1, <2>1, <2>2
  <1>8. /\ r.state \notin Armed /\ r.cb # "remove" /\ sarUnload' \in {"no", "yes"} \cup Ctx
        /\ (sarUnload' = "no" => sarUnload = "no")
        /\ (\A e \in Ctx : e # c => (sarUnload' = e) = (sarUnload = e))
        /\ (sarUnload' = c => r.state = "DESTROY")
        /\ (sarUnload' = "no" /\ r.state = "DESTROY" => r.cb \notin {"fired", "lock"})
        /\ (sarUnload # "no" \/ sarUnload' = "no")
    BY <1>1, <1>2, <1>3, <1>4, RmppAssumption DEF Armed
  <1>9. r.ref >= 0 /\ 0 \in Int
    BY <1>2
  <1> QED BY <1>1, <1>2, <1>4, <1>5, <1>6, <1>7, <1>8, <1>9, RemovalStep

(* The context DestroySARContexts leaves to its reaper.                    *)
LEMMA DestroyedFields ==
    ASSUME NEW q \in SarContext, q.ref >= 1 + One(q.timer), q.state \in Armed, RecOK(q), q.tid \in Tid
    PROVE  LET a == RmppReceiverDestroyContext([q EXCEPT !.ref = @ + 1])
               r == DecrementSarContextUsageCount(IF SarContextTimerArmed(q) THEN StopSarContextTimer(a) ELSE a)
           IN /\ r \in SarContext /\ RecOK(r) /\ r.state = "DESTROY" /\ r.tid = q.tid /\ r.head = << >>
              /\ r.ref = q.ref - One(q.timer) /\ r.timer = FALSE /\ r.cb = q.cb
  <1> DEFINE n == q.ref + 1
             a == RmppReceiverDestroyContext([q EXCEPT !.ref = @ + 1])
             b == StopSarContextTimer(a)
             r == DecrementSarContextUsageCount(b)
  <1>1. q.ref \in Nat /\ n \in Nat /\ << >> \in Seq(RmppMad) /\ "DESTROY" \in SarState /\ q.timer \in BOOLEAN
    BY ContextFields DEF SarState
  <1>2. a = [q EXCEPT !.ref = n, !.state = "DESTROY", !.head = << >>]
    BY DEF RmppReceiverDestroyContext, SarContext
  <1> HIDE DEF n
  <1>3. [q EXCEPT !.ref = n, !.state = "DESTROY", !.head = << >>] \in SarContext
    BY <1>1 DEF SarContext
  <1>4. /\ a \in SarContext /\ a.state = "DESTROY" /\ a.tid = q.tid /\ a.head = << >> /\ a.ref = n
        /\ a.timer = q.timer /\ a.cb = q.cb /\ a.stopped = q.stopped /\ a.reap = q.reap
    BY <1>1, <1>2, <1>3 DEF SarContext
  <1> HIDE DEF a
  <1>5. PICK t \in {0, 1} : One(q.timer) = t
    BY DEF One
  <1>6. PICK k \in Nat : q.ref = k /\ n = k + 1 /\ k >= 1 + t
    BY <1>1, <1>5 DEF n
  <1>7. a.ref >= 1 /\ One(a.timer) = t
    BY <1>4, <1>5, <1>6
  <1>8. /\ b \in SarContext /\ b.state = a.state /\ b.tid = a.tid /\ b.head = a.head
        /\ b.ref = a.ref - One(a.timer) /\ ~b.timer /\ b.cb = a.cb
    BY <1>4, <1>7, StopFields
  <1> HIDE DEF b
  <1>9. b.ref = k + 1 - t /\ b.ref >= 2 /\ b.timer = FALSE
    <2>1. b.ref = k + 1 - t
      BY <1>4, <1>6, <1>7, <1>8
    <2>2. k + 1 - t >= 2
      BY <1>6
    <2>3. b.timer \in BOOLEAN
      BY <1>8, ContextFields
    <2> QED BY <1>8, <2>1, <2>2, <2>3
  <1>10. b.ref >= 1 /\ b.ref # 1
    BY <1>9
  <1>11. /\ r \in SarContext /\ r.state = b.state /\ r.tid = b.tid /\ r.head = b.head
         /\ r.ref = b.ref - 1 /\ r.timer = b.timer /\ r.cb = b.cb /\ r.reap = (b.ref = 1)
    BY <1>8, <1>10, DecrementFields
  <1> HIDE DEF r
  <1>12. r.ref = k - t
    <2>1. k + 1 - t - 1 = k - t
      OBVIOUS
    <2> QED BY <1>9, <1>11, <2>1
  <1>13. RecOK(r)
    BY <1>4, <1>8, <1>9, <1>10, <1>11 DEF RecOK, Armed
  <1>14. SarContextTimerArmed(q)
    BY DEF SarContextTimerArmed, Armed
  <1>15. /\ r \in SarContext /\ RecOK(r) /\ r.state = "DESTROY" /\ r.tid = q.tid /\ r.head = << >>
         /\ r.ref = q.ref - One(q.timer) /\ r.timer = FALSE /\ r.cb = q.cb
    BY <1>4, <1>5, <1>6, <1>8, <1>9, <1>11, <1>12, <1>13
  <1> QED BY <1>14, <1>15 DEF r, b, a

(* The unload takes the first context from the list.                       *)
LEMMA DestroyKeeps == ASSUME RInv, DestroySARContexts PROVE RInv'
  <1>0. PICK c \in Ctx : c = Head(recvList) /\ SarListed(c)
    <2>1. recvList \in Seq(Ctx) /\ recvList # << >>
      BY DEF RInv, RTypes, DestroySARContexts
    <2>2. Head(recvList) \in Ctx /\ 1 \in DOMAIN recvList /\ Head(recvList) = recvList[1]
      BY <2>1
    <2> QED BY <2>2 DEF SarListed
  <1> DEFINE a == RmppReceiverDestroyContext([sar[c] EXCEPT !.ref = @ + 1])
             r == DecrementSarContextUsageCount(IF SarContextTimerArmed(sar[c]) THEN StopSarContextTimer(a) ELSE a)
  <1>1. /\ sarUnload = "yes" /\ recvList # << >> /\ sar[c].state # "DESTROY" /\ sar' = [sar EXCEPT ![c] = r]
        /\ recvList' = NotIn(c) /\ sarUnload' = c /\ dgrms' = dgrms - Len(sar[c].head)
        /\ rmppNet' = rmppNet /\ recv' = recv /\ given' = given
    BY <1>0 DEF DestroySARContexts
  <1>2. c \in Ctx /\ SarListed(c)
    BY <1>0
  <1>3. /\ sar[c] \in SarContext /\ RecOK(sar[c]) /\ sar[c].ref \in Nat /\ sar[c].state # "FREE"
        /\ sar[c].tid \in Tid /\ sar[c].state \in Armed /\ sar[c].cb # "remove"
    BY <1>1, <1>2, HoldersSum, HeldIsLive DEF RecOK
  <1>4. recv.ctx = NoCtx /\ c # NoCtx /\ c \notin {"no", "yes"}
    BY <1>1, <1>2, RmppAssumption DEF RInv, RecvOK
  <1>5. PICK t \in {0, 1}, u \in {0, 1} : One(sar[c].timer) = t /\ One(sar[c].cb # "none") = u
    BY DEF One
  <1>6. PICK n \in Int : sar[c].ref = n
    BY <1>3
  <1>7. n >= 1 + t + u + 0
    <2>1. One(SarListed(c) \/ sarUnload = c) = 1 /\ One(recv.ctx = c) = 0
      BY <1>2, <1>4 DEF One
    <2>2. SarHolders(c) = 1 + t + u + 0
      BY <1>5, <2>1 DEF SarHolders
    <2> QED BY <1>2, <1>6, <2>2 DEF RInv, RefsOK
  <1>8. sar[c].ref >= 1 + One(sar[c].timer)
    <2>1. n >= 1 + t
      BY <1>7
    <2> QED BY <1>5, <1>6, <2>1
  <1>9. /\ r \in SarContext /\ RecOK(r) /\ r.state = "DESTROY" /\ r.tid = sar[c].tid /\ r.head = << >>
        /\ r.ref = sar[c].ref - One(sar[c].timer) /\ r.timer = FALSE /\ r.cb = sar[c].cb
    BY <1>3, <1>8, DestroyedFields
  <1> HIDE DEF r
  <1>10. /\ recvList' \in Seq(Ctx) /\ \A i, j \in DOMAIN recvList' : recvList'[i] = recvList'[j] => i = j
         /\ ~SarListed(c)' /\ \A e \in Ctx : e # c => SarListed(e)' = SarListed(e)
    BY <1>1, <1>2, NotInFacts DEF RInv
  <1>11. One(sarUnload' = c) + One(r.timer) + One(r.cb # "none") + One(recv.ctx = c) = 1 + 0 + u + 0
    <2>1. One(sarUnload' = c) = 1 /\ One(r.timer) = 0 /\ One(recv.ctx = c) = 0
      BY <1>1, <1>4, <1>9 DEF One
    <2> QED BY <1>5, <1>9, <2>1
  <1>12. r.ref >= 1 + 0 + u + 0 /\ 1 + 0 + u + 0 \in Int
    <2>1. n - t >= 1 + 0 + u + 0 /\ 1 + 0 + u + 0 \in Int
      BY <1>7
    <2> QED BY <1>5, <1>6, <1>9, <2>1
  <1>13. dgrms' = dgrms + Len(r.head) - Len(sar[c].head)
    <2>1. PICK d \in Int : dgrms = d
      BY DgrmsType
    <2>2. PICK k \in Int : Len(sar[c].head) = k
      BY <1>3, ContextFields
    <2>3. Len(r.head) = 0 /\ d - k = d + 0 - k
      BY <1>9
    <2> QED BY <1>1, <2>1, <2>2, <2>3
  <1>14. /\ r.state \notin Armed /\ r.cb # "remove" /\ sarUnload' \in {"no", "yes"} \cup Ctx
         /\ sarUnload' # "no" /\ sarUnload # "no"
         /\ (\A e \in Ctx : e # c => (sarUnload' = e) = (sarUnload = e))
         /\ (sarUnload' = c => r.state = "DESTROY")
    BY <1>1, <1>2, <1>3, <1>4, <1>9, RmppAssumption DEF Armed
  <1>15. /\ (sarUnload' = "no" => sarUnload = "no") /\ (sarUnload' = "no" => r.ref = 1 + 0 + u + 0)
         /\ (sarUnload' = "no" /\ r.state = "DESTROY" => r.cb \notin {"fired", "lock"})
         /\ (sarUnload # "no" \/ sarUnload' = "no") /\ (r.tid = sar[c].tid \/ recv.ctx # c)
    BY <1>9, <1>14
  <1> QED BY <1>1, <1>2, <1>9, <1>10, <1>11, <1>12, <1>13, <1>14, <1>15, RemovalStep

-----------------------------------------------------------------------------
(* The theorems *)

(* What arrives is a MAD.                                                  *)
LEMMA IncomingType == ASSUME RInv PROVE Incoming \subseteq RmppMad
  BY NoiseAssumption DEF RInv, RTypes, Incoming

LEMMA NewTransactionKeeps == ASSUME RInv, NEW m \in RmppMad, NewTransaction(m) PROVE RInv'
  <1>1. sarUnload = "no" /\ recv.pc \in {"idle", "notfound"}
    BY DEF NewTransaction
  <1>2. CASE RmppReceiverCreateContext(m)
    BY <1>1, <1>2, CreateKeeps
  <1>3. CASE NotFound(m) /\ dgrms' = IF recv.pc = "idle" THEN dgrms ELSE dgrms - 1
    BY <1>1, <1>3, NotFoundKeeps
  <1> QED BY <1>2, <1>3 DEF NewTransaction

LEMMA RmppStart == RmppInit => RInv
  <1> SUFFICES ASSUME RmppInit PROVE RInv
    OBVIOUS
  <1>1. /\ sar = [c \in Ctx |-> FreeContext] /\ recvList = << >> /\ rmppNet = {} /\ sarUnload = "no"
        /\ recv = [pc |-> "idle", ctx |-> NoCtx, mad |-> NoCtx] /\ dgrms = 0 /\ given = {}
    BY DEF RmppInit, SarIdle
  <1>2. RTypes
    BY <1>1, FreeFacts DEF RTypes, RecvRec
  <1>3. \A c \in Ctx : RecOK(sar[c])
    BY <1>1, FreeFacts
  <1>4. \A c \in Ctx : ~SarListed(c)
    BY <1>1 DEF SarListed
  <1>5. ListOK
    <2>1. DOMAIN recvList = {}
      BY <1>1
    <2>2. \A c \in Ctx : sar[c].state = "FREE" /\ sar[c].cb = "none" /\ sarUnload # c
      BY <1>1, FreeFacts, RmppAssumption
    <2>3. \A c \in Ctx : SarListed(c) = FALSE
      BY <1>4 DEF SarListed
    <2> QED BY <2>1, <2>2, <2>3 DEF ListOK, Armed
  <1>6. RecvOK /\ GivenOK
    BY <1>1 DEF RecvOK, GivenOK
  <1>7. RefsOK
    <2> SUFFICES ASSUME NEW c \in Ctx PROVE sar[c].ref >= SarHolders(c) /\ sar[c].ref = SarHolders(c)
      BY DEF RefsOK
    <2>1. sar[c].ref = 0 /\ sar[c].timer = FALSE /\ sar[c].cb = "none"
      BY <1>1, FreeFacts
    <2>2. SarHolders(c) = 0
      BY <1>1, <1>4, <2>1, RmppAssumption DEF SarHolders, One
    <2> QED BY <2>1, <2>2
  <1>8. IsFiniteSet(Heads) /\ DgrmsBalanced
    <2>1. Heads = {}
      BY <1>1, FreeFacts DEF Heads
    <2>2. One(recv.pc \in {"lock", "notfound"}) = 0
      BY <1>1 DEF One
    <2> QED BY <1>1, <2>1, <2>2, FS_EmptySet DEF DgrmsBalanced
  <1> QED BY <1>2, <1>3, <1>5, <1>6, <1>7, <1>8 DEF RInv

LEMMA RmppKeeps == RInv /\ LInv /\ [RmppNext]_rmppVars => RInv'
  <1> SUFFICES ASSUME RInv, LInv, [RmppNext]_rmppVars PROVE RInv'
    OBVIOUS
  <1>1. ASSUME NEW t \in Tid, SendSegment(t) PROVE RInv'
    BY <1>1, SendKeeps
  <1>2. ASSUME NEW m \in Incoming, FindSarContext(m) PROVE RInv'
    BY <1>2, IncomingType, FindKeeps
  <1>3. ASSUME NEW m \in Incoming, NewTransaction(m) PROVE RInv'
    BY <1>3, IncomingType, NewTransactionKeeps
  <1>4. CASE ReceiveThread
    <2>1. CASE ReceiverHasLock
      BY <2>1, LockKeeps
    <2>2. CASE FoundDestroyed \/ ReceiverDone
      BY <2>2, PutKeeps
    <2>3. CASE recv.pc = "notfound" /\ NewTransaction(recv.mad)
      <3>1. recv.mad \in RmppMad
        BY <2>3 DEF RInv, RecvOK
      <3> QED BY <2>3, <3>1, NewTransactionKeeps
    <2> QED BY <1>4, <2>1, <2>2, <2>3 DEF ReceiveThread
  <1>5. ASSUME NEW c \in Ctx, SarTimerFires(c) PROVE RInv'
    BY <1>5, FiresKeeps
  <1>6. ASSUME NEW c \in Ctx, TimerThread(c) PROVE RInv'
    BY <1>6, TimerLooks, TimeoutKeeps, RemoveKeeps, CallbackDoneKeeps DEF TimerThread
  <1>7. ASSUME NEW c \in Ctx, SarReaped(c) PROVE RInv'
    BY <1>7, LockGoes, ReapKeeps DEF SarReaped
  <1>8. CASE GsaUnload
    BY <1>8, UnloadKeeps
  <1>9. CASE DestroySARContexts
    BY <1>9, DestroyKeeps
  <1>10. CASE UNCHANGED rmppVars
    <2>1. /\ sar' = sar /\ recvList' = recvList /\ given' = given /\ recv' = recv /\ rmppNet' = rmppNet
          /\ dgrms' = dgrms /\ sarUnload' = sarUnload
      BY <1>10 DEF rmppVars
    <2>2. recv' \in RecvRec /\ RecvOK' /\ rmppNet' \subseteq RmppMad /\ sarUnload' \in {"no", "yes"} \cup Ctx
      BY <2>1 DEF RInv, RecvOK, RTypes
    <2>3. dgrms' - Busy(recv') = dgrms - Busy(recv) /\ dgrms' \in Int
      BY <2>1, DgrmsType
    <2> QED BY <2>1, <2>2, <2>3, QuietStep
  <1> QED BY <1>1, <1>2, <1>3, <1>4, <1>5, <1>6, <1>7, <1>8, <1>9, <1>10 DEF RmppNext

(* A context the reaper has stays with it when another one is changed that *)
(* somebody holds, or that was free.                                       *)
LEMMA ReapedStay ==
    ASSUME RInv, NEW c \in Ctx, \A d \in Ctx : d # c => sar'[d] = sar[d],
           SarListed(c) \/ sarUnload = c \/ sar[c].timer \/ sar[c].cb # "none" \/ recv.ctx = c
             \/ sar[c].state = "FREE"
    PROVE  \A d \in Ctx : sar[d].reap => sar'[d].reap
  <1>1. CASE sar[c].state = "FREE"
    <2>1. ~sar[c].reap
      BY <1>1, HoldersSum DEF RecOK, FreeContext
    <2> QED BY <2>1
  <1>2. CASE sar[c].state # "FREE"
    <2>1. ~sar[c].reap
      BY <1>2, HeldIsLive
    <2> QED BY <2>1
  <1> QED BY <1>1, <1>2

LEMMA LocksStart == RmppInit => LInv
  BY DEF RmppInit, LInv

LEMMA LocksKeep == RInv /\ LInv /\ [RmppNext]_rmppVars => LInv'
  <1> SUFFICES ASSUME RInv, LInv, [RmppNext]_rmppVars PROVE LInv'
    OBVIOUS
  <1>0. sar \in [Ctx -> SarContext] /\ sarUnload \in {"no", "yes"} \cup Ctx /\ noLock \subseteq Ctx
    BY DEF RInv, RTypes, LInv
  <1>1. ASSUME noLock' = noLock, \A d \in Ctx : sarUnload = d => sarUnload' = d,
               NEW c \in Ctx, \A d \in Ctx : d # c => sar'[d] = sar[d],
               SarListed(c) \/ sarUnload = c \/ sar[c].timer \/ sar[c].cb # "none" \/ recv.ctx = c
                 \/ sar[c].state = "FREE"
        PROVE  LInv'
    <2>1. \A d \in Ctx : sar[d].reap => sar'[d].reap
      BY <1>1, ReapedStay
    <2> QED BY <1>0, <1>1, <2>1 DEF LInv
  <1>2. ASSUME noLock' = noLock, sar' = sar, \A d \in Ctx : sarUnload = d => sarUnload' = d PROVE LInv'
    BY <1>2 DEF LInv
  <1>3. ASSUME NEW t \in Tid, SendSegment(t) PROVE LInv'
    BY <1>2, <1>3 DEF SendSegment
  <1>4. ASSUME NEW m \in Incoming, FindSarContext(m) PROVE LInv'
    <2>1. PICK i \in DOMAIN recvList : sar' = [sar EXCEPT ![recvList[i]].ref = @ + 1]
      BY <1>4 DEF FindSarContext
    <2>2. recvList[i] \in Ctx /\ SarListed(recvList[i]) /\ noLock' = noLock /\ sarUnload' = sarUnload
      BY <1>4 DEF FindSarContext, SarListed, RInv, RTypes
    <2>3. \A d \in Ctx : d # recvList[i] => sar'[d] = sar[d]
      BY <1>0, <2>1
    <2> QED BY <1>1, <2>2, <2>3
  <1>5. ASSUME NEW m \in RmppMad, NewTransaction(m) PROVE LInv'
    <2>1. CASE NotFound(m)
      BY <1>2, <2>1 DEF NotFound
    <2>2. CASE RmppReceiverCreateContext(m)
      <3>1. PICK c \in Ctx : sar[c].state = "FREE" /\ \E r : sar' = [sar EXCEPT ![c] = r]
        BY <2>2 DEF RmppReceiverCreateContext
      <3>2. noLock' = noLock /\ sarUnload' = sarUnload /\ \A d \in Ctx : d # c => sar'[d] = sar[d]
        BY <1>0, <2>2, <3>1 DEF RmppReceiverCreateContext
      <3> QED BY <1>1, <3>1, <3>2
    <2> QED BY <1>5, <2>1, <2>2 DEF NewTransaction
  <1>6. CASE ReceiverHasLock \/ FoundDestroyed \/ ReceiverDone
    <2>1. recv.pc \in {"lock", "put"} /\ noLock' = noLock /\ sarUnload' = sarUnload
      BY <1>6 DEF ReceiverHasLock, FoundDestroyed, ReceiverDone
    <2>2. recv.ctx \in Ctx
      BY <2>1 DEF RInv, RTypes, RecvRec, RecvOK
    <2>3. \A d \in Ctx : d # recv.ctx => sar'[d] = sar[d]
      BY <1>0, <1>6 DEF ReceiverHasLock, FoundDestroyed, ReceiverDone, Apply
    <2> QED BY <1>1, <2>1, <2>2, <2>3
  <1>7. CASE recv.pc = "notfound" /\ NewTransaction(recv.mad)
    <2>1. recv.mad \in RmppMad
      BY <1>7 DEF RInv, RecvOK
    <2> QED BY <1>5, <1>7, <2>1
  <1>8. ASSUME NEW c \in Ctx, SarTimerFires(c) \/ TimerThread(c) PROVE LInv'
    <2>1. /\ noLock' = noLock /\ sarUnload' = sarUnload /\ (sar[c].timer \/ sar[c].cb # "none")
          /\ \A d \in Ctx : d # c => sar'[d] = sar[d]
      BY <1>0, <1>8 DEF SarTimerFires, TimerThread, RmppTimerCallback, RmppReceiverTimerCallback,
                        RemoveSARRecvListEntry, SarCallbackDone
    <2> QED BY <1>1, <2>1
  <1>9. ASSUME NEW c \in Ctx, RmppReceiverReapContext(c) PROVE LInv'
    <2>1. sar' = [sar EXCEPT ![c].head = << >>] /\ (sar[c].reap \/ sarUnload = c)
      BY <1>9 DEF RmppReceiverReapContext
    <2>2. sar' = sar
      BY <1>0, <2>1, LockedOut DEF SarContext
    <2> QED BY <1>0, <1>9, <2>1, <2>2 DEF RmppReceiverReapContext, LInv
  <1>10. ASSUME NEW c \in Ctx, SarTimerDestroy(c) PROVE LInv'
    <2>1. /\ noLock' = noLock \ {c} /\ \A d \in Ctx : d # c => sar'[d] = sar[d]
          /\ \A d \in Ctx : d # c => (sarUnload = d => sarUnload' = d)
      BY <1>0, <1>10 DEF SarTimerDestroy
    <2> QED BY <1>0, <2>1 DEF LInv
  <1>11. CASE GsaUnload
    <2>1. noLock' = noLock /\ sar' = sar /\ sarUnload = "no"
      BY <1>11 DEF GsaUnload
    <2> QED BY <1>2, <2>1, RmppAssumption
  <1>12. CASE DestroySARContexts
    <2>1. PICK c \in Ctx : c = Head(recvList) /\ SarListed(c)
      <3>1. recvList \in Seq(Ctx) /\ recvList # << >>
        BY <1>12 DEF RInv, RTypes, DestroySARContexts
      <3>2. Head(recvList) \in Ctx /\ 1 \in DOMAIN recvList /\ Head(recvList) = recvList[1]
        BY <3>1
      <3> QED BY <3>2 DEF SarListed
    <2>2. /\ noLock' = noLock /\ sarUnload = "yes" /\ \A d \in Ctx : d # c => sar'[d] = sar[d]
      BY <1>0, <1>12, <2>1 DEF DestroySARContexts
    <2>3. \A d \in Ctx : sarUnload # d
      BY <2>2, RmppAssumption
    <2> QED BY <1>1, <2>1, <2>2, <2>3
  <1>13. CASE UNCHANGED rmppVars
    BY <1>2, <1>13 DEF rmppVars
  <1> QED BY <1>3, <1>4, <1>5, <1>6, <1>7, <1>8, <1>9, <1>10, <1>11, <1>12, <1>13, IncomingType
          DEF RmppNext, ReceiveThread, SarReaped

(* What the invariant says of the contexts.                                *)
LEMMA HeldFollows == RInv /\ LInv => ContextHeld
  <1> SUFFICES ASSUME RInv, LInv PROVE ContextHeld
    OBVIOUS
  <1>1. RmppTypeOK
    BY DgrmsType DEF RInv, LInv, RTypes, RecvRec, RmppTypeOK
  <1>2. RefsCounted
    <2> SUFFICES ASSUME sarUnload = "no", NEW c \in Ctx
                 PROVE  sar[c].ref = One(SarListed(c)) + One(sar[c].timer) + One(sar[c].cb # "none") + One(recv.ctx = c)
      BY DEF RefsCounted
    <2>1. (SarListed(c) \/ sarUnload = c) = SarListed(c)
      BY RmppAssumption DEF SarListed
    <2> QED BY <2>1 DEF RInv, RefsOK, SarHolders
  <1>3. NoSarUseAfterFree
    BY HeldIsLive DEF NoSarUseAfterFree
  <1>4. LocksGoLast
    BY LockedOut DEF LInv, LocksGoLast
  <1> QED BY <1>1, <1>2, <1>3, <1>4 DEF ContextHeld

(* A context lives exactly as long as somebody holds it and every holder   *)
(* is counted: for any number of contexts and transactions, whatever is    *)
(* received, whenever timers expire and whenever the agent is unloaded.    *)
(* Its lock is destroyed when nobody can come to it any more but a         *)
(* callback the unload has overtaken, and the context outlives that one.   *)
THEOREM ContextsHeld == RmppSpec => []ContextHeld
  BY RmppStart, RmppKeeps, LocksStart, LocksKeep, HeldFollows, PTL DEF RmppSpec

-----------------------------------------------------------------------------
(* What is acknowledged and what is handed up *)

GenuineNoise == \A m \in Noise : m.type = "DATA" => m.seg # 1

(* A step that acknowledges nothing.                                       *)
LEMMA NoAckStep ==
    ASSUME AInv, given' = given,
           \A m \in rmppNet' : m \in rmppNet \/ (Genuine(m) /\ m.type # "ACK"),
           \A c \in Ctx : sar'[c].state \in {"ACTIVE", "TIMEWAIT_RECV"} =>
               sar'[c].state = sar[c].state /\ sar'[c].tid = sar[c].tid /\ sar'[c].total = sar[c].total,
           recv'.pc \in {"lock", "notfound"} => Genuine(recv'.mad)
    PROVE  AInv'
  <1>1. \A m \in rmppNet' : Genuine(m)
    BY DEF AInv
  <1>2. recv'.pc \in {"lock", "notfound"} => Genuine(recv.mad)'
    BY DEF Genuine
  <1>3. ASSUME NEW c \in Ctx PROVE Worth(sar[c], given)'
    <2>1. Worth(sar[c], given)
      BY DEF AInv
    <2> QED BY <2>1 DEF Worth, KnownTotal
  <1>4. AckedIsGiven'
    BY DEF AInv, AckedIsGiven
  <1>5. \A m \in rmppNet' : Genuine(m)'
    BY <1>1 DEF Genuine
  <1> QED BY <1>2, <1>3, <1>4, <1>5 DEF AInv

(* A step that processes a MAD, of a context that was there or is new.     *)
LEMMA AckStep ==
    ASSUME RInv, AInv, NEW c \in Ctx, NEW q, NEW m, NEW o, Processed(q, m, o), Acks(q, m, o),
           m.tid = q.tid, q.tid \in Tid, Genuine(m), KnownTotal(q), q.state = "TIMEWAIT_RECV" => Told(given, q.tid),
           sar' = [sar EXCEPT ![c] = o.r], rmppNet' = rmppNet \cup o.sent,
           given' = given \cup {[tid |-> m.tid, mads |-> g.mads, len |-> g.len] : g \in o.msg},
           recv'.pc = "put"
    PROVE  AInv'
  <1>1. o.r.tid = q.tid /\ KnownTotal(o.r) /\ o.sent \subseteq RmppMad
    BY DEF Processed, Acks
  <1>2. \A t : Told(given, t) => Told(given', t)
    BY DEF Told
  <1>3. ASSUME o.msg # {} PROVE Told(given', q.tid)
    <2>1. PICK g \in o.msg : TRUE
      BY <1>3
    <2> DEFINE e == [tid |-> m.tid, mads |-> g.mads, len |-> g.len]
    <2>2. e \in given' /\ e.tid = q.tid
      OBVIOUS
    <2> QED BY <2>2 DEF Told
  <1>4. \A a \in rmppNet' : Genuine(a)
    BY DEF AInv, Acks, Genuine
  <1>5. sar'[c] = o.r /\ \A d \in Ctx : d # c => sar'[d] = sar[d]
    BY DEF RInv, RTypes
  <1>6. ASSUME NEW d \in Ctx PROVE Worth(sar[d], given)'
    <2>1. CASE d = c
      <3>1. sar'[d] = o.r
        BY <1>5, <2>1
      <3>2. o.r.state = "TIMEWAIT_RECV" => Told(given', o.r.tid)
        BY <1>1, <1>2, <1>3 DEF Acks
      <3>3. Worth(o.r, given')
        BY <1>1, <3>2 DEF Worth
      <3> QED BY <3>1, <3>3 DEF Worth, KnownTotal, Told
    <2>2. CASE d # c
      <3>1. Worth(sar[d], given) /\ sar'[d] = sar[d]
        BY <1>5, <2>2 DEF AInv
      <3>2. Worth(sar[d], given')
        BY <1>2, <3>1 DEF Worth
      <3> QED BY <3>1, <3>2 DEF Worth, KnownTotal, Told
    <2> QED BY <2>1, <2>2
  <1>7. AckedIsGiven'
    <2> SUFFICES ASSUME NEW a \in rmppNet', LenKnown[a.tid], a.type = "ACK", a.seg >= Segments(MsgLen[a.tid])
                 PROVE  Told(given', a.tid)
      BY DEF AckedIsGiven, Told
    <2>1. CASE a \in rmppNet
      BY <1>2, <2>1 DEF AInv, AckedIsGiven, Told
    <2>2. CASE a \in o.sent
      <3>1. a.tid = q.tid /\ a \in RmppMad
        BY <1>1, <2>2 DEF Acks
      <3>2. CASE o.msg # {} \/ q.state = "TIMEWAIT_RECV"
        BY <1>2, <1>3, <3>1, <3>2
      <3>3. CASE o.r.state = "ACTIVE" /\ (o.r.total # 0 => a.seg < o.r.total)
        <4>1. MsgLen[a.tid] \in Nat \ {0}
          BY <3>1, RmppAssumption
        <4>2. Segments(MsgLen[a.tid]) \in Nat \ {0}
          BY <4>1, SegmentFacts
        <4>3. o.r.total = Segments(MsgLen[a.tid])
          BY <1>1, <3>1, <3>3 DEF KnownTotal
        <4>4. a.seg \in Nat
          BY <3>1 DEF RmppMad
        <4>5. a.seg < Segments(MsgLen[a.tid])
          BY <3>3, <4>2, <4>3
        <4> QED BY <4>2, <4>4, <4>5
      <3> QED BY <2>2, <3>2, <3>3 DEF Acks
    <2> QED BY <2>1, <2>2
  <1>8. \A a \in rmppNet' : Genuine(a)'
    BY <1>4 DEF Genuine
  <1> QED BY <1>6, <1>7, <1>8 DEF AInv

LEMMA AckStart == RmppInit => AInv
  BY FreeFacts DEF RmppInit, SarIdle, AInv, AckedIsGiven, Worth, KnownTotal

(* No answer but an ACK acknowledges, and none is a segment.               *)
LEMMA Refusals ==
    \A t : \A m \in BuildRmppStop(t) \cup BuildRmppAbort(t) : Genuine(m) /\ m.type # "ACK"
  BY DEF BuildRmppStop, BuildRmppAbort, Reply, Genuine

LEMMA NewTransactionAcks ==
    ASSUME RInv, AInv, NEW m \in RmppMad, Genuine(m), NewTransaction(m)
    PROVE  AInv'
  <1>1. CASE RmppReceiverCreateContext(m)
    <2> DEFINE q == Created(m)
               o == RmppReceiverProcessRecv(q, m)
    <2>1. PICK c \in Ctx :
          /\ sar' = [sar EXCEPT ![c] = o.r] /\ rmppNet' = rmppNet \cup o.sent
          /\ given' = given \cup {[tid |-> m.tid, mads |-> g.mads, len |-> g.len] : g \in o.msg}
          /\ recv' = [pc |-> "put", ctx |-> c, mad |-> NoCtx]
      BY <1>1 DEF RmppReceiverCreateContext
    <2>2. m.type = "DATA" /\ m.seg = 1 /\ m.tid \in Tid
      BY <1>1 DEF RmppReceiverCreateContext, Acceptable, RmppMad
    <2>3. /\ q \in SarContext /\ q.state = "CREATED" /\ q.tid = m.tid /\ q.head = << >> /\ q.ref = 2
          /\ q.timer = FALSE /\ q.cb = "none" /\ q.reap = FALSE
      BY CreatedFields
    <2>4. Receiving(q, m)
      <3>1. q.ref >= 2 + One(q.timer) /\ q = Created(m)
        BY <2>3 DEF One
      <3> HIDE DEF q
      <3> QED BY <2>2, <2>3, <3>1 DEF Receiving
    <2>5. Processed(q, m, o) /\ Acks(q, m, o)
      BY <2>4, RecvProcessed
    <2>6. KnownTotal(q) /\ q.state # "TIMEWAIT_RECV"
      BY <2>3 DEF KnownTotal
    <2> HIDE DEF q, o
    <2>7. recv'.pc = "put"
      BY <2>1
    <2> QED BY <2>1, <2>2, <2>3, <2>5, <2>6, <2>7, AckStep
  <1>2. CASE NotFound(m)
    <2>1. /\ sar' = sar /\ given' = given /\ recv'.pc = "idle"
          /\ \A a \in rmppNet' : a \in rmppNet \/ a \in BuildRmppStop(m.tid) \cup BuildRmppAbort(m.tid)
      BY <1>2 DEF NotFound, SarIdle
    <2>2. \A a \in rmppNet' : a \in rmppNet \/ (Genuine(a) /\ a.type # "ACK")
      BY <2>1, Refusals
    <2> QED BY <2>1, <2>2, NoAckStep
  <1> QED BY <1>1, <1>2 DEF NewTransaction

LEMMA LockAcks == ASSUME RInv, AInv, ReceiverHasLock PROVE AInv'
  <1>1. PICK c \in Ctx : recv.ctx = c /\ recv.pc = "lock" /\ sar[c].state # "DESTROY"
    BY DEF RInv, RecvOK, RTypes, RecvRec, ReceiverHasLock
  <1> DEFINE q == sar[c]
             m == recv.mad
             o == RmppReceiverProcessRecv(q, m)
  <1>2. Receiving(q, m)
    BY <1>1, IsReceiving
  <1>3. Processed(q, m, o) /\ Acks(q, m, o)
    BY <1>2, RecvProcessed
  <1>4. m.tid = q.tid /\ q.tid \in Tid
    BY <1>2 DEF Receiving
  <1>5. Genuine(m) /\ KnownTotal(q) /\ (q.state = "TIMEWAIT_RECV" => Told(given, q.tid))
    BY <1>1 DEF AInv, Worth
  <1>6. /\ sar' = [sar EXCEPT ![c] = o.r] /\ rmppNet' = rmppNet \cup o.sent
        /\ given' = given \cup {[tid |-> m.tid, mads |-> g.mads, len |-> g.len] : g \in o.msg}
        /\ recv'.pc = "put"
    BY <1>1 DEF ReceiverHasLock, Apply
  <1> HIDE DEF q, m, o
  <1> QED BY <1>3, <1>4, <1>5, <1>6, AckStep

(* What arrives is genuine when the noise has no first segments.           *)
LEMMA IncomingGenuine == ASSUME AInv, GenuineNoise, NEW m \in Incoming PROVE Genuine(m)
  BY DEF AInv, GenuineNoise, Incoming, Genuine

LEMMA AcksKeep == ASSUME RInv, AInv, GenuineNoise, [RmppNext]_rmppVars PROVE AInv'
  <1>0. recv.pc \in {"lock", "notfound"} => Genuine(recv.mad)
    BY DEF AInv
  <1>1. ASSUME NEW t \in Tid, SendSegment(t) PROVE AInv'
    <2>1. PICK s \in 1..Segments(MsgLen[t]) : rmppNet' = rmppNet \cup {DataMad(t, s)}
      BY <1>1 DEF SendSegment
    <2>2. Genuine(DataMad(t, s)) /\ DataMad(t, s).type # "ACK"
      BY DEF Genuine, DataMad
    <2>3. sar' = sar /\ given' = given /\ recv' = recv
      BY <1>1 DEF SendSegment
    <2>4. \A m \in rmppNet' : m \in rmppNet \/ (Genuine(m) /\ m.type # "ACK")
      BY <2>1, <2>2
    <2> QED BY <1>0, <2>3, <2>4, NoAckStep
  <1>2. ASSUME NEW m \in Incoming, FindSarContext(m) PROVE AInv'
    <2>1. PICK i \in DOMAIN recvList : /\ sar' = [sar EXCEPT ![recvList[i]].ref = @ + 1]
                                       /\ recv' = [pc |-> "lock", ctx |-> recvList[i], mad |-> m]
      BY <1>2 DEF FindSarContext
    <2>2. rmppNet' = rmppNet /\ given' = given
      BY <1>2 DEF FindSarContext
    <2>3. \A c \in Ctx : sar'[c].state = sar[c].state /\ sar'[c].tid = sar[c].tid /\ sar'[c].total = sar[c].total
      <3> SUFFICES ASSUME NEW c \in Ctx
                   PROVE  sar'[c].state = sar[c].state /\ sar'[c].tid = sar[c].tid /\ sar'[c].total = sar[c].total
        OBVIOUS
      <3>1. sar[c] \in SarContext /\ sar \in [Ctx -> SarContext]
        BY DEF RInv, RTypes
      <3>2. sar'[c] = sar[c] \/ sar'[c] = [sar[c] EXCEPT !.ref = @ + 1]
        BY <2>1, <3>1
      <3> QED BY <3>1, <3>2 DEF SarContext
    <2>4. Genuine(recv'.mad)
      BY <2>1, IncomingGenuine
    <2> QED BY <2>2, <2>3, <2>4, NoAckStep
  <1>3. ASSUME NEW m \in Incoming, NewTransaction(m) PROVE AInv'
    BY <1>3, IncomingType, IncomingGenuine, NewTransactionAcks
  <1>4. CASE ReceiverHasLock
    BY <1>4, LockAcks
  <1>5. CASE FoundDestroyed \/ ReceiverDone
    <2>1. PICK c \in Ctx : recv.ctx = c /\ recv.pc \in {"lock", "put"}
      BY <1>5 DEF RInv, RecvOK, RTypes, RecvRec, FoundDestroyed, ReceiverDone
    <2> DEFINE r == DecrementSarContextUsageCount(sar[c])
    <2>2. sar[c].ref >= 1 /\ sar[c] \in SarContext
      BY <2>1, HeldIsLive, HoldersSum
    <2>3. r.state = sar[c].state /\ r.tid = sar[c].tid /\ r.total = sar[c].total
      BY <2>2, DecrementFields
    <2>4. sar' = [sar EXCEPT ![c] = r] /\ rmppNet' = rmppNet /\ given' = given
      BY <1>5, <2>1 DEF FoundDestroyed, ReceiverDone
    <2> HIDE DEF r
    <2>5. recv'.pc \in {"lock", "notfound"} => Genuine(recv'.mad)
      BY <1>0, <1>5 DEF FoundDestroyed, ReceiverDone, SarIdle
    <2>6. \A d \in Ctx : sar'[d].state = sar[d].state /\ sar'[d].tid = sar[d].tid /\ sar'[d].total = sar[d].total
      BY <2>3, <2>4 DEF RInv, RTypes
    <2> QED BY <2>4, <2>5, <2>6, NoAckStep
  <1>6. CASE recv.pc = "notfound" /\ NewTransaction(recv.mad)
    <2>1. recv.mad \in RmppMad
      BY <1>6 DEF RInv, RecvOK
    <2> QED BY <1>0, <1>6, <2>1, NewTransactionAcks
  <1>7. ASSUME NEW c \in Ctx, SarTimerFires(c) \/ TimerThread(c) \/ SarReaped(c) PROVE AInv'
    <2>1. sar \in [Ctx -> SarContext] /\ sar[c] \in SarContext
      BY DEF RInv, RTypes
    <2>2. PICK r : /\ sar' = [sar EXCEPT ![c] = r]
                   /\ r.state \in {"ACTIVE", "TIMEWAIT_RECV"} =>
                        r.state = sar[c].state /\ r.tid = sar[c].tid /\ r.total = sar[c].total
      <3>1. CASE SarTimerFires(c)
        <4> DEFINE r == [sar[c] EXCEPT !.timer = FALSE, !.cb = "fired", !.stopped = FALSE]
        <4>1. sar' = [sar EXCEPT ![c] = r]
          BY <2>1, <3>1 DEF SarTimerFires
        <4>2. r.state = sar[c].state /\ r.tid = sar[c].tid /\ r.total = sar[c].total
          BY <2>1 DEF SarContext
        <4> QED BY <4>1, <4>2
      <3>2. ASSUME NEW b, sar' = [sar EXCEPT ![c].cb = b]
            PROVE  \E r : /\ sar' = [sar EXCEPT ![c] = r]
                          /\ r.state \in {"ACTIVE", "TIMEWAIT_RECV"} =>
                               r.state = sar[c].state /\ r.tid = sar[c].tid /\ r.total = sar[c].total
        <4> DEFINE r == [sar[c] EXCEPT !.cb = b]
        <4>1. sar' = [sar EXCEPT ![c] = r]
          BY <2>1, <3>2
        <4>2. r.state = sar[c].state /\ r.tid = sar[c].tid /\ r.total = sar[c].total
          BY <2>1 DEF SarContext
        <4> QED BY <4>1, <4>2
      <3>3. CASE RmppTimerCallback(c)
        BY <3>2, <3>3 DEF RmppTimerCallback
      <3>4. CASE RmppReceiverTimerCallback(c)
        <4>1. CASE sar[c].stopped \/ sar[c].state = "DESTROY"
          BY <3>2, <3>4, <4>1 DEF RmppReceiverTimerCallback
        <4>2. CASE ~(sar[c].stopped \/ sar[c].state = "DESTROY")
          <5> DEFINE a == [sar[c] EXCEPT !.cb = "remove"]
                     r == RmppReceiverDestroyContext(a)
          <5>1. sar' = [sar EXCEPT ![c] = r]
            BY <2>1, <3>4, <4>2 DEF RmppReceiverTimerCallback
          <5>2. a \in SarContext
            BY <2>1 DEF SarContext
          <5> HIDE DEF a
          <5>3. r.state = "DESTROY"
            BY <5>2 DEF RmppReceiverDestroyContext, SarContext
          <5> HIDE DEF r
          <5> QED BY <5>1, <5>3
        <4> QED BY <4>1, <4>2
      <3>5. ASSUME NEW b, sar[c].cb # "none",
                   sar' = [sar EXCEPT ![c] = [DecrementSarContextUsageCount(@) EXCEPT !.cb = b]]
            PROVE  \E r : /\ sar' = [sar EXCEPT ![c] = r]
                          /\ r.state \in {"ACTIVE", "TIMEWAIT_RECV"} =>
                               r.state = sar[c].state /\ r.tid = sar[c].tid /\ r.total = sar[c].total
        <4> DEFINE d == DecrementSarContextUsageCount(sar[c])
                   r == [d EXCEPT !.cb = b]
        <4>1. sar' = [sar EXCEPT ![c] = r]
          BY <2>1, <3>5
        <4>2. sar[c].ref >= 1
          BY <3>5, HeldIsLive
        <4>3. d \in SarContext /\ d.state = sar[c].state /\ d.tid = sar[c].tid /\ d.total = sar[c].total
          BY <2>1, <4>2, DecrementFields
        <4> HIDE DEF d
        <4>4. r.state = d.state /\ r.tid = d.tid /\ r.total = d.total
          BY <4>3 DEF SarContext
        <4> HIDE DEF r
        <4> QED BY <4>1, <4>3, <4>4
      <3>6. CASE RemoveSARRecvListEntry(c) \/ SarCallbackDone(c)
        BY <3>5, <3>6 DEF RemoveSARRecvListEntry, SarCallbackDone
      <3>7. CASE RmppReceiverReapContext(c)
        <4> DEFINE r == [sar[c] EXCEPT !.head = << >>]
        <4>1. sar' = [sar EXCEPT ![c] = r]
          BY <2>1, <3>7 DEF RmppReceiverReapContext
        <4>2. r.state = sar[c].state /\ r.tid = sar[c].tid /\ r.total = sar[c].total
          BY <2>1 DEF SarContext
        <4> QED BY <4>1, <4>2
      <3>8. CASE SarTimerDestroy(c)
        BY <3>8, FreeFacts DEF SarTimerDestroy
      <3> QED BY <1>7, <3>1, <3>3, <3>4, <3>6, <3>7, <3>8 DEF TimerThread, SarReaped
    <2>3. given' = given /\ recv' = recv
      BY <1>7 DEF SarTimerFires, TimerThread, RmppTimerCallback, RmppReceiverTimerCallback,
                  RemoveSARRecvListEntry, SarCallbackDone, SarReaped, RmppReceiverReapContext, SarTimerDestroy
    <2>4. \A m \in rmppNet' : m \in rmppNet \/ m \in BuildRmppAbort(sar[c].tid)
      BY <1>7 DEF SarTimerFires, TimerThread, RmppTimerCallback, RmppReceiverTimerCallback,
                  RemoveSARRecvListEntry, SarCallbackDone, SarReaped, RmppReceiverReapContext, SarTimerDestroy
    <2>5. \A m \in rmppNet' : m \in rmppNet \/ (Genuine(m) /\ m.type # "ACK")
      BY <2>4, Refusals
    <2>6. \A d \in Ctx : sar'[d].state \in {"ACTIVE", "TIMEWAIT_RECV"} =>
              sar'[d].state = sar[d].state /\ sar'[d].tid = sar[d].tid /\ sar'[d].total = sar[d].total
      BY <2>1, <2>2
    <2> QED BY <1>0, <2>3, <2>5, <2>6, NoAckStep
  <1>8. CASE GsaUnload \/ UNCHANGED rmppVars
    <2>1. sar' = sar /\ given' = given /\ recv' = recv /\ rmppNet' = rmppNet
      BY <1>8 DEF GsaUnload, rmppVars
    <2> QED BY <1>0, <2>1, NoAckStep
  <1>9. CASE DestroySARContexts
    <2>1. PICK c \in Ctx : c = Head(recvList) /\ SarListed(c)
      <3>1. recvList \in Seq(Ctx) /\ recvList # << >>
        BY <1>9 DEF RInv, RTypes, DestroySARContexts
      <3>2. Head(recvList) \in Ctx /\ 1 \in DOMAIN recvList /\ Head(recvList) = recvList[1]
        BY <3>1
      <3> QED BY <3>2 DEF SarListed
    <2> DEFINE a == RmppReceiverDestroyContext([sar[c] EXCEPT !.ref = @ + 1])
               r == DecrementSarContextUsageCount(IF SarContextTimerArmed(sar[c]) THEN StopSarContextTimer(a) ELSE a)
    <2>2. /\ sar' = [sar EXCEPT ![c] = r] /\ rmppNet' = rmppNet /\ recv' = recv /\ given' = given
          /\ sar[c].state # "DESTROY"
      BY <1>9, <2>1 DEF DestroySARContexts
    <2>3. /\ sar[c] \in SarContext /\ RecOK(sar[c]) /\ sar[c].tid \in Tid /\ sar[c].state \in Armed
      BY <2>1, <2>2, HoldersSum, HeldIsLive DEF RecOK
    <2>4. sar[c].ref >= 1 + One(sar[c].timer)
      <3>1. PICK t \in {0, 1}, u \in {0, 1}, v \in {0, 1} :
                One(sar[c].timer) = t /\ One(sar[c].cb # "none") = u /\ One(recv.ctx = c) = v
        BY DEF One
      <3>2. PICK n \in Int : sar[c].ref = n
        BY HoldersSum
      <3>3. SarHolders(c) = 1 + t + u + v
        BY <2>1, <3>1 DEF SarHolders, One
      <3>4. n >= 1 + t + u + v
        BY <3>2, <3>3 DEF RInv, RefsOK
      <3>5. n >= 1 + t
        BY <3>4
      <3> QED BY <3>1, <3>2, <3>5
    <2>5. r.state = "DESTROY"
      BY <2>3, <2>4, DestroyedFields
    <2> HIDE DEF r
    <2>6. \A d \in Ctx : sar'[d].state \in {"ACTIVE", "TIMEWAIT_RECV"} =>
              sar'[d].state = sar[d].state /\ sar'[d].tid = sar[d].tid /\ sar'[d].total = sar[d].total
      BY <2>2, <2>5 DEF RInv, RTypes
    <2> QED BY <1>0, <2>2, <2>6, NoAckStep
  <1> QED BY <1>1, <1>2, <1>3, <1>4, <1>5, <1>6, <1>7, <1>8, <1>9 DEF RmppNext, ReceiveThread

(* A message of genuine segments is the whole response.                    *)
LEMMA WholeFollows == ASSUME NEW g, WholeMessage(g), \A i \in DOMAIN g.mads : g.mads[i] = DataMad(g.tid, i)
                      PROVE  g.len = MsgLen[g.tid] /\ Len(g.mads) = Segments(MsgLen[g.tid])
  <1> DEFINE n == Len(g.mads)
             t == g.tid
             k == Segments(MsgLen[t])
  <1>1. n \in Nat \ {0} /\ n \in DOMAIN g.mads /\ t \in Tid
    BY DEF WholeMessage
  <1>2. MsgLen[t] \in Nat /\ DataSize \in Nat /\ k \in Nat
    BY <1>1, RmppAssumption, SegmentFacts
  <1>3. g.mads[n].last = TRUE /\ g.len = (n - 1) * DataSize + g.mads[n].len
    BY <1>1 DEF WholeMessage
  <1>4. g.mads[n] = DataMad(t, n)
    BY <1>1
  <1> HIDE DEF n, t
  <1>5. DataMad(t, n).last = (n = k)
    BY DEF DataMad
  <1>6. n = k
    BY <1>3, <1>4, <1>5
  <1>7. DataMad(t, n).len = MsgLen[t] - (n - 1) * DataSize
    BY <1>6 DEF DataMad
  <1>8. (n - 1) * DataSize \in Int
    BY <1>1, <1>2
  <1>9. g.len = MsgLen[t]
    BY <1>2, <1>3, <1>4, <1>7, <1>8
  <1> QED BY <1>6, <1>9 DEF n, t

LEMMA TransferFollows == RInv /\ AInv => TransferWhole
  <1> SUFFICES ASSUME RInv, AInv PROVE TransferWhole
    OBVIOUS
  <1>1. MessageWhole
    <2> SUFFICES ASSUME NEW g \in given
                 PROVE  /\ \A i \in DOMAIN g.mads : g.mads[i].seg = i /\ g.mads[i].last = (i = Len(g.mads))
                        /\ (\A i \in DOMAIN g.mads : g.mads[i] = DataMad(g.tid, i)) =>
                             g.len = MsgLen[g.tid] /\ Len(g.mads) = Segments(MsgLen[g.tid])
      BY DEF MessageWhole
    <2>1. WholeMessage(g)
      BY DEF RInv, GivenOK
    <2> QED BY <2>1, WholeFollows DEF WholeMessage
  <1>2. WindowHolds
    <2> SUFFICES ASSUME NEW c \in Ctx, sar[c].state = "ACTIVE"
                 PROVE  /\ 1 <= sar[c].exp /\ sar[c].exp <= sar[c].wl
                        /\ sar[c].total # 0 => sar[c].wl <= sar[c].total
      BY DEF WindowHolds
    <2>1. RecOK(sar[c]) /\ sar[c] \in SarContext
      BY DEF RInv, RTypes
    <2>2. Collecting(sar[c].head) /\ sar[c].exp = Len(sar[c].head) + 1 /\ Window(sar[c])
      BY <2>1 DEF RecOK
    <2>3. Len(sar[c].head) \in Nat
      BY <2>1, ContextFields
    <2> QED BY <2>2, <2>3 DEF Window
  <1> QED BY <1>1, <1>2 DEF RInv, AInv, TransferWhole

(* Messages are handed up whole, what was acknowledged was handed up, no   *)
(* datagram is lost or put back twice and the window holds, for any        *)
(* contexts, lengths and windows, with segments lost, late and repeated,   *)
(* and whatever else arrives, as long as no foreign first segment          *)
(* claims a transaction of the sender.                                     *)
THEOREM TransfersWhole ==
    ASSUME \A m \in Noise : m.type = "DATA" => m.seg # 1
    PROVE  RmppSpec => []TransferWhole
  <1>1. GenuineNoise
    BY DEF GenuineNoise
  <1>2. RInv /\ AInv /\ [RmppNext]_rmppVars => AInv'
    BY <1>1, AcksKeep
  <1> QED BY <1>2, RmppStart, RmppKeeps, LocksStart, LocksKeep, AckStart, TransferFollows, PTL DEF RmppSpec
=============================================================================
