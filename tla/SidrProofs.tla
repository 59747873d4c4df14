----------------------------- MODULE SidrProofs ------------------------------
(***************************************************************************)
(* SidrKept for any queriers, back log and retries, when the user of the   *)
(* service answers in its callback and a user that queries waits to be     *)
(* told.  A query that is out has no event and its request in its          *)
(* datagram; an answer on its way was made for the request it answers,     *)
(* because what the service's user was shown is the first that waits.      *)
(***************************************************************************)
EXTENDS Sidr, TLAPS

ReqKey == [lid : Querier \cup Foreign, id : Nat]
ReqMad == {[type |-> "SIDR_REQ", req |-> k] : k \in ReqKey}
RespMad == {[type |-> "SIDR_RESP", req |-> k, about |-> k] : k \in ReqKey}
CepFlag == {"DESTROY", "CANCEL", "RESP", "TIMEOUT", "REQ"}
QueryCep ==
    [state : {"FREE", "IDLE", "SIDR_REQ_SENT"}, cb : BOOLEAN, id : Nat, asked : Nat, timer : BOOLEAN,
     due : {"no", "due", "stale"}, retry : Nat, flags : SUBSET CepFlag, refs : Int,
     item : {"none", "queued", "running"}, dgrm : ReqMad \cup RespMad \cup {NoDgrm, Junk}, busy : BOOLEAN]
ServiceCep ==
    [state : {"FREE", "IDLE", "REGISTERED"}, cb : BOOLEAN, notify : BOOLEAN, pending : Seq(ReqKey),
     flags : SUBSET CepFlag, refs : Int, item : {"none", "queued", "running"}, seen : BOOLEAN,
     shown : Seq(ReqKey)]

(* The CEP of querier q.                                                   *)
QueryOK(q, r) ==
    /\ r \in QueryCep
    /\ Doomed(r) => r.state = "IDLE"
    /\ r.timer => r.state = "SIDR_REQ_SENT"
    /\ ~ Doomed(r) /\ r.asked = 0 => r.flags = {} /\ r.state # "SIDR_REQ_SENT"
    /\ r.state = "SIDR_REQ_SENT" => r.flags = {} /\ r.id = r.asked /\ r.dgrm = FormatSIDR_REQ(q, r.id)
    /\ ~ Doomed(r) /\ r.state = "IDLE" /\ "RESP" \in r.flags =>
         r.dgrm = SendSIDR_RESP([lid |-> q, id |-> r.asked], [lid |-> q, id |-> r.asked])

(* The CEP of the service.                                                 *)
ServiceOK(r) ==
    /\ r \in ServiceCep
    /\ Doomed(r) => r.state = "IDLE"
    /\ r.state = "IDLE" => r.pending = << >> /\ (~ Doomed(r) => ~ r.notify)
    /\ r.state = "REGISTERED" /\ (r.notify \/ r.pending # << >>) => r.cb
    /\ (r.item = "none") = (r.refs = 0) /\ r.refs >= 0
    /\ r.shown # << >> => r.item = "running" /\ Tail(r.shown) = << >>
    /\ r.state = "REGISTERED" /\ r.shown # << >> => r.pending # << >> /\ Head(r.shown) = Head(r.pending)
    /\ r.state = "REGISTERED" /\ r.pending # << >> =>
         r.seen \/ ("REQ" \in r.flags /\ r.item = "queued")
                \/ ("REQ" \in r.flags /\ r.item = "running" /\ r.refs > 1)

SidrInv ==
    /\ qry \in [Querier -> QueryCep] /\ reqID \in [Querier -> Nat] /\ sidrNet \subseteq ReqMad \cup RespMad
    /\ \A q \in Querier : QueryOK(q, qry[q])
    /\ ServiceOK(reg)

-----------------------------------------------------------------------------
(* The CEP of a querier *)

(* One querier's CEP becomes r.                                            *)
LEMMA QueryStep ==
    ASSUME SidrInv, NEW q \in Querier, NEW r, Ask(q, r), QueryOK(q, r), UNCHANGED reg,
           reqID' \in [Querier -> Nat], sidrNet' \subseteq ReqMad \cup RespMad
    PROVE  SidrInv'
  <1>1. r \in QueryCep
    BY DEF QueryOK
  <1>2. qry' \in [Querier -> QueryCep] /\ qry'[q] = r /\ \A p \in Querier \ {q} : qry'[p] = qry[p]
    BY <1>1 DEF Ask, SidrInv
  <1>3. \A p \in Querier : QueryOK(p, qry'[p])
    BY <1>2 DEF SidrInv
  <1> QED BY <1>2, <1>3 DEF SidrInv

(* A new CEP, and one that was freed.                                      *)
LEMMA NewQueryFields ==
    /\ NewQuery \in QueryCep /\ NewQuery.state = "IDLE" /\ NewQuery.asked = 0 /\ NewQuery.timer = FALSE
    /\ NewQuery.flags = {}
  BY DEF NewQuery, QueryCep
LEMMA NewQueryOK == ASSUME NEW q PROVE QueryOK(q, NewQuery)
  BY NewQueryFields DEF QueryOK, Doomed
LEMMA FreedQueryOK ==
    ASSUME NEW q, NEW a \in {0} PROVE QueryOK(q, [Freed(NewQuery) EXCEPT !.asked = a])
  <1>1. ASSUME NEW n \in QueryCep, n.asked = 0, n.timer = FALSE, n.flags = {}, NEW f, f = [n EXCEPT !.state = "FREE"],
               NEW g, g = [f EXCEPT !.asked = a]
        PROVE  g \in QueryCep /\ g.state = "FREE" /\ g.asked = 0 /\ g.timer = FALSE /\ g.flags = {}
    <2>1. f \in QueryCep
      BY <1>1 DEF QueryCep
    <2>2. f.state = "FREE" /\ f.timer = FALSE /\ f.flags = {}
      BY <1>1 DEF QueryCep
    <2>3. g \in QueryCep
      BY <1>1, <2>1 DEF QueryCep
    <2>4. g.state = f.state /\ g.timer = f.timer /\ g.flags = f.flags /\ g.asked = 0
      BY <1>1, <2>1 DEF QueryCep
    <2> QED BY <2>2, <2>3, <2>4
  <1> DEFINE g == [Freed(NewQuery) EXCEPT !.asked = a]
  <1>2. g \in QueryCep /\ g.state = "FREE" /\ g.asked = 0 /\ g.timer = FALSE /\ g.flags = {}
    BY <1>1, NewQueryFields DEF Freed
  <1> HIDE DEF g
  <1>3. QueryOK(q, g)
    BY <1>2 DEF QueryOK, Doomed
  <1> QED BY <1>3 DEF g

LEMMA FreedNewOK == ASSUME NEW q PROVE QueryOK(q, Freed(NewQuery))
  <1>1. ASSUME NEW n \in QueryCep, n.asked = 0, n.timer = FALSE, n.flags = {}, NEW f, f = [n EXCEPT !.state = "FREE"]
        PROVE  f \in QueryCep /\ f.state = "FREE" /\ f.asked = 0 /\ f.timer = FALSE /\ f.flags = {}
    <2>1. f \in QueryCep
      BY <1>1 DEF QueryCep
    <2> QED BY <1>1, <2>1 DEF QueryCep
  <1> DEFINE f == Freed(NewQuery)
  <1>2. f \in QueryCep /\ f.state = "FREE" /\ f.asked = 0 /\ f.timer = FALSE /\ f.flags = {}
    BY <1>1, NewQueryFields DEF Freed
  <1> HIDE DEF f
  <1>3. QueryOK(q, f)
    BY <1>2 DEF QueryOK, Doomed
  <1> QED BY <1>3 DEF f

(* The CEP goes to idle.                                                   *)
LEMMA ToIdleFields ==
    ASSUME NEW r \in QueryCep
    PROVE  LET t == QueryToIdle(r) IN
           /\ t \in QueryCep /\ t.state = "IDLE" /\ t.timer = FALSE /\ t.asked = r.asked /\ t.flags = r.flags
           /\ t.dgrm = r.dgrm /\ t.refs = r.refs /\ t.cb = r.cb
  <1> DEFINE d == IF r.due = "due" THEN "stale" ELSE r.due
             t == [r EXCEPT !.state = "IDLE", !.id = 0, !.timer = FALSE, !.due = d]
  <1>1. d \in {"no", "due", "stale"}
    BY DEF QueryCep
  <1>2. QueryToIdle(r) = t
    BY DEF QueryToIdle, QueryCep
  <1> HIDE DEF d
  <1>3. t \in QueryCep
    BY <1>1 DEF QueryCep
  <1>4. /\ t.state = "IDLE" /\ t.timer = FALSE /\ t.asked = r.asked /\ t.flags = r.flags
        /\ t.dgrm = r.dgrm /\ t.refs = r.refs /\ t.cb = r.cb
    BY DEF QueryCep
  <1> QED BY <1>2, <1>3, <1>4

(* The user is to be told of e.                                            *)
LEMMA NotifiedFields ==
    ASSUME NEW r \in QueryCep, NEW e \in CepFlag, ~ Doomed(r)
    PROVE  LET t == Notified(r, e) IN
           /\ t \in QueryCep /\ t.state = r.state /\ t.timer = r.timer /\ t.asked = r.asked
           /\ t.dgrm = r.dgrm /\ t.flags = r.flags \cup {e}
  <1> DEFINE F == r.flags \cup {e}
             n == r.refs + 1
             i == IF r.refs = 0 THEN "queued" ELSE r.item
  <1>1. F \in SUBSET CepFlag /\ n \in Int /\ i \in {"none", "queued", "running"}
    BY DEF QueryCep
  <1>2. Notified(r, e) = IF ~ r.cb THEN [r EXCEPT !.flags = F] ELSE [r EXCEPT !.flags = F, !.refs = n, !.item = i]
    BY DEF Notified, QueryCep
  <1> HIDE DEF F, n, i
  <1>3. [r EXCEPT !.flags = F] \in QueryCep /\ [r EXCEPT !.flags = F, !.refs = n, !.item = i] \in QueryCep
    BY <1>1 DEF QueryCep
  <1>4. ASSUME NEW t, t = [r EXCEPT !.flags = F] \/ t = [r EXCEPT !.flags = F, !.refs = n, !.item = i]
        PROVE  t.state = r.state /\ t.timer = r.timer /\ t.asked = r.asked /\ t.dgrm = r.dgrm /\ t.flags = F
    BY <1>4 DEF QueryCep
  <1> QED BY <1>2, <1>3, <1>4 DEF F

(* A query that is out ends with e.                                        *)
LEMMA EndedOK ==
    ASSUME NEW q, NEW r \in QueryCep, r.state = "SIDR_REQ_SENT", r.flags = {}, r.asked # 0, NEW e \in CepFlag,
           e # "DESTROY",
           e = "RESP" => r.dgrm = SendSIDR_RESP([lid |-> q, id |-> r.asked], [lid |-> q, id |-> r.asked])
    PROVE  QueryOK(q, Notified(QueryToIdle(r), e))
  <1> DEFINE t == QueryToIdle(r)
  <1>1. /\ t \in QueryCep /\ t.state = "IDLE" /\ t.timer = FALSE /\ t.asked = r.asked /\ t.flags = r.flags
        /\ t.dgrm = r.dgrm
    BY ToIdleFields
  <1> HIDE DEF t
  <1> DEFINE u == Notified(t, e)
  <1>2. ~ Doomed(t)
    BY <1>1 DEF Doomed
  <1>3. /\ u \in QueryCep /\ u.state = t.state /\ u.timer = t.timer /\ u.asked = t.asked
        /\ u.dgrm = t.dgrm /\ u.flags = t.flags \cup {e}
    BY <1>1, <1>2, NotifiedFields
  <1> HIDE DEF u
  <1>4. QueryOK(q, u)
    BY <1>1, <1>3 DEF QueryOK, Doomed
  <1> QED BY <1>4 DEF t, u

(* What is known of a query that is out.                                   *)
LEMMA OutFields ==
    ASSUME NEW q, NEW r, QueryOK(q, r), r.state = "SIDR_REQ_SENT"
    PROVE  /\ r \in QueryCep /\ r.flags = {} /\ r.id = r.asked /\ r.asked # 0 /\ ~ Doomed(r)
           /\ r.dgrm = FormatSIDR_REQ(q, r.id)
  BY DEF QueryOK, Doomed

(* The CEP gets a datagram of its own.                                     *)
LEMMA OwnFields ==
    ASSUME NEW r \in QueryCep
    PROVE  LET t == OwnDgrm(r) IN
           /\ t \in QueryCep /\ t.state = r.state /\ t.timer = r.timer /\ t.asked = r.asked /\ t.flags = r.flags
           /\ t.id = r.id
  <1> DEFINE d == IF r.busy \/ r.dgrm = NoDgrm THEN Junk ELSE r.dgrm
             t == [r EXCEPT !.busy = FALSE, !.dgrm = d]
  <1>1. d \in ReqMad \cup RespMad \cup {NoDgrm, Junk}
    BY DEF QueryCep
  <1>2. OwnDgrm(r) = t
    BY DEF OwnDgrm, QueryCep
  <1> HIDE DEF d
  <1>3. t \in QueryCep
    BY <1>1 DEF QueryCep
  <1>4. t.state = r.state /\ t.timer = r.timer /\ t.asked = r.asked /\ t.flags = r.flags /\ t.id = r.id
    BY DEF QueryCep
  <1> QED BY <1>2, <1>3, <1>4

(* What SidrInv says of q's CEP.                                           *)
LEMMA QueryFacts ==
    ASSUME SidrInv, NEW q \in Querier
    PROVE  /\ QueryOK(q, qry[q]) /\ qry[q] \in QueryCep /\ reqID \in [Querier -> Nat]
           /\ sidrNet \subseteq ReqMad \cup RespMad
  BY DEF SidrInv

LEMMA SidrQueryInv ==
    ASSUME SidrInv, ~ AsksAgain, NEW q \in Querier, iba_cm_sidr_query(q) \/ QueryNoDgrm(q)
    PROVE  SidrInv'
  <1>0. /\ QueryOK(q, qry[q]) /\ qry[q] \in QueryCep /\ reqID \in [Querier -> Nat]
        /\ sidrNet \subseteq ReqMad \cup RespMad
    BY QueryFacts
  <1> DEFINE r == OwnDgrm(qry[q])
  <1>1. /\ r \in QueryCep /\ r.state = qry[q].state /\ r.timer = qry[q].timer /\ r.asked = qry[q].asked
        /\ r.flags = qry[q].flags /\ r.id = qry[q].id
    BY <1>0, OwnFields
  <1>2. CASE iba_cm_sidr_query(q)
    <2> DEFINE i == NewRequestID(q)
    <2>1. r.state # "FREE" /\ ~ Doomed(r) /\ qry[q].asked = 0 /\ reg' = reg
      BY <1>2 DEF iba_cm_sidr_query, MayAsk
    <2>2. /\ r.state # "IDLE" => Ask(q, r) /\ UNCHANGED <<reqID, sidrNet>>
          /\ r.state = "IDLE" => /\ reqID' = [reqID EXCEPT ![q] = i]
                                 /\ Ask(q, [r EXCEPT !.state = "SIDR_REQ_SENT", !.id = i, !.asked = i,
                                              !.timer = TRUE, !.retry = 0,
                                              !.dgrm = FormatSIDR_REQ(q, i), !.busy = q \in SlowQuerier])
                                 /\ SendMads({FormatSIDR_REQ(q, i)})
      BY <1>2 DEF iba_cm_sidr_query
    <2>3. i \in Nat /\ i # 0
      BY <1>0 DEF NewRequestID
    <2> HIDE DEF r, i
    <2>4. r.flags = {} /\ r.state # "SIDR_REQ_SENT"
      BY <1>0, <1>1, <2>1 DEF QueryOK, Doomed
    <2>5. r.state = "IDLE"
      BY <1>1, <2>1, <2>4 DEF QueryCep
    <2> DEFINE b == q \in SlowQuerier
               m == FormatSIDR_REQ(q, i)
               t == [r EXCEPT !.state = "SIDR_REQ_SENT", !.id = i, !.asked = i,
                              !.timer = TRUE, !.retry = 0, !.dgrm = m, !.busy = b]
    <2>6. m \in ReqMad /\ b \in BOOLEAN
      BY <2>3 DEF ReqMad, ReqKey, FormatSIDR_REQ
    <2>7. Ask(q, t) /\ reqID' = [reqID EXCEPT ![q] = i] /\ sidrNet' = sidrNet \cup {m}
      BY <2>2, <2>5 DEF SendMads
    <2> HIDE DEF b, m
    <2>8. t \in QueryCep
      BY <1>1, <2>3, <2>6 DEF QueryCep
    <2>9. t.state = "SIDR_REQ_SENT" /\ t.id = i /\ t.asked = i /\ t.dgrm = m /\ t.flags = r.flags
      BY <1>1 DEF QueryCep
    <2> HIDE DEF t
    <2>10. QueryOK(q, t)
      BY <2>3, <2>4, <2>8, <2>9 DEF QueryOK, Doomed, m
    <2>11. reqID' \in [Querier -> Nat] /\ sidrNet' \subseteq ReqMad \cup RespMad
      BY <1>0, <2>3, <2>6, <2>7
    <2> QED BY <2>1, <2>7, <2>10, <2>11, QueryStep
  <1>3. CASE QueryNoDgrm(q)
    <2> DEFINE t == [qry[q] EXCEPT !.dgrm = NoDgrm, !.busy = FALSE]
    <2>1. ~ Doomed(qry[q]) /\ qry[q].asked = 0 /\ Ask(q, t) /\ UNCHANGED <<reg, reqID, sidrNet>>
      BY <1>3 DEF QueryNoDgrm, MayAsk
    <2>2. t \in QueryCep
      BY <1>0 DEF QueryCep
    <2>3. t.state = qry[q].state /\ t.timer = qry[q].timer /\ t.asked = qry[q].asked /\ t.flags = qry[q].flags
      BY <1>0 DEF QueryCep
    <2> HIDE DEF t
    <2>4. QueryOK(q, t)
      BY <1>0, <2>1, <2>2, <2>3 DEF QueryOK, Doomed
    <2> QED BY <1>0, <2>1, <2>4, QueryStep
  <1> QED BY <1>2, <1>3

LEMMA CancelQueryInv ==
    ASSUME SidrInv, NEW q \in Querier, CancelQuery(q) PROVE SidrInv'
  <1>1. /\ qry[q].state = "SIDR_REQ_SENT" /\ Ask(q, Notified(QueryToIdle(qry[q]), "CANCEL"))
        /\ UNCHANGED <<reg, reqID, sidrNet>>
    BY DEF CancelQuery
  <1>2. qry[q] \in QueryCep /\ qry[q].flags = {} /\ qry[q].asked # 0
    BY <1>1, QueryFacts, OutFields
  <1>3. QueryOK(q, Notified(QueryToIdle(qry[q]), "CANCEL"))
    BY <1>1, <1>2, EndedOK DEF CepFlag
  <1> QED BY <1>1, <1>3, QueryFacts, QueryStep

LEMMA DestroyQueryInv ==
    ASSUME SidrInv, NEW q \in Querier, DestroyQuery(q) PROVE SidrInv'
  <1>0. /\ QueryOK(q, qry[q]) /\ qry[q] \in QueryCep /\ reqID \in [Querier -> Nat]
        /\ sidrNet \subseteq ReqMad \cup RespMad
    BY QueryFacts
  <1> DEFINE x == IF qry[q].state = "IDLE" THEN qry[q] ELSE Notified(QueryToIdle(qry[q]), "CANCEL")
  <1>1. /\ qry[q].state # "FREE" /\ ~ Doomed(qry[q]) /\ Ask(q, [LetGo(x, NewQuery) EXCEPT !.asked = 0])
        /\ UNCHANGED <<reg, reqID, sidrNet>>
    BY DEF DestroyQuery
  <1>2. x \in QueryCep /\ x.state = "IDLE" /\ x.timer = FALSE
    <2>1. CASE qry[q].state = "IDLE"
      BY <1>0, <2>1 DEF QueryOK, QueryCep
    <2>2. CASE qry[q].state = "SIDR_REQ_SENT"
      <3> DEFINE t == QueryToIdle(qry[q])
      <3>1. t \in QueryCep /\ t.state = "IDLE" /\ t.timer = FALSE /\ t.flags = qry[q].flags
        BY <1>0, ToIdleFields
      <3> HIDE DEF t
      <3>2. ~ Doomed(t) /\ "CANCEL" \in CepFlag
        BY <1>1, <3>1 DEF Doomed, CepFlag
      <3>3. Notified(t, "CANCEL") \in QueryCep /\ Notified(t, "CANCEL").state = "IDLE" /\ Notified(t, "CANCEL").timer = FALSE
        BY <3>1, <3>2, NotifiedFields
      <3> QED BY <2>2, <3>3 DEF t
    <2> QED BY <1>0, <1>1, <2>1, <2>2 DEF QueryCep
  <1> HIDE DEF x
  <1>3. QueryOK(q, [LetGo(x, NewQuery) EXCEPT !.asked = 0])
    <2>1. CASE x.refs > 0
      <3> DEFINE F == x.flags \cup {"DESTROY"}
                 t == [x EXCEPT !.flags = F]
                 u == [t EXCEPT !.asked = 0]
      <3>1. LetGo(x, NewQuery) = t
        BY <1>2, <2>1 DEF LetGo, QueryCep
      <3>2. F \in SUBSET CepFlag /\ "DESTROY" \in F
        BY <1>2 DEF QueryCep, CepFlag
      <3> HIDE DEF F
      <3>3. t \in QueryCep
        BY <1>2, <3>2 DEF QueryCep
      <3>4. t.state = "IDLE" /\ t.timer = FALSE /\ t.flags = F
        BY <1>2 DEF QueryCep
      <3> HIDE DEF t
      <3>5. u \in QueryCep
        BY <3>3 DEF QueryCep
      <3>6. u.state = t.state /\ u.timer = t.timer /\ u.flags = t.flags
        BY <3>3 DEF QueryCep
      <3> HIDE DEF u
      <3>7. QueryOK(q, u)
        BY <3>2, <3>4, <3>5, <3>6 DEF QueryOK, Doomed
      <3> QED BY <3>1, <3>7 DEF u
    <2>2. CASE ~(x.refs > 0)
      <3>1. LetGo(x, NewQuery) = Freed(NewQuery)
        BY <2>2 DEF LetGo
      <3> QED BY <3>1, FreedQueryOK
    <2> QED BY <2>1, <2>2
  <1> QED BY <1>0, <1>1, <1>3, QueryStep

LEMMA SidrRespInv ==
    ASSUME SidrInv, NEW m \in sidrNet, ProcessSidrResp(m) PROVE SidrInv'
  <1>1. m.type = "SIDR_RESP" /\ UNCHANGED <<reg, reqID, sidrNet>>
    BY DEF ProcessSidrResp
  <1>2. PICK q \in Querier : /\ q = m.req.lid /\ qry[q].state = "SIDR_REQ_SENT" /\ qry[q].id = m.req.id
                             /\ Ask(q, Notified(QueryToIdle([OwnDgrm(qry[q]) EXCEPT !.retry = 0, !.dgrm = m]), "RESP"))
    BY DEF ProcessSidrResp
  <1>3. /\ QueryOK(q, qry[q]) /\ qry[q] \in QueryCep /\ reqID \in [Querier -> Nat]
        /\ sidrNet \subseteq ReqMad \cup RespMad
    BY QueryFacts
  <1>4. qry[q].flags = {} /\ qry[q].asked # 0 /\ qry[q].id = qry[q].asked
    BY <1>2, <1>3, OutFields
  <1>5. PICK k \in ReqKey : m = [type |-> "SIDR_RESP", req |-> k, about |-> k]
    BY <1>1, <1>3 DEF ReqMad, RespMad
  <1>6. k = [lid |-> q, id |-> qry[q].asked]
    BY <1>2, <1>4, <1>5 DEF ReqKey
  <1>7. m = SendSIDR_RESP([lid |-> q, id |-> qry[q].asked], [lid |-> q, id |-> qry[q].asked])
    BY <1>5, <1>6 DEF SendSIDR_RESP
  <1>8. m \in RespMad
    BY <1>5 DEF RespMad
  <1> DEFINE r == OwnDgrm(qry[q])
             t == [r EXCEPT !.retry = 0, !.dgrm = m]
  <1>9. r \in QueryCep /\ r.state = "SIDR_REQ_SENT" /\ r.asked = qry[q].asked /\ r.flags = {}
    BY <1>2, <1>3, <1>4, OwnFields
  <1> HIDE DEF r
  <1>10. t \in QueryCep
    BY <1>8, <1>9 DEF QueryCep
  <1>11. t.state = r.state /\ t.asked = r.asked /\ t.flags = r.flags /\ t.dgrm = m
    BY <1>9 DEF QueryCep
  <1>12. Ask(q, Notified(QueryToIdle(t), "RESP"))
    BY <1>2 DEF r
  <1> HIDE DEF t
  <1>13. t.dgrm = SendSIDR_RESP([lid |-> q, id |-> t.asked], [lid |-> q, id |-> t.asked])
    BY <1>7, <1>9, <1>11
  <1>14. QueryOK(q, Notified(QueryToIdle(t), "RESP"))
    BY <1>4, <1>9, <1>10, <1>11, <1>13, EndedOK DEF CepFlag
  <1> QED BY <1>1, <1>3, <1>12, <1>14, QueryStep

LEMMA QueryTimerInv ==
    ASSUME SidrInv, NEW q \in Querier, QueryTimerFires(q) \/ QueryTimerCallback(q) PROVE SidrInv'
  <1>0. /\ QueryOK(q, qry[q]) /\ qry[q] \in QueryCep /\ reqID \in [Querier -> Nat]
        /\ sidrNet \subseteq ReqMad \cup RespMad
    BY QueryFacts
  <1>1. ASSUME NEW d \in {"no", "due", "stale"}, NEW t, t = [qry[q] EXCEPT !.due = d]
        PROVE  /\ QueryOK(q, t) /\ t.timer = qry[q].timer /\ t.state = qry[q].state /\ t.retry = qry[q].retry
               /\ t.dgrm = qry[q].dgrm
    <2>1. t \in QueryCep
      BY <1>0, <1>1 DEF QueryCep
    <2>2. /\ t.state = qry[q].state /\ t.timer = qry[q].timer /\ t.asked = qry[q].asked /\ t.flags = qry[q].flags
          /\ t.id = qry[q].id /\ t.dgrm = qry[q].dgrm /\ t.retry = qry[q].retry
      BY <1>0, <1>1 DEF QueryCep
    <2>3. QueryOK(q, t)
      BY <1>0, <2>1, <2>2 DEF QueryOK, Doomed
    <2> QED BY <2>2, <2>3
  <1>2. CASE QueryTimerFires(q)
    <2>1. Ask(q, [qry[q] EXCEPT !.due = "due"]) /\ UNCHANGED <<reg, reqID, sidrNet>>
      BY <1>2 DEF QueryTimerFires
    <2>2. QueryOK(q, [qry[q] EXCEPT !.due = "due"])
      BY <1>1
    <2> QED BY <1>0, <2>1, <2>2, QueryStep
  <1>3. CASE QueryTimerCallback(q)
    <2> DEFINE r == [qry[q] EXCEPT !.due = "no"]
               b == q \in SlowQuerier
    <2>1. /\ Ask(q, IF r.timer THEN QueryRetry([r EXCEPT !.timer = FALSE], b) ELSE r)
          /\ SendMads(IF r.timer /\ r.retry < MaxSidrRetry /\ ~ r.busy /\ r.dgrm.type = "SIDR_REQ"
                      THEN {r.dgrm} ELSE {})
          /\ UNCHANGED <<reg, reqID>>
      BY <1>3 DEF QueryTimerCallback
    <2>2. /\ QueryOK(q, r) /\ r.timer = qry[q].timer /\ r.state = qry[q].state
          /\ r.dgrm = qry[q].dgrm
      BY <1>1
    <2> HIDE DEF r
    <2>3. sidrNet' \subseteq ReqMad \cup RespMad
      <3>1. r.timer => r.dgrm \in ReqMad
        <4>1. r.timer => r.state = "SIDR_REQ_SENT"
          BY <2>2 DEF QueryOK
        <4>2. r.state = "SIDR_REQ_SENT" => r.dgrm = FormatSIDR_REQ(q, r.id) /\ r.id \in Nat
          BY <2>2 DEF QueryOK, QueryCep
        <4> QED BY <4>1, <4>2 DEF ReqMad, ReqKey, FormatSIDR_REQ
      <3> QED BY <1>0, <2>1, <3>1 DEF SendMads
    <2>4. CASE ~ r.timer
      BY <1>0, <2>1, <2>2, <2>3, <2>4, QueryStep
    <2>5. CASE r.timer
      <3>1. r.state = "SIDR_REQ_SENT"
        BY <2>2, <2>5 DEF QueryOK
      <3>2. /\ r \in QueryCep /\ r.flags = {} /\ r.id = r.asked /\ r.asked # 0 /\ r.dgrm = FormatSIDR_REQ(q, r.id)
        BY <2>2, <3>1, OutFields
      <3> DEFINE s == [r EXCEPT !.timer = FALSE]
      <3>3. s \in QueryCep
        BY <3>2 DEF QueryCep
      <3>4. s.state = r.state /\ s.flags = r.flags /\ s.id = r.id /\ s.asked = r.asked /\ s.dgrm = r.dgrm
        BY <3>2 DEF QueryCep
      <3>5. Ask(q, QueryRetry(s, b))
        BY <2>1, <2>5
      <3> HIDE DEF s, b
      <3>6. QueryOK(q, QueryRetry(s, b))
        <4>1. CASE s.retry < MaxSidrRetry
          <5> DEFINE n == s.retry + 1
                     c == s.busy \/ b
                     t == [s EXCEPT !.retry = n, !.timer = TRUE, !.busy = c]
          <5>1. QueryRetry(s, b) = t
            BY <3>3, <4>1 DEF QueryRetry, QueryCep
          <5>2. n \in Nat /\ c \in BOOLEAN
            BY <3>3 DEF QueryCep, b
          <5> HIDE DEF n, c
          <5>3. t \in QueryCep
            BY <3>3, <5>2 DEF QueryCep
          <5>4. t.state = s.state /\ t.flags = s.flags /\ t.id = s.id /\ t.asked = s.asked /\ t.dgrm = s.dgrm
            BY <3>3 DEF QueryCep
          <5> HIDE DEF t
          <5>5. QueryOK(q, t)
            BY <3>1, <3>2, <3>4, <5>3, <5>4 DEF QueryOK, Doomed
          <5> QED BY <5>1, <5>5
        <4>2. CASE ~(s.retry < MaxSidrRetry)
          <5> DEFINE t == QueryToIdle(s)
                     u == [t EXCEPT !.retry = 0]
          <5>1. QueryRetry(s, b) = Notified(u, "TIMEOUT")
            BY <4>2 DEF QueryRetry
          <5>2. t \in QueryCep /\ t.state = "IDLE" /\ t.timer = FALSE /\ t.asked = s.asked /\ t.flags = s.flags
            BY <3>3, ToIdleFields
          <5> HIDE DEF t
          <5>3. u \in QueryCep
            BY <5>2 DEF QueryCep
          <5>4. u.state = t.state /\ u.timer = t.timer /\ u.asked = t.asked /\ u.flags = t.flags
            BY <5>2 DEF QueryCep
          <5> HIDE DEF u
          <5>5. ~ Doomed(u) /\ "TIMEOUT" \in CepFlag
            BY <3>2, <3>4, <5>2, <5>4 DEF Doomed, CepFlag
          <5> DEFINE v == Notified(u, "TIMEOUT")
          <5>6. /\ v \in QueryCep /\ v.state = u.state /\ v.timer = u.timer /\ v.asked = u.asked
                /\ v.flags = u.flags \cup {"TIMEOUT"}
            BY <5>3, <5>5, NotifiedFields
          <5> HIDE DEF v
          <5>7. QueryOK(q, v)
            BY <3>2, <3>4, <5>2, <5>4, <5>6 DEF QueryOK, Doomed
          <5> QED BY <5>1, <5>7 DEF v
        <4> QED BY <4>1, <4>2
      <3> QED BY <1>0, <2>1, <2>3, <3>5, <3>6, QueryStep
    <2> QED BY <2>4, <2>5
  <1> QED BY <1>2, <1>3

LEMMA QueryCallbackInv ==
    ASSUME SidrInv, NEW q \in Querier, QuerySendCompletes(q) \/ QueryCallback(q) \/ QueryCallbackDone(q)
    PROVE  SidrInv'
  <1>0. /\ QueryOK(q, qry[q]) /\ qry[q] \in QueryCep /\ reqID \in [Querier -> Nat]
        /\ sidrNet \subseteq ReqMad \cup RespMad
    BY QueryFacts
  <1>1. PICK r \in QueryCep : r = qry[q]
    BY <1>0
  <1>2. CASE QuerySendCompletes(q)
    <2> DEFINE t == [r EXCEPT !.busy = FALSE]
    <2>1. Ask(q, t) /\ UNCHANGED <<reg, reqID, sidrNet>>
      BY <1>1, <1>2 DEF QuerySendCompletes
    <2>2. t \in QueryCep
      BY DEF QueryCep
    <2>3. /\ t.state = r.state /\ t.timer = r.timer /\ t.asked = r.asked /\ t.flags = r.flags
          /\ t.id = r.id /\ t.dgrm = r.dgrm
      BY DEF QueryCep
    <2> HIDE DEF t
    <2>4. QueryOK(q, t)
      BY <1>0, <1>1, <2>2, <2>3 DEF QueryOK, Doomed
    <2> QED BY <1>0, <2>1, <2>4, QueryStep
  <1>3. CASE QueryCallback(q) /\ Doomed(r)
    <2> DEFINE t == [r EXCEPT !.item = "running"]
    <2>1. Ask(q, t) /\ UNCHANGED <<reg, reqID, sidrNet>>
      BY <1>1, <1>3 DEF QueryCallback
    <2>2. t \in QueryCep
      BY DEF QueryCep
    <2>3. /\ t.state = r.state /\ t.timer = r.timer /\ t.asked = r.asked /\ t.flags = r.flags
          /\ t.id = r.id /\ t.dgrm = r.dgrm
      BY DEF QueryCep
    <2> HIDE DEF t
    <2>4. QueryOK(q, t)
      BY <1>0, <1>1, <2>2, <2>3 DEF QueryOK, Doomed
    <2> QED BY <1>0, <2>1, <2>4, QueryStep
  <1>4. CASE QueryCallback(q) /\ ~ Doomed(r)
    <2> DEFINE a == IF r.state = "IDLE" /\ r.flags # {} THEN 0 ELSE r.asked
               t == [r EXCEPT !.item = "running", !.flags = {}, !.asked = a]
    <2>1. Ask(q, t) /\ UNCHANGED <<reg, reqID, sidrNet>>
      BY <1>1, <1>4 DEF QueryCallback, QueryCep
    <2>2. a \in Nat /\ (r.state # "IDLE" => a = r.asked) /\ (r.asked = 0 => a = 0)
      BY DEF QueryCep
    <2> HIDE DEF a
    <2>3. t \in QueryCep
      BY <2>2 DEF QueryCep
    <2>4. /\ t.state = r.state /\ t.timer = r.timer /\ t.asked = a /\ t.flags = {} /\ t.id = r.id /\ t.dgrm = r.dgrm
      BY DEF QueryCep
    <2> HIDE DEF t
    <2>5. r.state = "SIDR_REQ_SENT" => a # 0
      BY <1>0, <1>1, <2>2, OutFields
    <2>6. QueryOK(q, t)
      BY <1>0, <1>1, <2>2, <2>3, <2>4, <2>5 DEF QueryOK, Doomed
    <2> QED BY <1>0, <2>1, <2>6, QueryStep
  <1>5. CASE QueryCallbackDone(q)
    <2>1. Ask(q, CallbackDone(r, NewQuery)) /\ UNCHANGED <<reg, reqID, sidrNet>>
      BY <1>1, <1>5 DEF QueryCallbackDone
    <2>2. CASE Doomed(r)
      <3>1. CallbackDone(r, NewQuery) = Freed(NewQuery)
        BY <2>2 DEF CallbackDone
      <3> QED BY <1>0, <2>1, <3>1, FreedNewOK, QueryStep
    <2>3. CASE ~ Doomed(r)
      <3> DEFINE n == r.refs - 1
                 i == IF r.refs > 1 THEN "queued" ELSE "none"
                 t == [r EXCEPT !.refs = n, !.item = i]
      <3>1. CallbackDone(r, NewQuery) = t
        BY <2>3 DEF CallbackDone, QueryCep
      <3>2. n \in Int /\ i \in {"none", "queued", "running"}
        BY DEF QueryCep
      <3> HIDE DEF n, i
      <3>3. t \in QueryCep
        BY <3>2 DEF QueryCep
      <3>4. /\ t.state = r.state /\ t.timer = r.timer /\ t.asked = r.asked /\ t.flags = r.flags
            /\ t.id = r.id /\ t.dgrm = r.dgrm
        BY DEF QueryCep
      <3> HIDE DEF t
      <3>5. QueryOK(q, t)
        BY <1>0, <1>1, <3>3, <3>4 DEF QueryOK, Doomed
      <3> QED BY <1>0, <2>1, <3>1, <3>5, QueryStep
    <2> QED BY <2>2, <2>3
  <1> QED BY <1>2, <1>3, <1>4, <1>5

-----------------------------------------------------------------------------
(* The CEP of the service *)

LEMMA ServiceStep ==
    ASSUME SidrInv, NEW r, reg' = r, ServiceOK(r), UNCHANGED <<qry, reqID>>, sidrNet' \subseteq ReqMad \cup RespMad
    PROVE  SidrInv'
  BY DEF SidrInv

(* A request that waits is shown, or will be.                              *)
Shows(r) == r.seen \/ ("REQ" \in r.flags /\ r.item = "queued")
                   \/ ("REQ" \in r.flags /\ r.item = "running" /\ r.refs > 1)

LEMMA ServiceFacts ==
    ASSUME SidrInv
    PROVE  /\ ServiceOK(reg) /\ reg \in ServiceCep /\ sidrNet \subseteq ReqMad \cup RespMad
           /\ reg.refs \in Int /\ reg.pending \in Seq(ReqKey) /\ reg.shown \in Seq(ReqKey)
           /\ reg.cb \in BOOLEAN /\ reg.notify \in BOOLEAN /\ reg.seen \in BOOLEAN /\ reg.flags \subseteq CepFlag
           /\ reg.item \in {"none", "queued", "running"} /\ reg.state \in {"FREE", "IDLE", "REGISTERED"}
  BY DEF SidrInv, ServiceOK, ServiceCep

LEMMA FreedServiceOK == ServiceOK(Freed(NewService)) /\ ServiceOK(NewService)
  <1>1. /\ NewService \in ServiceCep /\ NewService.state = "IDLE" /\ NewService.flags = {} /\ NewService.refs = 0
        /\ NewService.item = "none" /\ NewService.shown = << >> /\ NewService.pending = << >>
        /\ NewService.notify = FALSE
    BY DEF NewService, ServiceCep
  <1>2. ASSUME NEW n \in ServiceCep, NEW f, f = [n EXCEPT !.state = "FREE"]
        PROVE  /\ f \in ServiceCep /\ f.state = "FREE" /\ f.flags = n.flags /\ f.refs = n.refs /\ f.item = n.item
               /\ f.shown = n.shown
    <2>1. f \in ServiceCep
      BY <1>2 DEF ServiceCep
    <2> QED BY <1>2, <2>1 DEF ServiceCep
  <1> DEFINE f == Freed(NewService)
  <1>3. f \in ServiceCep /\ f.state = "FREE" /\ f.flags = {} /\ f.refs = 0 /\ f.item = "none" /\ f.shown = << >>
    BY <1>1, <1>2 DEF Freed
  <1> HIDE DEF f
  <1>4. ServiceOK(f)
    BY <1>3 DEF ServiceOK, Doomed
  <1>5. ServiceOK(NewService)
    BY <1>1 DEF ServiceOK, Doomed
  <1> QED BY <1>4, <1>5 DEF f

(* The user of the service is to be told of e.                             *)
LEMMA NotifiedService ==
    ASSUME NEW r \in ServiceCep, NEW e \in CepFlag, ~ Doomed(r)
    PROVE  LET t == Notified(r, e) IN
           /\ t \in ServiceCep /\ t.state = r.state /\ t.cb = r.cb /\ t.notify = r.notify /\ t.pending = r.pending
           /\ t.seen = r.seen /\ t.shown = r.shown /\ t.flags = r.flags \cup {e}
           /\ r.cb => t.refs = r.refs + 1 /\ t.item = IF r.refs = 0 THEN "queued" ELSE r.item
           /\ ~ r.cb => t.refs = r.refs /\ t.item = r.item
  <1> DEFINE F == r.flags \cup {e}
             n == r.refs + 1
             i == IF r.refs = 0 THEN "queued" ELSE r.item
             t1 == [r EXCEPT !.flags = F]
             t2 == [r EXCEPT !.flags = F, !.refs = n, !.item = i]
  <1>1. F \in SUBSET CepFlag /\ n \in Int /\ i \in {"none", "queued", "running"}
    BY DEF ServiceCep
  <1>2. Notified(r, e) = IF ~ r.cb THEN t1 ELSE t2
    BY DEF Notified, ServiceCep
  <1>3. F = r.flags \cup {e} /\ n = r.refs + 1 /\ i = IF r.refs = 0 THEN "queued" ELSE r.item
    OBVIOUS
  <1> HIDE DEF F, n, i
  <1>4. t1 \in ServiceCep /\ t2 \in ServiceCep
    BY <1>1 DEF ServiceCep
  <1>5. /\ t1.state = r.state /\ t1.cb = r.cb /\ t1.notify = r.notify /\ t1.pending = r.pending
        /\ t1.seen = r.seen /\ t1.shown = r.shown /\ t1.flags = F /\ t1.refs = r.refs /\ t1.item = r.item
    BY DEF ServiceCep
  <1>6. /\ t2.state = r.state /\ t2.cb = r.cb /\ t2.notify = r.notify /\ t2.pending = r.pending
        /\ t2.seen = r.seen /\ t2.shown = r.shown /\ t2.flags = F /\ t2.refs = n /\ t2.item = i
    BY DEF ServiceCep
  <1> HIDE DEF t1, t2
  <1>7. CASE r.cb
    BY <1>2, <1>3, <1>4, <1>6, <1>7
  <1>8. CASE ~ r.cb
    BY <1>2, <1>3, <1>4, <1>5, <1>8
  <1> QED BY <1>7, <1>8

(* After it is told of a request, what waits will be shown.                *)
LEMMA ToldOK ==
    ASSUME NEW r \in ServiceCep, ~ Doomed(r), r.state = "REGISTERED", r.cb, r.pending # << >>,
           (r.item = "none") = (r.refs = 0), r.refs >= 0,
           r.shown # << >> => r.item = "running" /\ Tail(r.shown) = << >>,
           r.shown # << >> => Head(r.shown) = Head(r.pending)
    PROVE  ServiceOK(Notified(r, "REQ"))
  <1> DEFINE t == Notified(r, "REQ")
  <1>1. /\ t \in ServiceCep /\ t.state = r.state /\ t.cb = r.cb /\ t.notify = r.notify /\ t.pending = r.pending
        /\ t.seen = r.seen /\ t.shown = r.shown /\ t.flags = r.flags \cup {"REQ"}
        /\ t.refs = r.refs + 1 /\ t.item = IF r.refs = 0 THEN "queued" ELSE r.item
    BY NotifiedService DEF CepFlag
  <1> HIDE DEF t
  <1>2. r.refs \in Int /\ r.item \in {"none", "queued", "running"}
    BY DEF ServiceCep
  <1>3. (t.item = "none") = (t.refs = 0) /\ t.refs >= 0 /\ "REQ" \in t.flags /\ ~ Doomed(t)
    BY <1>1, <1>2 DEF Doomed
  <1>4. t.shown # << >> => t.item = "running" /\ Tail(t.shown) = << >>
    BY <1>1
  <1>5. t.item = "queued" \/ (t.item = "running" /\ t.refs > 1)
    BY <1>1, <1>2
  <1>6. ServiceOK(t)
    BY <1>1, <1>3, <1>4, <1>5 DEF ServiceOK
  <1> QED BY <1>6 DEF t

LEMMA NoRequests == \E e \in Seq(ReqKey) : e = << >>
  <1>1. << >> \in Seq(ReqKey)
    OBVIOUS
  <1> QED BY <1>1, Zenon

(* The service is no longer registered; its requests are rejected.         *)
LEMMA UnregisteredFields ==
    ASSUME NEW r \in ServiceCep
    PROVE  LET u == Unregistered(r) IN
           /\ u \in ServiceCep /\ u.state = "IDLE" /\ u.pending = << >> /\ u.flags = r.flags /\ u.refs = r.refs
           /\ u.item = r.item /\ u.shown = r.shown /\ u.cb = r.cb
  <1>1. PICK e \in Seq(ReqKey) : e = << >>
    BY NoRequests
  <1>2. PICK f \in BOOLEAN : f = FALSE
    OBVIOUS
  <1>3. PICK i \in {"FREE", "IDLE", "REGISTERED"} : i = "IDLE"
    OBVIOUS
  <1> DEFINE u == [r EXCEPT !.state = i, !.pending = e, !.seen = f]
  <1>4. Unregistered(r) = u
    BY <1>1, <1>2, <1>3 DEF Unregistered
  <1>5. u \in ServiceCep
    BY DEF ServiceCep
  <1>6. /\ u.state = i /\ u.pending = e /\ u.flags = r.flags /\ u.refs = r.refs
        /\ u.item = r.item /\ u.shown = r.shown /\ u.cb = r.cb
    BY DEF ServiceCep
  <1> HIDE DEF u
  <1> QED BY <1>1, <1>3, <1>4, <1>5, <1>6

LEMMA RegisterInv ==
    ASSUME SidrInv, iba_cm_sidr_register \/ iba_cm_sidr_deregister \/ (\E b \in BOOLEAN : ModifyNotify(b))
    PROVE  SidrInv'
  <1>1. PICK r \in ServiceCep : r = reg
    BY ServiceFacts
  <1>2. /\ ServiceOK(r) /\ sidrNet \subseteq ReqMad \cup RespMad /\ r.cb \in BOOLEAN /\ r.notify \in BOOLEAN
    BY <1>1, ServiceFacts
  <1>3. CASE iba_cm_sidr_register
    <2>1. PICK c \in BOOLEAN : reg' = [r EXCEPT !.state = "REGISTERED", !.cb = c, !.notify = r.notify \/ c]
      BY <1>1, <1>3 DEF iba_cm_sidr_register, Served, ServiceCep
    <2>2. r.state = "IDLE" /\ ~ Doomed(r) /\ r.shown = << >> /\ UNCHANGED <<qry, reqID, sidrNet>>
      BY <1>1, <1>3 DEF iba_cm_sidr_register
    <2>3. r.notify = FALSE /\ r.pending = << >>
      BY <1>2, <2>2 DEF ServiceOK
    <2> DEFINE t == [r EXCEPT !.state = "REGISTERED", !.cb = c, !.notify = c]
    <2>4. reg' = t
      BY <2>1, <2>3
    <2>5. t \in ServiceCep
      BY DEF ServiceCep
    <2>6. /\ t.state = "REGISTERED" /\ t.cb = c /\ t.notify = c /\ t.pending = << >> /\ t.flags = r.flags
          /\ t.refs = r.refs /\ t.item = r.item /\ t.shown = << >>
      BY <2>2, <2>3 DEF ServiceCep
    <2> HIDE DEF t
    <2>7. ServiceOK(t)
      BY <1>2, <2>2, <2>5, <2>6 DEF ServiceOK, Doomed
    <2> QED BY <1>2, <2>2, <2>4, <2>7, ServiceStep
  <1>4. CASE iba_cm_sidr_deregister
    <2> DEFINE u == Unregistered(r)
               t == [u EXCEPT !.notify = FALSE]
    <2>1. r.state = "REGISTERED" /\ reg' = t /\ UNCHANGED <<qry, reqID, sidrNet>>
      BY <1>1, <1>4 DEF iba_cm_sidr_deregister, Served
    <2>2. u \in ServiceCep
      BY UnregisteredFields
    <2>3. /\ u.state = "IDLE" /\ u.pending = << >> /\ u.flags = r.flags /\ u.refs = r.refs /\ u.item = r.item
          /\ u.shown = r.shown
      BY UnregisteredFields
    <2> HIDE DEF u
    <2>4. t \in ServiceCep
      BY <2>2 DEF ServiceCep
    <2>5. /\ t.state = u.state /\ t.pending = u.pending /\ t.flags = u.flags /\ t.refs = u.refs /\ t.item = u.item
          /\ t.shown = u.shown /\ t.notify = FALSE
      BY <2>2 DEF ServiceCep
    <2> HIDE DEF t
    <2>6. ServiceOK(t)
      BY <1>2, <2>3, <2>4, <2>5 DEF ServiceOK, Doomed
    <2> QED BY <1>2, <2>1, <2>6, ServiceStep
  <1>5. ASSUME NEW b \in BOOLEAN, ModifyNotify(b) PROVE SidrInv'
    <2> DEFINE t == [r EXCEPT !.notify = b]
    <2>1. r.state = "REGISTERED" /\ r.cb /\ reg' = t /\ UNCHANGED <<qry, reqID, sidrNet>>
      BY <1>1, <1>5 DEF ModifyNotify, Served
    <2>2. t \in ServiceCep
      BY DEF ServiceCep
    <2>3. /\ t.state = r.state /\ t.cb = r.cb /\ t.pending = r.pending /\ t.flags = r.flags
          /\ t.refs = r.refs /\ t.item = r.item /\ t.shown = r.shown /\ t.seen = r.seen
      BY DEF ServiceCep
    <2> HIDE DEF t
    <2>4. ServiceOK(t)
      BY <1>2, <2>1, <2>2, <2>3 DEF ServiceOK, Doomed
    <2> QED BY <1>2, <2>1, <2>4, ServiceStep
  <1> QED BY <1>3, <1>4, <1>5

LEMMA DestroyServiceInv ==
    ASSUME SidrInv, DestroyService PROVE SidrInv'
  <1>1. PICK r \in ServiceCep : r = reg
    BY ServiceFacts
  <1>2. /\ ServiceOK(r) /\ sidrNet \subseteq ReqMad \cup RespMad
    BY <1>1, ServiceFacts
  <1> DEFINE x == IF r.state = "IDLE" THEN r ELSE Notified(Unregistered(r), "CANCEL")
  <1>3. /\ r.state # "FREE" /\ ~ Doomed(r) /\ reg' = LetGo(x, NewService) /\ UNCHANGED <<qry, reqID, sidrNet>>
    BY <1>1 DEF DestroyService, Served
  <1>4. /\ x \in ServiceCep /\ x.state = "IDLE" /\ x.pending = << >>
        /\ (x.item = "none") = (x.refs = 0) /\ x.refs >= 0
        /\ x.shown # << >> => x.item = "running" /\ Tail(x.shown) = << >>
    <2>1. CASE r.state = "IDLE"
      BY <1>2, <2>1 DEF ServiceOK
    <2>2. CASE r.state = "REGISTERED"
      <3> DEFINE u == Unregistered(r)
      <3>1. u \in ServiceCep
        BY UnregisteredFields
      <3>2. /\ u.state = "IDLE" /\ u.pending = << >> /\ u.flags = r.flags /\ u.refs = r.refs /\ u.item = r.item
            /\ u.shown = r.shown /\ u.cb = r.cb
        BY UnregisteredFields
      <3> HIDE DEF u
      <3>3. ~ Doomed(u) /\ "CANCEL" \in CepFlag
        BY <1>3, <3>2 DEF Doomed, CepFlag
      <3> DEFINE t == Notified(u, "CANCEL")
      <3>4. /\ t \in ServiceCep /\ t.state = u.state /\ t.pending = u.pending /\ t.shown = u.shown
            /\ u.cb => t.refs = u.refs + 1 /\ t.item = IF u.refs = 0 THEN "queued" ELSE u.item
            /\ ~ u.cb => t.refs = u.refs /\ t.item = u.item
        BY <3>1, <3>3, NotifiedService
      <3> HIDE DEF t
      <3>5. x = t
        BY <2>2 DEF u, t
      <3>6. r.refs \in Int /\ r.refs >= 0 /\ (r.item = "none") = (r.refs = 0) /\ (r.shown # << >> => r.item = "running" /\ Tail(r.shown) = << >>)
        BY <1>2 DEF ServiceOK, ServiceCep
      <3>7. (t.item = "none") = (t.refs = 0) /\ t.refs >= 0
        BY <3>2, <3>4, <3>6
      <3>8. t.shown # << >> => t.item = "running" /\ Tail(t.shown) = << >>
        BY <3>2, <3>4, <3>6
      <3> QED BY <3>2, <3>4, <3>5, <3>7, <3>8
    <2> QED BY <1>1, <1>3, <2>1, <2>2 DEF ServiceCep
  <1> HIDE DEF x
  <1>5. ServiceOK(LetGo(x, NewService))
    <2>1. CASE x.refs > 0
      <3> DEFINE F == x.flags \cup {"DESTROY"}
                 t == [x EXCEPT !.flags = F]
      <3>1. LetGo(x, NewService) = t
        BY <1>4, <2>1 DEF LetGo, ServiceCep
      <3>2. F \in SUBSET CepFlag /\ "DESTROY" \in F
        BY <1>4 DEF ServiceCep, CepFlag
      <3> HIDE DEF F
      <3>3. t \in ServiceCep
        BY <1>4, <3>2 DEF ServiceCep
      <3>4. /\ t.state = x.state /\ t.pending = x.pending /\ t.flags = F /\ t.refs = x.refs /\ t.item = x.item
            /\ t.shown = x.shown
        BY <1>4 DEF ServiceCep
      <3> HIDE DEF t
      <3>5. ServiceOK(t)
        BY <1>4, <3>2, <3>3, <3>4 DEF ServiceOK, Doomed
      <3> QED BY <3>1, <3>5
    <2>2. CASE ~(x.refs > 0)
      BY <2>2, FreedServiceOK DEF LetGo
    <2> QED BY <2>1, <2>2
  <1> QED BY <1>2, <1>3, <1>5, ServiceStep

(* An answer made for the request it answers.                              *)
LEMMA AnswerMad == ASSUME NEW k \in ReqKey PROVE SendSIDR_RESP(k, k) \in RespMad
  BY DEF SendSIDR_RESP, RespMad

LEMMA ResponseInv ==
    ASSUME SidrInv, iba_cm_sidr_response \/ ResponseRefused PROVE SidrInv'
  <1>1. PICK r \in ServiceCep : r = reg
    BY ServiceFacts
  <1>2. /\ ServiceOK(r) /\ sidrNet \subseteq ReqMad \cup RespMad /\ r.pending \in Seq(ReqKey)
        /\ r.shown \in Seq(ReqKey)
    BY <1>1, ServiceFacts
  <1>3. CASE iba_cm_sidr_response
    <2>1. /\ r.state = "REGISTERED" /\ r.pending # << >> /\ r.shown # << >> /\ reg' = Answered(r)
          /\ SendMads({SendSIDR_RESP(Head(r.pending), Head(r.shown))}) /\ UNCHANGED <<qry, reqID>>
      BY <1>1, <1>3 DEF iba_cm_sidr_response, Served
    <2>2. Head(r.shown) = Head(r.pending) /\ Tail(r.shown) = << >> /\ r.item = "running" /\ r.cb
      BY <1>2, <2>1 DEF ServiceOK
    <2>3. Head(r.pending) \in ReqKey /\ Tail(r.pending) \in Seq(ReqKey) /\ Tail(r.shown) \in Seq(ReqKey)
      BY <1>2, <2>1
    <2>4. sidrNet' \subseteq ReqMad \cup RespMad
      BY <1>2, <2>1, <2>2, <2>3, AnswerMad DEF SendMads
    <2> DEFINE P == Tail(r.pending)
               S == Tail(r.shown)
               t == [r EXCEPT !.pending = P, !.seen = FALSE, !.shown = S]
    <2>5. Answered(r) = IF t.pending # << >> THEN Notified(t, "REQ") ELSE t
      BY DEF Answered, ServiceCep
    <2>6. P \in Seq(ReqKey) /\ S \in Seq(ReqKey) /\ S = << >>
      BY <2>2, <2>3
    <2> HIDE DEF P, S
    <2>7. t \in ServiceCep
      BY <2>6 DEF ServiceCep
    <2>8. /\ t.state = r.state /\ t.cb = r.cb /\ t.notify = r.notify /\ t.pending = P /\ t.flags = r.flags
          /\ t.refs = r.refs /\ t.item = r.item /\ t.shown = << >>
      BY <2>6 DEF ServiceCep
    <2> HIDE DEF t
    <2>9. ~ Doomed(t)
      BY <1>2, <2>1, <2>8 DEF ServiceOK, Doomed
    <2>10. (t.item = "none") = (t.refs = 0) /\ t.refs >= 0
      BY <1>2, <2>8 DEF ServiceOK
    <2>11. CASE t.pending # << >>
      <3>1. ServiceOK(Notified(t, "REQ"))
        BY <2>1, <2>2, <2>7, <2>8, <2>9, <2>10, <2>11, ToldOK
      <3> QED BY <2>1, <2>4, <2>5, <2>11, <3>1, ServiceStep
    <2>12. CASE t.pending = << >>
      <3>1. ServiceOK(t)
        BY <2>1, <2>2, <2>7, <2>8, <2>9, <2>10, <2>12 DEF ServiceOK
      <3> QED BY <2>1, <2>4, <2>5, <2>12, <3>1, ServiceStep
    <2> QED BY <2>11, <2>12
  <1>4. CASE ResponseRefused
    <2> DEFINE S == Tail(r.shown)
               t == [r EXCEPT !.shown = S]
    <2>1. /\ r.shown # << >> /\ reg' = t /\ UNCHANGED <<qry, reqID, sidrNet>>
      BY <1>1, <1>4 DEF ResponseRefused, Served, ServiceCep
    <2>2. S = << >> /\ S \in Seq(ReqKey)
      BY <1>2, <2>1 DEF ServiceOK
    <2> HIDE DEF S
    <2>3. t \in ServiceCep
      BY <2>2 DEF ServiceCep
    <2>4. /\ t.state = r.state /\ t.cb = r.cb /\ t.notify = r.notify /\ t.pending = r.pending /\ t.flags = r.flags
          /\ t.refs = r.refs /\ t.item = r.item /\ t.shown = << >> /\ t.seen = r.seen
      BY <2>2 DEF ServiceCep
    <2> HIDE DEF t
    <2>5. ServiceOK(t)
      BY <1>2, <2>3, <2>4 DEF ServiceOK, Doomed
    <2> QED BY <1>2, <2>1, <2>5, ServiceStep
  <1> QED BY <1>3, <1>4

LEMMA SidrReqInv ==
    ASSUME SidrInv, NEW m \in sidrNet, ProcessSidrReq(m) PROVE SidrInv'
  <1>1. PICK r \in ServiceCep : r = reg
    BY ServiceFacts
  <1>2. /\ ServiceOK(r) /\ sidrNet \subseteq ReqMad \cup RespMad /\ r.pending \in Seq(ReqKey)
        /\ r.shown \in Seq(ReqKey)
    BY <1>1, ServiceFacts
  <1>3. m.type = "SIDR_REQ" /\ UNCHANGED <<qry, reqID>>
    BY DEF ProcessSidrReq
  <1>4. PICK k \in ReqKey : k = m.req
    BY <1>2, <1>3 DEF ReqMad, RespMad
  <1>5. CASE UNCHANGED reg /\ SendMads({SendSIDR_RESP(m.req, m.req)})
    <2>1. sidrNet' \subseteq ReqMad \cup RespMad
      BY <1>2, <1>4, <1>5, AnswerMad DEF SendMads
    <2> QED BY <1>1, <1>2, <1>3, <1>5, <2>1, ServiceStep
  <1>6. CASE /\ r.state = "REGISTERED" /\ r.notify /\ UNCHANGED sidrNet
             /\ reg' = Notified([r EXCEPT !.pending = Append(r.pending, k)], "REQ")
    <2> DEFINE P == Append(r.pending, k)
               t == [r EXCEPT !.pending = P]
    <2>1. P \in Seq(ReqKey) /\ P # << >> /\ (r.pending # << >> => Head(P) = Head(r.pending))
      BY <1>2
    <2>2. reg' = Notified(t, "REQ")
      BY <1>6
    <2> HIDE DEF P
    <2>3. t \in ServiceCep
      BY <2>1 DEF ServiceCep
    <2>4. /\ t.state = r.state /\ t.cb = r.cb /\ t.notify = r.notify /\ t.pending = P /\ t.flags = r.flags
          /\ t.refs = r.refs /\ t.item = r.item /\ t.shown = r.shown /\ t.seen = r.seen
      BY DEF ServiceCep
    <2> HIDE DEF t
    <2>5. ~ Doomed(t)
      BY <1>2, <1>6, <2>4 DEF ServiceOK, Doomed
    <2>6. t.cb /\ (t.item = "none") = (t.refs = 0) /\ t.refs >= 0
      BY <1>2, <1>6, <2>4 DEF ServiceOK
    <2>7. /\ t.shown # << >> => t.item = "running" /\ Tail(t.shown) = << >>
          /\ t.shown # << >> => Head(t.shown) = Head(t.pending)
      BY <1>2, <1>6, <2>1, <2>4 DEF ServiceOK
    <2>8. ServiceOK(Notified(t, "REQ"))
      BY <1>6, <2>1, <2>3, <2>4, <2>5, <2>6, <2>7, ToldOK
    <2> QED BY <1>2, <1>3, <1>6, <2>2, <2>8, ServiceStep
  <1> QED BY <1>1, <1>4, <1>5, <1>6 DEF ProcessSidrReq, Served, ServiceCep

(* The callback of the service's user begins.                              *)
LEMMA ServiceCallbackInv ==
    ASSUME SidrInv, ServiceCallback PROVE SidrInv'
  <1>1. PICK r \in ServiceCep : r = reg
    BY ServiceFacts
  <1>2. /\ ServiceOK(r) /\ sidrNet \subseteq ReqMad \cup RespMad /\ r.pending \in Seq(ReqKey)
        /\ r.shown \in Seq(ReqKey) /\ r.seen \in BOOLEAN /\ r.flags \in SUBSET CepFlag
    BY <1>1, ServiceFacts
  <1> DEFINE shows == /\ ~ Doomed(r) /\ r.state = "REGISTERED" /\ "REQ" \in r.flags /\ r.pending # << >>
             F == IF Doomed(r) THEN r.flags ELSE {}
             E == r.seen \/ shows
             S == IF shows THEN Append(r.shown, Head(r.pending)) ELSE r.shown
             t == [r EXCEPT !.item = "running", !.flags = F, !.seen = E, !.shown = S]
  <1>3. /\ r.item = "queued" /\ reg' = t /\ UNCHANGED <<qry, reqID, sidrNet>>
    BY <1>1 DEF ServiceCallback, Served, ServiceCep
  <1>4. r.shown = << >> /\ r.refs # 0
    BY <1>2, <1>3 DEF ServiceOK
  <1>5. F \in SUBSET CepFlag /\ E \in BOOLEAN /\ ("DESTROY" \in F) = Doomed(r)
    BY <1>2 DEF Doomed
  <1>6. S \in Seq(ReqKey)
    BY <1>2
  <1>7. S # << >> => shows /\ Tail(S) = << >> /\ Head(S) = Head(r.pending)
    <2>1. CASE shows
      <3>1. PICK h \in ReqKey : h = Head(r.pending)
        BY <1>2, <2>1
      <3>2. S = Append(<< >>, h)
        BY <1>4, <2>1, <3>1
      <3>3. Tail(Append(<< >>, h)) = << >> /\ Head(Append(<< >>, h)) = h
        OBVIOUS
      <3> QED BY <2>1, <3>1, <3>2, <3>3
    <2>2. CASE ~ shows
      BY <1>4, <2>2
    <2> QED BY <2>1, <2>2
  <1>8. r.state = "REGISTERED" /\ r.pending # << >> => E
    BY <1>2, <1>3 DEF ServiceOK
  <1>9. shows => r.state = "REGISTERED" /\ r.pending # << >>
    OBVIOUS
  <1> HIDE DEF F, E, S, shows
  <1>10. t \in ServiceCep
    BY <1>5, <1>6 DEF ServiceCep
  <1>11. /\ t.state = r.state /\ t.cb = r.cb /\ t.notify = r.notify /\ t.pending = r.pending /\ t.flags = F
         /\ t.refs = r.refs /\ t.item = "running" /\ t.seen = E /\ t.shown = S
    BY DEF ServiceCep
  <1> HIDE DEF t
  <1>12. Doomed(t) = Doomed(r)
    BY <1>5, <1>11 DEF Doomed
  <1>13. ServiceOK(t)
    BY <1>2, <1>4, <1>7, <1>8, <1>9, <1>10, <1>11, <1>12 DEF ServiceOK
  <1> QED BY <1>2, <1>3, <1>13, ServiceStep

(* It returns, having answered what it was shown, or not.                  *)
LEMMA ServiceCallbackDoneInv ==
    ASSUME SidrInv, ServiceCallbackDone, ~ AnswersLate PROVE SidrInv'
  <1>1. PICK r \in ServiceCep : r = reg
    BY ServiceFacts
  <1>2. /\ ServiceOK(r) /\ sidrNet \subseteq ReqMad \cup RespMad /\ r.refs \in Int
    BY <1>1, ServiceFacts
  <1>3. PICK e \in Seq(ReqKey) : e = << >>
    BY NoRequests
  <1> DEFINE u == [r EXCEPT !.shown = e]
  <1>4. /\ r.item = "running" /\ reg' = CallbackDone(u, NewService) /\ UNCHANGED <<qry, reqID, sidrNet>>
    BY <1>1, <1>3 DEF ServiceCallbackDone, Served
  <1>5. u \in ServiceCep
    BY DEF ServiceCep
  <1>6. /\ u.state = r.state /\ u.cb = r.cb /\ u.notify = r.notify /\ u.pending = r.pending /\ u.flags = r.flags
        /\ u.refs = r.refs /\ u.item = r.item /\ u.seen = r.seen /\ u.shown = << >>
    BY <1>3 DEF ServiceCep
  <1> HIDE DEF u
  <1>7. CASE Doomed(u)
    <2>1. reg' = Freed(NewService)
      BY <1>4, <1>7 DEF CallbackDone
    <2> QED BY <1>2, <1>4, <2>1, FreedServiceOK, ServiceStep
  <1>8. CASE ~ Doomed(u)
    <2>1. PICK n \in Int : n = u.refs - 1
      BY <1>2, <1>6
    <2>2. PICK i \in {"none", "queued", "running"} : i = IF u.refs > 1 THEN "queued" ELSE "none"
      OBVIOUS
    <2> DEFINE t == [u EXCEPT !.refs = n, !.item = i]
    <2>3. reg' = t
      BY <1>4, <1>5, <1>8, <2>1, <2>2 DEF CallbackDone, ServiceCep
    <2>4. t \in ServiceCep
      BY <1>5 DEF ServiceCep
    <2>5. /\ t.state = u.state /\ t.cb = u.cb /\ t.notify = u.notify /\ t.pending = u.pending /\ t.flags = u.flags
          /\ t.refs = n /\ t.item = i /\ t.seen = u.seen /\ t.shown = u.shown
      BY <1>5 DEF ServiceCep
    <2> HIDE DEF t
    <2>6. r.refs >= 0 /\ r.refs # 0
      BY <1>2, <1>4 DEF ServiceOK
    <2>7. /\ n >= 0 /\ (i = "none") = (n = 0)
          /\ r.refs > 1 => i = "queued"
      BY <1>2, <1>6, <2>1, <2>2, <2>6
    <2>8. Doomed(t) = Doomed(r)
      BY <1>6, <2>5 DEF Doomed
    <2>9. ServiceOK(t)
      BY <1>2, <1>4, <1>6, <2>4, <2>5, <2>7, <2>8 DEF ServiceOK
    <2> QED BY <1>2, <1>4, <2>3, <2>9, ServiceStep
  <1> QED BY <1>7, <1>8

-----------------------------------------------------------------------------
(* The steps together *)

LEMMA SidrInitOK == SidrInit => SidrInv
  <1> SUFFICES ASSUME SidrInit PROVE SidrInv
    OBVIOUS
  <1>1. qry \in [Querier -> QueryCep] /\ \A q \in Querier : QueryOK(q, qry[q])
    BY NewQueryFields, NewQueryOK DEF SidrInit
  <1>2. reqID \in [Querier -> Nat] /\ ServiceOK(reg)
    BY FreedServiceOK DEF SidrInit
  <1>3. sidrNet \subseteq ReqMad
    <2> SUFFICES ASSUME NEW l \in Foreign PROVE FormatSIDR_REQ(l, 1) \in ReqMad
      BY DEF SidrInit
    <2>1. [lid |-> l, id |-> 1] \in ReqKey
      BY DEF ReqKey
    <2> QED BY <2>1 DEF FormatSIDR_REQ, ReqMad
  <1> QED BY <1>1, <1>2, <1>3 DEF SidrInv

LEMMA SidrStepOK ==
    ASSUME SidrInv, [SidrNext]_sidrVars, ~ AnswersLate, ~ AsksAgain PROVE SidrInv'
  <1>1. CASE UNCHANGED sidrVars
    BY <1>1 DEF sidrVars, SidrInv
  <1>2. ASSUME NEW q \in Querier,
               \/ iba_cm_sidr_query(q) \/ QueryNoDgrm(q) \/ CancelQuery(q) \/ DestroyQuery(q)
               \/ QueryTimerFires(q) \/ QueryTimerCallback(q) \/ QuerySendCompletes(q)
               \/ QueryCallback(q) \/ QueryCallbackDone(q)
        PROVE  SidrInv'
    BY <1>2, SidrQueryInv, CancelQueryInv, DestroyQueryInv, QueryTimerInv, QueryCallbackInv
  <1>3. ASSUME NEW m \in sidrNet, ProcessSidrReq(m) \/ ProcessSidrResp(m) PROVE SidrInv'
    BY <1>3, SidrReqInv, SidrRespInv
  <1>4. CASE iba_cm_sidr_register \/ iba_cm_sidr_deregister \/ (\E b \in BOOLEAN : ModifyNotify(b))
    BY <1>4, RegisterInv
  <1>5. CASE DestroyService
    BY <1>5, DestroyServiceInv
  <1>6. CASE iba_cm_sidr_response \/ ResponseRefused
    BY <1>6, ResponseInv
  <1>7. CASE ServiceCallback
    BY <1>7, ServiceCallbackInv
  <1>8. CASE ServiceCallbackDone
    BY <1>8, ServiceCallbackDoneInv
  <1> QED BY <1>1, <1>2, <1>3, <1>4, <1>5, <1>6, <1>7, <1>8 DEF SidrNext

LEMMA SidrInvKept == SidrInv => SidrKept
  <1> SUFFICES ASSUME SidrInv PROVE SidrKept
    OBVIOUS
  <1>1. RequestsSeen
    BY DEF SidrInv, ServiceOK, RequestsSeen
  <1>2. AnswersMatch
    <2> SUFFICES ASSUME NEW q \in Querier, NEW r, r = qry[q]
                 PROVE  /\ ~ Doomed(r) /\ r.state = "IDLE" /\ "RESP" \in r.flags /\ "CANCEL" \notin r.flags =>
                             /\ r.dgrm.type = "SIDR_RESP"
                             /\ r.dgrm.req = [lid |-> q, id |-> r.asked] /\ r.dgrm.about = r.dgrm.req
                        /\ r.state = "SIDR_REQ_SENT" => r.dgrm.type = "SIDR_REQ"
      BY DEF AnswersMatch
    <2>1. QueryOK(q, r)
      BY DEF SidrInv
    <2>2. ASSUME NEW k, NEW d, d = SendSIDR_RESP(k, k)
          PROVE  d.type = "SIDR_RESP" /\ d.req = k /\ d.about = d.req
      BY <2>2 DEF SendSIDR_RESP
    <2>3. ASSUME NEW i, NEW d, d = FormatSIDR_REQ(q, i) PROVE d.type = "SIDR_REQ"
      BY <2>3 DEF FormatSIDR_REQ
    <2>4. r.state = "SIDR_REQ_SENT" => r.dgrm = FormatSIDR_REQ(q, r.id)
      BY <2>1 DEF QueryOK
    <2>5. ~ Doomed(r) /\ r.state = "IDLE" /\ "RESP" \in r.flags =>
             r.dgrm = SendSIDR_RESP([lid |-> q, id |-> r.asked], [lid |-> q, id |-> r.asked])
      BY <2>1 DEF QueryOK
    <2> QED BY <2>2, <2>3, <2>4, <2>5
  <1> QED BY <1>1, <1>2 DEF SidrKept

(* What a querier's user is told is the answer to its latest query, and a  *)
(* request that waits has been shown to the user of the service or will    *)
(* be, for any queriers, hosts, back log and retries, when the user of the *)
(* service answers in its callback and that of a query waits to be told.   *)
THEOREM SidrIsKept ==
    ASSUME ~ AnswersLate, ~ AsksAgain PROVE SidrSpec => []SidrKept
  <1>1. SidrInit => SidrInv
    BY SidrInitOK
  <1>2. SidrInv /\ [SidrNext]_sidrVars => SidrInv'
    BY SidrStepOK
  <1>3. SidrInv => SidrKept
    BY SidrInvKept
  <1> QED BY <1>1, <1>2, <1>3, PTL DEF SidrSpec
=============================================================================
