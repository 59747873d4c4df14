-------------------------------- MODULE Gsa ---------------------------------
(***************************************************************************)
(* The receive side of the General Services Agent (Ibt/Gsa): the growable  *)
(* pool of receive datagrams (gsastore.c), the buffers posted on QP1 of    *)
(* every port (gsamgmt.c), the registered management classes (gsaclass.c)  *)
(* and the completion callback that hands each datagram to the classes     *)
(* that want it (gsacallb.c).  A port's completions are taken by the event *)
(* thread of its adapter, which posts new buffers in their place.  Until   *)
(* the queue is armed, at the end of PrepareCaForReceives, the thread that *)
(* adds the device stands for it.  While the SMA removes the device it     *)
(* polls for completions too (smamgmt.c), at the same time.  Clients       *)
(* register, deregister and return datagrams at any time.  The adapter,    *)
(* the SMA's control of the QPs and the clients are modelled from how the  *)
(* agent uses them.                                                        *)
(***************************************************************************)
EXTENDS Integers, Sequences, FiniteSets, SequencesExt

CONSTANTS
    Port, Handle,     \* ports, and the GSA_SERVICE_CLASS_INFOs clients may hold
    Thread, Of,       \* threads that take completions, each of its port Of[w]
    Remover,          \* those of them that do while a device is removed
    Reg,              \* Reg[h]: what the client of h registers for
    GsiMad,           \* the MADs that may arrive
    MaxClientId,      \* MAX_CLIENT_ID: also the client id of unsolicited MADs
    PreAlloc,         \* PreAllocRecvBuffersPerPort (of a one-port CA)
    MinBuffers,       \* MinBuffersToPostPerPort
    MaxRecvBuffers, LowWater,    \* of GrowRecvQAsNeeded
    DgrmLimit,        \* bound: datagrams that memory allows for
    DeregisterInCallback,        \* clients deregister while they are called back
    NoClass

Method == {"GET", "SEND", "REPORT", "TRAP", "RESP"}
GsaClassReg == [class : Nat, responder : BOOLEAN, report : BOOLEAN, trap : BOOLEAN, sar : BOOLEAN]

ASSUME GsaAssumption ==
    /\ Reg \in [Handle -> GsaClassReg] /\ NoClass \notin Handle
    /\ Of \in [Thread -> Port] /\ Remover \subseteq Thread
    /\ \A v, w \in Thread \ Remover : Of[v] = Of[w] => v = w
    /\ GsiMad \subseteq [class : Nat, method : Method, cid : Nat]
    /\ MaxClientId \in Nat \ {0}
    /\ PreAlloc \in Nat \ {0} /\ MinBuffers \in Nat \ {0}
    /\ MaxRecvBuffers \in Nat /\ LowWater \in Nat /\ DgrmLimit \in Nat
    /\ DeregisterInCallback \in BOOLEAN

VARIABLES
    gpool,      \* DgrmPoolRecvQ: its list, TotalElements, and the growth queued
    dgrm,       \* the flags of every datagram
    qp1,        \* Qp1Control of every port
    posted,     \* Qp1RecvQPosted
    recvQ,      \* the datagrams the adapter has for the port
    sendQ,      \* the answers of GsiSendInvalid under way, with their port
    held,       \* datagrams kept by clients (FPENDING) or a SAR context
    cls, classList, cid, capMask,   \* the registrations
    gsa,        \* the threads
    short       \* history: by how many buffers a port's last posting fell
                \* short, and how many it has discarded since

gsaVars == <<gpool, dgrm, qp1, posted, recvQ, sendQ, held, cls, classList, cid, capMask, gsa, short>>
portVars == <<qp1, posted, recvQ, short>>
classVars == <<cls, classList, cid, capMask>>

Dgrm == 1..DgrmLimit
Flags == [alloc : BOOLEAN, onRecv : BOOLEAN, onSend : BOOLEAN]
NoMad == [class |-> 0, method |-> "SEND", cid |-> 0]
Resting == [pc |-> "idle", list |-> {}, n |-> 0, seen |-> 0, mad |-> NoMad, at |-> NoClass,
            status |-> "FNOT_FOUND", told |-> {}]

-----------------------------------------------------------------------------
(* The pool.  Its list is a set: datagrams differ in nothing, and which     *)
(* one is handed out does not matter.                                      *)

Allocated(S, v) == [d \in Dgrm |-> IF d \in S THEN [dgrm[d] EXCEPT !.alloc = v] ELSE dgrm[d]]
Lowest(n, S) == {d \in S : Cardinality({e \in S : e < d}) < n}

DgrmPoolCount == gpool.elements
DgrmPoolTotal == gpool.total

(* What DgrmPoolGet hands out: as many as there are, up to n.              *)
DgrmPoolGet(n) == Lowest(Min({n, DgrmPoolCount}), gpool.free)
Without(l) == [gpool EXCEPT !.free = @ \ l, !.elements = @ - Cardinality(l)]

DgrmPoolPut(l) == [gpool EXCEPT !.free = @ \cup l, !.elements = @ + Cardinality(l)]

(* DgrmPoolGrow links a new pool of n elements in front of the list.       *)
DgrmPoolGrow(n) ==
    [gpool EXCEPT !.free = @ \cup (gpool.total + 1)..(gpool.total + n),
                  !.elements = @ + n, !.total = @ + n]

(* GrowPoolSysCallback; without memory the pool stays as it is.            *)
GrowPoolSysCallback ==
    /\ gpool.grow > 0
    /\ \/ gpool.total + gpool.grow <= DgrmLimit
          /\ gpool' = [DgrmPoolGrow(gpool.grow) EXCEPT !.grow = 0]
       \/ gpool' = [gpool EXCEPT !.grow = 0]
    /\ UNCHANGED <<dgrm, portVars, sendQ, held, classVars, gsa>>

(* Whoever holds a datagram that was handed up returns it.                 *)
ClientPuts ==
    \E d \in held :
        /\ held' = held \ {d}
        /\ gpool' = DgrmPoolPut({d}) /\ dgrm' = Allocated({d}, FALSE)
        /\ UNCHANGED <<portVars, sendQ, classVars, gsa>>

-----------------------------------------------------------------------------
(* Ports: devices come and go, buffers are posted *)

(* GsaAddDevice: PrepareCaForReceives.                                     *)
GsaAddDevice(w) ==
    /\ qp1[Of[w]] = "absent" /\ w \notin Remover /\ gsa[w].pc = "idle"
    /\ qp1' = [qp1 EXCEPT ![Of[w]] = "NORMAL"]
    /\ gsa' = [gsa EXCEPT ![w] = [Resting EXCEPT !.n = MinBuffers,
                 !.pc = IF DgrmPoolCount <= PreAlloc THEN "addToRecvQ" ELSE "get"]]
    /\ UNCHANGED <<gpool, dgrm, posted, recvQ, short, sendQ, held, classVars>>

DgrmPoolAddToGlobalRecvQ(w) ==
    /\ gsa[w].pc = "addToRecvQ"
    /\ \/ /\ gpool.total + PreAlloc <= DgrmLimit
          /\ gpool' = DgrmPoolGrow(PreAlloc)
          /\ gsa' = [gsa EXCEPT ![w].pc = "get"]
          /\ UNCHANGED short
       \/ /\ gsa' = [gsa EXCEPT ![w] = Resting] /\ short' = [short EXCEPT ![Of[w]] = MinBuffers]
          /\ UNCHANGED gpool
    /\ UNCHANGED <<dgrm, qp1, posted, recvQ, sendQ, held, classVars>>

(* PostRecvMsgToPort takes buffers from the pool ...                       *)
PostRecvMsgToPort(w) ==
    /\ gsa[w].pc = "get"
    /\ LET l == DgrmPoolGet(gsa[w].n) IN
       /\ gpool' = Without(l) /\ dgrm' = Allocated(l, TRUE)
       /\ gsa' = [gsa EXCEPT ![w].list = l, ![w].n = 0, ![w].pc = IF l = {} THEN "grow" ELSE "lookup"]
       /\ short' = [short EXCEPT ![Of[w]] = gsa[w].n - Cardinality(l)]
    /\ UNCHANGED <<qp1, posted, recvQ, sendQ, held, classVars>>

(* ... looks at the QP under CaListLock ...                                *)
LookupQp(w) ==
    /\ gsa[w].pc = "lookup"
    /\ IF qp1[Of[w]] = "DESTROY"
       THEN /\ gpool' = DgrmPoolPut(gsa[w].list)
            /\ dgrm' = Allocated(gsa[w].list, FALSE)
            /\ gsa' = [gsa EXCEPT ![w].list = {}, ![w].pc = "grow"]
       ELSE gsa' = [gsa EXCEPT ![w].pc = "posting"] /\ UNCHANGED <<gpool, dgrm>>
    /\ UNCHANGED <<portVars, sendQ, held, classVars>>

(* ... and posts them one by one, each under the QP's lock.  The one that  *)
(* the adapter refuses goes back, and the rest of the list with it.        *)
iba_post_recv(w) ==
    /\ gsa[w].pc = "posting"
    /\ \/ \E d \in Lowest(1, gsa[w].list) :
            /\ recvQ' = [recvQ EXCEPT ![Of[w]] = @ \cup {d}]
            /\ dgrm' = [dgrm EXCEPT ![d].onRecv = TRUE]
            /\ gsa' = [gsa EXCEPT ![w].list = @ \ {d}, ![w].seen = posted[Of[w]], ![w].pc = "counting"]
            /\ UNCHANGED <<gpool, short>>
       \/ /\ gpool' = DgrmPoolPut(gsa[w].list) /\ dgrm' = Allocated(gsa[w].list, FALSE)
          /\ gsa' = [gsa EXCEPT ![w].list = {}, ![w].pc = "grow"]
          /\ short' = [short EXCEPT ![Of[w]] = @ + Cardinality(gsa[w].list)]
          /\ UNCHANGED recvQ
    /\ UNCHANGED <<qp1, posted, sendQ, held, classVars>>

(* ++Qp1RecvQPosted, which takes no lock: if another thread has changed    *)
(* the count meanwhile, either change may be lost.                         *)
Increments(w) ==
    LET now == posted[Of[w]] IN
    IF now = gsa[w].seen THEN {now + 1} ELSE {now, now + 1, gsa[w].seen + 1}

CountPosted(w) ==
    /\ gsa[w].pc = "counting"
    /\ \E c \in Increments(w) : posted' = [posted EXCEPT ![Of[w]] = c]
    /\ gsa' = [gsa EXCEPT ![w].seen = 0, ![w].pc = IF gsa[w].list = {} THEN "grow" ELSE "posting"]
    /\ UNCHANGED <<gpool, dgrm, qp1, recvQ, short, sendQ, held, classVars>>

(* GrowRecvQAsNeeded: DgrmPoolGrowAsNeeded looks without a lock ...        *)
GrowRecvQAsNeeded(w) ==
    /\ gsa[w].pc = "grow"
    /\ gsa' = [gsa EXCEPT ![w] = IF DgrmPoolCount < LowWater /\ DgrmPoolTotal < MaxRecvBuffers
                                 THEN [Resting EXCEPT !.pc = "schedule"] ELSE Resting]
    /\ UNCHANGED <<gpool, dgrm, portVars, sendQ, held, classVars>>

(* ... and again when GrowScheduled is its own.                            *)
DgrmPoolGrowAsNeeded(w) ==
    /\ gsa[w].pc = "schedule"
    /\ gpool' = IF gpool.grow = 0 /\ DgrmPoolTotal < MaxRecvBuffers
                THEN [gpool EXCEPT !.grow = Min({MaxRecvBuffers - gpool.total, PreAlloc})]
                ELSE gpool
    /\ gsa' = [gsa EXCEPT ![w] = Resting]
    /\ UNCHANGED <<dgrm, portVars, sendQ, held, classVars>>

(* The SMA takes the QP away; its work requests are flushed.               *)
QpDestroy(p) ==
    /\ qp1[p] = "NORMAL" /\ qp1' = [qp1 EXCEPT ![p] = "DESTROY"]
    /\ UNCHANGED <<gpool, dgrm, posted, recvQ, short, sendQ, held, classVars, gsa>>
QpGone(p) ==
    /\ qp1[p] = "DESTROY" /\ recvQ[p] = {}
    /\ \A w \in Thread : Of[w] = p => gsa[w].pc = "idle"
    /\ \A x \in sendQ : x.port # p
    /\ qp1' = [qp1 EXCEPT ![p] = "absent"] /\ posted' = [posted EXCEPT ![p] = 0]
    /\ short' = [short EXCEPT ![p] = 0]
    /\ UNCHANGED <<gpool, dgrm, recvQ, sendQ, held, classVars, gsa>>

-----------------------------------------------------------------------------
(* Classes *)

ClientIdArray == {cid[h] : h \in {g \in Handle : cls[g] \in {"setMask", "on"}}}

(* Mutant: the id of the last client is given out again.                   *)
FirstId == {0}
(* GetClientId: the least that is free, below MAX_CLIENT_ID.               *)
GetClientId == LET free == (0..(MaxClientId - 1)) \ ClientIdArray IN
               {i \in free : \A j \in free : i <= j}

iba_gsi_register_class(h) ==
    /\ cls[h] = "none"
    /\ \E i \in GetClientId :
         /\ cid' = [cid EXCEPT ![h] = i]
         /\ classList' = <<h>> \o classList
         /\ cls' = [cls EXCEPT ![h] = IF Reg[h].responder THEN "setMask" ELSE "on"]
    /\ UNCHANGED <<gpool, dgrm, portVars, sendQ, held, capMask, gsa>>

SetPortCapabilityMask(h) ==
    /\ \/ cls[h] = "setMask" /\ capMask' = capMask \cup {Reg[h].class}
                             /\ cls' = [cls EXCEPT ![h] = "on"]
       \/ cls[h] = "clearMask" /\ capMask' = capMask \ {Reg[h].class}
                               /\ cls' = [cls EXCEPT ![h] = "none"]
    /\ UNCHANGED <<gpool, dgrm, portVars, sendQ, held, classList, cid, gsa>>

(* The class leaves the list with its client id.                           *)
iba_gsi_deregister_class(h) ==
    /\ cls[h] = "on"
    /\ DeregisterInCallback \/ \A w \in Thread : gsa[w].at # h
    /\ \E i \in DOMAIN classList : classList[i] = h /\ classList' = RemoveAt(classList, i)
    /\ cls' = [cls EXCEPT ![h] = IF Reg[h].responder THEN "looking" ELSE "none"]
    /\ cid' = [cid EXCEPT ![h] = 0]
    /\ UNCHANGED <<gpool, dgrm, portVars, sendQ, held, capMask, gsa>>

(* Mutant: any other client of the class counts as a manager of it.        *)
AnyClassMgr(c) == \E i \in DOMAIN classList : Reg[classList[i]].class = c
FindMatchingClassMgr(c) ==
    \E i \in DOMAIN classList : Reg[classList[i]].responder /\ Reg[classList[i]].class = c

(* Whether another manager is left is found out under the lock again.      *)
LookForClassMgr(h) ==
    /\ cls[h] = "looking"
    /\ cls' = [cls EXCEPT ![h] = IF FindMatchingClassMgr(Reg[h].class) THEN "none" ELSE "clearMask"]
    /\ UNCHANGED <<gpool, dgrm, portVars, sendQ, held, classList, cid, capMask, gsa>>

IsSarClient(m) ==
    \E i \in DOMAIN classList : LET h == classList[i] IN
        /\ Reg[h].sar
        /\ IF m.method = "RESP" THEN cid[h] = m.cid
           ELSE Reg[h].responder /\ Reg[h].class = m.class

-----------------------------------------------------------------------------
(* The completion callback *)

Fanout(m) == m.method \in {"REPORT", "TRAP"}
Interested(h, m) ==
    CASE m.method = "RESP"   -> cid[h] = m.cid
      [] m.method = "REPORT" -> Reg[h].class = m.class /\ Reg[h].report
      [] m.method = "TRAP"   -> Reg[h].class = m.class /\ Reg[h].trap
      [] OTHER               -> Reg[h].class = m.class /\ Reg[h].responder

(* Mutant: the walk ends one short of the head.                            *)
WalkShort(t, k) ==
    LET wanting == {i \in 2..k : Interested(classList[i], t.mad)} IN
    IF wanting = {} THEN [t EXCEPT !.pc = "conclude", !.at = NoClass]
    ELSE [t EXCEPT !.pc = "callback", !.at = classList[Max(wanting)],
                   !.told = @ \cup {classList[Max(wanting)]}]
(* GsaNotifyClients walks from the tail to the head: the classes not       *)
(* visited yet are the first k of the list.                                *)
Walk(t, k) ==
    LET wanting == {i \in 1..k : Interested(classList[i], t.mad)} IN
    IF wanting = {} THEN [t EXCEPT !.pc = "conclude", !.at = NoClass]
    ELSE [t EXCEPT !.pc = "callback", !.at = classList[Max(wanting)],
                   !.told = @ \cup {classList[Max(wanting)]}]

(* Mutant: one buffer is posted for each that was used.                    *)
PostOne(p) == 1
(* The buffers to post after one was used.  A count below zero is a uint32 *)
(* far above MinBuffers.                                                   *)
PostCount(p) ==
    LET left == posted[p] - 1 IN
    IF left \in 0..(MinBuffers - 1) THEN MinBuffers - left ELSE 1

(* Who takes the completions of a port.                                    *)
Polls(w) ==
    /\ gsa[w].pc = "idle" /\ qp1[Of[w]] # "absent"
    /\ w \in Remover => qp1[Of[w]] = "DESTROY"

(* A buffer was filled.  A SAR client's datagram first passes through the  *)
(* reassembly (module Rmpp), which may keep or reject it.                  *)
ReceiveCompletion(w, m) ==
    /\ Polls(w)
    /\ \E d \in recvQ[Of[w]] :
         LET t == [Resting EXCEPT !.list = {d}, !.n = PostCount(Of[w]), !.mad = m] IN
         /\ recvQ' = [recvQ EXCEPT ![Of[w]] = @ \ {d}] /\ posted' = [posted EXCEPT ![Of[w]] = @ - 1]
         /\ dgrm' = [dgrm EXCEPT ![d].onRecv = FALSE]
         /\ \/ gsa' = [gsa EXCEPT ![w] = Walk(t, Len(classList))]
               /\ UNCHANGED held
            \/ /\ IsSarClient(m) /\ held' = held \cup {d}
               /\ gsa' = [gsa EXCEPT ![w] = [t EXCEPT !.pc = "conclude", !.status = "FPENDING",
                                                      !.list = {}]]
            \/ /\ IsSarClient(m) /\ UNCHANGED held
               /\ gsa' = [gsa EXCEPT ![w] = [t EXCEPT !.pc = "conclude", !.status = "FREJECT"]]
    /\ UNCHANGED <<gpool, qp1, short, sendQ, classVars>>

(* WRStatusWRFlushed, or a message that is too long for a MAD, on a port   *)
(* that works too: the buffer goes back, and none is posted in its place.  *)
DiscardCompletion(w) ==
    /\ Polls(w)
    /\ \E d \in recvQ[Of[w]] :
         /\ recvQ' = [recvQ EXCEPT ![Of[w]] = @ \ {d}] /\ posted' = [posted EXCEPT ![Of[w]] = @ - 1]
         /\ dgrm' = [dgrm EXCEPT ![d].onRecv = FALSE, ![d].alloc = FALSE]
         /\ gpool' = DgrmPoolPut({d})
    /\ short' = [short EXCEPT ![Of[w]] = @ + 1]
    /\ UNCHANGED <<qp1, sendQ, held, classVars, gsa>>

(* What the thread does once the callback has returned.  A class that has  *)
(* gone meanwhile leaves nothing to go on from.                            *)
AfterCallback(w, ret) ==
    LET t == gsa[w]
        s == [t EXCEPT !.status = IF ret \in {"FPENDING", "FCOMPLETED"} \/ @ = "FNOT_FOUND" THEN ret ELSE @]
        at == {i \in DOMAIN classList : classList[i] = t.at}
    IN IF t.mad.method = "RESP" \/ ret = "FPENDING" \/ (ret = "FCOMPLETED" /\ ~Fanout(t.mad))
       THEN [s EXCEPT !.pc = "conclude", !.at = NoClass,
                      !.list = IF ret = "FPENDING" THEN {} ELSE @]
       ELSE IF at = {} THEN [s EXCEPT !.pc = "lost"]
       ELSE Walk(s, Max(at) - 1)

GsaNotifyClients(w) ==
    /\ gsa[w].pc = "callback"
    /\ \E ret \in {"FCOMPLETED", "FPENDING", "FREJECT"} :
         /\ gsa' = [gsa EXCEPT ![w] = AfterCallback(w, ret)]
         /\ held' = IF ret = "FPENDING" THEN held \cup gsa[w].list ELSE held
    /\ UNCHANGED <<gpool, dgrm, portVars, sendQ, classVars>>

(* GsiSendInvalid answers a request nobody wanted, if a datagram is free   *)
(* and the adapter takes it.                                               *)
GsiSendInvalid(w) ==
    /\ gsa[w].pc = "conclude" /\ gsa[w].status = "FNOT_FOUND"
    /\ gsa' = [gsa EXCEPT ![w].status = "FREJECT"]
    /\ \/ UNCHANGED <<gpool, dgrm, sendQ>>
       \/ /\ gsa[w].mad.method = "GET" /\ DgrmPoolCount > 0
          /\ LET l == DgrmPoolGet(1) IN
             /\ gpool' = Without(l)
             /\ dgrm' = [d \in Dgrm |-> IF d \in l THEN [dgrm[d] EXCEPT !.alloc = TRUE, !.onSend = TRUE]
                                       ELSE dgrm[d]]
             /\ sendQ' = sendQ \cup {[port |-> Of[w], d |-> d] : d \in l}
    /\ UNCHANGED <<portVars, held, classVars>>

SendInvalidCompletion(w) ==
    /\ Polls(w)
    /\ \E x \in sendQ :
         /\ x.port = Of[w] /\ sendQ' = sendQ \ {x}
         /\ dgrm' = [dgrm EXCEPT ![x.d].alloc = FALSE, ![x.d].onSend = FALSE]
         /\ gpool' = DgrmPoolPut({x.d})
    /\ UNCHANGED <<portVars, held, classVars, gsa>>

(* The end of GsaCompletionCallback's turn; the port gets buffers again.   *)
ConcludeReceive(w) ==
    /\ gsa[w].pc = "conclude" /\ gsa[w].status # "FNOT_FOUND"
    /\ gsa' = [gsa EXCEPT ![w] = [Resting EXCEPT !.pc = "get", !.n = gsa[w].n]]
    /\ IF gsa[w].status = "FPENDING" THEN UNCHANGED <<gpool, dgrm>>
       ELSE /\ gpool' = DgrmPoolPut(gsa[w].list)
            /\ dgrm' = Allocated(gsa[w].list, FALSE)
    /\ UNCHANGED <<portVars, sendQ, held, classVars>>

-----------------------------------------------------------------------------
GsaInit ==
    /\ gpool = [free |-> {}, elements |-> 0, total |-> 0, grow |-> 0]
    /\ dgrm = [d \in Dgrm |-> [alloc |-> FALSE, onRecv |-> FALSE, onSend |-> FALSE]]
    /\ qp1 = [p \in Port |-> "absent"] /\ posted = [p \in Port |-> 0]
    /\ recvQ = [p \in Port |-> {}] /\ sendQ = {} /\ held = {}
    /\ cls = [h \in Handle |-> "none"] /\ classList = <<>> /\ cid = [h \in Handle |-> 0]
    /\ capMask = {} /\ gsa = [w \in Thread |-> Resting]
    /\ short = [p \in Port |-> 0]

ClassStep(h) ==
    \/ iba_gsi_register_class(h) \/ SetPortCapabilityMask(h)
    \/ iba_gsi_deregister_class(h) \/ LookForClassMgr(h)
ThreadStep(w) ==
    \/ GsaAddDevice(w) \/ DgrmPoolAddToGlobalRecvQ(w)
    \/ PostRecvMsgToPort(w) \/ LookupQp(w) \/ iba_post_recv(w) \/ CountPosted(w)
    \/ GrowRecvQAsNeeded(w) \/ DgrmPoolGrowAsNeeded(w)
    \/ DiscardCompletion(w) \/ SendInvalidCompletion(w) \/ \E m \in GsiMad : ReceiveCompletion(w, m)
    \/ GsaNotifyClients(w) \/ GsiSendInvalid(w) \/ ConcludeReceive(w)
PortStep(p) == QpDestroy(p) \/ QpGone(p)

GsaNext ==
    \/ GrowPoolSysCallback \/ ClientPuts
    \/ \E h \in Handle : ClassStep(h)
    \/ \E p \in Port : PortStep(p)
    \/ \E w \in Thread : ThreadStep(w)

GsaSpec == GsaInit /\ [][GsaNext]_gsaVars

-----------------------------------------------------------------------------
(* Properties *)

(* Types of the pool, the ports, the registrations and the threads.        *)
GsaTypeOK ==
    /\ gpool.free \subseteq Dgrm /\ gpool.elements \in Nat /\ gpool.total \in 0..DgrmLimit /\ gpool.grow \in Nat
    /\ dgrm \in [Dgrm -> Flags]
    /\ qp1 \in [Port -> {"absent", "NORMAL", "DESTROY"}]
    /\ posted \in [Port -> Int] /\ short \in [Port -> Int] /\ recvQ \in [Port -> SUBSET Dgrm]
    /\ sendQ \subseteq [port : Port, d : Dgrm] /\ held \subseteq Dgrm
    /\ cls \in [Handle -> {"none", "setMask", "on", "looking", "clearMask"}]
    /\ classList \in Seq(Handle) /\ cid \in [Handle -> 0..MaxClientId]
    /\ \A w \in Thread : gsa[w].list \subseteq Dgrm /\ gsa[w].at \in Handle \cup {NoClass}

(* How many have the datagram: the pool, ports, threads, answers, clients. *)
Holders(d) ==
    Cardinality({d} \cap gpool.free)
    + Cardinality({p \in Port : d \in recvQ[p]})
    + Cardinality({w \in Thread : d \in gsa[w].list})
    + Cardinality({x \in sendQ : x.d = d})
    + Cardinality({d} \cap held)

(* Every datagram the pool was grown by has one owner (the pool, a receive *)
(* queue, a thread, an answer under way, or a client), and its Allocated,  *)
(* OnRecvQ and OnSendQ say which: none is lost, shared or put back twice,  *)
(* whatever callbacks return and posts the adapter refuses.                *)
DgrmOwned ==
    /\ gpool.elements = Cardinality(gpool.free)
    /\ \A d \in Dgrm :
         /\ Holders(d) = IF d <= gpool.total THEN 1 ELSE 0
         /\ dgrm[d].alloc = (d <= gpool.total /\ d \notin gpool.free)
         /\ dgrm[d].onRecv = \E p \in Port : d \in recvQ[p]
         /\ dgrm[d].onSend = \E x \in sendQ : x.d = d

(* The buffers a thread has posted and not counted yet.                    *)
Uncounted(w) == IF gsa[w].pc = "counting" THEN 1 ELSE 0

(* On a port in use Qp1RecvQPosted counts the buffers the adapter has.     *)
(* When its thread waits for completions, they are the minimum but for     *)
(* those that the last posting did not get or that were discarded since.   *)
PortReplenished ==
    \A w \in Thread \ Remover : LET p == Of[w] IN
        qp1[p] = "NORMAL" =>
            /\ posted[p] + Uncounted(w) = Cardinality(recvQ[p])
            /\ gsa[w].pc = "idle" => posted[p] + short[p] >= MinBuffers

(* No port advertises a class that no client manages any more, once the    *)
(* registrations under way are through.                                    *)
NoStaleCapability ==
    (\A h \in Handle : cls[h] \in {"none", "on"}) =>
        capMask \subseteq {Reg[classList[i]].class : i \in {j \in DOMAIN classList : Reg[classList[j]].responder}}

(* Clients that are registered have different client ids: a response goes  *)
(* to the one that sent the request.                                       *)
ClientIdsDiffer ==
    \A i, j \in DOMAIN classList : i # j => cid[classList[i]] # cid[classList[j]]

(* When the walk for a report or a trap ends with the datagram still the   *)
(* thread's, every class in the list that wants it has been called.        *)
FanoutComplete ==
    [][\A w \in Thread :
        gsa[w].pc \in {"idle", "callback"} /\ gsa'[w].pc = "conclude" /\ Fanout(gsa'[w].mad)
        /\ gsa'[w].status \notin {"FPENDING"} /\ ~IsSarClient(gsa'[w].mad) =>
        \A i \in DOMAIN classList : Interested(classList[i], gsa'[w].mad) => classList[i] \in gsa'[w].told]_gsaVars

(* "If this client was the last manager for this class, disable the port   *)
(* attributes for it" (gsaclass.c): a class with a manager is advertised.  *)
ManagerAdvertised ==
    (\A h \in Handle : cls[h] \in {"none", "on"}) =>
        \A h \in Handle : cls[h] = "on" /\ Reg[h].responder => Reg[h].class \in capMask

(* GsaNotifyClients goes on from a class that is still in the list.        *)
WalkOnListed == \A w \in Thread : gsa[w].pc # "lost"

(* Every datagram has one owner, whatever fails in posting and growing,    *)
(* and a port that works is refilled up to what was discarded since.       *)
ReceiveQueueKept == GsaTypeOK /\ DgrmOwned /\ PortReplenished

(* Registered managers have IDs of their own, and a port advertises no     *)
(* class the last manager of which has left.                               *)
ClassesKept == NoStaleCapability /\ ClientIdsDiffer
=============================================================================
