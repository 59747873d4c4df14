------------------------------ MODULE SdQuery -------------------------------
(***************************************************************************)
(* Queries of the subnet driver (SubnetDriver/sdc.c, sdsend.c, client.c,   *)
(* ibt.c, sa.c, query.c, infop.c): a query of a client is queued, sent to  *)
(* the subnet administrator under a limit of outstanding queries, retried  *)
(* by a timer, answered, possibly continued by child queries, and handed   *)
(* to its client by a work item, while its client may deregister and the   *)
(* driver may unload.                                                      *)
(* A query element is a member of Query, its address.  What holds          *)
(* pQueryList->m_Lock is one action; where the code gives the lock up (to  *)
(* allocate, to free, to call the client) the action ends.                 *)
(***************************************************************************)
EXTENDS Integers, Sequences, SequencesExt, FiniteSets

CONSTANTS
    Query,            \* addresses of query elements
    SdClient,         \* clients, each with a thread that calls the driver
    Receiver,         \* threads in SdGsaRecvCallback
    Worker,           \* threads in ProcessCompletionQueue
    Kind,             \* what clients ask for: subset of {"op", "info", "path"}
    MaxOutstanding,   \* g_SdParams.MaxOutstanding
    MaxChildQuery,    \* g_SdParams.MaxChildQuery
    MaxChildren,      \* bound: records in the answer to the first tier
    RetryCount,       \* ControlParameters.RetryCount
    SendResult,       \* what sending can come to: subset of {"ok", "fails", "nodgrm"}
    CanDeregister,    \* clients may deregister
    CaRemoval,        \* the adapter may be removed
    AddressReuse,     \* a freed address may come back while children still name it
    MaxQueries,       \* bound: queries made
    None

Boot == "boot"        \* the thread of LocalCaChangeCallback: the driver's own query
SdThread == SdClient \cup Receiver \cup Worker \cup {Boot}
QueryState == {"ReadyToSend", "NotAbleToSend", "WaitingForResult", "BusyRetryDelay",
               "WaitingForChildToComplete", "ProcessingResponse", "QueryComplete", "QueryDestroy"}
Response == {"OK", "NORECORDS", "ERROR", "BUSY", "BAD"}

ASSUME SdAssumption ==
    /\ MaxOutstanding \in Nat \ {0} /\ MaxChildQuery \in Nat /\ MaxChildren \in Nat \ {0}
    /\ RetryCount \in Nat /\ MaxQueries \in Nat /\ SendResult \subseteq {"ok", "fails", "nodgrm"}
    /\ Kind \subseteq {"op", "info", "path"} /\ None \notin Query /\ None \notin SdClient

VARIABLES
    sd,       \* the driver's globals and its query elements
    thr,      \* what each thread is doing, and with which element
    grow,     \* pChildGrowParentMutex: the receiver that holds it, or None
    caPort,   \* the local port: "absent", "down" (SdSMAddressValid FALSE), "valid",
              \* or "initialized"
    client,   \* "registered", "cancelling", "gone"
    unload,   \* "no", "waiting", "done"
    made      \* queries made so far

sdVars == <<sd, thr, grow, caPort, client, unload, made>>

Free == [st |-> "FREE", kind |-> "op", client |-> None, parent |-> None, nchild |-> 0,
         cpr |-> 0, retries |-> 0, sent |-> FALSE, res |-> 0, grown |-> 0, told |-> 0]
Idle == [pc |-> "idle", q |-> None, resp |-> "OK", prev |-> 0]

Listed(s, x) == x \in Range(s.list)
Live(x) == sd.q[x].st # "FREE"
(* An address malloc may return.                                           *)
Available(x) == ~Live(x) /\ (AddressReuse \/ \A y \in Query : sd.q[y].parent # x)
At(t, pc) == thr[t].pc = pc
Goto(t, pc) == thr' = [thr EXCEPT ![t].pc = pc]
Return(t) == thr' = [thr EXCEPT ![t] = Idle]

-----------------------------------------------------------------------------
(* Functions on the driver's state *)

SetState(s, x, st) == [s EXCEPT !.q[x].st = st]
ScheduleCompletionProcessing(s) == [s EXCEPT !.work = TRUE]
FreeQueryElement(s, x) == [s EXCEPT !.q[x] = Free]
Unlist(s, x) == [s EXCEPT !.list = Remove(@, x)]
(* Onto pCompletionList, to be reported or freed by the work item.         *)
Deferred(s, x, st) ==
    ScheduleCompletionProcessing([SetState(Unlist(s, x), x, st) EXCEPT !.comp = <<x>> \o @])
Complete(s, x) == Deferred(s, x, "QueryComplete")

(* Mutant: a query that could not be posted keeps its place.               *)
SentKeeps(s, x, can) ==
    [s EXCEPT !.q[x].st = IF can = "ok" THEN "WaitingForResult" ELSE "NotAbleToSend",
              !.q[x].sent = can = "ok"]
(* SendQueryElement with a place among the outstanding taken: can says     *)
(* what the pool and iba_gsi_post_send do.                                 *)
CanSend(can) == can = "ok" /\ caPort \in {"valid", "initialized"}
Sent(s, x, can) ==
    IF CanSend(can) THEN [s EXCEPT !.q[x].st = "WaitingForResult", !.q[x].sent = TRUE]
    ELSE [s EXCEPT !.out = @ - 1,
            !.q[x].st = IF can = "nodgrm" THEN "ReadyToSend" ELSE "NotAbleToSend"]
(* Mutant: the limit is compared before it is counted.                     *)
SendLate(s, x, can) ==
    IF s.out > MaxOutstanding THEN SetState(s, x, "ReadyToSend")
    ELSE Sent([s EXCEPT !.out = @ + 1], x, can)
(* SendQueryElement for an element on the list, with the lock held.        *)
Resend(s, x, can) ==
    IF s.out + 1 > MaxOutstanding THEN SetState(s, x, "ReadyToSend")
    ELSE Sent([s EXCEPT !.out = @ + 1], x, can)

(* childdone: the child is freed at once, or by the work item when the     *)
(* timer took it off.                                                      *)
ChildDone(s, x, defer) ==
    LET t == [s EXCEPT !.act = @ - 1]
    IN IF defer THEN Deferred(t, x, "QueryDestroy")
       ELSE ScheduleCompletionProcessing(FreeQueryElement(Unlist(t, x), x))
(* Mutant: the last child is not noticed.                                  *)
CountedNever(s, x) == [s EXCEPT !.q[s.q[x].parent].nchild = @ - 1]
(* One child fewer; the last one completes its parent.                     *)
Counted(s, x) ==
    LET p == s.q[x].parent
        t == [s EXCEPT !.q[p].nchild = @ - 1]
    IN IF t.q[p].nchild = 0
       THEN [SetState(Unlist(t, p), p, "QueryComplete") EXCEPT !.comp = <<p>> \o @] ELSE t

(* SubnetAdmRecv with no answer: the retries are used up.                  *)
TimedOut(s, x) ==
    IF s.q[x].kind = "self" THEN Deferred(s, x, "QueryDestroy")
    ELSE IF s.q[x].parent = None THEN Complete(s, x)
    ELSE ChildDone(IF Listed(s, s.q[x].parent) THEN Counted(s, x) ELSE s, x, TRUE)

(* SubnetAdmRecv and SdHandleChildQuery up to the point where the lock is  *)
(* released or the query is done.                                          *)
Answer(s, x, resp) ==
    IF s.q[x].parent # None
    THEN IF ~Listed(s, s.q[x].parent) THEN ChildDone(s, x, FALSE)
         ELSE IF resp \in {"ERROR", "BUSY"} THEN ChildDone(Counted(s, x), x, FALSE)
         ELSE [SetState(s, x, "ProcessingResponse") EXCEPT !.q[s.q[x].parent].cpr = @ + 1]
    ELSE IF s.q[x].kind = "op" \/ resp \in {"ERROR", "BUSY"} THEN Complete(s, x)
    ELSE SetState(s, x, "ProcessingResponse")

(* Mutant: a cancelled query is freed whoever still refers to it.          *)
FreeAtOnce(s, x) == FreeQueryElement(s, x)
(* FreeCancelledQueryElement, for an element in QueryDestroy.              *)
FreeCancelledQueryElement(s, x) == IF s.q[x].cpr = 0 THEN FreeQueryElement(s, x) ELSE s

-----------------------------------------------------------------------------
(* Making a query *)

(* CommonQueryPortFabricInformation, CommonPortFabricOperation: refused    *)
(* while unloading, for a client that is not registered or a port that is  *)
(* not active.                                                             *)
MakeQuery(c, k) ==
    /\ At(c, "idle") /\ client[c] = "registered" /\ unload = "no" /\ caPort # "absent"
    /\ made < MaxQueries /\ made' = made + 1
    /\ \E x \in Query :
         /\ Available(x)
         /\ sd' = [sd EXCEPT !.q[x] = [Free EXCEPT !.st = "ReadyToSend", !.kind = k,
                                         !.client = c, !.retries = RetryCount]]
         /\ thr' = [thr EXCEPT ![c] = [Idle EXCEPT !.pc = "reserve", !.q = x]]
    /\ UNCHANGED <<grow, caPort, client, unload>>

(* SubnetAdmInit: the driver's own query for the class port info.          *)
SubnetAdmInit(x) ==
    /\ made' = made + 1
    /\ sd' = [sd EXCEPT !.q[x] = [Free EXCEPT !.st = "ReadyToSend", !.kind = "self",
                                    !.retries = RetryCount]]
    /\ thr' = [thr EXCEPT ![Boot] = [Idle EXCEPT !.pc = "reserve", !.q = x]]

(* SendQueryElement, first attempt: a place is taken without the lock ...  *)
Reserve(t) ==
    /\ At(t, "reserve") /\ sd' = [sd EXCEPT !.out = @ + 1]
    /\ Goto(t, IF sd.out + 1 > MaxOutstanding THEN "over" ELSE "post")
    /\ UNCHANGED <<grow, caPort, client, unload, made>>

QueueQuery(s, x) == [s EXCEPT !.list = Append(@, x), !.q[x].retries = RetryCount]
AfterSend(t) == IF t \in Worker THEN "count" ELSE "timer"

(* ... and given back when there was none ...                              *)
Over(t) ==
    /\ At(t, "over") /\ Goto(t, AfterSend(t))
    /\ sd' = QueueQuery([SetState(sd, thr[t].q, "ReadyToSend") EXCEPT !.out = @ - 1], thr[t].q)
    /\ UNCHANGED <<grow, caPort, client, unload, made>>

(* ... or the query is posted and on the list.                             *)
Post(t) ==
    /\ At(t, "post") /\ Goto(t, AfterSend(t))
    /\ \E can \in SendResult : sd' = QueueQuery(Sent(sd, thr[t].q, can), thr[t].q)
    /\ UNCHANGED <<grow, caPort, client, unload, made>>

(* StartTimerHandler.                                                      *)
StartTimer(t) ==
    /\ At(t, "timer") /\ Return(t) /\ sd' = [sd EXCEPT !.timer = TRUE]
    /\ UNCHANGED <<grow, caPort, client, unload, made>>

-----------------------------------------------------------------------------
(* The timer *)

Timed(s) == {x \in Range(s.list) : s.q[x].st \in
               {"ReadyToSend", "WaitingForResult", "NotAbleToSend", "BusyRetryDelay"}}
(* One element: do[x] is "stay" while its time is not up, else what        *)
(* sending it again comes to.                                              *)
TimerOne(s, x, do) ==
    LET st == s.q[x].st
        t == IF st \in {"WaitingForResult", "BusyRetryDelay"} THEN [s EXCEPT !.out = @ - 1] ELSE s
    IN IF st = "ReadyToSend" THEN Resend(s, x, IF do[x] = "stay" THEN "nodgrm" ELSE do[x])
       ELSE IF x \notin Timed(sd) \/ do[x] = "stay" THEN s
       ELSE IF s.q[x].retries > 0 THEN Resend([t EXCEPT !.q[x].retries = @ - 1], x, do[x])
       ELSE TimedOut(t, x)

(* A child that times out may take its parent off the list.                *)
TimerPass(do) ==
    FoldLeft(LAMBDA s, x : IF Listed(s, x) THEN TimerOne(s, x, do) ELSE s, sd, sd.list)

Expired(do) == {x \in Timed(sd) : do[x] # "stay" /\ sd.q[x].retries = 0
                                   /\ sd.q[x].st # "ReadyToSend"}

(* The timer starts again unless every element has just been given up.     *)
TimerHandler ==
    /\ sd.timer /\ unload # "done"
    /\ \E do \in [Timed(sd) -> SendResult \cup {"stay"}] :
         sd' = [TimerPass(do) EXCEPT !.timer = Range(sd.list) # Expired(do)]
    /\ UNCHANGED <<thr, grow, caPort, client, unload, made>>

-----------------------------------------------------------------------------
(* SdGsaRecvCallback *)

(* The state after the lock is taken for an answer to x.                   *)
Received(x, resp) ==
    IF resp = "BUSY" /\ sd.q[x].retries > 0 THEN SetState(sd, x, "BusyRetryDelay")
    ELSE SetState(sd, x, "ProcessingResponse")

(* A late answer to a query that is not waiting is dropped.                *)
Receive(r) ==
    /\ At(r, "idle") /\ unload # "done"
    /\ \E x \in Range(sd.list), resp \in Response :
         /\ sd.q[x].sent
         /\ IF sd.q[x].st # "WaitingForResult"
            THEN sd' = sd /\ thr' = [thr EXCEPT ![r].pc = "next"]
            ELSE /\ sd' = Received(x, resp)
                 /\ thr' = [thr EXCEPT ![r] = IF sd'.q[x].st = "BusyRetryDelay"
                              THEN [Idle EXCEPT !.pc = "next"]
                              ELSE [pc |-> "coalesced", q |-> x, resp |-> resp, prev |-> 0]]
    /\ UNCHANGED <<grow, caPort, client, unload, made>>

(* After the pieces are put together, with the lock again.  (The answer    *)
(* to the driver's own query writes to the port: without one, it crashes.) *)
Coalesced(r) ==
    LET x == thr[r].q
        resp == thr[r].resp
        s == [SetState(sd, x, "WaitingForResult") EXCEPT !.out = @ - 1]
    IN /\ At(r, "coalesced")
       /\ \/ sd.q[x].st = "QueryDestroy"
             /\ sd' = FreeCancelledQueryElement(sd, x) /\ Goto(r, "next") /\ UNCHANGED caPort
          \/ sd.q[x].st # "QueryDestroy" /\ (resp = "BAD" \/ (sd.q[x].kind = "self" /\ resp # "OK"))
             /\ sd' = SetState(sd, x, "WaitingForResult") /\ Goto(r, "next") /\ UNCHANGED caPort
          \/ sd.q[x].st # "QueryDestroy" /\ sd.q[x].kind = "self" /\ resp = "OK"
             /\ sd' = FreeQueryElement(Unlist(s, x), x) /\ Goto(r, "next")
             /\ caPort # "absent" /\ caPort' = "initialized"
          \/ sd.q[x].st # "QueryDestroy" /\ sd.q[x].kind # "self" /\ resp # "BAD"
             /\ sd' = Answer(s, x, resp)
             /\ Goto(r, IF sd'.q[x].st # "ProcessingResponse" THEN "next"
                        ELSE IF s.q[x].parent # None THEN "lock" ELSE "build")
             /\ UNCHANGED caPort
       /\ UNCHANGED <<grow, client, unload, made>>

(* Mutant: the parent counts one child too few.                            *)
WithChildrenLess(s, p, new) ==
    ScheduleCompletionProcessing(
      [s EXCEPT !.q = [x \in Query |-> IF x \in Range(new)
                         THEN [Free EXCEPT !.st = "ReadyToSend", !.kind = "child", !.parent = p]
                         ELSE @[x]],
                !.q[p].st = "WaitingForChildToComplete", !.q[p].nchild = Len(new) - 1,
                !.kids = @ \o new])
(* BuildSAChildQueriesForPathRecord: the children of parent p.             *)
Child(p) == [Free EXCEPT !.st = "ReadyToSend", !.kind = "child", !.parent = p]
WithChildren(s, p, new) ==
    ScheduleCompletionProcessing(
      [s EXCEPT !.q = [x \in Query |-> IF x \in Range(new) THEN Child(p) ELSE @[x]],
                !.q[p].st = "WaitingForChildToComplete", !.q[p].nchild = Len(new),
                !.kids = @ \o new])

(* The result is built without the lock; then it is the query's, unless    *)
(* the query was cancelled meanwhile.  A path query goes on with children, *)
(* or fails when they cannot be allocated.                                 *)
Built(r) ==
    LET x == thr[r].q
    IN /\ At(r, "build") /\ Goto(r, "next")
       /\ \/ sd.q[x].st = "QueryDestroy" /\ sd' = FreeCancelledQueryElement(sd, x)
          \/ sd.q[x].st # "QueryDestroy" /\ sd' = Complete(sd, x)
          \/ /\ sd.q[x].st # "QueryDestroy" /\ sd.q[x].kind = "path" /\ thr[r].resp = "OK"
             /\ \E n \in 1..MaxChildren : \E new \in [1..n -> {y \in Query : Available(y)}] :
                  IsInjective(new) /\ sd' = WithChildren(sd, x, new)
       /\ UNCHANGED <<grow, caPort, client, unload, made>>

(* Mutant: the mutex is not taken.                                         *)
NoLock(r) ==
    /\ At(r, "lock") /\ UNCHANGED grow
    /\ thr' = [thr EXCEPT ![r].pc = "grow", ![r].prev = sd.q[sd.q[thr[r].q].parent].res]
    /\ UNCHANGED <<sd, caPort, client, unload, made>>
(* SdHandleChildQuery: the records the parent has so far ...               *)
LockParent(r) ==
    /\ At(r, "lock") /\ grow = None /\ grow' = r
    /\ thr' = [thr EXCEPT ![r].pc = "grow", ![r].prev = sd.q[sd.q[thr[r].q].parent].res]
    /\ UNCHANGED <<sd, caPort, client, unload, made>>

(* ... are put behind the child's, unless it has none or there is no       *)
(* memory ...                                                              *)
GrowParent(r) ==
    /\ At(r, "grow") /\ grow' = None /\ Goto(r, "unref")
    /\ LET p == sd.q[thr[r].q].parent
       IN \/ sd' = sd
          \/ thr[r].resp = "OK"
             /\ sd' = [sd EXCEPT !.q[p].res = thr[r].prev + 1, !.q[p].grown = @ + 1]
    /\ UNCHANGED <<caPort, client, unload, made>>

(* ... and the reference to the parent is given up.                        *)
ReleaseParent(r) ==
    LET x == thr[r].q
        p == sd.q[x].parent
        s == [sd EXCEPT !.q[p].cpr = @ - 1]
    IN /\ At(r, "unref") /\ Goto(r, "next")
       /\ sd' = ChildDone(IF s.q[p].st = "QueryDestroy" THEN FreeCancelledQueryElement(s, p)
                          ELSE Counted(s, x), x, FALSE)
       /\ UNCHANGED <<grow, caPort, client, unload, made>>

(* SdSendNextOutstanding: what waits for a place is sent, in order, until  *)
(* there is none.                                                          *)
SendNext(can) ==
    FoldLeft(LAMBDA s, x : IF s.out >= MaxOutstanding \/ s.q[x].st # "ReadyToSend" THEN s
                           ELSE Resend(s, x, can[x]), sd, sd.list)
SdSendNextOutstanding(r) ==
    /\ At(r, "next") /\ Return(r)
    /\ \E can \in [{x \in Range(sd.list) : sd.q[x].st = "ReadyToSend"} -> SendResult] :
         sd' = SendNext(can)
    /\ UNCHANGED <<grow, caPort, client, unload, made>>

-----------------------------------------------------------------------------
(* ProcessCompletionQueue *)

StartWork(w) ==
    /\ At(w, "idle") /\ sd.work
    /\ sd' = [sd EXCEPT !.work = FALSE]
    /\ Goto(w, IF sd.act > MaxChildQuery THEN "completions" ELSE "children")
    /\ UNCHANGED <<grow, caPort, client, unload, made>>

(* ProcessChildQueryQueue: a child whose parent is gone is dropped, the    *)
(* others are sent.                                                        *)
NextChild(w) ==
    /\ At(w, "children")
    /\ IF sd.kids = << >> THEN sd' = sd /\ Goto(w, "completions")
       ELSE LET x == Head(sd.kids)
                s == [sd EXCEPT !.kids = Tail(@)]
            IN IF Listed(sd, sd.q[x].parent)
               THEN sd' = s /\ thr' = [thr EXCEPT ![w] = [Idle EXCEPT !.pc = "reserve", !.q = x]]
               ELSE sd' = FreeQueryElement(s, x) /\ UNCHANGED thr
    /\ UNCHANGED <<grow, caPort, client, unload, made>>

(* The child is counted after it was sent: it may be done by now.          *)
CountChild(w) ==
    /\ At(w, "count") /\ sd' = [sd EXCEPT !.act = @ + 1]
    /\ thr' = [thr EXCEPT ![w] =
                 [Idle EXCEPT !.pc = IF sd.act + 1 > MaxChildQuery THEN "completions" ELSE "children"]]
    /\ UNCHANGED <<grow, caPort, client, unload, made>>

(* The state of an element off the list is read without a lock.            *)
NextCompletion(w) ==
    /\ At(w, "completions")
    /\ \/ sd.comp = << >> /\ sd' = sd /\ Return(w)
       \/ /\ sd.comp # << >> /\ sd' = [sd EXCEPT !.comp = Tail(@)]
          /\ thr' = [thr EXCEPT ![w].q = Head(sd.comp),
                       ![w].pc = IF sd.q[Head(sd.comp)].st = "QueryComplete" THEN "call" ELSE "free"]
    /\ UNCHANGED <<grow, caPort, client, unload, made>>

(* UserCallback or FabOpCallback.                                          *)
UserCallback(w) ==
    /\ At(w, "call") /\ Goto(w, "free") /\ sd' = [sd EXCEPT !.q[thr[w].q].told = @ + 1]
    /\ UNCHANGED <<grow, caPort, client, unload, made>>

FreeCompleted(w) ==
    /\ At(w, "free") /\ sd' = FreeQueryElement(sd, thr[w].q)
    /\ thr' = [thr EXCEPT ![w] = [Idle EXCEPT !.pc = "completions"]]
    /\ UNCHANGED <<grow, caPort, client, unload, made>>

-----------------------------------------------------------------------------
(* A client deregisters *)

Mine(c) == SelectSeq(sd.list, LAMBDA x : sd.q[x].client = c)

CommonSdDeregister(c) ==
    /\ CanDeregister /\ At(c, "idle") /\ client[c] = "registered"
    /\ client' = [client EXCEPT ![c] = "cancelling"] /\ Goto(c, "cancel")
    /\ UNCHANGED <<sd, grow, caPort, unload, made>>

(* Mutant: a query another thread is working on is destroyed like others.  *)
NobodyUses(x) == TRUE
Unused(x) == sd.q[x].st # "ProcessingResponse" /\ sd.q[x].cpr = 0
(* History: a place among the outstanding that nobody will give back.      *)
Leaks(x) == sd.q[x].st = "ProcessingResponse"
            /\ \E r \in Receiver : thr[r].q = x /\ At(r, "coalesced")

(* CancelClientQueries, the query list: one in use is left to its user ... *)
CancelQuery(c) ==
    /\ At(c, "cancel") /\ Mine(c) # << >>
    /\ LET x == Head(Mine(c))
           s == [Unlist(sd, x) EXCEPT !.q[x].client = None]
       IN IF Unused(x) THEN sd' = s /\ thr' = [thr EXCEPT ![c].pc = "cancelled", ![c].q = x]
          ELSE /\ sd' = [s EXCEPT !.q[x].st = "QueryDestroy", !.leaks = @ + IF Leaks(x) THEN 1 ELSE 0]
               /\ UNCHANGED thr
    /\ UNCHANGED <<grow, caPort, client, unload, made>>

(* ... any other goes to the work item, off the list and without the lock. *)
Cancelled(c) ==
    LET x == thr[c].q
    IN /\ At(c, "cancelled")
       /\ sd' = [sd EXCEPT !.q[x].st = "QueryDestroy", !.comp = <<x>> \o @, !.work = TRUE,
                   !.out = IF sd.q[x].st \in {"WaitingForResult", "BusyRetryDelay"} THEN @ - 1 ELSE @]
       /\ thr' = [thr EXCEPT ![c] = [Idle EXCEPT !.pc = "cancel"]]
       /\ UNCHANGED <<grow, caPort, client, unload, made>>

(* Mutant: the cancelled query is still its client's.                      *)
KeepsClient(c) ==
    LET mine == {x \in Range(sd.comp) : sd.q[x].client = c}
    IN /\ At(c, "cancel") /\ Mine(c) = << >>
       /\ sd' = [sd EXCEPT !.q = [x \in Query |-> IF x \in mine
                                    THEN [@[x] EXCEPT !.st = "QueryDestroy"] ELSE @[x]]]
       /\ client' = [client EXCEPT ![c] = "gone"] /\ Return(c)
       /\ UNCHANGED <<grow, caPort, unload, made>>
(* The completion list: what was not reported yet will not be.             *)
CancelCompletions(c) ==
    LET mine == {x \in Range(sd.comp) : sd.q[x].client = c}
    IN /\ At(c, "cancel") /\ Mine(c) = << >>
       /\ sd' = [sd EXCEPT !.work = @ \/ mine # {},
                   !.q = [x \in Query |-> IF x \in mine
                            THEN [@[x] EXCEPT !.client = None, !.st = "QueryDestroy"] ELSE @[x]]]
       /\ client' = [client EXCEPT ![c] = "gone"] /\ Return(c)
       /\ UNCHANGED <<grow, caPort, unload, made>>

-----------------------------------------------------------------------------
(* Ports and unloading *)

(* AddCa and InitializeCaPortInfo: until the port is initialized a valid   *)
(* SM address starts the driver's own query, when there is memory.  A port  *)
(* that goes down keeps SdSMAddressValid: the status tested is that of the *)
(* port query, which succeeded.                                            *)
AddCa ==
    /\ caPort = "absent" /\ unload = "no" /\ caPort' = "down"
    /\ UNCHANGED <<sd, thr, grow, client, unload, made>>
InitializeCaPortInfo ==
    /\ caPort \in {"down", "valid"} /\ unload = "no" /\ caPort' = "valid" /\ At(Boot, "idle")
    /\ \/ made < MaxQueries /\ \E x \in Query : Available(x) /\ SubnetAdmInit(x)
       \/ UNCHANGED <<sd, thr, made>>
    /\ UNCHANGED <<grow, client, unload>>
RemoveCa ==
    /\ caPort # "absent" /\ unload = "no" /\ CaRemoval
    /\ caPort' = "absent" /\ UNCHANGED <<sd, thr, grow, client, unload, made>>

(* Mutant: work items that are running are not waited for.                 *)
DrainedLists == sd.list = << >> /\ sd.comp = << >> /\ sd.kids = << >> /\ ~sd.work
Drained ==
    /\ sd.list = << >> /\ sd.comp = << >> /\ sd.kids = << >> /\ ~sd.work
    /\ \A w \in Worker : At(w, "idle")

(* UnloadDriver: clients are gone by then, no query is taken any more.     *)
UnloadDriver ==
    /\ unload = "no" /\ \A c \in SdClient : client[c] = "gone" /\ At(c, "idle")
    /\ At(Boot, "idle") /\ unload' = "waiting"
    /\ UNCHANGED <<sd, thr, grow, caPort, client, made>>
(* DeRegisterWithGSI waits for the callbacks that are still running.       *)
UnloadDone ==
    /\ unload = "waiting" /\ Drained /\ \A r \in Receiver : At(r, "idle")
    /\ unload' = "done" /\ UNCHANGED <<sd, thr, grow, caPort, client, made>>

SdInit ==
    /\ sd = [q |-> [x \in Query |-> Free], list |-> << >>, comp |-> << >>, kids |-> << >>,
             out |-> 0, act |-> 0, work |-> FALSE, timer |-> FALSE, leaks |-> 0]
    /\ thr = [t \in SdThread |-> Idle] /\ grow = None /\ caPort = "absent"
    /\ client = [c \in SdClient |-> "registered"] /\ unload = "no" /\ made = 0

SendStep(t) == Reserve(t) \/ Over(t) \/ Post(t) \/ StartTimer(t)
ReceiveStep(r) == Coalesced(r) \/ Built(r) \/ LockParent(r) \/ GrowParent(r) \/ ReleaseParent(r)
                  \/ SdSendNextOutstanding(r)
WorkStep(w) == StartWork(w) \/ NextChild(w) \/ SendStep(w) \/ CountChild(w)
               \/ NextCompletion(w) \/ UserCallback(w) \/ FreeCompleted(w)
CancelStep(c) == CancelQuery(c) \/ Cancelled(c) \/ CancelCompletions(c)
SdNext ==
    \/ \E c \in SdClient : (\E k \in Kind : MakeQuery(c, k)) \/ CommonSdDeregister(c)
                           \/ SendStep(c) \/ CancelStep(c)
    \/ \E r \in Receiver : Receive(r) \/ ReceiveStep(r)
    \/ \E w \in Worker : WorkStep(w)
    \/ SendStep(Boot) \/ TimerHandler \/ AddCa \/ InitializeCaPortInfo \/ RemoveCa
    \/ UnloadDriver \/ UnloadDone

(* Threads run on, and the timer fires.  Nothing is assumed of answers.    *)
SdFairness ==
    /\ WF_sdVars(TimerHandler) /\ WF_sdVars(UnloadDone) /\ WF_sdVars(SendStep(Boot))
    /\ \A c \in SdClient : WF_sdVars(SendStep(c)) /\ WF_sdVars(CancelStep(c))
    /\ \A r \in Receiver : WF_sdVars(ReceiveStep(r))
    /\ \A w \in Worker : WF_sdVars(WorkStep(w))
(* A query is not held back for ever: each time its time may be up, it     *)
(* sometimes is.                                                           *)
Elapses(x) == TimerHandler /\ sd'.q[x] # sd.q[x]
SdElapse == \A x \in Query : SF_sdVars(Elapses(x))
SdSpec == SdInit /\ [][SdNext]_sdVars /\ SdFairness /\ SdElapse

-----------------------------------------------------------------------------
(* Properties *)

(* Types, with ChildQueryActive, the count of threads in a parent and      *)
(* RetriesLeft within what was counted into them.                          *)
SdTypeOK ==
    /\ sd.q \in [Query -> [st : QueryState \cup {"FREE"}, kind : {"op", "info", "path", "child", "self"},
                  client : SdClient \cup {None}, parent : Query \cup {None}, nchild : 0..MaxChildren,
                  cpr : 0..Cardinality(Receiver), retries : 0..RetryCount, sent : BOOLEAN,
                  res : 0..MaxChildren, grown : 0..MaxChildren, told : 0..1]]
    /\ sd.out \in Nat /\ sd.act \in Int /\ sd.work \in BOOLEAN /\ sd.timer \in BOOLEAN
    /\ grow \in Receiver \cup {None} /\ unload \in {"no", "waiting", "done"}
    /\ caPort \in {"absent", "down", "valid", "initialized"}

Count(S) == Cardinality(S)
Holding == {"reserve", "over", "post", "cancelled", "call", "free"}
(* Where x is: on a list, with a thread that has it to itself, or left to  *)
(* the receivers that will free it.                                        *)
Holders(x) ==
    Count({<<1, i>> : i \in {j \in DOMAIN sd.list : sd.list[j] = x}})
    + Count({i \in DOMAIN sd.comp : sd.comp[i] = x}) + Count({i \in DOMAIN sd.kids : sd.kids[i] = x})
    + Count({t \in SdThread : thr[t].q = x /\ thr[t].pc \in Holding})
    + (IF sd.q[x].st # "QueryDestroy" THEN 0
       ELSE IF sd.q[x].cpr > 0 THEN 1
       ELSE Count({r \in Receiver : thr[r].q = x /\ thr[r].pc \in {"coalesced", "build"}}))

(* Every query element has exactly one owner and a freed one has none:     *)
(* cancelling, timing out and answering at once neither lose an element    *)
(* nor free it twice, nor free it under a thread that uses it.             *)
HeldOnce == \A x \in Query : Holders(x) = IF Live(x) THEN 1 ELSE 0
NoUseAfterFree ==
    \A r \in Receiver :
        /\ thr[r].pc \in {"coalesced", "build", "lock", "grow", "unref"} => Live(thr[r].q)
        /\ thr[r].pc \in {"lock", "grow", "unref"} => Live(sd.q[thr[r].q].parent)

(* Outstanding counts the queries that wait for an answer, those whose     *)
(* answer is being put together, and those about to be posted; it loses    *)
(* nothing but what a cancel leaves behind while an answer is processed.   *)
OutstandingCounted ==
    sd.out = Count({x \in Query : sd.q[x].st \in {"WaitingForResult", "BusyRetryDelay"}})
             + Count({r \in Receiver : At(r, "coalesced") /\ sd.q[thr[r].q].st = "ProcessingResponse"})
             + Count({t \in SdThread : thr[t].pc \in {"post", "over"}}) + sd.leaks
(* "Max outstanding reached, queuing": no more queries wait for an answer  *)
(* than MaxOutstanding allows, whatever sends at the same time.            *)
OutstandingLimited ==
    Count({x \in Query : sd.q[x].st \in {"WaitingForResult", "BusyRetryDelay"}}) <= MaxOutstanding

(* A parent waits for exactly the children that are not done, and          *)
(* ChildQueryActive comes to the children that were sent.                  *)
ChildrenCounted ==
    /\ \A p \in Range(sd.list) : sd.q[p].st = "WaitingForChildToComplete" =>
         sd.q[p].nchild = Count({x \in Query : sd.q[x].parent = p /\ sd.q[x].st # "QueryDestroy"})
    /\ sd.act = Count({x \in Range(sd.list) : sd.q[x].kind = "child"})
                - Count({w \in Worker : At(w, "count")})
(* No child's records are lost when two answers grow the parent's result.  *)
ResultsComplete ==
    \A p \in Query : sd.q[p].st = "QueryComplete" => sd.q[p].res = sd.q[p].grown

(* When the driver is unloaded nothing of it is in use: an element off all *)
(* lists is with a thread the unloading waited for.                        *)
SafeUnload == unload = "done" => \A x \in Query : ~Live(x)

(* A client's query is freed only after its callback, unless it was        *)
(* cancelled.                                                              *)
AnsweredBeforeFreed ==
    [][\A x \in Query : Live(x) /\ sd.q[x].client # None /\ sd'.q[x].st = "FREE"
                         => sd.q[x].told = 1]_sdVars

(* A query ends: it is answered, timed out or cancelled, and freed.        *)
QueriesEnd == \A x \in Query : Live(x) ~> ~Live(x)

(* "if we remove them from the pQueryList, any subsequent responses will   *)
(* be discarded, same as if the query had timed out" (client.c): a         *)
(* cancelled query gives its place among the outstanding back.             *)
PlacesReturned == (\A x \in Query : ~Live(x)) /\ (\A t \in SdThread : At(t, "idle")) => sd.out = 0
(* "wait for any sys callbacks or outstanding queries to complete/timeout" *)
(* (sdc.c): the driver can be unloaded.                                    *)
UnloadEnds == unload = "waiting" ~> unload = "done"

(* A query is on one list or with one thread, is not touched once freed,   *)
(* and the driver unloads only when none is left.                          *)
QueryHeld == SdTypeOK /\ HeldOnce /\ NoUseAfterFree /\ SafeUnload

(* The counters that let queries out: what is outstanding is counted and   *)
(* limited, a parent counts its children, and with the last of them its    *)
(* results are complete.                                                   *)
QueriesCounted == OutstandingCounted /\ OutstandingLimited /\ ChildrenCounted /\ ResultsComplete
=============================================================================
