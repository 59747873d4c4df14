----------------------------- MODULE Subscribe ------------------------------
(***************************************************************************)
(* The subscriptions of the Subnet Driver for one trap on one port         *)
(* (SubnetDriver/subscribe.c).  Clients subscribe and unsubscribe, each    *)
(* from a thread of its own; a TRAP_REFERENCE counts them and keeps at     *)
(* most one operation at the Subnet Administrator (SA); it retries from a  *)
(* timer, and starts over when the port or the Subnet Manager comes back.  *)
(* References for other traps and ports do not touch this one.             *)
(*                                                                         *)
(* External: the SA, the driver's fabric operations as module SdQuery has  *)
(* them (every one is answered or fails; a request whose operation has     *)
(* failed is no longer on its way), and timers as itimer.h states them.    *)
(***************************************************************************)
EXTENDS Integers, Sequences, FiniteSets

CONSTANTS
    Ref,          \* addresses of TRAP_REFERENCEs
    SubClient,    \* clients, each with one thread
    MaxEvents     \* bound: how often the port or the SM goes

ASSUME SubscribeAssumption ==
    MaxEvents \in Nat /\ {"no", "deregister", "drain", "done"} \cap Ref = {}

VARIABLES
    ref,          \* the references
    refList,      \* SubscribedTrapsList: those of this trap and port
    traps,        \* the clients with a CLIENT_TRAP_INFO
    caller,       \* the thread of each client
    subInit,      \* SubscribeInitialized
    term,         \* where SubscribeTerminate is
    sa,           \* whether the SA has the subscription
    port, events, \* the port, and the notifications on their way
    gone,         \* how often the port or the SM has gone
    late, dup     \* history: see SmGone and CreateTrapReference

subVars == <<ref, refList, traps, caller, subInit, term, sa, port, events, gone, late, dup>>

(* op: Flags has OPQUEUED, and what was asked; sd: the operation in the    *)
(* driver, sent or seen by the SA; cb: the timer's callback waits for the  *)
(* lock, or has been stopped while it did.                                 *)
TrapReference ==
    [st : {"free", "listed", "reaper"}, count : Int, sub : BOOLEAN, op : {"none", "sub", "unsub"},
     sd : {"none", "sent", "seen"}, timer : BOOLEAN, cb : {"none", "waits", "stopped"}]
FreeRef == [st |-> "free", count |-> 0, sub |-> FALSE, op |-> "none", sd |-> "none",
            timer |-> FALSE, cb |-> "none"]

-----------------------------------------------------------------------------
(* What is done to a reference r, under SubscribedTrapsListLock *)

TimerStop(r) == [r EXCEPT !.timer = FALSE, !.cb = IF @ = "waits" THEN "stopped" ELSE @]
(* Mutant: the timer is stopped and not started again.                     *)
StopTrapTimer(r) == TimerStop(r)
QueueTrapTimer(r) == IF subInit THEN [TimerStop(r) EXCEPT !.timer = TRUE] ELSE r

(* Both: without memory, or when the driver refuses, the timer tries again.*)
DriverTakes == port = "up" /\ term \in {"no", "deregister"}
IssueTrapSubscribe(r) ==
    {QueueTrapTimer(r)} \cup (IF DriverTakes THEN {[r EXCEPT !.op = "sub", !.sd = "sent"]} ELSE {})
(* Mutant: SUBSCRIBED is left to the response.                             *)
UnSubscribeLater(r) ==
    {QueueTrapTimer(r)} \cup
    (IF DriverTakes THEN {[r EXCEPT !.op = "unsub", !.sd = "sent"]} ELSE {})
IssueTrapUnSubscribe(r) ==
    {QueueTrapTimer(r)} \cup
    (IF DriverTakes THEN {[r EXCEPT !.op = "unsub", !.sd = "sent", !.sub = FALSE]} ELSE {})

(* The reference leaves the list for the reaper.                           *)
Unlisted(r) == [TimerStop(r) EXCEPT !.st = "reaper"]

(* Mutant: an operation that is out is not waited for.                     *)
ProcessAtOnce(r, delay) ==
    CASE r.count # 0 /\ ~r.sub -> IF delay THEN {QueueTrapTimer(r)} ELSE IssueTrapSubscribe(r)
      [] r.count = 0 /\ r.sub  -> IF delay THEN {QueueTrapTimer(r)} ELSE IssueTrapUnSubscribe(r)
      [] r.count = 0 /\ ~r.sub -> {Unlisted(r)}
      [] OTHER                 -> {r}
(* What may become of r.  RefCount is unsigned: below zero it is not zero. *)
ProcessTrapStateChange(r, delay) ==
    CASE r.op # "none"         -> {r}
      [] r.op = "none" /\ r.count # 0 /\ ~r.sub ->
           IF delay THEN {QueueTrapTimer(r)} ELSE IssueTrapSubscribe(r)
      [] r.op = "none" /\ r.count = 0 /\ r.sub ->
           IF delay THEN {QueueTrapTimer(r)} ELSE IssueTrapUnSubscribe(r)
      [] r.op = "none" /\ r.count = 0 /\ ~r.sub -> {Unlisted(r)}
      [] OTHER -> {r}

ListedRefs == {refList[i] : i \in DOMAIN refList}
(* The list keeps those of keep, in the order they had.                    *)
ListKeeps(keep) ==
    /\ refList' \in UNION {[1..n -> Ref] : n \in 0..Len(refList)}
    /\ {refList'[i] : i \in DOMAIN refList'} = ListedRefs \cap keep
    /\ \A i, j \in DOMAIN refList' : i < j =>
         \E k, l \in DOMAIN refList : k < l /\ refList[k] = refList'[i] /\ refList[l] = refList'[j]

(* The reference x becomes one of rs, and leaves the list if it is to.     *)
Becomes(x, rs) ==
    \E r \in rs :
        /\ ref' = [ref EXCEPT ![x] = r]
        /\ IF r.st = "reaper" /\ ref[x].st = "listed" THEN ListKeeps(Ref \ {x})
           ELSE UNCHANGED refList

-----------------------------------------------------------------------------
(* Clients *)

Goes(c, pc) == caller' = [caller EXCEPT ![c] = pc]

(* iba_sd_trap_notice_subscribe; a second time is FDUPLICATE.              *)
iba_sd_trap_notice_subscribe(c) ==
    /\ caller[c] = "idle" /\ c \notin traps /\ term = "no"
    /\ Goes(c, "insert")
    /\ UNCHANGED <<ref, refList, traps, subInit, term, sa, port, events, gone, late, dup>>
InsertClientTrap(c) ==
    /\ caller[c] = "insert"
    /\ \/ traps' = traps \cup {c} /\ Goes(c, "find")
       \/ UNCHANGED traps /\ Goes(c, "idle")
    /\ UNCHANGED <<ref, refList, subInit, term, sa, port, events, gone, late, dup>>

(* IncrementTrapUsageCount looks for the reference ...                     *)
IncrementTrapUsageCount(c) ==
    /\ caller[c] = "find"
    /\ IF ~subInit THEN Goes(c, "undo") /\ UNCHANGED <<ref, refList>>
       ELSE IF refList = << >> THEN Goes(c, "create") /\ UNCHANGED <<ref, refList>>
       ELSE LET x == Head(refList) IN
            /\ Becomes(x, ProcessTrapStateChange([ref[x] EXCEPT !.count = @ + 1], TRUE))
            /\ Goes(c, "idle")
    /\ UNCHANGED <<traps, subInit, term, sa, port, events, gone, late, dup>>
(* ... and makes one, which by now may not be the only one.                *)
CreateTrapReference(c) ==
    /\ caller[c] = "create"
    /\ \/ \E x \in Ref :
            /\ ref[x].st = "free"
            /\ ref' = [ref EXCEPT ![x] = QueueTrapTimer([FreeRef EXCEPT !.st = "listed", !.count = 1])]
            /\ refList' = Append(refList, x) /\ dup' = (dup \/ refList # << >>)
            /\ Goes(c, "idle")
       \/ Goes(c, "undo") /\ UNCHANGED <<ref, refList, dup>>
    /\ UNCHANGED <<traps, subInit, term, sa, port, events, gone, late>>
(* Mutant: what was not counted is taken off the count.                    *)
UndoCounts(c) ==
    /\ caller[c] = "undo"
    /\ traps' = traps \ {c} /\ Goes(c, "decrement")
    /\ UNCHANGED <<ref, refList, subInit, term, sa, port, events, gone, late, dup>>
UndoSubscribe(c) ==
    /\ caller[c] = "undo"
    /\ traps' = traps \ {c} /\ Goes(c, "idle")
    /\ UNCHANGED <<ref, refList, subInit, term, sa, port, events, gone, late, dup>>

(* iba_sd_trap_notice_unsubscribe, and UnsubscribeClient of a client that  *)
(* deregisters.                                                            *)
iba_sd_trap_notice_unsubscribe(c) ==
    /\ caller[c] = "idle" /\ c \in traps /\ term = "no"
    /\ traps' = traps \ {c} /\ Goes(c, "decrement")
    /\ UNCHANGED <<ref, refList, subInit, term, sa, port, events, gone, late, dup>>
(* Mutant: the count is taken down and nothing follows from it.            *)
OnlyDecrement(c) ==
    /\ caller[c] = "decrement"
    /\ IF refList = << >> THEN UNCHANGED <<ref, refList>>
       ELSE ref' = [ref EXCEPT ![Head(refList)].count = @ - 1] /\ UNCHANGED refList
    /\ Goes(c, "idle")
    /\ UNCHANGED <<traps, subInit, term, sa, port, events, gone, late, dup>>
DecrementTrapUsageCount(c) ==
    /\ caller[c] = "decrement"
    /\ IF refList = << >> THEN UNCHANGED <<ref, refList>>
       ELSE LET x == Head(refList) IN
            Becomes(x, ProcessTrapStateChange([ref[x] EXCEPT !.count = @ - 1], FALSE))
    /\ Goes(c, "idle")
    /\ UNCHANGED <<traps, subInit, term, sa, port, events, gone, late, dup>>

-----------------------------------------------------------------------------
(* Timer, response, reaper *)

TimerFires(x) ==
    /\ ref[x].timer /\ ref[x].cb = "none"
    /\ ref' = [ref EXCEPT ![x].timer = FALSE, ![x].cb = "waits"]
    /\ UNCHANGED <<refList, traps, caller, subInit, term, sa, port, events, gone, late, dup>>
TrapTimerCallback(x) ==
    /\ ref[x].cb # "none"
    /\ LET r == [ref[x] EXCEPT !.cb = "none"]
       IN Becomes(x, IF ref[x].cb = "stopped" THEN {r} ELSE ProcessTrapStateChange(r, FALSE))
    /\ UNCHANGED <<traps, caller, subInit, term, sa, port, events, gone, late, dup>>

SaProcesses(x) ==
    /\ ref[x].sd = "sent" /\ port = "up"
    /\ sa' = (ref[x].op = "sub")
    /\ ref' = [ref EXCEPT ![x].sd = "seen"]
    /\ UNCHANGED <<refList, traps, caller, subInit, term, port, events, gone, late, dup>>

(* The operation fails, or its answer comes.  During the shutdown nothing  *)
(* of the reference is touched.                                            *)
ProcessTrapSubscribeResponse(x, ok) ==
    /\ ref[x].sd # "none" /\ (ok => ref[x].sd = "seen")
    /\ IF ~subInit THEN ref' = [ref EXCEPT ![x].sd = "none"] /\ UNCHANGED refList
       ELSE LET r == [ref[x] EXCEPT !.sd = "none", !.op = "none",
                                    !.sub = @ \/ (ok /\ ref[x].op = "sub")]
            IN Becomes(x, ProcessTrapStateChange(r, ~ok))
    /\ UNCHANGED <<traps, caller, subInit, term, sa, port, events, gone, late, dup>>

(* TimerDestroy waits for the callback.                                    *)
ReapTrapReference(x) ==
    /\ ref[x].st = "reaper" /\ ref[x].cb = "none"
    /\ ref' = [ref EXCEPT ![x] = FreeRef]
    /\ UNCHANGED <<refList, traps, caller, subInit, term, sa, port, events, gone, late, dup>>

-----------------------------------------------------------------------------
(* The port and the Subnet Manager *)

(* An answer that the SA has given before it went is late.                 *)
SmGone ==
    /\ late' = (late \/ \E x \in Ref : ref[x].sd = "seen")
    /\ sa' = FALSE /\ gone' = gone + 1 /\ gone < MaxEvents
SmRestart ==
    /\ port = "up" /\ SmGone /\ events' = Append(events, "reregister")
    /\ UNCHANGED <<ref, refList, traps, caller, subInit, term, port, dup>>
PortDown ==
    /\ port = "up" /\ port' = "down" /\ SmGone /\ events' = Append(events, "invalidate")
    /\ UNCHANGED <<ref, refList, traps, caller, subInit, term, dup>>
PortUp ==
    /\ port = "down" /\ port' = "up" /\ events' = Append(events, "reregister")
    /\ UNCHANGED <<ref, refList, traps, caller, subInit, term, sa, gone, late, dup>>

(* For the port going down, and first of all to register again.            *)
InvalidatePortTrapSubscriptions ==
    /\ events # << >> /\ Head(events) \in {"invalidate", "reregister"}
    /\ ref' = [x \in Ref |-> IF x \in ListedRefs THEN [ref[x] EXCEPT !.sub = FALSE] ELSE ref[x]]
    /\ events' = IF Head(events) = "reregister" THEN [events EXCEPT ![1] = "process"] ELSE Tail(events)
    /\ UNCHANGED <<refList, traps, caller, subInit, term, sa, port, gone, late, dup>>
(* All with a delay, so nothing is issued here.                            *)
ReRegisterTrapSubscriptions ==
    /\ events # << >> /\ Head(events) = "process" /\ events' = Tail(events)
    /\ ref' = [x \in Ref |-> IF x \in ListedRefs THEN CHOOSE r \in ProcessTrapStateChange(ref[x], TRUE) : TRUE
                             ELSE ref[x]]
    /\ ListKeeps({x \in Ref : ref'[x].st = "listed"})
    /\ UNCHANGED <<traps, caller, subInit, term, sa, port, gone, late, dup>>

-----------------------------------------------------------------------------
(* SubscribeTerminate, when no client is calling *)

SubscribeTerminate ==
    /\ term = "no" /\ \A c \in SubClient : caller[c] = "idle"
    /\ subInit' = FALSE /\ term' = "deregister"
    /\ UNCHANGED <<ref, refList, traps, caller, sa, port, events, gone, late, dup>>
(* iba_sd_deregister: the operations are cancelled.                        *)
SdDeregister ==
    /\ term = "deregister" /\ term' = "drain"
    /\ ref' = [x \in Ref |-> [ref[x] EXCEPT !.sd = "none"]]
    /\ UNCHANGED <<refList, traps, caller, subInit, sa, port, events, gone, late, dup>>
RemoveReference ==
    /\ term = "drain"
    /\ IF refList = << >> THEN term' = "done" /\ UNCHANGED <<ref, refList>>
       ELSE /\ term' = Head(refList) /\ refList' = Tail(refList)
            /\ ref' = [ref EXCEPT ![Head(refList)] = TimerStop(@)]
    /\ UNCHANGED <<traps, caller, subInit, sa, port, events, gone, late, dup>>
(* TimerDestroy, outside of the lock, waits for the callback.              *)
DestroyReference ==
    /\ term \in Ref /\ ref[term].cb = "none"
    /\ ref' = [ref EXCEPT ![term] = FreeRef] /\ term' = "drain"
    /\ UNCHANGED <<refList, traps, caller, subInit, sa, port, events, gone, late, dup>>

SubscribeInitialize ==
    /\ ref = [x \in Ref |-> FreeRef] /\ refList = << >> /\ traps = {}
    /\ caller = [c \in SubClient |-> "idle"] /\ subInit = TRUE /\ term = "no"
    /\ sa = FALSE /\ port = "up" /\ events = << >> /\ gone = 0 /\ late = FALSE /\ dup = FALSE

Event == term # "done" /\ (InvalidatePortTrapSubscriptions \/ ReRegisterTrapSubscriptions)
CallerStep(c) ==
    \/ InsertClientTrap(c) \/ IncrementTrapUsageCount(c) \/ CreateTrapReference(c)
    \/ UndoSubscribe(c) \/ DecrementTrapUsageCount(c)
RefStep(x) ==
    \/ TimerFires(x) \/ TrapTimerCallback(x) \/ SaProcesses(x) \/ ReapTrapReference(x)
    \/ \E ok \in BOOLEAN : ProcessTrapSubscribeResponse(x, ok)
SubscribeNext ==
    \/ \E c \in SubClient : \/ iba_sd_trap_notice_subscribe(c) \/ iba_sd_trap_notice_unsubscribe(c)
                            \/ CallerStep(c)
    \/ \E x \in Ref : RefStep(x)
    \/ SmRestart \/ PortDown \/ PortUp \/ Event
    \/ SubscribeTerminate \/ SdDeregister \/ RemoveReference \/ DestroyReference

(* Threads run on and timers fire; the port comes back; what is tried      *)
(* again and again is sent and answered in the end.                        *)
Succeeds(x) == ProcessTrapSubscribeResponse(x, TRUE)
Issued(x) == TrapTimerCallback(x) /\ ref'[x].op # "none"
SubscribeFairness ==
    /\ WF_subVars(Event) /\ WF_subVars(PortUp)
    /\ \A c \in SubClient : WF_subVars(CallerStep(c))
    /\ \A x \in Ref : /\ WF_subVars(TimerFires(x)) /\ WF_subVars(TrapTimerCallback(x))
                      /\ WF_subVars(\E ok \in BOOLEAN : ProcessTrapSubscribeResponse(x, ok))
                      /\ SF_subVars(Issued(x)) /\ SF_subVars(SaProcesses(x)) /\ SF_subVars(Succeeds(x))
SubscribeSpec == SubscribeInitialize /\ [][SubscribeNext]_subVars /\ SubscribeFairness

-----------------------------------------------------------------------------
(* Properties *)

(* Types; RefCount does not pass below zero, unless two clients have made  *)
(* a reference each.                                                       *)
SubscribeTypeOK ==
    /\ ref \in [Ref -> TrapReference] /\ (~dup => \A x \in Ref : ref[x].count >= 0)
    /\ refList \in Seq(Ref) /\ traps \subseteq SubClient
    /\ caller \in [SubClient -> {"idle", "insert", "find", "create", "undo", "decrement"}]
    /\ term \in {"no", "deregister", "drain", "done"} \cup Ref

(* RefCount is the number of clients that hold a subscription, counting    *)
(* those on their way to give it up and not those on their way to get it,  *)
(* unless two clients have made a reference each.                          *)
Counts(c) == (c \in traps /\ caller[c] = "idle") \/ caller[c] = "decrement"
RefCountIsClients ==
    term = "no" /\ ~dup =>
        Cardinality({c \in SubClient : Counts(c)}) = IF refList = << >> THEN 0 ELSE ref[Head(refList)].count

(* A reference that is not yet as it should be is not forgotten: it has an *)
(* operation out, a timer running, or news of the port on its way.         *)
Settled(r) == r.count # 0 /\ r.sub
NeverForgotten ==
    \A x \in ListedRefs : LET r == ref[x] IN
        subInit => \/ Settled(r) \/ (r.op # "none" /\ r.sd # "none") \/ r.timer \/ r.cb = "waits"
                   \/ events # << >> \/ port = "down"

(* At most one operation is out for the trap (the order at the SA depends  *)
(* on it), unless two clients have made a reference each.                  *)
OneOperation == ~dup => Cardinality({x \in Ref : ref[x].sd # "none"}) <= 1

Quiet == /\ events = << >> /\ port = "up"
         /\ \A x \in Ref : ref[x].sd = "none" /\ ~ref[x].timer /\ ref[x].cb = "none"
Believed == \E x \in ListedRefs : ref[x].sub
(* When nothing is on its way, a trap that is marked as subscribed is      *)
(* subscribed at the SA, whatever the port and the SM did, unless an       *)
(* answer of the SA that has gone came in late.                            *)
SubscribedAtSa == Quiet /\ ~late /\ ~dup /\ Believed => sa

(* A reference that was freed is in no list, with no timer, callback or    *)
(* operation that would come back to it; one with the reaper has no        *)
(* operation.                                                              *)
NoRefUseAfterFree ==
    \A x \in Ref :
        /\ ref[x].st = "free" => x \notin ListedRefs /\ ref[x] = FreeRef
        /\ ref[x].st = "reaper" => x \notin ListedRefs /\ ref[x].sd = "none" /\ ~ref[x].timer

(* A trap some client keeps its subscription for is subscribed at the SA   *)
(* in the end, and stays so.                                               *)
SubscribesInTheEnd ==
    (\E c \in SubClient : <>[](c \in traps /\ term = "no")) => <>[](sa \/ late \/ dup)

(* "it handles SM restarts, port down/up ... and retries the subscription  *)
(* as needed to maintain it" (subscribe.c).                                *)
SubscriptionMaintained == Quiet /\ ~dup /\ Believed => sa

(* "This ensures there is no more than one op outstanding for a trap"      *)
(* (subscribe.c).                                                          *)
OneOpOutstanding == Cardinality({x \in Ref : ref[x].sd # "none"}) <= 1

(* The reference of a trap counts its clients, is kept while there is one  *)
(* or something to undo at the SA, and is not touched once freed.          *)
ReferenceKept ==
    SubscribeTypeOK /\ RefCountIsClients /\ NeverForgotten /\ NoRefUseAfterFree

(* A reference has one operation under way at a time, so that what the     *)
(* driver believes subscribed is subscribed at the SA.                     *)
SaFollows == OneOperation /\ SubscribedAtSa
=============================================================================
