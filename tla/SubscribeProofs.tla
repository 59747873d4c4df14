-------------------------- MODULE SubscribeProofs ---------------------------
(***************************************************************************)
(* ReferenceKept and SaFollows for any clients, any number of references   *)
(* and any number of failures.  SubInv says what a reference is at each    *)
(* stage of its life (RefOK), which ones are listed (ListOK), that what    *)
(* is not settled is awake (Awake, EventsOK), and what the mark of a       *)
(* subscription is worth (SaKnown).                                        *)
(***************************************************************************)
EXTENDS Subscribe, FiniteSetTheorems, TLAPS

Term == {"no", "deregister", "drain", "done"}
Calls == {"idle", "insert", "find", "create", "undo", "decrement"}
News == {"invalidate", "reregister", "process"}
STypes ==
    /\ ref \in [Ref -> TrapReference] /\ refList \in Seq(Ref) /\ traps \subseteq SubClient
    /\ caller \in [SubClient -> Calls] /\ term \in Term \cup Ref /\ events \in Seq(News)
    /\ subInit \in BOOLEAN /\ sa \in BOOLEAN /\ late \in BOOLEAN /\ dup \in BOOLEAN
    /\ port \in {"up", "down"}

(* A reference at each stage of its life.                                  *)
RefOK(r) ==
    /\ r.st = "free" => r = FreeRef
    /\ r.st = "reaper" => r.count = 0 /\ r.op = "none" /\ r.sd = "none" /\ ~r.timer /\ r.cb # "waits"
    /\ r.sd # "none" => r.op # "none"
    /\ r.op # "none" => ~r.sub
Distinct == \A i, j \in DOMAIN refList : refList[i] = refList[j] => i = j
Single == \A i \in DOMAIN refList : i = 1
ListOK ==
    /\ Distinct
    /\ ~dup => Single
    /\ \A x \in Ref : /\ (ref[x].st = "listed") = (x \in ListedRefs \/ term = x)
                      /\ x \in ListedRefs => term # x
                      /\ ref[x].sd # "none" => x \in ListedRefs
                      /\ term = x => ~ref[x].timer /\ ref[x].cb # "waits"
                      /\ subInit /\ ref[x].op # "none" => ref[x].sd # "none"
TermOK ==
    /\ subInit = (term = "no")
    /\ term # "no" => \A c \in SubClient : caller[c] = "idle"
    /\ term \notin {"no", "deregister"} => \A x \in Ref : ref[x].sd = "none"
CallersOK ==
    \A c \in SubClient : /\ caller[c] \in {"insert", "decrement"} => c \notin traps
                         /\ caller[c] \in {"find", "create", "undo"} => c \in traps
Counted == {c \in SubClient : Counts(c)}
CountOK ==
    /\ IsFiniteSet(Counted) /\ RefCountIsClients
    /\ ~dup => \A x \in Ref : ref[x].count >= 0
EventsOK == port = "up" /\ events # << >> => events[Len(events)] # "invalidate"
SaKnown ==
    ~late /\ ~dup => \A x \in Ref :
        /\ ref[x].sd = "seen" /\ ref[x].op = "sub" => sa
        /\ ref[x].sub /\ x \in ListedRefs => sa \/ \E i \in DOMAIN events : events[i] # "process"
SubInv ==
    /\ STypes /\ (\A x \in Ref : RefOK(ref[x])) /\ ListOK /\ TermOK /\ CallersOK
    /\ CountOK /\ NeverForgotten /\ EventsOK /\ SaKnown

-----------------------------------------------------------------------------
(* References *)

(* The fields of a reference.                                              *)
LEMMA RefFields ==
    ASSUME NEW r \in TrapReference
    PROVE  /\ r.st \in {"free", "listed", "reaper"} /\ r.count \in Int /\ r.sub \in BOOLEAN
           /\ r.op \in {"none", "sub", "unsub"} /\ r.sd \in {"none", "sent", "seen"}
           /\ r.timer \in BOOLEAN /\ r.cb \in {"none", "waits", "stopped"}
  BY DEF TrapReference

LEMMA FreeRefFields ==
    /\ FreeRef \in TrapReference /\ RefOK(FreeRef) /\ FreeRef.st = "free" /\ FreeRef.count = 0
    /\ FreeRef.sub = FALSE /\ FreeRef.op = "none" /\ FreeRef.sd = "none" /\ FreeRef.timer = FALSE
    /\ FreeRef.cb = "none"
  BY DEF FreeRef, TrapReference, RefOK

(* The timer is stopped; a callback that waits is told.                    *)
LEMMA StopFields ==
    ASSUME NEW r \in TrapReference
    PROVE  LET t == TimerStop(r) IN
           /\ t \in TrapReference /\ t.st = r.st /\ t.count = r.count /\ t.sub = r.sub /\ t.op = r.op
           /\ t.sd = r.sd /\ t.timer = FALSE /\ t.cb # "waits"
  <1> DEFINE b == IF r.cb = "waits" THEN "stopped" ELSE r.cb
  <1>1. b \in {"none", "stopped"}
    BY RefFields
  <1>2. TimerStop(r) = [r EXCEPT !.timer = FALSE, !.cb = b]
    BY DEF TimerStop, TrapReference
  <1> HIDE DEF b
  <1>3. [r EXCEPT !.timer = FALSE, !.cb = b] \in TrapReference
    BY <1>1 DEF TrapReference
  <1> QED BY <1>1, <1>2, <1>3 DEF TrapReference

(* The timer is started over, unless the subscriptions are shut down.      *)
LEMMA QueueFields ==
    ASSUME NEW r \in TrapReference, subInit \in BOOLEAN
    PROVE  LET t == QueueTrapTimer(r) IN
           /\ t \in TrapReference /\ t.st = r.st /\ t.count = r.count /\ t.sub = r.sub /\ t.op = r.op
           /\ t.sd = r.sd /\ (subInit => t.timer) /\ (~subInit => t = r)
  <1>1. CASE ~subInit
    BY <1>1 DEF QueueTrapTimer
  <1>2. CASE subInit
    <2> DEFINE s == TimerStop(r)
    <2>1. /\ s \in TrapReference /\ s.st = r.st /\ s.count = r.count /\ s.sub = r.sub /\ s.op = r.op
          /\ s.sd = r.sd
      BY StopFields
    <2>2. QueueTrapTimer(r) = [s EXCEPT !.timer = TRUE]
      BY <1>2 DEF QueueTrapTimer
    <2> HIDE DEF s
    <2>3. [s EXCEPT !.timer = TRUE] \in TrapReference
      BY <2>1 DEF TrapReference
    <2> QED BY <1>2, <2>1, <2>2, <2>3 DEF TrapReference
  <1> QED BY <1>1, <1>2

(* What may become of a listed reference.                                  *)
Sound(r) == /\ r \in TrapReference /\ r.st = "listed" /\ (r.sd # "none" => r.op # "none")
            /\ (r.op # "none" => ~r.sub)
Awake(r) == Settled(r) \/ r.op # "none" \/ r.timer
Follows(r, q) ==
    /\ q \in TrapReference /\ RefOK(q) /\ q.count = r.count /\ q.st \in {"listed", "reaper"}
    /\ q.st = "reaper" => r.count = 0 /\ q.sub = FALSE
    /\ q.sub => r.sub
    /\ q.op # "none" => q.sd # "none" \/ r.op # "none"
    /\ \/ q.sd = r.sd /\ q.op = r.op
       \/ DriverTakes /\ r.op = "none" /\ q.sd = "sent" /\ q.op # "none"
    /\ subInit /\ q.st = "listed" => Awake(q)

LEMMA QueueFollows ==
    ASSUME subInit \in BOOLEAN, NEW r, Sound(r) PROVE Follows(r, QueueTrapTimer(r))
  <1> DEFINE q == QueueTrapTimer(r)
  <1>1. /\ q \in TrapReference /\ q.st = r.st /\ q.count = r.count /\ q.sub = r.sub /\ q.op = r.op
        /\ q.sd = r.sd /\ (subInit => q.timer)
    BY QueueFields DEF Sound
  <1> HIDE DEF q
  <1>2. RefOK(q)
    BY <1>1 DEF Sound, RefOK
  <1>3. Follows(r, q)
    BY <1>1, <1>2 DEF Sound, Follows, Awake
  <1> QED BY <1>3 DEF q

LEMMA ProcessFollows ==
    ASSUME subInit \in BOOLEAN, NEW r, Sound(r), NEW delay, NEW q \in ProcessTrapStateChange(r, delay)
    PROVE  Follows(r, q)
  <1>0. r \in TrapReference /\ r.sub \in BOOLEAN /\ r.count \in Int
    BY RefFields DEF Sound
  <1>1. ASSUME q = r, Awake(r) PROVE Follows(r, q)
    BY <1>0, <1>1 DEF Sound, Follows, RefOK
  <1>2. ASSUME NEW o \in {"sub", "unsub"}, NEW b \in BOOLEAN, q = [r EXCEPT !.op = o, !.sd = "sent", !.sub = b],
               r.op = "none", b = FALSE, DriverTakes
        PROVE  Follows(r, q)
    <2>1. q \in TrapReference
      BY <1>0, <1>2 DEF TrapReference
    <2>2. q.st = r.st /\ q.count = r.count /\ q.op = o /\ q.sd = "sent" /\ q.sub = FALSE
      BY <1>0, <1>2 DEF TrapReference
    <2>3. RefOK(q)
      BY <2>2 DEF Sound, RefOK
    <2> QED BY <1>2, <2>1, <2>2, <2>3 DEF Sound, Follows, Awake
  <1>3. CASE r.op # "none"
    BY <1>1, <1>3 DEF ProcessTrapStateChange, Awake
  <1>4. CASE r.op = "none" /\ r.count # 0 /\ ~r.sub
    <2>1. q = QueueTrapTimer(r) \/ (q = [r EXCEPT !.op = "sub", !.sd = "sent"] /\ DriverTakes)
      BY <1>4 DEF ProcessTrapStateChange, IssueTrapSubscribe
    <2>2. [r EXCEPT !.op = "sub", !.sd = "sent"] = [r EXCEPT !.op = "sub", !.sd = "sent", !.sub = FALSE]
      BY <1>0, <1>4 DEF TrapReference
    <2> QED BY <1>2, <1>4, <2>1, <2>2, QueueFollows
  <1>5. CASE r.op = "none" /\ r.count = 0 /\ r.sub
    <2>1. q = QueueTrapTimer(r) \/ (q = [r EXCEPT !.op = "unsub", !.sd = "sent", !.sub = FALSE] /\ DriverTakes)
      BY <1>5 DEF ProcessTrapStateChange, IssueTrapUnSubscribe
    <2> QED BY <1>2, <1>5, <2>1, QueueFollows
  <1>6. CASE r.op = "none" /\ r.count = 0 /\ ~r.sub
    <2> DEFINE s == TimerStop(r)
    <2>1. /\ s \in TrapReference /\ s.count = r.count /\ s.sub = r.sub /\ s.op = r.op /\ s.sd = r.sd
          /\ s.timer = FALSE /\ s.cb # "waits"
      BY <1>0, StopFields
    <2>2. q = [s EXCEPT !.st = "reaper"]
      BY <1>6 DEF ProcessTrapStateChange, Unlisted
    <2> HIDE DEF s
    <2>3. q \in TrapReference
      BY <2>1, <2>2 DEF TrapReference
    <2>4. /\ q.st = "reaper" /\ q.count = r.count /\ q.sub = r.sub /\ q.op = r.op /\ q.sd = r.sd
          /\ q.timer = FALSE /\ q.cb # "waits"
      BY <2>1, <2>2 DEF TrapReference
    <2>5. q.sub = FALSE
      BY <1>0, <1>6, <2>4
    <2>6. RefOK(q)
      BY <1>6, <2>4 DEF Sound, RefOK
    <2> QED BY <1>6, <2>3, <2>4, <2>5, <2>6 DEF Sound, Follows
  <1>7. CASE r.op = "none" /\ r.count # 0 /\ r.sub
    <2>1. q = r
      BY <1>7 DEF ProcessTrapStateChange
    <2> QED BY <1>1, <1>7, <2>1 DEF Awake, Settled
  <1> QED BY <1>3, <1>4, <1>5, <1>6, <1>7

-----------------------------------------------------------------------------
(* The list *)

(* What the list keeps.                                                    *)
LEMMA KeepsFacts ==
    ASSUME STypes, ListOK, NEW S, ListKeeps(S)
    PROVE  /\ refList' \in Seq(Ref) /\ ListedRefs' = ListedRefs \cap S
           /\ Distinct'
           /\ ~dup => Single'
  <1>1. PICK n \in 0..Len(refList) : refList' \in [1..n -> Ref]
    BY DEF ListKeeps
  <1>2. refList \in Seq(Ref) /\ Len(refList) \in Nat /\ DOMAIN refList = 1..Len(refList)
    BY DEF STypes
  <1>3. n \in Nat /\ n <= Len(refList) /\ DOMAIN refList' = 1..n /\ refList' \in Seq(Ref)
    BY <1>1, <1>2
  <1>4. ListedRefs' = ListedRefs \cap S
    BY DEF ListKeeps, ListedRefs
  <1>5. ASSUME NEW i \in DOMAIN refList', NEW j \in DOMAIN refList', i < j PROVE refList'[i] # refList'[j]
    <2>1. PICK k \in DOMAIN refList, l \in DOMAIN refList : k < l /\ refList[k] = refList'[i] /\ refList[l] = refList'[j]
      BY <1>5 DEF ListKeeps
    <2>2. k # l
      BY <1>2, <2>1
    <2> QED BY <2>1, <2>2 DEF ListOK, Distinct, Single
  <1>6. ASSUME NEW i \in DOMAIN refList', NEW j \in DOMAIN refList', refList'[i] = refList'[j] PROVE i = j
    <2>1. i \in Nat /\ j \in Nat
      BY <1>3
    <2>2. ~(i < j) /\ ~(j < i)
      BY <1>5, <1>6
    <2> QED BY <2>1, <2>2
  <1>7. ASSUME ~dup, NEW i \in DOMAIN refList' PROVE i = 1
    <2>1. i \in 1..n
      BY <1>3
    <2>2. i \in DOMAIN refList
      BY <1>2, <1>3, <2>1
    <2> QED BY <1>7, <2>2 DEF ListOK, Distinct, Single
  <1> QED BY <1>3, <1>4, <1>6, <1>7 DEF Distinct, Single

(* The first of the list.                                                  *)
LEMMA HeadListed ==
    ASSUME STypes, refList # << >>
    PROVE  Head(refList) \in Ref /\ Head(refList) \in ListedRefs /\ 1 \in DOMAIN refList /\ Head(refList) = refList[1]
  BY DEF STypes, ListedRefs
LEMMA NoneListed == ASSUME STypes PROVE (refList = << >>) = (ListedRefs = {})
  <1>1. refList \in Seq(Ref) /\ DOMAIN refList = 1..Len(refList) /\ Len(refList) \in Nat
    BY DEF STypes
  <1>2. refList = << >> => ListedRefs = {}
    BY DEF ListedRefs
  <1>3. refList # << >> => ListedRefs # {}
    BY HeadListed
  <1> QED BY <1>2, <1>3
(* Unless there are two references, the list has one.                      *)
LEMMA OneListed ==
    ASSUME STypes, ListOK, ~dup, NEW x \in ListedRefs
    PROVE  x = Head(refList) /\ refList # << >> /\ ListedRefs = {x}
  <1>1. PICK i \in DOMAIN refList : refList[i] = x
    BY DEF ListedRefs
  <1>2. refList \in Seq(Ref) /\ refList # << >> /\ i = 1
    BY <1>1 DEF STypes, ListOK, Distinct, Single
  <1>3. \A j \in DOMAIN refList : refList[j] = x
    BY <1>1, <1>2 DEF ListOK, Distinct, Single
  <1> QED BY <1>1, <1>2, <1>3 DEF ListedRefs

-----------------------------------------------------------------------------
(* Steps of one reference *)

(* A reference that is not forgotten.                                      *)
Minded(r, e, p) == \/ Settled(r) \/ (r.op # "none" /\ r.sd # "none") \/ r.timer \/ r.cb = "waits"
                   \/ e # << >> \/ p = "down"
(* What is known of the SA by the marks of r, which is listed if l.        *)
Marks(r, l, s) ==
    /\ r.sd = "seen" /\ r.op = "sub" => s
    /\ r.sub /\ l => s \/ \E i \in DOMAIN events : events[i] # "process"

(* The reference x becomes q; the others stay as they are.                 *)
LEMMA OneRefStep ==
    ASSUME SubInv, NEW x \in Ref, NEW q \in TrapReference, ref' = [ref EXCEPT ![x] = q], RefOK(q),
           refList' \in Seq(Ref),
           Distinct',
           ~dup' => Single',
           \A y \in Ref \ {x} : ((y \in ListedRefs') = (y \in ListedRefs)) /\ ((term' = y) = (term = y)),
           x \in ListedRefs' => term' # x,
           (q.st = "listed") = (x \in ListedRefs' \/ term' = x),
           q.sd # "none" => x \in ListedRefs',
           term' = x => ~q.timer /\ q.cb # "waits",
           subInit /\ q.op # "none" => q.sd # "none",
           UNCHANGED <<subInit, port, events, late>>,
           term' \in Term \cup Ref, (term' = "no") = (term = "no"),
           term' \notin {"no", "deregister"} => term \notin {"no", "deregister"} /\ q.sd = "none",
           caller' \in [SubClient -> Calls], traps' \subseteq SubClient, sa' \in BOOLEAN, dup' \in BOOLEAN,
           dup => dup', term # "no" => UNCHANGED caller, CallersOK',
           IsFiniteSet(Counted'), RefCountIsClients', ~dup' => q.count >= 0,
           x \in ListedRefs' /\ subInit => Minded(q, events, port),
           ~late /\ ~dup' => Marks(q, x \in ListedRefs', sa'),
           sa' = sa \/ (~dup' => ListedRefs' \subseteq {x})
    PROVE  SubInv'
  <1>1. ref' \in [Ref -> TrapReference] /\ ref'[x] = q /\ \A y \in Ref \ {x} : ref'[y] = ref[y]
    BY DEF SubInv, STypes
  <1>2. STypes'
    BY <1>1 DEF SubInv, STypes
  <1>3. \A y \in Ref : RefOK(ref'[y])
    BY <1>1 DEF SubInv
  <1>4. ListOK'
    <2>1. /\ (ref'[x].st = "listed") = (x \in ListedRefs' \/ term' = x)
          /\ x \in ListedRefs' => term' # x
          /\ ref'[x].sd # "none" => x \in ListedRefs'
          /\ term' = x => ~ref'[x].timer /\ ref'[x].cb # "waits"
          /\ subInit' /\ ref'[x].op # "none" => ref'[x].sd # "none"
      BY <1>1
    <2>2. ASSUME NEW y \in Ref, y # x
          PROVE  /\ (ref'[y].st = "listed") = (y \in ListedRefs' \/ term' = y)
                 /\ y \in ListedRefs' => term' # y
                 /\ ref'[y].sd # "none" => y \in ListedRefs'
                 /\ term' = y => ~ref'[y].timer /\ ref'[y].cb # "waits"
                 /\ subInit' /\ ref'[y].op # "none" => ref'[y].sd # "none"
      <3>1. ref'[y] = ref[y] /\ ((y \in ListedRefs') = (y \in ListedRefs)) /\ ((term' = y) = (term = y)) /\ subInit' = subInit
        BY <1>1, <2>2
      <3>2. /\ (ref[y].st = "listed") = (y \in ListedRefs \/ term = y)
            /\ y \in ListedRefs => term # y
            /\ ref[y].sd # "none" => y \in ListedRefs
            /\ term = y => ~ref[y].timer /\ ref[y].cb # "waits"
            /\ subInit /\ ref[y].op # "none" => ref[y].sd # "none"
        BY DEF SubInv, ListOK
      <3> HIDE DEF ListedRefs
      <3> QED BY <3>1, <3>2
    <2> QED BY <2>1, <2>2 DEF ListOK
  <1>5. TermOK'
    <2>1. subInit' = (term' = "no")
      BY DEF SubInv, TermOK
    <2>2. term' # "no" => \A c \in SubClient : caller'[c] = "idle"
      BY DEF SubInv, TermOK
    <2>3. term' \notin {"no", "deregister"} => \A y \in Ref : ref'[y].sd = "none"
      BY <1>1 DEF SubInv, TermOK
    <2> QED BY <2>1, <2>2, <2>3 DEF TermOK
  <1>6. CountOK'
    <2>1. ~dup' => \A y \in Ref : ref'[y].count >= 0
      BY <1>1 DEF SubInv, CountOK
    <2> QED BY <2>1 DEF CountOK
  <1>7. NeverForgotten'
    <2>1. ASSUME NEW y \in ListedRefs', subInit' PROVE Minded(ref'[y], events', port')
      <3>1. y \in Ref
        BY <2>1, <1>2 DEF ListedRefs, STypes
      <3>2. CASE y = x
        BY <1>1, <2>1, <3>2 DEF Minded, Settled
      <3>3. CASE y # x
        <4>1. y \in ListedRefs /\ ref'[y] = ref[y] /\ subInit
          BY <1>1, <2>1, <3>1, <3>3
        <4>2. Minded(ref[y], events, port)
          BY <4>1 DEF SubInv, NeverForgotten, Minded
        <4> QED BY <4>1, <4>2 DEF Minded, Settled
      <3> QED BY <3>2, <3>3
    <2> QED BY <2>1 DEF NeverForgotten, Minded
  <1>8. EventsOK'
    BY DEF SubInv, EventsOK
  <1>9. SaKnown'
    <2>1. ASSUME ~late, ~dup', NEW y \in Ref
          PROVE  Marks(ref'[y], y \in ListedRefs', sa')
      <3>1. CASE y = x
        BY <1>1, <2>1, <3>1
      <3>2. CASE y # x
        <4>1. ref'[y] = ref[y] /\ ((y \in ListedRefs') = (y \in ListedRefs))
          BY <1>1, <2>1, <3>2
        <4>2. Marks(ref[y], y \in ListedRefs, sa)
          BY <2>1 DEF SubInv, SaKnown, Marks
        <4>3. ref[y].sd # "none" => y \in ListedRefs
          BY DEF SubInv, ListOK
        <4>4. CASE sa' = sa
          BY <4>1, <4>2, <4>4 DEF Marks
        <4>5. CASE ListedRefs' \subseteq {x}
          <5>1. y \notin ListedRefs' /\ y \notin ListedRefs
            BY <3>2, <4>1, <4>5
          <5> QED BY <4>1, <4>3, <5>1 DEF Marks
        <4> QED BY <2>1, <4>4, <4>5
      <3> QED BY <3>1, <3>2
    <2>2. ASSUME ~late', ~dup', NEW y \in Ref
          PROVE  /\ ref'[y].sd = "seen" /\ ref'[y].op = "sub" => sa'
                 /\ ref'[y].sub /\ y \in ListedRefs' => sa' \/ \E i \in DOMAIN events' : events'[i] # "process"
      BY <2>1, <2>2 DEF Marks
    <2> QED BY <2>2 DEF SaKnown
  <1> QED BY <1>2, <1>3, <1>4, <1>5, <1>6, <1>7, <1>8, <1>9 DEF SubInv

(* The clients are counted as before.                                      *)
LEMMA CountStays ==
    ASSUME SubInv, NEW x \in Ref, NEW q \in TrapReference, ref' = [ref EXCEPT ![x] = q], UNCHANGED <<caller, traps, term, dup>>,
           \/ UNCHANGED refList /\ (x \in ListedRefs => q.count = ref[x].count)
           \/ /\ refList' \in Seq(Ref) /\ x \in ListedRefs /\ ListedRefs' = ListedRefs \ {x}
              /\ ref[x].count = 0
    PROVE  IsFiniteSet(Counted') /\ RefCountIsClients'
  <1>1. Counted' = Counted
    BY DEF Counted, Counts
  <1>2. ref' \in [Ref -> TrapReference] /\ ref'[x] = q /\ \A y \in Ref \ {x} : ref'[y] = ref[y]
    BY DEF SubInv, STypes
  <1>3. IsFiniteSet(Counted')
    BY <1>1 DEF SubInv, CountOK
  <1>4. ASSUME term' = "no", ~dup'
        PROVE  Cardinality(Counted') = IF refList' = << >> THEN 0 ELSE ref'[Head(refList')].count
    <2>1. Cardinality(Counted) = IF refList = << >> THEN 0 ELSE ref[Head(refList)].count
      BY <1>4 DEF SubInv, CountOK, RefCountIsClients, Counted
    <2>2. CASE UNCHANGED refList /\ (x \in ListedRefs => q.count = ref[x].count)
      <3>1. refList # << >> => Head(refList) \in Ref /\ Head(refList) \in ListedRefs
        BY HeadListed DEF SubInv
      <3>2. refList # << >> => ref'[Head(refList)].count = ref[Head(refList)].count
        BY <1>2, <2>2, <3>1
      <3> QED BY <1>1, <2>1, <2>2, <3>2
    <2>3. CASE refList' \in Seq(Ref) /\ x \in ListedRefs /\ ListedRefs' = ListedRefs \ {x} /\ ref[x].count = 0
      <3>1. x = Head(refList) /\ refList # << >> /\ ListedRefs = {x}
        BY <1>4, <2>3, OneListed DEF SubInv
      <3>2. ListedRefs' = {}
        BY <2>3, <3>1
      <3>3. refList' = << >>
        <4>1. refList' # << >> => refList'[1] \in ListedRefs'
          BY <2>3 DEF ListedRefs
        <4> QED BY <3>2, <4>1
      <3> QED BY <1>1, <2>1, <2>3, <3>1, <3>3
    <2> QED BY <2>2, <2>3
  <1> QED BY <1>3, <1>4 DEF RefCountIsClients, Counted

(* A listed reference.                                                     *)
LEMMA Listed ==
    ASSUME SubInv, NEW x \in ListedRefs
    PROVE  /\ x \in Ref /\ ref[x] \in TrapReference /\ ref[x].st = "listed" /\ term # x /\ RefOK(ref[x])
           /\ Sound(ref[x])
  <1>1. x \in Ref
    BY DEF SubInv, STypes, ListedRefs
  <1>2. ref[x] \in TrapReference /\ ref[x].st = "listed" /\ term # x /\ RefOK(ref[x])
    BY <1>1 DEF SubInv, STypes, ListOK
  <1> QED BY <1>1, <1>2 DEF Sound, RefOK

(* ProcessTrapStateChange of r, which a listed reference has become.       *)
LEMMA ProcessedStep ==
    ASSUME SubInv, NEW x \in ListedRefs, NEW r, Sound(r), NEW delay, Becomes(x, ProcessTrapStateChange(r, delay)),
           subInit /\ r.op # "none" => r.sd # "none",
           term \notin {"no", "deregister"} => r.sd = "none",
           ~late /\ ~dup => Marks(r, TRUE, sa), ~dup => r.count >= 0,
           UNCHANGED <<subInit, port, events, late, sa, term, dup>>,
           caller' \in [SubClient -> Calls], traps' \subseteq SubClient,
           term # "no" => UNCHANGED caller, CallersOK',
           \A q : /\ q \in TrapReference /\ q.count = r.count /\ ref' = [ref EXCEPT ![x] = q]
                  /\ \/ refList' = refList
                     \/ refList' \in Seq(Ref) /\ ListedRefs' = ListedRefs \ {x} /\ r.count = 0
                  => IsFiniteSet(Counted') /\ RefCountIsClients'
    PROVE  SubInv'
  <1>1. PICK q \in ProcessTrapStateChange(r, delay) :
          /\ ref' = [ref EXCEPT ![x] = q]
          /\ IF q.st = "reaper" /\ ref[x].st = "listed" THEN ListKeeps(Ref \ {x}) ELSE UNCHANGED refList
    BY DEF Becomes
  <1>2. subInit \in BOOLEAN
    BY DEF SubInv, STypes
  <1>3. Follows(r, q)
    BY <1>2, ProcessFollows
  <1>4. /\ q \in TrapReference /\ RefOK(q) /\ q.count = r.count /\ q.st \in {"listed", "reaper"}
        /\ q.st = "reaper" => r.count = 0 /\ q.sub = FALSE
    BY <1>3 DEF Follows
  <1>5. /\ refList' \in Seq(Ref)
        /\ Distinct'
        /\ ~dup => Single'
        /\ \A y \in Ref \ {x} : (y \in ListedRefs') = (y \in ListedRefs)
        /\ (q.st = "listed") = (x \in ListedRefs')
        /\ q.st = "listed" => refList' = refList
        /\ q.st = "reaper" => ListedRefs' = ListedRefs \ {x}
    <2>0. x \in Ref /\ ref[x].st = "listed"
      BY Listed
    <2>1. CASE q.st = "listed"
      <3>1. refList' = refList
        BY <1>1, <2>1
      <3>2. ListedRefs' = ListedRefs
        BY <3>1 DEF ListedRefs
      <3>3. refList \in Seq(Ref) /\ Distinct
            /\ (~dup => Single)
        BY DEF SubInv, STypes, ListOK
      <3>4. Distinct' /\ (~dup => Single')
        BY <3>1, <3>3 DEF Distinct, Single
      <3> QED BY <2>0, <2>1, <3>1, <3>2, <3>3, <3>4
    <2>2. CASE q.st = "reaper"
      <3>1. ListKeeps(Ref \ {x})
        BY <1>1, <2>0, <2>2
      <3>2. /\ refList' \in Seq(Ref) /\ ListedRefs' = ListedRefs \cap (Ref \ {x})
            /\ Distinct'
            /\ ~dup => Single'
        BY <3>1, KeepsFacts DEF SubInv
      <3>3. ListedRefs \subseteq Ref
        BY Listed
      <3>4. ListedRefs' = ListedRefs \ {x}
        BY <3>2, <3>3
      <3> QED BY <2>0, <2>2, <3>2, <3>4
    <2> QED BY <1>4, <2>1, <2>2
  <1>6. x \in Ref /\ term # x
    BY Listed
  <1>7. IsFiniteSet(Counted') /\ RefCountIsClients'
    <2>1. refList' = refList \/ (refList' \in Seq(Ref) /\ ListedRefs' = ListedRefs \ {x} /\ r.count = 0)
      BY <1>4, <1>5
    <2> QED BY <1>1, <1>4, <2>1
  <1>8. (subInit /\ q.op # "none" => q.sd # "none") /\ (q.sd # "none" => q.st = "listed")
    BY <1>3, <1>4 DEF Follows, RefOK
  <1>9. term' \notin {"no", "deregister"} => term \notin {"no", "deregister"} /\ q.sd = "none"
    BY <1>3 DEF Follows, DriverTakes
  <1>10. x \in ListedRefs' /\ subInit => Minded(q, events, port)
    BY <1>3, <1>5, <1>8 DEF Follows, Awake, Minded
  <1>11. ~late /\ ~dup' => Marks(q, x \in ListedRefs', sa')
    BY <1>3 DEF Follows, Marks
  <1>12. /\ q.sd # "none" => x \in ListedRefs'
         /\ (q.st = "listed") = (x \in ListedRefs' \/ term' = x)
         /\ term' \in Term \cup Ref /\ sa' \in BOOLEAN /\ dup' \in BOOLEAN
         /\ \A y \in Ref \ {x} : ((y \in ListedRefs') = (y \in ListedRefs)) /\ ((term' = y) = (term = y))
    <2>1. term' = term /\ sa' = sa /\ dup' = dup
      OBVIOUS
    <2>2. term' \in Term \cup Ref /\ sa' \in BOOLEAN /\ dup' \in BOOLEAN
      BY <2>1 DEF SubInv, STypes
    <2> QED BY <1>5, <1>6, <1>8, <2>1, <2>2
  <1>13. (~dup' => Single') /\ (~dup' => q.count >= 0)
    BY <1>4, <1>5
  <1>14. /\ x \in ListedRefs' => term' # x
         /\ term' = x => ~q.timer /\ q.cb # "waits"
         /\ (term' = "no") = (term = "no") /\ (dup => dup')
         /\ (sa' = sa \/ (~dup' => ListedRefs' \subseteq {x}))
         /\ UNCHANGED <<subInit, port, events, late>>
    BY <1>6
  <1> HIDE DEF ListedRefs
  <1> QED BY <1>1, <1>4, <1>5, <1>6, <1>7, <1>8, <1>9, <1>10, <1>11, <1>12, <1>13, <1>14, OneRefStep

-----------------------------------------------------------------------------
(* Steps of the clients *)

(* Only the clients move.                                                  *)
LEMMA QuietStep ==
    ASSUME SubInv, UNCHANGED <<ref, refList, subInit, term, sa, port, events, late, dup>>,
           caller' \in [SubClient -> Calls], traps' \subseteq SubClient, term # "no" => UNCHANGED caller,
           CallersOK', IsFiniteSet(Counted'), RefCountIsClients'
    PROVE  SubInv'
  <1>0. ListedRefs' = ListedRefs
    BY DEF ListedRefs
  <1>1. STypes' /\ \A x \in Ref : RefOK(ref'[x])
    BY DEF SubInv, STypes
  <1>2. ListOK'
    BY <1>0 DEF SubInv, ListOK, Distinct, Single
  <1>3. TermOK'
    BY DEF SubInv, TermOK
  <1>4. CountOK'
    BY DEF SubInv, CountOK
  <1>5. NeverForgotten'
    BY <1>0 DEF SubInv, NeverForgotten, Settled
  <1>6. EventsOK' /\ SaKnown'
    BY <1>0 DEF SubInv, EventsOK, SaKnown
  <1> QED BY <1>1, <1>2, <1>3, <1>4, <1>5, <1>6 DEF SubInv

(* A client's thread moves to pc: who is counted.                          *)
LEMMA CallerMoves ==
    ASSUME SubInv, NEW c \in SubClient, NEW pc \in Calls, Goes(c, pc), caller[c] # "idle" \/ term = "no",
           traps' \in {traps, traps \cup {c}, traps \ {c}},
           pc \in {"insert", "decrement"} => c \notin traps', pc \in {"find", "create", "undo"} => c \in traps'
    PROVE  /\ caller' \in [SubClient -> Calls] /\ traps' \subseteq SubClient /\ CallersOK' /\ term = "no" /\ subInit
           /\ (pc = "idle" /\ c \in traps') \/ pc = "decrement" => Counted' = Counted \cup {c}
           /\ ~((pc = "idle" /\ c \in traps') \/ pc = "decrement") => Counted' = Counted \ {c}
  <1>1. caller \in [SubClient -> Calls] /\ traps \subseteq SubClient
    BY DEF SubInv, STypes
  <1>2. caller' \in [SubClient -> Calls] /\ caller'[c] = pc /\ \A d \in SubClient \ {c} : caller'[d] = caller[d]
    BY <1>1 DEF Goes
  <1>3. traps' \subseteq SubClient /\ \A d \in SubClient \ {c} : (d \in traps') = (d \in traps)
    BY <1>1
  <1>4. CallersOK'
    <2>1. ASSUME NEW d \in SubClient
          PROVE  /\ caller'[d] \in {"insert", "decrement"} => d \notin traps'
                 /\ caller'[d] \in {"find", "create", "undo"} => d \in traps'
      <3>1. CASE d = c
        BY <1>2, <3>1
      <3>2. CASE d # c
        BY <1>2, <1>3, <3>2 DEF SubInv, CallersOK
      <3> QED BY <3>1, <3>2
    <2> QED BY <2>1 DEF CallersOK
  <1>5. term = "no" /\ subInit
    BY DEF SubInv, TermOK
  <1>6. \A d \in SubClient \ {c} : (d \in Counted') = (d \in Counted)
    BY <1>2, <1>3 DEF Counted, Counts
  <1>7. (c \in Counted') = ((pc = "idle" /\ c \in traps') \/ pc = "decrement")
    BY <1>2 DEF Counted, Counts
  <1>8. Counted \subseteq SubClient /\ Counted' \subseteq SubClient
    BY DEF Counted
  <1>9. ASSUME (pc = "idle" /\ c \in traps') \/ pc = "decrement" PROVE Counted' = Counted \cup {c}
    BY <1>6, <1>7, <1>8, <1>9
  <1>10. ASSUME ~((pc = "idle" /\ c \in traps') \/ pc = "decrement") PROVE Counted' = Counted \ {c}
    BY <1>6, <1>7, <1>8, <1>10
  <1> QED BY <1>2, <1>3, <1>4, <1>5, <1>9, <1>10

(* A client's thread moves and is counted as before.                       *)
LEMMA ThreadStep ==
    ASSUME SubInv, NEW c \in SubClient, NEW pc \in Calls, Goes(c, pc), caller[c] # "idle" \/ term = "no",
           traps' \in {traps, traps \cup {c}, traps \ {c}},
           pc \in {"insert", "decrement"} => c \notin traps', pc \in {"find", "create", "undo"} => c \in traps',
           ((pc = "idle" /\ c \in traps') \/ pc = "decrement") = Counts(c),
           UNCHANGED <<ref, refList, subInit, term, sa, port, events, late, dup>>
    PROVE  SubInv'
  <1>1. /\ caller' \in [SubClient -> Calls] /\ traps' \subseteq SubClient /\ CallersOK' /\ term = "no"
        /\ (pc = "idle" /\ c \in traps') \/ pc = "decrement" => Counted' = Counted \cup {c}
        /\ ~((pc = "idle" /\ c \in traps') \/ pc = "decrement") => Counted' = Counted \ {c}
    BY CallerMoves
  <1>2. Counted' = Counted
    BY <1>1 DEF Counted
  <1>3. IsFiniteSet(Counted') /\ RefCountIsClients'
    <2>1. IsFiniteSet(Counted) /\ RefCountIsClients
      BY DEF SubInv, CountOK
    <2>2. Cardinality(Counted') = Cardinality(Counted)
      BY <1>2
    <2> QED BY <1>2, <2>1, <2>2 DEF RefCountIsClients, Counted
  <1> QED BY <1>1, <1>3, QuietStep

LEMMA ClientStepInv ==
    ASSUME SubInv, NEW c \in SubClient,
           \/ iba_sd_trap_notice_subscribe(c) \/ iba_sd_trap_notice_unsubscribe(c)
           \/ InsertClientTrap(c) \/ UndoSubscribe(c)
    PROVE  SubInv'
  <1>0. /\ caller[c] \in {"insert", "decrement"} => c \notin traps
        /\ caller[c] \in {"find", "create", "undo"} => c \in traps
    BY DEF SubInv, CallersOK
  <1>1. CASE iba_sd_trap_notice_subscribe(c)
    <2>1. /\ caller[c] = "idle" /\ c \notin traps /\ term = "no" /\ Goes(c, "insert")
          /\ UNCHANGED <<ref, refList, traps, subInit, term, sa, port, events, late, dup>>
      BY <1>1 DEF iba_sd_trap_notice_subscribe
    <2>2. "insert" \in Calls /\ Counts(c) = FALSE
      BY <2>1 DEF Calls, Counts
    <2> QED BY <2>1, <2>2, ThreadStep
  <1>2. CASE iba_sd_trap_notice_unsubscribe(c)
    <2>1. /\ caller[c] = "idle" /\ c \in traps /\ term = "no" /\ Goes(c, "decrement") /\ traps' = traps \ {c}
          /\ UNCHANGED <<ref, refList, subInit, term, sa, port, events, late, dup>>
      BY <1>2 DEF iba_sd_trap_notice_unsubscribe
    <2>2. "decrement" \in Calls /\ Counts(c) = TRUE
      BY <2>1 DEF Calls, Counts
    <2> QED BY <2>1, <2>2, ThreadStep
  <1>3. CASE InsertClientTrap(c)
    <2>1. /\ caller[c] = "insert" /\ UNCHANGED <<ref, refList, subInit, term, sa, port, events, late, dup>>
          /\ (traps' = traps \cup {c} /\ Goes(c, "find")) \/ (traps' = traps /\ Goes(c, "idle"))
      BY <1>3 DEF InsertClientTrap
    <2>2. "find" \in Calls /\ "idle" \in Calls /\ Counts(c) = FALSE
      BY <2>1 DEF Calls, Counts
    <2>3. CASE traps' = traps \cup {c} /\ Goes(c, "find")
      BY <2>1, <2>2, <2>3, ThreadStep
    <2>4. CASE traps' = traps /\ Goes(c, "idle")
      BY <1>0, <2>1, <2>2, <2>4, ThreadStep
    <2> QED BY <2>1, <2>3, <2>4
  <1>4. CASE UndoSubscribe(c)
    <2>1. /\ caller[c] = "undo" /\ traps' = traps \ {c} /\ Goes(c, "idle")
          /\ UNCHANGED <<ref, refList, subInit, term, sa, port, events, late, dup>>
      BY <1>4 DEF UndoSubscribe
    <2>2. "idle" \in Calls /\ Counts(c) = FALSE
      BY <2>1 DEF Calls, Counts
    <2> QED BY <2>1, <2>2, ThreadStep
  <1> QED BY <1>1, <1>2, <1>3, <1>4

(* What is known of a listed reference that gets another count.            *)
LEMMA Recounted ==
    ASSUME SubInv, NEW x \in ListedRefs, NEW n \in Int
    PROVE  LET r == [ref[x] EXCEPT !.count = n] IN
           /\ Sound(r) /\ r.count = n
           /\ subInit /\ r.op # "none" => r.sd # "none"
           /\ term \notin {"no", "deregister"} => r.sd = "none"
           /\ ~late /\ ~dup => Marks(r, TRUE, sa)
  <1> DEFINE r == [ref[x] EXCEPT !.count = n]
  <1>1. x \in Ref /\ ref[x] \in TrapReference /\ ref[x].st = "listed" /\ Sound(ref[x])
    BY Listed
  <1>2. r \in TrapReference
    BY <1>1 DEF TrapReference
  <1>3. /\ r.st = ref[x].st /\ r.count = n /\ r.sub = ref[x].sub /\ r.op = ref[x].op /\ r.sd = ref[x].sd
    BY <1>1 DEF TrapReference
  <1> HIDE DEF r
  <1>4. Sound(r)
    BY <1>1, <1>2, <1>3 DEF Sound
  <1>5. /\ subInit /\ ref[x].op # "none" => ref[x].sd # "none"
        /\ term \notin {"no", "deregister"} => ref[x].sd = "none"
    BY <1>1 DEF SubInv, ListOK, TermOK
  <1>6. ~late /\ ~dup => Marks(ref[x], TRUE, sa)
    BY <1>1 DEF SubInv, SaKnown, Marks
  <1>7. ~late /\ ~dup => Marks(r, TRUE, sa)
    BY <1>3, <1>6 DEF Marks
  <1>8. /\ subInit /\ r.op # "none" => r.sd # "none"
        /\ term \notin {"no", "deregister"} => r.sd = "none"
    BY <1>3, <1>5
  <1>9. r.count = n
    BY <1>3
  <1> QED BY <1>4, <1>7, <1>8, <1>9 DEF r

(* One client more, or one less, is counted.                               *)
LEMMA OneMore ==
    ASSUME SubInv, NEW c \in SubClient, c \notin Counted
    PROVE  IsFiniteSet(Counted \cup {c}) /\ Cardinality(Counted \cup {c}) = Cardinality(Counted) + 1
  <1>1. IsFiniteSet(Counted)
    BY DEF SubInv, CountOK
  <1> HIDE DEF Counted
  <1> QED BY <1>1, FS_AddElement
LEMMA OneLess ==
    ASSUME SubInv, NEW c \in SubClient, c \in Counted
    PROVE  /\ IsFiniteSet(Counted \ {c}) /\ Cardinality(Counted \ {c}) = Cardinality(Counted) - 1
           /\ Cardinality(Counted) > 0
  <1>1. IsFiniteSet(Counted)
    BY DEF SubInv, CountOK
  <1>2. IsFiniteSet(Counted \ {c}) /\ Cardinality(Counted \ {c}) = Cardinality(Counted) - 1
    BY <1>1, FS_RemoveElement
  <1>3. Cardinality(Counted) \in Nat /\ (Cardinality(Counted) = 0 <=> Counted = {})
    BY <1>1, FS_CardinalityType, FS_EmptySet
  <1>4. Cardinality(Counted) > 0
    BY <1>3
  <1> QED BY <1>2, <1>4
LEMMA CardCounted ==
    ASSUME SubInv PROVE Cardinality(Counted) \in Nat
  BY FS_CardinalityType DEF SubInv, CountOK

LEMMA IncrementInv ==
    ASSUME SubInv, NEW c \in SubClient, IncrementTrapUsageCount(c) PROVE SubInv'
  <1>0. /\ caller[c] = "find" /\ c \in traps /\ UNCHANGED <<traps, subInit, term, sa, port, events, late, dup>>
    BY DEF SubInv, CallersOK, IncrementTrapUsageCount
  <1>1. subInit /\ term = "no"
    BY <1>0 DEF SubInv, TermOK
  <1>2. Counts(c) = FALSE /\ c \notin Counted
    BY <1>0 DEF Counts, Counted
  <1>3. CASE refList = << >>
    <2>1. Goes(c, "create") /\ UNCHANGED <<ref, refList>>
      BY <1>1, <1>3 DEF IncrementTrapUsageCount
    <2>2. "create" \in Calls
      BY DEF Calls
    <2> QED BY <1>0, <1>1, <1>2, <2>1, <2>2, ThreadStep
  <1>4. CASE refList # << >>
    <2>1. PICK x \in ListedRefs : x = Head(refList)
      BY <1>4, HeadListed DEF SubInv
    <2>2. x \in Ref /\ ref[x] \in TrapReference
      BY Listed
    <2>3. PICK n \in Int : ref[x].count = n
      BY <2>2, RefFields
    <2> DEFINE r == [ref[x] EXCEPT !.count = n + 1]
    <2>4. Becomes(x, ProcessTrapStateChange(r, TRUE)) /\ Goes(c, "idle")
      BY <1>1, <1>4, <2>1, <2>3 DEF IncrementTrapUsageCount
    <2>5. n + 1 \in Int
      OBVIOUS
    <2>6. /\ Sound(r) /\ r.count = n + 1
          /\ subInit /\ r.op # "none" => r.sd # "none"
          /\ term \notin {"no", "deregister"} => r.sd = "none"
          /\ ~late /\ ~dup => Marks(r, TRUE, sa)
      BY <2>5, Recounted
    <2> HIDE DEF r
    <2>7. "idle" \in Calls
      BY DEF Calls
    <2>8. /\ caller' \in [SubClient -> Calls] /\ traps' \subseteq SubClient /\ CallersOK'
          /\ Counted' = Counted \cup {c}
      BY <1>0, <1>1, <2>4, <2>7, CallerMoves
    <2>9. ~dup => n >= 0
      BY <2>2, <2>3 DEF SubInv, CountOK
    <2>10. ~dup => r.count >= 0
      BY <2>3, <2>6, <2>9
    <2>11. IsFiniteSet(Counted') /\ Cardinality(Counted') = Cardinality(Counted) + 1
      BY <1>2, <2>8, OneMore
    <2>12. ~dup => Cardinality(Counted) = n
      BY <1>1, <1>4, <2>1, <2>3 DEF SubInv, CountOK, RefCountIsClients, Counted
    <2>13. ASSUME NEW q, /\ q \in TrapReference /\ q.count = r.count /\ ref' = [ref EXCEPT ![x] = q]
                         /\ \/ refList' = refList
                            \/ refList' \in Seq(Ref) /\ ListedRefs' = ListedRefs \ {x} /\ r.count = 0
           PROVE  IsFiniteSet(Counted') /\ RefCountIsClients'
      <3>1. ASSUME ~dup' PROVE Cardinality(Counted') = IF refList' = << >> THEN 0 ELSE ref'[Head(refList')].count
        <4>1. r.count # 0
          BY <1>0, <2>3, <2>6, <2>9, <3>1
        <4>2. refList' = refList
          BY <2>13, <4>1
        <4>3. ref'[x] = q
          BY <2>2, <2>13 DEF SubInv, STypes
        <4> QED BY <1>0, <1>4, <2>1, <2>6, <2>11, <2>12, <2>13, <3>1, <4>2, <4>3
      <3> QED BY <2>11, <3>1 DEF RefCountIsClients, Counted
    <2> HIDE DEF ListedRefs
    <2> QED BY <1>0, <1>1, <2>4, <2>6, <2>8, <2>10, <2>13, ProcessedStep
  <1> QED BY <1>3, <1>4

LEMMA DecrementInv ==
    ASSUME SubInv, NEW c \in SubClient, DecrementTrapUsageCount(c) PROVE SubInv'
  <1>0. /\ caller[c] = "decrement" /\ c \notin traps /\ UNCHANGED <<traps, subInit, term, sa, port, events, late, dup>>
        /\ Goes(c, "idle")
    BY DEF SubInv, CallersOK, DecrementTrapUsageCount
  <1>1. subInit /\ term = "no"
    BY <1>0 DEF SubInv, TermOK
  <1>2. Counts(c) = TRUE /\ c \in Counted
    BY <1>0 DEF Counts, Counted
  <1>3. "idle" \in Calls
    BY DEF Calls
  <1>4. /\ caller' \in [SubClient -> Calls] /\ traps' \subseteq SubClient /\ CallersOK'
        /\ Counted' = Counted \ {c}
    BY <1>0, <1>1, <1>3, CallerMoves
  <1>5. /\ IsFiniteSet(Counted') /\ Cardinality(Counted') = Cardinality(Counted) - 1
        /\ Cardinality(Counted) > 0
    BY <1>2, <1>4, OneLess
  <1>6. CASE refList = << >>
    <2>1. UNCHANGED <<ref, refList>>
      BY <1>6 DEF DecrementTrapUsageCount
    <2>2. ~dup => Cardinality(Counted) = 0
      BY <1>1, <1>6 DEF SubInv, CountOK, RefCountIsClients, Counted
    <2>3. dup
      BY <1>5, <2>2
    <2>4. RefCountIsClients'
      BY <1>0, <2>3 DEF RefCountIsClients
    <2> QED BY <1>0, <1>1, <1>4, <1>5, <2>1, <2>4, QuietStep
  <1>7. CASE refList # << >>
    <2>1. PICK x \in ListedRefs : x = Head(refList)
      BY <1>7, HeadListed DEF SubInv
    <2>2. x \in Ref /\ ref[x] \in TrapReference
      BY Listed
    <2>3. PICK n \in Int : ref[x].count = n
      BY <2>2, RefFields
    <2> DEFINE r == [ref[x] EXCEPT !.count = n - 1]
    <2>4. Becomes(x, ProcessTrapStateChange(r, FALSE))
      BY <1>7, <2>1, <2>3 DEF DecrementTrapUsageCount
    <2>5. n - 1 \in Int
      OBVIOUS
    <2>6. /\ Sound(r) /\ r.count = n - 1
          /\ subInit /\ r.op # "none" => r.sd # "none"
          /\ term \notin {"no", "deregister"} => r.sd = "none"
          /\ ~late /\ ~dup => Marks(r, TRUE, sa)
      BY <2>5, Recounted
    <2> HIDE DEF r
    <2>9. ~dup => Cardinality(Counted) = n
      BY <1>1, <1>7, <2>1, <2>3 DEF SubInv, CountOK, RefCountIsClients, Counted
    <2>10. ~dup => r.count >= 0
      BY <1>5, <2>3, <2>6, <2>9
    <2>11. ~dup => Cardinality(Counted') = r.count
      BY <1>5, <2>6, <2>9
    <2>13. ASSUME NEW q, /\ q \in TrapReference /\ q.count = r.count /\ ref' = [ref EXCEPT ![x] = q]
                         /\ \/ refList' = refList
                            \/ refList' \in Seq(Ref) /\ ListedRefs' = ListedRefs \ {x} /\ r.count = 0
           PROVE  IsFiniteSet(Counted') /\ RefCountIsClients'
      <3>1. ASSUME ~dup' PROVE Cardinality(Counted') = IF refList' = << >> THEN 0 ELSE ref'[Head(refList')].count
        <4>1. ref'[x] = q
          BY <2>2, <2>13 DEF SubInv, STypes
        <4>2. CASE refList' = refList
          BY <1>0, <1>7, <2>1, <2>11, <2>13, <3>1, <4>1, <4>2
        <4>3. CASE refList' \in Seq(Ref) /\ ListedRefs' = ListedRefs \ {x} /\ r.count = 0
          <5>1. ListedRefs = {x}
            BY <1>0, <3>1, OneListed DEF SubInv
          <5>2. refList' # << >> => refList'[1] \in ListedRefs'
            BY <4>3 DEF ListedRefs
          <5>3. refList' = << >>
            BY <4>3, <5>1, <5>2
          <5> QED BY <1>0, <2>11, <3>1, <4>3, <5>3
        <4> QED BY <2>13, <4>2, <4>3
      <3> QED BY <1>5, <3>1 DEF RefCountIsClients, Counted
    <2> HIDE DEF ListedRefs
    <2> QED BY <1>0, <1>1, <1>4, <2>4, <2>6, <2>10, <2>13, ProcessedStep
  <1> QED BY <1>6, <1>7

LEMMA CreateInv ==
    ASSUME SubInv, NEW c \in SubClient, CreateTrapReference(c) PROVE SubInv'
  <1>0. /\ caller[c] = "create" /\ c \in traps /\ UNCHANGED <<traps, subInit, term, sa, port, events, late>>
    BY DEF SubInv, CallersOK, CreateTrapReference
  <1>1. subInit /\ term = "no"
    BY <1>0 DEF SubInv, TermOK
  <1>2. Counts(c) = FALSE /\ c \notin Counted
    BY <1>0 DEF Counts, Counted
  <1>3. CASE Goes(c, "undo") /\ UNCHANGED <<ref, refList, dup>>
    <2>2. "undo" \in Calls
      BY DEF Calls
    <2> QED BY <1>0, <1>1, <1>2, <1>3, <2>2, ThreadStep
  <1>4. ASSUME NEW x \in Ref, ref[x].st = "free", Goes(c, "idle"), refList' = Append(refList, x), dup' = (dup \/ refList # << >>),
               ref' = [ref EXCEPT ![x] = QueueTrapTimer([FreeRef EXCEPT !.st = "listed", !.count = 1])]
        PROVE  SubInv'
    <2> DEFINE f == [FreeRef EXCEPT !.st = "listed", !.count = 1]
               q == QueueTrapTimer(f)
    <2>1. /\ f \in TrapReference /\ f.st = "listed" /\ f.count = 1 /\ f.sub = FALSE /\ f.op = "none" /\ f.sd = "none"
      <3>1. ASSUME NEW r \in TrapReference, NEW n \in Int, NEW l \in {"free", "listed", "reaper"}
            PROVE  [r EXCEPT !.st = l, !.count = n] \in TrapReference
        BY DEF TrapReference
      <3>2. ASSUME NEW r \in TrapReference, NEW g, g = [r EXCEPT !.st = "listed", !.count = 1]
            PROVE  g.st = "listed" /\ g.count = 1 /\ g.sub = r.sub /\ g.op = r.op /\ g.sd = r.sd
        BY <3>2 DEF TrapReference
      <3>3. 1 \in Int /\ "listed" \in {"free", "listed", "reaper"} /\ FreeRef \in TrapReference
        BY FreeRefFields
      <3>4. f \in TrapReference
        BY <3>1, <3>3
      <3>5. f.st = "listed" /\ f.count = 1 /\ f.sub = FreeRef.sub /\ f.op = FreeRef.op /\ f.sd = FreeRef.sd
        BY <3>2, <3>3
      <3> HIDE DEF f
      <3> QED BY <3>4, <3>5, FreeRefFields
    <2> HIDE DEF f
    <2>2. /\ q \in TrapReference /\ q.st = "listed" /\ q.count = 1 /\ q.sub = FALSE /\ q.op = "none" /\ q.sd = "none"
          /\ q.timer
      BY <1>1, <2>1, QueueFields
    <2>3. ref' = [ref EXCEPT ![x] = q]
      BY <1>4 DEF f
    <2> HIDE DEF q
    <2>4. RefOK(q)
      BY <2>2 DEF RefOK
    <2>5. term # x
      BY <1>1, SubscribeAssumption
    <2>6. x \notin ListedRefs
      BY <1>4, <2>5 DEF SubInv, ListOK
    <2>7. refList \in Seq(Ref) /\ Distinct
      BY DEF SubInv, STypes, ListOK
    <2>8. PICK n \in Nat : Len(refList) = n
      BY <2>7
    <2>9. /\ refList' \in Seq(Ref) /\ DOMAIN refList' = 1..(n + 1) /\ refList'[n + 1] = x
          /\ \A i \in 1..n : refList'[i] = refList[i] /\ refList[i] \in ListedRefs
          /\ DOMAIN refList = 1..n
      BY <1>4, <2>7, <2>8 DEF ListedRefs
    <2>10. Distinct'
      <3>1. ASSUME NEW i \in 1..(n + 1), NEW j \in 1..(n + 1), refList'[i] = refList'[j], i # j PROVE FALSE
        <4>1. CASE i = n + 1
          <5>1. j \in 1..n
            BY <3>1, <4>1
          <5> QED BY <2>6, <2>9, <3>1, <4>1, <5>1
        <4>2. CASE j = n + 1
          <5>1. i \in 1..n
            BY <3>1, <4>2
          <5> QED BY <2>6, <2>9, <3>1, <4>2, <5>1
        <4>3. CASE i \in 1..n /\ j \in 1..n
          BY <2>7, <2>9, <3>1, <4>3 DEF Distinct
        <4> QED BY <3>1, <4>1, <4>2, <4>3
      <3> QED BY <2>9, <3>1 DEF Distinct
    <2>11. ListedRefs' = ListedRefs \cup {x}
      <3>1. ListedRefs' \subseteq ListedRefs \cup {x}
        <4>1. ASSUME NEW i \in 1..(n + 1) PROVE refList'[i] \in ListedRefs \cup {x}
          <5>1. i = n + 1 \/ i \in 1..n
            OBVIOUS
          <5> QED BY <2>9, <5>1
        <4>2. \A y \in ListedRefs' : \E i \in 1..(n + 1) : y = refList'[i]
          BY <2>9 DEF ListedRefs
        <4> QED BY <4>1, <4>2
      <3>2. ListedRefs \subseteq ListedRefs'
        <4>1. \A y \in ListedRefs : \E i \in 1..n : y = refList[i]
          BY <2>9 DEF ListedRefs
        <4>2. ASSUME NEW i \in 1..n PROVE refList'[i] \in ListedRefs'
          <5>1. i \in DOMAIN refList'
            BY <2>9
          <5> QED BY <5>1 DEF ListedRefs
        <4> QED BY <2>9, <4>1, <4>2
      <3>3. n + 1 \in DOMAIN refList'
        BY <2>9
      <3>4. x \in ListedRefs'
        BY <2>9, <3>3 DEF ListedRefs
      <3> QED BY <3>1, <3>2, <3>4
    <2>12. ~dup' => n = 0
      BY <1>4, <2>7, <2>8
    <2>13. ~dup' => Single'
      <3>1. ASSUME ~dup', NEW i \in DOMAIN refList' PROVE i = 1
        <4>1. i \in 1..(n + 1) /\ n = 0
          BY <2>9, <2>12, <3>1
        <4> QED BY <4>1
      <3> QED BY <3>1 DEF Single
    <2>14. "idle" \in Calls
      BY DEF Calls
    <2>15. /\ caller' \in [SubClient -> Calls] /\ traps' \subseteq SubClient /\ CallersOK'
           /\ Counted' = Counted \cup {c}
      BY <1>0, <1>1, <1>4, <2>14, CallerMoves
    <2>16. IsFiniteSet(Counted') /\ Cardinality(Counted') = Cardinality(Counted) + 1
      BY <1>2, <2>15, OneMore
    <2>17. RefCountIsClients'
      <3>1. ASSUME ~dup' PROVE Cardinality(Counted') = IF refList' = << >> THEN 0 ELSE ref'[Head(refList')].count
        <4>1. refList = << >> /\ ~dup
          BY <1>4, <3>1 DEF SubInv, STypes
        <4>2. Cardinality(Counted) = 0
          BY <1>1, <4>1 DEF SubInv, CountOK, RefCountIsClients, Counted
        <4>3. refList' # << >> /\ Head(refList') = x
          BY <1>4, <4>1
        <4>4. ref'[x] = q
          BY <2>3 DEF SubInv, STypes
        <4> QED BY <2>2, <2>16, <4>2, <4>3, <4>4
      <3> QED BY <3>1 DEF RefCountIsClients, Counted
    <2>18. /\ \A y \in Ref \ {x} : ((y \in ListedRefs') = (y \in ListedRefs)) /\ ((term' = y) = (term = y))
           /\ x \in ListedRefs' /\ term' # x /\ term' = term
      BY <1>0, <2>5, <2>11
    <2>19. dup' \in BOOLEAN /\ (dup => dup') /\ sa' \in BOOLEAN /\ sa' = sa /\ term' \in Term \cup Ref
      BY <1>0, <1>4 DEF SubInv, STypes
    <2>20. Minded(q, events, port) /\ Marks(q, x \in ListedRefs', sa')
      BY <2>2 DEF Minded, Marks
    <2>21. q.count >= 0
      BY <2>2
    <2>22. /\ x \in ListedRefs' => term' # x
           /\ (q.st = "listed") = (x \in ListedRefs' \/ term' = x)
           /\ q.sd # "none" => x \in ListedRefs'
           /\ term' = x => ~q.timer /\ q.cb # "waits"
           /\ subInit /\ q.op # "none" => q.sd # "none"
           /\ UNCHANGED <<subInit, port, events, late>>
           /\ (term' = "no") = (term = "no")
           /\ term' \notin {"no", "deregister"} => term \notin {"no", "deregister"} /\ q.sd = "none"
           /\ (sa' = sa \/ (~dup' => ListedRefs' \subseteq {x}))
           /\ term # "no" => UNCHANGED caller
      BY <1>0, <1>1, <2>2, <2>18, <2>19
    <2> HIDE DEF ListedRefs
    <2> QED BY <2>2, <2>3, <2>4, <2>9, <2>10, <2>13, <2>15, <2>16, <2>17, <2>18, <2>19, <2>20, <2>21, <2>22, OneRefStep
  <1>5. \/ \E x \in Ref :
            /\ ref[x].st = "free"
            /\ ref' = [ref EXCEPT ![x] = QueueTrapTimer([FreeRef EXCEPT !.st = "listed", !.count = 1])]
            /\ refList' = Append(refList, x) /\ dup' = (dup \/ refList # << >>)
            /\ Goes(c, "idle")
        \/ Goes(c, "undo") /\ UNCHANGED <<ref, refList, dup>>
    BY DEF CreateTrapReference
  <1> QED BY <1>3, <1>4, <1>5

-----------------------------------------------------------------------------
(* Steps of the timers, the SA and the reaper *)

(* x becomes q and the list stays.                                         *)
LEMMA SameListStep ==
    ASSUME SubInv, NEW x \in Ref, NEW q \in TrapReference, ref' = [ref EXCEPT ![x] = q], RefOK(q),
           x \in ListedRefs => q.count = ref[x].count, ~dup => q.count >= 0,
           (q.st = "listed") = (ref[x].st = "listed"), q.sd # "none" => ref[x].sd # "none",
           term = x => ~q.timer /\ q.cb # "waits", subInit /\ q.op # "none" => q.sd # "none",
           x \in ListedRefs /\ subInit => Minded(q, events, port),
           ~late /\ ~dup => Marks(q, x \in ListedRefs, sa'),
           sa' \in BOOLEAN, sa' = sa \/ (~dup => ListedRefs \subseteq {x}),
           UNCHANGED <<refList, traps, caller, subInit, term, port, events, late, dup>>
    PROVE  SubInv'
  <1>0. ListedRefs' = ListedRefs
    BY DEF ListedRefs
  <1>1. refList' \in Seq(Ref) /\ Distinct' /\ (~dup' => Single')
    BY DEF SubInv, STypes, ListOK, Distinct, Single
  <1>2. \A y \in Ref \ {x} : ((y \in ListedRefs') = (y \in ListedRefs)) /\ ((term' = y) = (term = y))
    BY <1>0
  <1>3. /\ x \in ListedRefs' => term' # x
        /\ (q.st = "listed") = (x \in ListedRefs' \/ term' = x)
        /\ q.sd # "none" => x \in ListedRefs'
    BY <1>0 DEF SubInv, ListOK
  <1>4. /\ term' \in Term \cup Ref
        /\ caller' \in [SubClient -> Calls] /\ traps' \subseteq SubClient /\ dup' \in BOOLEAN
        /\ CallersOK'
    BY DEF SubInv, STypes, CallersOK
  <1>5. term' \notin {"no", "deregister"} => term \notin {"no", "deregister"} /\ q.sd = "none"
    BY DEF SubInv, TermOK
  <1>6. IsFiniteSet(Counted') /\ RefCountIsClients'
    <2>1. UNCHANGED refList /\ (x \in ListedRefs => q.count = ref[x].count)
      OBVIOUS
    <2> HIDE DEF ListedRefs
    <2> QED BY <2>1, CountStays
  <1>7. /\ x \in ListedRefs' /\ subInit => Minded(q, events, port)
        /\ ~late /\ ~dup' => Marks(q, x \in ListedRefs', sa')
        /\ (sa' = sa \/ (~dup' => ListedRefs' \subseteq {x}))
        /\ ~dup' => q.count >= 0
        /\ (dup => dup') /\ (term # "no" => UNCHANGED caller) /\ ((term' = "no") = (term = "no"))
        /\ term' = x => ~q.timer /\ q.cb # "waits"
    BY <1>0
  <1> HIDE DEF ListedRefs
  <1> QED BY <1>1, <1>2, <1>3, <1>4, <1>5, <1>6, <1>7, OneRefStep

(* What is known of any reference.                                         *)
LEMMA AnyRef ==
    ASSUME SubInv, NEW x \in Ref
    PROVE  /\ ref[x] \in TrapReference /\ RefOK(ref[x]) /\ (~dup => ref[x].count >= 0)
           /\ (ref[x].st = "listed") = (x \in ListedRefs \/ term = x)
           /\ ref[x].sd # "none" => x \in ListedRefs
           /\ term = x => ~ref[x].timer /\ ref[x].cb # "waits"
           /\ subInit /\ ref[x].op # "none" => ref[x].sd # "none"
           /\ x \in ListedRefs /\ subInit => Minded(ref[x], events, port)
           /\ ~late /\ ~dup => Marks(ref[x], x \in ListedRefs, sa)
  <1>1. ref[x] \in TrapReference /\ RefOK(ref[x]) /\ (~dup => ref[x].count >= 0)
    BY DEF SubInv, STypes, CountOK
  <1>2. /\ (ref[x].st = "listed") = (x \in ListedRefs \/ term = x)
        /\ ref[x].sd # "none" => x \in ListedRefs
        /\ term = x => ~ref[x].timer /\ ref[x].cb # "waits"
        /\ subInit /\ ref[x].op # "none" => ref[x].sd # "none"
    BY DEF SubInv, ListOK
  <1>3. x \in ListedRefs /\ subInit => Minded(ref[x], events, port)
    BY DEF SubInv, NeverForgotten, Minded
  <1>4. ~late /\ ~dup => Marks(ref[x], x \in ListedRefs, sa)
    BY DEF SubInv, SaKnown, Marks
  <1> QED BY <1>1, <1>2, <1>3, <1>4

LEMMA TimerFiresInv ==
    ASSUME SubInv, NEW x \in Ref, TimerFires(x) PROVE SubInv'
  <1> DEFINE q == [ref[x] EXCEPT !.timer = FALSE, !.cb = "waits"]
  <1>1. /\ ref[x].timer /\ ref' = [ref EXCEPT ![x] = q]
        /\ UNCHANGED <<refList, traps, caller, subInit, term, sa, port, events, late, dup>>
    BY DEF TimerFires
  <1>2. ref[x] \in TrapReference
    BY AnyRef
  <1>3. q \in TrapReference
    BY <1>2 DEF TrapReference
  <1>4. /\ q.st = ref[x].st /\ q.count = ref[x].count /\ q.sub = ref[x].sub /\ q.op = ref[x].op
        /\ q.sd = ref[x].sd /\ q.timer = FALSE /\ q.cb = "waits"
    BY <1>2 DEF TrapReference
  <1> HIDE DEF q
  <1>5. ref[x].st = "listed" /\ term # x
    BY <1>1, <1>2, AnyRef, RefFields, FreeRefFields DEF RefOK
  <1>6. RefOK(q) /\ Minded(q, events, port)
    BY <1>4, <1>5, AnyRef DEF RefOK, Minded
  <1>7. ~late /\ ~dup => Marks(q, x \in ListedRefs, sa')
    BY <1>1, <1>4, AnyRef DEF Marks
  <1>8. sa' \in BOOLEAN /\ sa' = sa
    BY <1>1 DEF SubInv, STypes
  <1>9. /\ ~dup => q.count >= 0
        /\ (q.st = "listed") = (ref[x].st = "listed") /\ (q.sd # "none" => ref[x].sd # "none")
        /\ subInit /\ q.op # "none" => q.sd # "none"
    BY <1>4, AnyRef
  <1> HIDE DEF ListedRefs
  <1> QED BY <1>1, <1>3, <1>4, <1>5, <1>6, <1>7, <1>8, <1>9, SameListStep

LEMMA SaProcessesInv ==
    ASSUME SubInv, NEW x \in Ref, SaProcesses(x) PROVE SubInv'
  <1> DEFINE q == [ref[x] EXCEPT !.sd = "seen"]
  <1>1. /\ ref[x].sd = "sent" /\ ref' = [ref EXCEPT ![x] = q] /\ sa' = (ref[x].op = "sub")
        /\ UNCHANGED <<refList, traps, caller, subInit, term, port, events, late, dup>>
    BY DEF SaProcesses
  <1>2. ref[x] \in TrapReference
    BY AnyRef
  <1>3. q \in TrapReference
    BY <1>2 DEF TrapReference
  <1>4. /\ q.st = ref[x].st /\ q.count = ref[x].count /\ q.sub = ref[x].sub /\ q.op = ref[x].op
        /\ q.sd = "seen" /\ q.timer = ref[x].timer /\ q.cb = ref[x].cb
    BY <1>2 DEF TrapReference
  <1> HIDE DEF q
  <1>5. x \in ListedRefs /\ ref[x].st = "listed" /\ term # x
    BY <1>1, AnyRef, Listed
  <1>6. q.op # "none" /\ ~q.sub
    BY <1>1, <1>4, AnyRef DEF RefOK
  <1>7. RefOK(q) /\ Minded(q, events, port)
    BY <1>4, <1>5, <1>6 DEF RefOK, Minded
  <1>8. Marks(q, x \in ListedRefs, sa')
    BY <1>1, <1>4, <1>6 DEF Marks
  <1>9. sa' \in BOOLEAN
    BY <1>1
  <1>10. ~dup => ListedRefs \subseteq {x}
    BY <1>5, OneListed DEF SubInv
  <1>11. /\ ~dup => q.count >= 0
         /\ (q.st = "listed") = (ref[x].st = "listed") /\ (q.sd # "none" => ref[x].sd # "none")
         /\ subInit /\ q.op # "none" => q.sd # "none"
    BY <1>1, <1>4, AnyRef
  <1> HIDE DEF ListedRefs
  <1> QED BY <1>1, <1>3, <1>4, <1>5, <1>7, <1>8, <1>9, <1>10, <1>11, SameListStep

LEMMA ReapInv ==
    ASSUME SubInv, NEW x \in Ref, ReapTrapReference(x) PROVE SubInv'
  <1>1. /\ ref[x].st = "reaper" /\ ref' = [ref EXCEPT ![x] = FreeRef]
        /\ UNCHANGED <<refList, traps, caller, subInit, term, sa, port, events, late, dup>>
    BY DEF ReapTrapReference
  <1>2. x \notin ListedRefs /\ term # x
    BY <1>1, AnyRef
  <1>3. sa' \in BOOLEAN /\ sa' = sa
    BY <1>1 DEF SubInv, STypes
  <1>4. Marks(FreeRef, x \in ListedRefs, sa')
    BY FreeRefFields DEF Marks
  <1>5. /\ FreeRef \in TrapReference /\ RefOK(FreeRef) /\ FreeRef.count >= 0
        /\ (FreeRef.st = "listed") = (ref[x].st = "listed") /\ FreeRef.sd = "none" /\ FreeRef.op = "none"
    BY <1>1, FreeRefFields
  <1> HIDE DEF ListedRefs
  <1> QED BY <1>1, <1>2, <1>3, <1>4, <1>5, SameListStep

LEMMA TrapTimerCallbackInv ==
    ASSUME SubInv, NEW x \in Ref, TrapTimerCallback(x) PROVE SubInv'
  <1> DEFINE r == [ref[x] EXCEPT !.cb = "none"]
  <1>1. /\ ref[x].cb # "none"
        /\ Becomes(x, IF ref[x].cb = "stopped" THEN {r} ELSE ProcessTrapStateChange(r, FALSE))
        /\ UNCHANGED <<traps, caller, subInit, term, sa, port, events, late, dup>>
    BY DEF TrapTimerCallback
  <1>2. ref[x] \in TrapReference
    BY AnyRef
  <1>3. r \in TrapReference
    BY <1>2 DEF TrapReference
  <1>4. /\ r.st = ref[x].st /\ r.count = ref[x].count /\ r.sub = ref[x].sub /\ r.op = ref[x].op
        /\ r.sd = ref[x].sd /\ r.timer = ref[x].timer /\ r.cb = "none"
    BY <1>2 DEF TrapReference
  <1> HIDE DEF r
  <1>5. sa' \in BOOLEAN /\ sa' = sa
    BY <1>1 DEF SubInv, STypes
  <1>6. CASE ref[x].cb = "stopped"
    <2>1. ref' = [ref EXCEPT ![x] = r] /\ refList' = refList
      BY <1>1, <1>4, <1>6 DEF Becomes
    <2>2. ref[x].st # "free"
      BY <1>6, AnyRef, FreeRefFields DEF RefOK
    <2>3. RefOK(r)
      BY <1>4, <2>2, AnyRef DEF RefOK
    <2>4. x \in ListedRefs /\ subInit => Minded(r, events, port)
      BY <1>4, <1>6, AnyRef DEF Minded, Settled
    <2>5. ~late /\ ~dup => Marks(r, x \in ListedRefs, sa')
      BY <1>4, <1>5, AnyRef DEF Marks
    <2>6. /\ ~dup => r.count >= 0
          /\ (r.st = "listed") = (ref[x].st = "listed") /\ (r.sd # "none" => ref[x].sd # "none")
          /\ subInit /\ r.op # "none" => r.sd # "none"
          /\ term = x => ~r.timer /\ r.cb # "waits"
      BY <1>4, AnyRef
    <2> HIDE DEF ListedRefs
    <2> QED BY <1>1, <1>3, <1>4, <1>5, <2>1, <2>3, <2>4, <2>5, <2>6, SameListStep
  <1>7. CASE ref[x].cb = "waits"
    <2>1. Becomes(x, ProcessTrapStateChange(r, FALSE))
      BY <1>1, <1>7
    <2>2. ref[x].st = "listed" /\ term # x
      BY <1>2, <1>7, AnyRef, RefFields, FreeRefFields DEF RefOK
    <2>3. x \in ListedRefs
      BY <2>2, AnyRef
    <2>4. Sound(r)
      BY <1>3, <1>4, <2>2, AnyRef DEF RefOK, Sound
    <2>5. /\ subInit /\ r.op # "none" => r.sd # "none"
          /\ term \notin {"no", "deregister"} => r.sd = "none"
          /\ ~dup => r.count >= 0
      BY <1>4, AnyRef DEF SubInv, TermOK
    <2>6. ~late /\ ~dup => Marks(r, TRUE, sa)
      BY <1>4, <2>3, AnyRef DEF Marks
    <2>7. caller' \in [SubClient -> Calls] /\ traps' \subseteq SubClient /\ CallersOK' /\ (term # "no" => UNCHANGED caller)
      BY <1>1 DEF SubInv, STypes, CallersOK
    <2>8. ASSUME NEW q, /\ q \in TrapReference /\ q.count = r.count /\ ref' = [ref EXCEPT ![x] = q]
                        /\ \/ refList' = refList
                           \/ refList' \in Seq(Ref) /\ ListedRefs' = ListedRefs \ {x} /\ r.count = 0
          PROVE  IsFiniteSet(Counted') /\ RefCountIsClients'
      <3>1. \/ UNCHANGED refList /\ (x \in ListedRefs => q.count = ref[x].count)
            \/ /\ refList' \in Seq(Ref) /\ x \in ListedRefs /\ ListedRefs' = ListedRefs \ {x}
               /\ ref[x].count = 0
        BY <1>4, <2>3, <2>8
      <3> HIDE DEF ListedRefs
      <3> QED BY <1>1, <2>8, <3>1, CountStays
    <2> HIDE DEF ListedRefs
    <2> QED BY <1>1, <2>1, <2>3, <2>4, <2>5, <2>6, <2>7, <2>8, ProcessedStep
  <1> QED BY <1>1, <1>2, <1>6, <1>7, RefFields

LEMMA ResponseInv ==
    ASSUME SubInv, NEW x \in Ref, NEW ok \in BOOLEAN, ProcessTrapSubscribeResponse(x, ok) PROVE SubInv'
  <1>1. /\ ref[x].sd # "none" /\ (ok => ref[x].sd = "seen")
        /\ UNCHANGED <<traps, caller, subInit, term, sa, port, events, late, dup>>
    BY DEF ProcessTrapSubscribeResponse
  <1>2. ref[x] \in TrapReference /\ x \in ListedRefs
    BY <1>1, AnyRef
  <1>3. ref[x].st = "listed" /\ term # x
    BY <1>2, Listed
  <1>4. sa' \in BOOLEAN /\ sa' = sa
    BY <1>1 DEF SubInv, STypes
  <1>5. ref[x].op # "none" /\ ~ref[x].sub /\ ref[x].sub = FALSE
    BY <1>1, <1>2, AnyRef, RefFields DEF RefOK
  <1>6. CASE ~subInit
    <2> DEFINE q == [ref[x] EXCEPT !.sd = "none"]
    <2>1. ref' = [ref EXCEPT ![x] = q] /\ refList' = refList
      BY <1>6 DEF ProcessTrapSubscribeResponse
    <2>2. q \in TrapReference
      BY <1>2 DEF TrapReference
    <2>3. /\ q.st = ref[x].st /\ q.count = ref[x].count /\ q.sub = ref[x].sub /\ q.op = ref[x].op
          /\ q.sd = "none" /\ q.timer = ref[x].timer /\ q.cb = ref[x].cb
      BY <1>2 DEF TrapReference
    <2> HIDE DEF q
    <2>4. RefOK(q)
      BY <1>3, <1>5, <2>3 DEF RefOK
    <2>5. Marks(q, x \in ListedRefs, sa')
      BY <1>5, <2>3 DEF Marks
    <2>6. /\ ~dup => q.count >= 0
          /\ (q.st = "listed") = (ref[x].st = "listed") /\ (q.sd # "none" => ref[x].sd # "none")
      BY <2>3, AnyRef
    <2> HIDE DEF ListedRefs
    <2> QED BY <1>1, <1>3, <1>4, <1>6, <2>1, <2>2, <2>3, <2>4, <2>5, <2>6, SameListStep
  <1>7. CASE subInit
    <2> DEFINE b == ref[x].sub \/ (ok /\ ref[x].op = "sub")
               r == [ref[x] EXCEPT !.sd = "none", !.op = "none", !.sub = b]
    <2>1. Becomes(x, ProcessTrapStateChange(r, ~ok))
      BY <1>7 DEF ProcessTrapSubscribeResponse
    <2>2. b \in BOOLEAN /\ (b => ok /\ ref[x].op = "sub")
      BY <1>5
    <2> HIDE DEF b
    <2>3. r \in TrapReference
      BY <1>2, <2>2 DEF TrapReference
    <2>4. r.st = ref[x].st /\ r.count = ref[x].count /\ r.sub = b /\ r.op = "none" /\ r.sd = "none"
      BY <1>2 DEF TrapReference
    <2> HIDE DEF r
    <2>5. Sound(r)
      BY <1>3, <2>3, <2>4 DEF Sound
    <2>6. ~dup => r.count >= 0
      BY <2>4, AnyRef
    <2>7. ~late /\ ~dup => Marks(r, TRUE, sa)
      <3>1. ~late /\ ~dup /\ ref[x].sd = "seen" /\ ref[x].op = "sub" => sa
        BY AnyRef DEF Marks
      <3> QED BY <1>1, <2>2, <2>4, <3>1 DEF Marks
    <2>8. caller' \in [SubClient -> Calls] /\ traps' \subseteq SubClient /\ CallersOK' /\ (term # "no" => UNCHANGED caller)
      BY <1>1 DEF SubInv, STypes, CallersOK
    <2>9. ASSUME NEW q, /\ q \in TrapReference /\ q.count = r.count /\ ref' = [ref EXCEPT ![x] = q]
                        /\ \/ refList' = refList
                           \/ refList' \in Seq(Ref) /\ ListedRefs' = ListedRefs \ {x} /\ r.count = 0
          PROVE  IsFiniteSet(Counted') /\ RefCountIsClients'
      <3>1. \/ UNCHANGED refList /\ (x \in ListedRefs => q.count = ref[x].count)
            \/ /\ refList' \in Seq(Ref) /\ x \in ListedRefs /\ ListedRefs' = ListedRefs \ {x}
               /\ ref[x].count = 0
        BY <1>2, <2>4, <2>9
      <3> HIDE DEF ListedRefs
      <3> QED BY <1>1, <2>9, <3>1, CountStays
    <2>10. /\ subInit /\ r.op # "none" => r.sd # "none"
           /\ term \notin {"no", "deregister"} => r.sd = "none"
      BY <2>4
    <2> HIDE DEF ListedRefs
    <2> QED BY <1>1, <1>2, <2>1, <2>5, <2>6, <2>7, <2>8, <2>9, <2>10, ProcessedStep
  <1> QED BY <1>6, <1>7

-----------------------------------------------------------------------------
(* The shutdown *)

LEMMA DestroyInv ==
    ASSUME SubInv, DestroyReference PROVE SubInv'
  <1>1. PICK x \in Ref : x = term
    BY DEF DestroyReference
  <1>2. /\ ref' = [ref EXCEPT ![x] = FreeRef] /\ term' = "drain"
        /\ UNCHANGED <<refList, traps, caller, subInit, sa, port, events, late, dup>>
    BY <1>1 DEF DestroyReference
  <1>3. \A y \in Ref : y \notin {"no", "deregister", "drain", "done"}
    BY SubscribeAssumption
  <1>4. ListedRefs' = ListedRefs
    BY <1>2 DEF ListedRefs
  <1>5. x \notin ListedRefs
    BY <1>1, Listed
  <1>6. refList' \in Seq(Ref) /\ Distinct' /\ (~dup' => Single')
    BY <1>2 DEF SubInv, STypes, ListOK, Distinct, Single
  <1>7. \A y \in Ref \ {x} : ((y \in ListedRefs') = (y \in ListedRefs)) /\ ((term' = y) = (term = y))
    BY <1>1, <1>2, <1>3, <1>4
  <1>8. /\ FreeRef \in TrapReference /\ RefOK(FreeRef) /\ FreeRef.count >= 0 /\ FreeRef.st # "listed"
        /\ FreeRef.sd = "none" /\ FreeRef.op = "none"
    BY FreeRefFields
  <1>9. term' # x /\ term \notin {"no", "deregister"} /\ x \notin ListedRefs' /\ term' # "no" /\ term' \in Term \cup Ref
    BY <1>1, <1>2, <1>3, <1>4, <1>5 DEF Term
  <1>10. /\ caller' \in [SubClient -> Calls] /\ traps' \subseteq SubClient /\ dup' \in BOOLEAN /\ sa' \in BOOLEAN
         /\ CallersOK'
    BY <1>2 DEF SubInv, STypes, CallersOK
  <1>11. IsFiniteSet(Counted') /\ RefCountIsClients'
    <2>1. Counted' = Counted
      BY <1>2 DEF Counted, Counts
    <2>2. IsFiniteSet(Counted')
      BY <2>1 DEF SubInv, CountOK
    <2> QED BY <1>9, <2>2 DEF RefCountIsClients
  <1>12. Marks(FreeRef, x \in ListedRefs', sa')
    BY FreeRefFields DEF Marks
  <1>13. /\ x \in ListedRefs' => term' # x
         /\ (FreeRef.st = "listed") = (x \in ListedRefs' \/ term' = x)
         /\ FreeRef.sd # "none" => x \in ListedRefs'
         /\ term' = x => ~FreeRef.timer /\ FreeRef.cb # "waits"
         /\ subInit /\ FreeRef.op # "none" => FreeRef.sd # "none"
         /\ (term' = "no") = (term = "no")
         /\ term' \notin {"no", "deregister"} => term \notin {"no", "deregister"} /\ FreeRef.sd = "none"
         /\ (dup => dup') /\ (~dup' => FreeRef.count >= 0) /\ sa' = sa
         /\ (x \in ListedRefs' /\ subInit => Minded(FreeRef, events, port))
    BY <1>2, <1>8, <1>9
  <1> HIDE DEF ListedRefs
  <1> QED BY <1>2, <1>6, <1>7, <1>8, <1>9, <1>10, <1>11, <1>12, <1>13, OneRefStep

LEMMA RemoveInv ==
    ASSUME SubInv, RemoveReference PROVE SubInv'
  <1>1. term = "drain" /\ UNCHANGED <<traps, caller, subInit, sa, port, events, late, dup>>
    BY DEF RemoveReference
  <1>2. \A y \in Ref : y \notin {"no", "deregister", "drain", "done"}
    BY SubscribeAssumption
  <1>3. /\ caller' \in [SubClient -> Calls] /\ traps' \subseteq SubClient /\ dup' \in BOOLEAN /\ sa' \in BOOLEAN
        /\ CallersOK' /\ IsFiniteSet(Counted')
    <2>1. Counted' = Counted
      BY <1>1 DEF Counted, Counts
    <2>2. IsFiniteSet(Counted')
      BY <2>1 DEF SubInv, CountOK
    <2> QED BY <1>1, <2>2 DEF SubInv, STypes, CallersOK
  <1>4. CASE refList = << >>
    <2>1. term' = "done" /\ ref' = ref /\ refList' = refList
      BY <1>4 DEF RemoveReference
    <2>2. ListedRefs' = ListedRefs
      BY <2>1 DEF ListedRefs
    <2>3. STypes' /\ \A x \in Ref : RefOK(ref'[x])
      BY <1>1, <2>1 DEF SubInv, STypes, Term
    <2>4. ListOK'
      BY <1>1, <1>2, <2>1, <2>2 DEF SubInv, ListOK, Distinct, Single
    <2>5. TermOK'
      BY <1>1, <2>1 DEF SubInv, TermOK
    <2>6. CountOK'
      BY <1>1, <1>3, <2>1 DEF SubInv, CountOK, RefCountIsClients
    <2>7. NeverForgotten'
      BY <1>1, <2>1, <2>2 DEF SubInv, NeverForgotten, Settled
    <2>8. EventsOK' /\ SaKnown'
      BY <1>1, <2>1, <2>2 DEF SubInv, EventsOK, SaKnown
    <2> QED BY <1>3, <2>3, <2>4, <2>5, <2>6, <2>7, <2>8 DEF SubInv
  <1>5. CASE refList # << >>
    <2>1. PICK x \in Ref : x = Head(refList) /\ x \in ListedRefs /\ x = refList[1]
      BY <1>5, HeadListed DEF SubInv
    <2> DEFINE q == TimerStop(ref[x])
    <2>2. term' = x /\ refList' = Tail(refList) /\ ref' = [ref EXCEPT ![x] = q]
      BY <1>5, <2>1 DEF RemoveReference
    <2>3. ref[x] \in TrapReference /\ ref[x].st = "listed" /\ RefOK(ref[x])
      BY <2>1, Listed
    <2>4. /\ q \in TrapReference /\ q.st = ref[x].st /\ q.count = ref[x].count /\ q.sub = ref[x].sub /\ q.op = ref[x].op
          /\ q.sd = ref[x].sd /\ q.timer = FALSE /\ q.cb # "waits"
      BY <2>3, StopFields
    <2> HIDE DEF q
    <2>5. RefOK(q)
      BY <2>3, <2>4 DEF RefOK
    <2>6. PICK n \in Nat : Len(refList) = n
      BY DEF SubInv, STypes
    <2>7. /\ refList' \in Seq(Ref) /\ DOMAIN refList' = 1..(n - 1) /\ DOMAIN refList = 1..n /\ refList \in Seq(Ref)
          /\ \A i \in 1..(n - 1) : refList'[i] = refList[i + 1]
      BY <1>5, <2>2, <2>6 DEF SubInv, STypes
    <2>8. Distinct' /\ (~dup' => Single')
      <3>1. \A i \in 1..(n - 1) : i + 1 \in 1..n /\ i \in 1..n
        OBVIOUS
      <3>2. ASSUME NEW i \in 1..(n - 1), NEW j \in 1..(n - 1), refList'[i] = refList'[j] PROVE i = j
        <4>1. PICK k \in 1..n, l \in 1..n : k = i + 1 /\ l = j + 1
          BY <3>1
        <4>2. refList[k] = refList[l]
          BY <2>7, <3>2, <4>1
        <4>3. k = l
          BY <2>7, <4>2 DEF SubInv, ListOK, Distinct
        <4> QED BY <4>1, <4>3
      <3>3. ~dup' => \A i \in 1..(n - 1) : i = 1
        BY <1>1, <2>7, <3>1 DEF SubInv, ListOK, Single
      <3> QED BY <2>7, <3>2, <3>3 DEF Distinct, Single
    <2>9. ListedRefs' = ListedRefs \ {x}
      <3>1. ListedRefs = {refList[i] : i \in 1..n} /\ ListedRefs' = {refList'[i] : i \in 1..(n - 1)}
        BY <2>7 DEF ListedRefs
      <3>2. ASSUME NEW i \in 1..(n - 1) PROVE refList'[i] \in ListedRefs /\ refList'[i] # x
        <4>1. i + 1 \in 1..n /\ 1 \in 1..n /\ i + 1 # 1
          OBVIOUS
        <4>2. refList[i + 1] # refList[1]
          BY <2>7, <4>1 DEF SubInv, ListOK, Distinct
        <4> QED BY <2>1, <2>7, <3>1, <4>1, <4>2
      <3>3. ASSUME NEW i \in 1..n, refList[i] # x PROVE refList[i] \in ListedRefs'
        <4>1. i # 1
          BY <2>1, <3>3
        <4>2. PICK j \in 1..(n - 1) : i = j + 1
          <5>1. i - 1 \in 1..(n - 1) /\ i = (i - 1) + 1
            BY <4>1
          <5> QED BY <5>1
        <4> QED BY <2>7, <3>1, <4>2
      <3> QED BY <3>1, <3>2, <3>3
    <2>10. \A y \in Ref \ {x} : ((y \in ListedRefs') = (y \in ListedRefs)) /\ ((term' = y) = (term = y))
      BY <1>1, <1>2, <2>2, <2>9
    <2>11. q.sd = "none"
      BY <1>1, <2>4 DEF SubInv, TermOK
    <2>12. ~subInit
      BY <1>1 DEF SubInv, TermOK
    <2>13. RefCountIsClients'
      BY <1>2, <2>2 DEF RefCountIsClients
    <2>14. ~late /\ ~dup' => Marks(q, x \in ListedRefs', sa')
      BY <2>9, <2>11 DEF Marks
    <2>15. /\ (q.st = "listed") = (x \in ListedRefs' \/ term' = x)
           /\ x \in ListedRefs' => term' # x
           /\ q.sd # "none" => x \in ListedRefs'
           /\ term' = x => ~q.timer /\ q.cb # "waits"
           /\ subInit /\ q.op # "none" => q.sd # "none"
           /\ (term' = "no") = (term = "no") /\ term' \in Term \cup Ref
           /\ term' \notin {"no", "deregister"} => term \notin {"no", "deregister"} /\ q.sd = "none"
           /\ (dup => dup') /\ sa' = sa /\ (term # "no" => UNCHANGED caller)
           /\ (x \in ListedRefs' /\ subInit => Minded(q, events, port))
      BY <1>1, <1>2, <2>2, <2>3, <2>4, <2>9, <2>11, <2>12
    <2>16. ~dup' => q.count >= 0
      BY <1>1, <2>4, AnyRef
    <2> HIDE DEF ListedRefs
    <2> QED BY <1>1, <1>3, <2>2, <2>4, <2>5, <2>7, <2>8, <2>10, <2>13, <2>14, <2>15, <2>16, OneRefStep
  <1> QED BY <1>4, <1>5

LEMMA TerminateInv ==
    ASSUME SubInv, SubscribeTerminate PROVE SubInv'
  <1>1. /\ term = "no" /\ (\A c \in SubClient : caller[c] = "idle") /\ subInit' = FALSE /\ term' = "deregister"
        /\ UNCHANGED <<ref, refList, traps, caller, sa, port, events, late, dup>>
    BY DEF SubscribeTerminate
  <1>2. \A y \in Ref : y \notin {"no", "deregister", "drain", "done"}
    BY SubscribeAssumption
  <1>3. ListedRefs' = ListedRefs /\ Counted' = Counted
    BY <1>1 DEF ListedRefs, Counted, Counts
  <1>4. STypes' /\ \A x \in Ref : RefOK(ref'[x])
    BY <1>1 DEF SubInv, STypes, Term
  <1>5. ListOK'
    BY <1>1, <1>2, <1>3 DEF SubInv, ListOK, Distinct, Single
  <1>6. TermOK' /\ CallersOK'
    BY <1>1 DEF SubInv, TermOK, CallersOK
  <1>7. CountOK'
    BY <1>1, <1>3 DEF SubInv, CountOK, RefCountIsClients
  <1>8. NeverForgotten'
    BY <1>1 DEF NeverForgotten
  <1>9. EventsOK' /\ SaKnown'
    BY <1>1, <1>3 DEF SubInv, EventsOK, SaKnown
  <1> QED BY <1>4, <1>5, <1>6, <1>7, <1>8, <1>9 DEF SubInv

LEMMA SdDeregisterInv ==
    ASSUME SubInv, SdDeregister PROVE SubInv'
  <1>1. /\ term = "deregister" /\ term' = "drain" /\ ref' = [x \in Ref |-> [ref[x] EXCEPT !.sd = "none"]]
        /\ UNCHANGED <<refList, traps, caller, subInit, sa, port, events, late, dup>>
    BY DEF SdDeregister
  <1>2. \A y \in Ref : y \notin {"no", "deregister", "drain", "done"}
    BY SubscribeAssumption
  <1>3. ListedRefs' = ListedRefs /\ Counted' = Counted
    BY <1>1 DEF ListedRefs, Counted, Counts
  <1>4. ~subInit
    BY <1>1 DEF SubInv, TermOK
  <1>5. ASSUME NEW x \in Ref
        PROVE  /\ ref'[x] \in TrapReference /\ RefOK(ref'[x]) /\ ref'[x].st = ref[x].st /\ ref'[x].count = ref[x].count
               /\ ref'[x].sub = ref[x].sub /\ ref'[x].op = ref[x].op /\ ref'[x].sd = "none"
               /\ ref'[x].timer = ref[x].timer /\ ref'[x].cb = ref[x].cb
    <2>1. ref[x] \in TrapReference /\ RefOK(ref[x])
      BY AnyRef
    <2>2. ref'[x] = [ref[x] EXCEPT !.sd = "none"]
      BY <1>1
    <2>3. ref'[x] \in TrapReference
      BY <2>1, <2>2 DEF TrapReference
    <2>4. /\ ref'[x].st = ref[x].st /\ ref'[x].count = ref[x].count
          /\ ref'[x].sub = ref[x].sub /\ ref'[x].op = ref[x].op /\ ref'[x].sd = "none"
          /\ ref'[x].timer = ref[x].timer /\ ref'[x].cb = ref[x].cb
      BY <2>1, <2>2 DEF TrapReference
    <2>5. ref[x].st = "free" => ref'[x] = FreeRef
      BY <2>1, <2>2, FreeRefFields DEF RefOK, FreeRef
    <2>6. RefOK(ref'[x])
      BY <2>1, <2>4, <2>5 DEF RefOK
    <2> QED BY <2>3, <2>4, <2>6
  <1>6. ref' \in [Ref -> TrapReference]
    BY <1>1, <1>5
  <1>7. STypes'
    BY <1>1, <1>6 DEF SubInv, STypes, Term
  <1>8. ListOK'
    <2>1. Distinct' /\ (~dup' => Single')
      BY <1>1 DEF SubInv, ListOK, Distinct, Single
    <2>2. ASSUME NEW x \in Ref
          PROVE  /\ (ref'[x].st = "listed") = (x \in ListedRefs' \/ term' = x)
                 /\ x \in ListedRefs' => term' # x
                 /\ ref'[x].sd # "none" => x \in ListedRefs'
                 /\ term' = x => ~ref'[x].timer /\ ref'[x].cb # "waits"
                 /\ subInit' /\ ref'[x].op # "none" => ref'[x].sd # "none"
      BY <1>1, <1>2, <1>3, <1>4, <1>5, AnyRef
    <2> QED BY <2>1, <2>2 DEF ListOK
  <1>9. TermOK' /\ CallersOK'
    BY <1>1, <1>5 DEF SubInv, TermOK, CallersOK
  <1>10. CountOK'
    BY <1>1, <1>3, <1>5 DEF SubInv, CountOK, RefCountIsClients
  <1>11. NeverForgotten' /\ EventsOK'
    BY <1>1, <1>4 DEF SubInv, NeverForgotten, EventsOK
  <1>12. SaKnown'
    BY <1>1, <1>3, <1>5 DEF SubInv, SaKnown
  <1> QED BY <1>5, <1>7, <1>8, <1>9, <1>10, <1>11, <1>12 DEF SubInv

-----------------------------------------------------------------------------
(* The port and the Subnet Manager *)

LEMMA NewsStepInv ==
    ASSUME SubInv, SmRestart \/ PortDown \/ PortUp PROVE SubInv'
  <1>1. PICK e \in News : /\ events' = Append(events, e) /\ e # "process"
                          /\ port' \in {"up", "down"} /\ (port' = "up" => e # "invalidate")
    BY DEF SmRestart, PortDown, PortUp, News, SubInv, STypes
  <1>2. UNCHANGED <<ref, refList, traps, caller, subInit, term, dup>>
    BY DEF SmRestart, PortDown, PortUp
  <1>3. /\ sa' \in BOOLEAN /\ late' \in BOOLEAN /\ (late => late')
        /\ (sa' = sa \/ (~late' => \A x \in Ref : ref[x].sd # "seen"))
    BY DEF SmRestart, PortDown, PortUp, SmGone, SubInv, STypes
  <1>4. PICK n \in Nat : Len(events) = n
    BY DEF SubInv, STypes
  <1>5. /\ events' \in Seq(News) /\ events' # << >> /\ Len(events') = n + 1 /\ n + 1 \in DOMAIN events'
        /\ events'[n + 1] = e
    <2>1. events \in Seq(News) /\ events' = Append(events, e)
      BY <1>1 DEF SubInv, STypes
    <2>2. events' \in Seq(News) /\ Len(events') = n + 1 /\ events'[n + 1] = e
      BY <1>4, <2>1
    <2>3. n + 1 \in DOMAIN events'
      BY <2>2
    <2> QED BY <2>2, <2>3
  <1>6. ListedRefs' = ListedRefs /\ Counted' = Counted
    BY <1>2 DEF ListedRefs, Counted, Counts
  <1>7. STypes' /\ \A x \in Ref : RefOK(ref'[x])
    BY <1>1, <1>2, <1>3, <1>5 DEF SubInv, STypes
  <1>8. ListOK'
    BY <1>2, <1>6 DEF SubInv, ListOK, Distinct, Single
  <1>9. TermOK' /\ CallersOK'
    BY <1>2 DEF SubInv, TermOK, CallersOK
  <1>10. CountOK'
    BY <1>2, <1>6 DEF SubInv, CountOK, RefCountIsClients, Counts
  <1>11. NeverForgotten'
    BY <1>5 DEF NeverForgotten
  <1>12. EventsOK'
    BY <1>1, <1>5 DEF EventsOK
  <1>13. SaKnown'
    <2>1. \E i \in DOMAIN events' : events'[i] # "process"
      BY <1>1, <1>5
    <2>2. ASSUME ~late', ~dup', NEW x \in Ref, ref'[x].sd = "seen", ref'[x].op = "sub" PROVE sa'
      BY <1>2, <1>3, <2>2 DEF SubInv, SaKnown
    <2> QED BY <2>1, <2>2 DEF SaKnown
  <1> QED BY <1>7, <1>8, <1>9, <1>10, <1>11, <1>12, <1>13 DEF SubInv

(* The news that are left when the first is handled.                       *)
LEMMA TailNews ==
    ASSUME SubInv, events # << >>, events' = Tail(events), port' = port
    PROVE  /\ events' \in Seq(News) /\ EventsOK'
           /\ (port = "up" /\ Head(events) = "invalidate" => events' # << >>)
           /\ \A i \in DOMAIN events : events[i] # Head(events) => \E j \in DOMAIN events' : events'[j] = events[i]
  <1>1. PICK n \in Nat : Len(events) = n
    BY DEF SubInv, STypes
  <1>2. /\ events \in Seq(News) /\ n > 0 /\ DOMAIN events = 1..n /\ Head(events) = events[1]
        /\ events' \in Seq(News) /\ DOMAIN events' = 1..(n - 1) /\ Len(events') = n - 1
        /\ \A i \in 1..(n - 1) : events'[i] = events[i + 1]
    BY <1>1 DEF SubInv, STypes
  <1>3. port = "up" => events[n] # "invalidate"
    BY <1>1 DEF SubInv, EventsOK
  <1>4. ASSUME events' # << >>, port = "up" PROVE events'[Len(events')] # "invalidate"
    <2>1. n - 1 \in 1..(n - 1) /\ (n - 1) + 1 = n
      BY <1>2, <1>4
    <2>2. events'[n - 1] = events[n]
      BY <1>2, <2>1
    <2> QED BY <1>2, <1>3, <1>4, <2>2
  <1>5. ASSUME port = "up", Head(events) = "invalidate" PROVE events' # << >>
    <2>1. n # 1
      BY <1>2, <1>3, <1>5
    <2>2. Len(events') = n - 1 /\ n - 1 # 0
      BY <1>2, <2>1
    <2>3. Len(<< >>) = 0
      OBVIOUS
    <2> QED BY <2>2, <2>3, Zenon
  <1>6. ASSUME NEW i \in DOMAIN events, events[i] # Head(events) PROVE \E j \in DOMAIN events' : events'[j] = events[i]
    <2>1. i \in 1..n /\ i # 1
      <3>1. i \in 1..n
        BY <1>2
      <3>2. i # 1
        BY <1>2, <1>6, Zenon
      <3> QED BY <3>1, <3>2
    <2>2. PICK j \in 1..(n - 1) : i = j + 1
      <3>1. i - 1 \in 1..(n - 1) /\ i = (i - 1) + 1
        BY <2>1
      <3> QED BY <3>1
    <2> QED BY <1>2, <2>2
  <1> QED BY <1>2, <1>4, <1>5, <1>6 DEF EventsOK

LEMMA InvalidateInv ==
    ASSUME SubInv, InvalidatePortTrapSubscriptions PROVE SubInv'
  <1>1. /\ events # << >> /\ Head(events) \in {"invalidate", "reregister"}
        /\ ref' = [x \in Ref |-> IF x \in ListedRefs THEN [ref[x] EXCEPT !.sub = FALSE] ELSE ref[x]]
        /\ events' = IF Head(events) = "reregister" THEN [events EXCEPT ![1] = "process"] ELSE Tail(events)
        /\ UNCHANGED <<refList, traps, caller, subInit, term, sa, port, late, dup>>
    BY DEF InvalidatePortTrapSubscriptions
  <1>2. events' \in Seq(News) /\ EventsOK' /\ (port = "up" => events' # << >>)
    <2>1. CASE Head(events) = "reregister"
      <3>1. PICK n \in Nat : Len(events) = n
        BY DEF SubInv, STypes
      <3>2. "process" \in News
        BY DEF News
      <3>3. /\ events \in Seq(News) /\ n > 0 /\ DOMAIN events = 1..n
        BY <1>1, <3>1 DEF SubInv, STypes
      <3>4. events' \in [1..n -> News] /\ \A i \in 1..n : events'[i] = IF i = 1 THEN "process" ELSE events[i]
        BY <1>1, <2>1, <3>2, <3>3
      <3>5. events' \in Seq(News) /\ Len(events') = n /\ events' # << >>
        BY <3>3, <3>4
      <3>6. port = "up" => events[n] # "invalidate"
        BY <1>1, <3>1 DEF SubInv, EventsOK
      <3>7. port = "up" => events'[n] # "invalidate"
        BY <3>3, <3>4, <3>6
      <3> QED BY <1>1, <3>5, <3>7 DEF EventsOK
    <2>2. CASE Head(events) = "invalidate"
      BY <1>1, <2>2, TailNews
    <2> QED BY <1>1, <2>1, <2>2
  <1>3. ListedRefs' = ListedRefs /\ Counted' = Counted
    BY <1>1 DEF ListedRefs, Counted, Counts
  <1>4. ASSUME NEW x \in Ref
        PROVE  /\ ref'[x] \in TrapReference /\ RefOK(ref'[x]) /\ ref'[x].st = ref[x].st /\ ref'[x].count = ref[x].count
               /\ ref'[x].op = ref[x].op /\ ref'[x].sd = ref[x].sd
               /\ ref'[x].timer = ref[x].timer /\ ref'[x].cb = ref[x].cb
               /\ (x \in ListedRefs => ref'[x].sub = FALSE)
    <2>1. ref[x] \in TrapReference /\ RefOK(ref[x])
      BY AnyRef
    <2>2. CASE x \in ListedRefs
      <3>1. ref'[x] = [ref[x] EXCEPT !.sub = FALSE]
        BY <1>1, <2>2
      <3>2. ref'[x] \in TrapReference
        BY <2>1, <3>1 DEF TrapReference
      <3>3. /\ ref'[x].st = ref[x].st /\ ref'[x].count = ref[x].count
            /\ ref'[x].op = ref[x].op /\ ref'[x].sd = ref[x].sd
            /\ ref'[x].timer = ref[x].timer /\ ref'[x].cb = ref[x].cb /\ ref'[x].sub = FALSE
        BY <2>1, <3>1 DEF TrapReference
      <3>4. ref[x].st = "listed"
        BY <2>2, Listed
      <3>5. RefOK(ref'[x])
        BY <2>1, <3>3, <3>4 DEF RefOK
      <3> QED BY <3>2, <3>3, <3>5
    <2>3. CASE x \notin ListedRefs
      BY <1>1, <2>1, <2>3
    <2> QED BY <2>2, <2>3
  <1>5. ref' \in [Ref -> TrapReference]
    BY <1>1, <1>4
  <1>6. STypes'
    BY <1>1, <1>2, <1>5 DEF SubInv, STypes
  <1>7. ListOK'
    <2>1. Distinct' /\ (~dup' => Single')
      BY <1>1 DEF SubInv, ListOK, Distinct, Single
    <2>2. ASSUME NEW x \in Ref
          PROVE  /\ (ref'[x].st = "listed") = (x \in ListedRefs' \/ term' = x)
                 /\ x \in ListedRefs' => term' # x
                 /\ ref'[x].sd # "none" => x \in ListedRefs'
                 /\ term' = x => ~ref'[x].timer /\ ref'[x].cb # "waits"
                 /\ subInit' /\ ref'[x].op # "none" => ref'[x].sd # "none"
      BY <1>1, <1>3, <1>4, AnyRef, Listed
    <2> QED BY <2>1, <2>2 DEF ListOK
  <1>8. TermOK' /\ CallersOK'
    BY <1>1, <1>4 DEF SubInv, TermOK, CallersOK
  <1>9. CountOK'
    <2>1. IsFiniteSet(Counted') /\ (~dup' => \A x \in Ref : ref'[x].count >= 0)
      BY <1>1, <1>3, <1>4 DEF SubInv, CountOK
    <2>2. refList # << >> => ref'[Head(refList)].count = ref[Head(refList)].count
      BY <1>4, HeadListed DEF SubInv
    <2>3. RefCountIsClients'
      BY <1>1, <1>3, <2>2 DEF SubInv, CountOK, RefCountIsClients, Counted
    <2> QED BY <2>1, <2>3 DEF CountOK
  <1>10. NeverForgotten'
    <2>1. port' = "up" \/ port' = "down"
      BY <1>6 DEF STypes
    <2>2. events' # << >> \/ port' = "down"
      BY <1>1, <1>2, <2>1
    <2> QED BY <2>2 DEF NeverForgotten
  <1>11. SaKnown'
    BY <1>1, <1>3, <1>4 DEF SubInv, SaKnown
  <1> QED BY <1>2, <1>4, <1>6, <1>7, <1>8, <1>9, <1>10, <1>11 DEF SubInv

(* ProcessTrapStateChange has always an outcome.                           *)
LEMMA ProcessSome ==
    ASSUME NEW r, NEW delay PROVE ProcessTrapStateChange(r, delay) # {}
  BY DEF ProcessTrapStateChange, IssueTrapSubscribe, IssueTrapUnSubscribe

LEMMA ReRegisterInv ==
    ASSUME SubInv, ReRegisterTrapSubscriptions PROVE SubInv'
  <1>1. /\ events # << >> /\ Head(events) = "process" /\ events' = Tail(events)
        /\ ref' = [x \in Ref |-> IF x \in ListedRefs THEN CHOOSE r \in ProcessTrapStateChange(ref[x], TRUE) : TRUE
                                 ELSE ref[x]]
        /\ ListKeeps({x \in Ref : ref'[x].st = "listed"})
        /\ UNCHANGED <<traps, caller, subInit, term, sa, port, late, dup>>
    BY DEF ReRegisterTrapSubscriptions
  <1>2. /\ events' \in Seq(News) /\ EventsOK'
        /\ \A i \in DOMAIN events : events[i] # Head(events) => \E j \in DOMAIN events' : events'[j] = events[i]
    BY <1>1, TailNews
  <1>3. PICK S : S = {x \in Ref : ref'[x].st = "listed"}
    OBVIOUS
  <1>4. /\ refList' \in Seq(Ref) /\ ListedRefs' = ListedRefs \cap S
        /\ Distinct'
        /\ ~dup => Single'
    BY <1>1, <1>3, KeepsFacts DEF SubInv
  <1>5. subInit \in BOOLEAN /\ ListedRefs \subseteq Ref
    BY Listed DEF SubInv, STypes
  <1>6. ASSUME NEW x \in ListedRefs PROVE Follows(ref[x], ref'[x])
    <2>1. ref'[x] = CHOOSE r \in ProcessTrapStateChange(ref[x], TRUE) : TRUE
      BY <1>1, <1>5, <1>6
    <2>2. ref'[x] \in ProcessTrapStateChange(ref[x], TRUE)
      BY <2>1, ProcessSome
    <2>3. Sound(ref[x])
      BY Listed
    <2> QED BY <1>5, <2>2, <2>3, ProcessFollows
  <1>7. \A x \in Ref : x \notin ListedRefs => ref'[x] = ref[x] /\ x \notin ListedRefs'
    BY <1>1, <1>4
  <1>8. \A x \in ListedRefs : (x \in ListedRefs') = (ref'[x].st = "listed")
    BY <1>3, <1>4, <1>5
  <1>9. ASSUME NEW x \in Ref PROVE ref'[x] \in TrapReference /\ RefOK(ref'[x]) /\ ref'[x].count = ref[x].count
    <2>1. CASE x \in ListedRefs
      BY <1>6, <2>1 DEF Follows
    <2>2. CASE x \notin ListedRefs
      BY <1>7, <2>2, AnyRef
    <2> QED BY <2>1, <2>2
  <1>10. ref' \in [Ref -> TrapReference]
    BY <1>1, <1>9
  <1>11. STypes'
    BY <1>1, <1>2, <1>4, <1>10 DEF SubInv, STypes
  <1>12. ListOK'
    <2>1. ASSUME NEW x \in Ref
          PROVE  /\ (ref'[x].st = "listed") = (x \in ListedRefs' \/ term' = x)
                 /\ x \in ListedRefs' => term' # x
                 /\ ref'[x].sd # "none" => x \in ListedRefs'
                 /\ term' = x => ~ref'[x].timer /\ ref'[x].cb # "waits"
                 /\ subInit' /\ ref'[x].op # "none" => ref'[x].sd # "none"
      <3>1. CASE x \in ListedRefs
        <4>1. term' # x
          BY <1>1, <3>1, Listed
        <4>2. ref'[x].sd # "none" => ref'[x].st = "listed"
          BY <1>6, <3>1 DEF Follows, RefOK
        <4>3. subInit' /\ ref'[x].op # "none" => ref'[x].sd # "none"
          <5>1. subInit /\ ref[x].op # "none" => ref[x].sd # "none"
            BY AnyRef
          <5>2. (ref'[x].sd = ref[x].sd /\ ref'[x].op = ref[x].op) \/ ref'[x].sd = "sent"
            BY <1>6, <3>1 DEF Follows
          <5> QED BY <1>1, <5>1, <5>2
        <4> QED BY <1>8, <3>1, <4>1, <4>2, <4>3
      <3>2. CASE x \notin ListedRefs
        BY <1>1, <1>7, <3>2, AnyRef
      <3> QED BY <3>1, <3>2
    <2> QED BY <1>1, <1>4, <2>1 DEF ListOK
  <1>13. TermOK' /\ CallersOK'
    <2>1. ASSUME term \notin {"no", "deregister"}, NEW x \in Ref PROVE ref'[x].sd = "none"
      <3>1. ref[x].sd = "none"
        BY <2>1 DEF SubInv, TermOK
      <3>2. CASE x \in ListedRefs
        BY <1>6, <2>1, <3>1, <3>2 DEF Follows, DriverTakes
      <3>3. CASE x \notin ListedRefs
        BY <1>7, <3>1, <3>3
      <3> QED BY <3>2, <3>3
    <2> QED BY <1>1, <2>1 DEF SubInv, TermOK, CallersOK
  <1>14. CountOK'
    <2>1. Counted' = Counted
      BY <1>1 DEF Counted, Counts
    <2>2. IsFiniteSet(Counted') /\ (~dup' => \A x \in Ref : ref'[x].count >= 0)
      BY <1>1, <1>9, <2>1 DEF SubInv, CountOK
    <2>3. ASSUME term' = "no", ~dup'
          PROVE  Cardinality(Counted') = IF refList' = << >> THEN 0 ELSE ref'[Head(refList')].count
      <3>1. Cardinality(Counted) = IF refList = << >> THEN 0 ELSE ref[Head(refList)].count
        BY <1>1, <2>3 DEF SubInv, CountOK, RefCountIsClients, Counted
      <3>2. refList' # << >> => Head(refList') \in ListedRefs'
        BY <1>4 DEF ListedRefs
      <3>3. CASE refList = << >>
        <4>1. ListedRefs = {}
          BY <3>3, NoneListed DEF SubInv
        <4>2. refList' = << >>
          BY <1>4, <3>2, <4>1
        <4> QED BY <2>1, <3>1, <3>3, <4>2
      <3>4. CASE refList # << >>
        <4>1. PICK x \in ListedRefs : x = Head(refList)
          BY <3>4, HeadListed DEF SubInv
        <4>2. ListedRefs = {x} /\ x \in Ref
          BY <1>1, <2>3, <1>5, OneListed DEF SubInv
        <4>3. CASE refList' # << >>
          <5>1. Head(refList') = x
            BY <1>4, <3>2, <4>2, <4>3
          <5> QED BY <1>9, <2>1, <3>1, <3>4, <4>1, <4>2, <4>3, <5>1
        <4>4. CASE refList' = << >>
          <5>1. ListedRefs' = {}
            BY <4>4 DEF ListedRefs
          <5>2. ref'[x].st # "listed"
            BY <1>8, <5>1
          <5>3. ref[x].count = 0
            BY <1>6, <5>2 DEF Follows
          <5> QED BY <2>1, <3>1, <3>4, <4>1, <4>4, <5>3
        <4> QED BY <4>3, <4>4
      <3> QED BY <3>3, <3>4
    <2>4. RefCountIsClients'
      BY <2>3 DEF RefCountIsClients, Counted
    <2> QED BY <2>2, <2>4 DEF CountOK
  <1>15. NeverForgotten'
    <2>1. ASSUME NEW x \in ListedRefs', subInit' PROVE Minded(ref'[x], events', port')
      <3>1. x \in ListedRefs /\ ref'[x].st = "listed"
        BY <1>3, <1>4, <1>8, <2>1
      <3>2. Awake(ref'[x])
        BY <1>1, <1>6, <2>1, <3>1 DEF Follows
      <3>3. ref'[x].op # "none" => ref'[x].sd # "none"
        BY <1>5, <1>12, <2>1, <3>1 DEF ListOK
      <3> QED BY <3>2, <3>3 DEF Awake, Minded
    <2> QED BY <2>1 DEF NeverForgotten, Minded
  <1>16. SaKnown'
    <2>1. ASSUME ~late', ~dup', NEW x \in Ref
          PROVE  /\ ref'[x].sd = "seen" /\ ref'[x].op = "sub" => sa'
                 /\ ref'[x].sub /\ x \in ListedRefs' => sa' \/ \E i \in DOMAIN events' : events'[i] # "process"
      <3>1. /\ ref[x].sd = "seen" /\ ref[x].op = "sub" => sa
            /\ ref[x].sub /\ x \in ListedRefs => sa \/ \E i \in DOMAIN events : events[i] # "process"
        BY <1>1, <2>1 DEF SubInv, SaKnown
      <3>2. (\E i \in DOMAIN events : events[i] # "process") => \E i \in DOMAIN events' : events'[i] # "process"
        BY <1>1, <1>2
      <3>3. CASE x \in ListedRefs
        <4>1. /\ ref'[x].sd = "seen" /\ ref'[x].op = "sub" => ref[x].sd = "seen" /\ ref[x].op = "sub"
              /\ ref'[x].sub => ref[x].sub
          BY <1>6, <3>3 DEF Follows
        <4> QED BY <1>1, <3>1, <3>2, <3>3, <4>1
      <3>4. CASE x \notin ListedRefs
        BY <1>1, <1>7, <3>1, <3>4
      <3> QED BY <3>3, <3>4
    <2> QED BY <2>1 DEF SaKnown
  <1> QED BY <1>2, <1>9, <1>11, <1>12, <1>13, <1>14, <1>15, <1>16 DEF SubInv

-----------------------------------------------------------------------------
(* The invariant *)

LEMMA SubInit ==
    ASSUME SubscribeInitialize PROVE SubInv
  <1>1. /\ ref = [x \in Ref |-> FreeRef] /\ refList = << >> /\ traps = {}
        /\ caller = [c \in SubClient |-> "idle"] /\ subInit = TRUE /\ term = "no"
        /\ sa = FALSE /\ port = "up" /\ events = << >> /\ late = FALSE /\ dup = FALSE
    BY DEF SubscribeInitialize
  <1>2. \A x \in Ref : ref[x] = FreeRef /\ x # "no"
    BY <1>1, SubscribeAssumption
  <1>3. ListedRefs = {}
    BY <1>1 DEF ListedRefs
  <1>4. Counted = {}
    BY <1>1 DEF Counted, Counts
  <1>5. STypes
    <2>1. ref \in [Ref -> TrapReference]
      BY <1>1, FreeRefFields
    <2>2. caller \in [SubClient -> Calls]
      BY <1>1 DEF Calls
    <2>3. refList \in Seq(Ref) /\ events \in Seq(News)
      BY <1>1
    <2> QED BY <1>1, <2>1, <2>2, <2>3 DEF STypes, Term
  <1>6. \A x \in Ref : RefOK(ref[x])
    BY <1>2, FreeRefFields
  <1>7. ListOK
    BY <1>1, <1>2, <1>3, FreeRefFields DEF ListOK, Distinct, Single
  <1>8. TermOK /\ CallersOK
    BY <1>1 DEF TermOK, CallersOK
  <1>9. CountOK
    <2>1. IsFiniteSet(Counted) /\ Cardinality(Counted) = 0
      BY <1>4, FS_EmptySet
    <2>2. RefCountIsClients
      BY <1>1, <2>1 DEF RefCountIsClients, Counted
    <2>3. \A x \in Ref : ref[x].count >= 0
      BY <1>2, FreeRefFields
    <2> QED BY <2>1, <2>2, <2>3 DEF CountOK
  <1>10. NeverForgotten /\ EventsOK
    BY <1>1, <1>3 DEF NeverForgotten, EventsOK
  <1>11. SaKnown
    BY <1>2, <1>3, FreeRefFields DEF SaKnown
  <1> QED BY <1>5, <1>6, <1>7, <1>8, <1>9, <1>10, <1>11 DEF SubInv

LEMMA SubStep ==
    ASSUME SubInv, [SubscribeNext]_subVars PROVE SubInv'
  <1>1. CASE UNCHANGED subVars
    <2>1. UNCHANGED <<ref, refList, traps, caller, subInit, term, sa, port, events, late, dup>>
      BY <1>1 DEF subVars
    <2>2. caller' \in [SubClient -> Calls] /\ traps' \subseteq SubClient /\ CallersOK' /\ (term # "no" => UNCHANGED caller)
      BY <2>1 DEF SubInv, STypes, CallersOK
    <2>3. Counted' = Counted
      BY <2>1 DEF Counted, Counts
    <2>4. IsFiniteSet(Counted') /\ RefCountIsClients'
      BY <2>1, <2>3 DEF SubInv, CountOK, RefCountIsClients, Counts
    <2> QED BY <2>1, <2>2, <2>4, QuietStep
  <1>2. ASSUME NEW c \in SubClient,
               iba_sd_trap_notice_subscribe(c) \/ iba_sd_trap_notice_unsubscribe(c) \/ CallerStep(c)
        PROVE  SubInv'
    BY <1>2, ClientStepInv, IncrementInv, CreateInv, DecrementInv DEF CallerStep
  <1>3. ASSUME NEW x \in Ref, RefStep(x) PROVE SubInv'
    BY <1>3, TimerFiresInv, TrapTimerCallbackInv, SaProcessesInv, ReapInv, ResponseInv DEF RefStep
  <1>4. CASE SmRestart \/ PortDown \/ PortUp
    BY <1>4, NewsStepInv
  <1>5. CASE Event
    BY <1>5, InvalidateInv, ReRegisterInv DEF Event
  <1>6. CASE SubscribeTerminate \/ SdDeregister \/ RemoveReference \/ DestroyReference
    BY <1>6, TerminateInv, SdDeregisterInv, RemoveInv, DestroyInv
  <1> QED BY <1>1, <1>2, <1>3, <1>4, <1>5, <1>6 DEF SubscribeNext

LEMMA SubAlways == SubscribeSpec => []SubInv
  BY SubInit, SubStep, PTL DEF SubscribeSpec

(* What SubInv says of a reference that was freed, or is to be.            *)
LEMMA InvReferenceKept == ASSUME SubInv PROVE ReferenceKept
  <1>1. SubscribeTypeOK
    BY DEF SubInv, STypes, CountOK, SubscribeTypeOK, Term, Calls
  <1>2. RefCountIsClients /\ NeverForgotten
    BY DEF SubInv, CountOK
  <1>3. ASSUME NEW x \in Ref
        PROVE  /\ ref[x].st = "free" => x \notin ListedRefs /\ ref[x] = FreeRef
               /\ ref[x].st = "reaper" => x \notin ListedRefs /\ ref[x].sd = "none" /\ ~ref[x].timer
    BY AnyRef DEF RefOK
  <1>4. NoRefUseAfterFree
    BY <1>3 DEF NoRefUseAfterFree
  <1> QED BY <1>1, <1>2, <1>4 DEF ReferenceKept

(* An operation belongs to a listed reference, of which there is one; and  *)
(* a mark that is set when no news is on its way was set by the SA.        *)
LEMMA InvSaFollows == ASSUME SubInv PROVE SaFollows
  <1>1. OneOperation
    <2> DEFINE Out == {x \in Ref : ref[x].sd # "none"}
    <2>1. SUFFICES ASSUME ~dup PROVE Cardinality(Out) <= 1
      BY DEF OneOperation
    <2>2. \A x \in Out : x \in ListedRefs
      BY AnyRef
    <2>3. CASE Out = {}
      BY <2>3, FS_EmptySet
    <2>4. ASSUME NEW x \in Out PROVE Cardinality(Out) <= 1
      <3>1. ListedRefs = {x}
        BY <2>1, <2>2, OneListed DEF SubInv
      <3>2. Out = {x}
        BY <2>2, <3>1
      <3> QED BY <3>2, FS_Singleton
    <2> QED BY <2>3, <2>4
  <1>2. SubscribedAtSa
    <2>1. SUFFICES ASSUME Quiet, ~late, ~dup, Believed PROVE sa
      BY DEF SubscribedAtSa
    <2>2. PICK x \in ListedRefs : ref[x].sub
      BY <2>1 DEF Believed
    <2>3. events = << >> /\ DOMAIN events = {}
      BY <2>1 DEF Quiet
    <2>4. x \in Ref
      BY Listed
    <2> QED BY <2>1, <2>2, <2>3, <2>4 DEF SubInv, SaKnown
  <1> QED BY <1>1, <1>2 DEF SaFollows

(* However clients subscribe and unsubscribe, timers fire, answers fail or *)
(* come late, the port and the SM come and go and the driver shuts down:   *)
(* the reference of a trap counts its clients, is never forgotten with     *)
(* work to do, and is not touched once freed.                              *)
THEOREM ReferencesKept == SubscribeSpec => []ReferenceKept
  BY SubAlways, InvReferenceKept, PTL

(* Under the same, at most one operation is out for a trap and a trap      *)
(* believed subscribed is subscribed at the SA, when nothing is under way. *)
THEOREM SaIsFollowed == SubscribeSpec => []SaFollows
  BY SubAlways, InvSaFollows, PTL
=============================================================================
