------------------------------- MODULE QList --------------------------------
(***************************************************************************)
(* The quick lists of Public/ilist.h and ilist.c as operators on a heap of *)
(* links: h.next and h.prev of the nodes, and h.count of the lists.  A     *)
(* list is the node of its m_Head, so that a list and its items form a     *)
(* ring.  Every operator makes the pointer writes of the code, on whatever *)
(* links it finds.                                                         *)
(***************************************************************************)
EXTENDS Integers, Sequences, FiniteSets, SequencesExt

CONSTANTS
    NULL,
    WalkBound      \* more than any list has items: a walk over a broken ring ends here

Counted(h, l, n) == [h EXCEPT !.count[l] = @ + n]

(* x before at.                                                            *)
PrimitiveInsert(h, at, x) ==
    [h EXCEPT !.next = [@ EXCEPT ![x] = at, ![h.prev[at]] = x],
              !.prev = [@ EXCEPT ![x] = h.prev[at], ![at] = x]]
PrimitiveRemove(h, x) ==
    [h EXCEPT !.prev = [@ EXCEPT ![h.next[x]] = h.prev[x], ![x] = NULL],
              !.next = [@ EXCEPT ![h.prev[x]] = h.next[x], ![x] = NULL]]

QListIsEmpty(h, l) == h.count[l] = 0
QListHead(h, l) == IF QListIsEmpty(h, l) THEN NULL ELSE h.next[l]
QListTail(h, l) == IF QListIsEmpty(h, l) THEN NULL ELSE h.prev[l]
QListNext(h, l, x) == IF h.next[x] = l THEN NULL ELSE h.next[x]
QListPrev(h, l, x) == IF h.prev[x] = l THEN NULL ELSE h.prev[x]

(* The items from x on, as QListApplyFunc and the searches meet them.      *)
RECURSIVE NextFrom(_, _, _, _), PrevFrom(_, _, _, _)
NextFrom(h, l, x, n) ==
    IF x = NULL \/ n = 0 THEN << >> ELSE <<x>> \o NextFrom(h, l, QListNext(h, l, x), n - 1)
PrevFrom(h, l, x, n) ==
    IF x = NULL \/ n = 0 THEN << >> ELSE <<x>> \o PrevFrom(h, l, QListPrev(h, l, x), n - 1)
QListForward(h, l) == NextFrom(h, l, QListHead(h, l), WalkBound)
QListBackward(h, l) == PrevFrom(h, l, QListTail(h, l), WalkBound)

QListIsItemInList(h, l, x) == x \in Range(QListForward(h, l))
FirstIn(xs, P) == IF Range(xs) \cap P = {} THEN NULL ELSE SelectSeq(xs, LAMBDA x : x \in P)[1]
QListFindFromHead(h, l, P) == FirstIn(QListForward(h, l), P)
QListFindFromTail(h, l, P) == FirstIn(QListBackward(h, l), P)

QListInsertHead(h, l, x) == Counted(PrimitiveInsert(h, h.next[l], x), l, 1)
QListInsertTail(h, l, x) == Counted(PrimitiveInsert(h, l, x), l, 1)
QListInsertPrev(h, l, y, x) == Counted(PrimitiveInsert(h, y, x), l, 1)
QListInsertNext(h, l, y, x) == Counted(PrimitiveInsert(h, h.next[y], x), l, 1)
(* The arrays keep their order.                                            *)
QListInsertArrayHead(h, l, xs) == FoldRight(LAMBDA x, g : QListInsertHead(g, l, x), xs, h)
QListInsertArrayTail(h, l, xs) == FoldLeft(LAMBDA g, x : QListInsertTail(g, l, x), h, xs)

QListRemoveItem(h, l, x) == Counted(PrimitiveRemove(h, x), l, -1)
QListRemoveHead(h, l) == IF QListIsEmpty(h, l) THEN h ELSE QListRemoveItem(h, l, h.next[l])
QListRemoveTail(h, l) == IF QListIsEmpty(h, l) THEN h ELSE QListRemoveItem(h, l, h.prev[l])
QListSafeRemoveItem(h, l, x) == IF QListIsItemInList(h, l, x) THEN QListRemoveItem(h, l, x) ELSE h
(* The items keep their links.                                             *)
QListRemoveAll(h, l) == [h EXCEPT !.next[l] = l, !.prev[l] = l, !.count[l] = 0]

(* Mutant: the old last item still ends the ring.                          *)
ChainTailLoose(h, d, first, last, n) ==
    [h EXCEPT !.next = [@ EXCEPT ![last] = d], !.prev = [@ EXCEPT ![first] = h.prev[d], ![d] = last],
              !.count[d] = @ + n]
(* A chain of n items goes to the front or to the back of d.               *)
ChainHead(h, d, first, last, n) ==
    [h EXCEPT !.next = [@ EXCEPT ![last] = h.next[d], ![d] = first],
              !.prev = [@ EXCEPT ![h.next[d]] = last, ![first] = d], !.count[d] = @ + n]
ChainTail(h, d, first, last, n) ==
    [h EXCEPT !.next = [@ EXCEPT ![h.prev[d]] = first, ![last] = d],
              !.prev = [@ EXCEPT ![first] = h.prev[d], ![d] = last], !.count[d] = @ + n]
QListInsertListHead(h, d, s) ==
    IF QListIsEmpty(h, s) THEN h
    ELSE QListRemoveAll(ChainHead(h, d, h.next[s], h.prev[s], h.count[s]), s)
QListInsertListTail(h, d, s) ==
    IF QListIsEmpty(h, s) THEN h
    ELSE QListRemoveAll(ChainTail(h, d, h.next[s], h.prev[s], h.count[s]), s)

(* The items in P go from s to the end of d, in their order; the next item *)
(* is read before the move.                                                *)
RECURSIVE MoveFrom(_, _, _, _, _)
MoveFrom(h, s, d, x, P) ==
    IF x = NULL THEN h
    ELSE MoveFrom(IF x \in P THEN QListInsertTail(QListRemoveItem(h, s, x), d, x) ELSE h,
                  s, d, QListNext(h, s, x), P)
QListMoveItems(h, s, d, P) == MoveFrom(h, s, d, QListHead(h, s), P)

(* A list whose ring is the same both ways and as long as it is counted.   *)
RingWhole(h, l) ==
    /\ QListForward(h, l) = Reverse(QListBackward(h, l))
    /\ Len(QListForward(h, l)) = h.count[l]
    /\ h.next[l] = l <=> h.count[l] = 0
=============================================================================
