------------------------------- MODULE Lists --------------------------------
(***************************************************************************)
(* Locked quick lists shared by threads (Public/ilist.h, ilist.c).  Every  *)
(* operation holds the lock of its list from its first access to its last  *)
(* and is one step.  LQListInsertListHead and LQListInsertListTail hold    *)
(* the lock of the source, then that of the destination, never both: two   *)
(* steps, with the chain in the thread's own variables between them.       *)
(***************************************************************************)
EXTENDS QList

CONSTANTS
    List, ListItem, Mover, NoChain,
    Criteria       \* bound: the sets of items a caller's pfnFunc looks for

ASSUME ListsAssumption ==
    WalkBound \in Nat /\ WalkBound > Cardinality(ListItem) /\ Criteria \subseteq SUBSET ListItem

VARIABLES
    links,         \* the heap of QList
    chain          \* pSrcHead, pSrcTail, SrcCount and the destination of a thread's move

listVars == <<links, chain>>

(* The items of a thread's chain, by the links they have kept.             *)
RECURSIVE ChainFrom(_, _, _)
ChainFrom(h, x, n) == IF n = 0 THEN << >> ELSE <<x>> \o ChainFrom(h, h.next[x], n - 1)
Carried(t) == IF chain[t] = NoChain THEN << >> ELSE ChainFrom(links, chain[t].first, chain[t].n)

(* The callers' part: only an item in no list, and in nobody's hands, is   *)
(* inserted, and what LQListRemoveItem is given is in the list.            *)
Loose == {x \in ListItem : (\A l \in List : ~QListIsItemInList(links, l, x))
                       /\ (\A t \in Mover : x \notin Range(Carried(t)))}

LinksBecome(h) == links' = h /\ UNCHANGED chain

LQListInsertHead(l, x) == x \in Loose /\ LinksBecome(QListInsertHead(links, l, x))
LQListInsertTail(l, x) == x \in Loose /\ LinksBecome(QListInsertTail(links, l, x))
LQListInsertPrev(l, y, x) ==
    x \in Loose /\ QListIsItemInList(links, l, y) /\ LinksBecome(QListInsertPrev(links, l, y, x))
LQListInsertNext(l, y, x) ==
    x \in Loose /\ QListIsItemInList(links, l, y) /\ LinksBecome(QListInsertNext(links, l, y, x))
LQListInsertArrayHead(l, xs) == LinksBecome(QListInsertArrayHead(links, l, xs))
LQListInsertArrayTail(l, xs) == LinksBecome(QListInsertArrayTail(links, l, xs))

LQListRemoveHead(l) == LinksBecome(QListRemoveHead(links, l))
LQListRemoveTail(l) == LinksBecome(QListRemoveTail(links, l))
LQListRemoveItem(l, x) == QListIsItemInList(links, l, x) /\ LinksBecome(QListRemoveItem(links, l, x))
LQListSafeRemoveItem(l, x) == LinksBecome(QListSafeRemoveItem(links, l, x))
LQListRemoveAll(l) == LinksBecome(QListRemoveAll(links, l))

(* The search and the removal are under one lock.                          *)
RemoveFound(l, x) == LinksBecome(IF x = NULL THEN links ELSE QListRemoveItem(links, l, x))
LQListFindFromHeadAndRemove(l, P) == RemoveFound(l, QListFindFromHead(links, l, P))
LQListFindFromTailAndRemove(l, P) == RemoveFound(l, QListFindFromTail(links, l, P))

(* The two steps of LQListInsertListHead (at = "head") and ...Tail.        *)
Detach(t, d, s, at) ==
    /\ chain[t] = NoChain /\ ~QListIsEmpty(links, s)
    /\ chain' = [chain EXCEPT ![t] = [first |-> links.next[s], last |-> links.prev[s],
                                      n |-> links.count[s], dest |-> d, at |-> at]]
    /\ links' = QListRemoveAll(links, s)
LQListInsertListHead(t, d, s) == Detach(t, d, s, "head")
LQListInsertListTail(t, d, s) == Detach(t, d, s, "tail")
AttachHead(t) ==
    /\ chain[t] # NoChain /\ chain[t].at = "head"
    /\ links' = ChainHead(links, chain[t].dest, chain[t].first, chain[t].last, chain[t].n)
    /\ chain' = [chain EXCEPT ![t] = NoChain]
AttachTail(t) ==
    /\ chain[t] # NoChain /\ chain[t].at = "tail"
    /\ links' = ChainTail(links, chain[t].dest, chain[t].first, chain[t].last, chain[t].n)
    /\ chain' = [chain EXCEPT ![t] = NoChain]

(* Quick lists, whose callers have a lock over both.                       *)
InsertListHead(d, s) == d # s /\ LinksBecome(QListInsertListHead(links, d, s))
InsertListTail(d, s) == d # s /\ LinksBecome(QListInsertListTail(links, d, s))
MoveItems(s, d, P) == d # s /\ LinksBecome(QListMoveItems(links, s, d, P))

(* QListInit of every list, ListItemInitState of every item.               *)
ListsInit ==
    /\ links = [next |-> [x \in List \cup ListItem |-> IF x \in List THEN x ELSE NULL],
                prev |-> [x \in List \cup ListItem |-> IF x \in List THEN x ELSE NULL],
                count |-> [l \in List |-> 0]]
    /\ chain = [t \in Mover |-> NoChain]

OneItem(l, x) ==
    \/ LQListInsertHead(l, x) \/ LQListInsertTail(l, x)
    \/ LQListRemoveItem(l, x) \/ LQListSafeRemoveItem(l, x)
    \/ \E y \in ListItem : LQListInsertPrev(l, y, x) \/ LQListInsertNext(l, y, x)
Several(l) ==
    \/ LQListRemoveHead(l) \/ LQListRemoveTail(l) \/ LQListRemoveAll(l)
    \/ \E x, y \in Loose : x # y /\ (LQListInsertArrayHead(l, <<x, y>>) \/ LQListInsertArrayTail(l, <<x, y>>))
    \/ \E P \in Criteria : LQListFindFromHeadAndRemove(l, P) \/ LQListFindFromTailAndRemove(l, P)
Moves(d, s) ==
    \/ InsertListHead(d, s) \/ InsertListTail(d, s) \/ \E P \in Criteria : MoveItems(s, d, P)
    \/ \E t \in Mover : LQListInsertListHead(t, d, s) \/ LQListInsertListTail(t, d, s)
ListsNext ==
    \/ \E l \in List : Several(l) \/ \E x \in ListItem : OneItem(l, x)
    \/ \E d, s \in List : Moves(d, s)
    \/ \E t \in Mover : AttachHead(t) \/ AttachTail(t)
ListsSpec == ListsInit /\ [][ListsNext]_listVars

-----------------------------------------------------------------------------
(* Properties *)

Broken == <<NULL>>
Promise ==
    INSTANCE AbsLists WITH
      list <- [l \in List |-> IF RingWhole(links, l) THEN QListForward(links, l) ELSE Broken],
      carried <- [t \in Mover |-> Carried(t)]

(* The links, which pointer writes change two and four at a time, are at   *)
(* every moment sequences of items as ilist.h promises: read forward, read *)
(* backward and counted they agree, and no operation, nor another thread's *)
(* operation between the two halves of LQListInsertListHead or ...Tail,    *)
(* loses, doubles or reorders an item.                                     *)
ImplementsLists == Promise!AbsSpec
=============================================================================
