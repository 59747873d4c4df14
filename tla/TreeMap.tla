------------------------------ MODULE TreeMap -------------------------------
(***************************************************************************)
(* The map of Public/imap.h and imap.c: a binary search tree that is kept  *)
(* level by the least and the greatest depth stored in every item for each *)
(* of its sides.  An item is known by its key; the left child of m_End is  *)
(* the root.  An iterator is an item.  The code for left and the code for  *)
(* right are one operator here, with the side s as its parameter.          *)
(***************************************************************************)
EXTENDS Integers, Sequences, FiniteSets, FiniteSetsExt, SequencesExt

CONSTANTS
    TreeKey,       \* keys, natural numbers from 1
    MAP_MAX_MIN_DELTA, MAP_RECURSION_THRESHOLD

ASSUME TreeMapAssumption == TreeKey \subseteq Nat \ {0} /\ IsFiniteSet(TreeKey)

VARIABLES
    tree,          \* kid, up: the links; min, max: the depths; ok: no ASSERT has failed
    m_Count, m_DelToggle
treeVars == <<tree, m_Count, m_DelToggle>>

Side == {"L", "R"}
Other(s) == IF s = "L" THEN "R" ELSE "L"
m_End == 0
NIL == -1

Both(v) == [s \in Side |-> v]
Leaf(t, x) == t.kid[x] = Both(NIL)
MapRoot(t) == t.kid[m_End]["L"]
MapItorAtRoot(t, x) == t.up[x] = x
Asserted(t, fact) == [t EXCEPT !.ok = @ /\ fact]

-----------------------------------------------------------------------------
(* Links and depths *)

MapItemResetBalances(t, x) == [t EXCEPT !.min[x] = Both(-1), !.max[x] = Both(-1)]
(* c, which may be NIL, becomes the child of x on side s.                  *)
Hang(t, x, s, c) ==
    [t EXCEPT !.kid[x][s] = c, !.up = IF c = NIL THEN @ ELSE [@ EXCEPT ![c] = x]]
MapItemGetPtrAbove(t, x) == IF t.kid[t.up[x]]["L"] = x THEN "L" ELSE "R"
HangAbove(t, x, c) == Hang(t, t.up[x], MapItemGetPtrAbove(t, x), c)

MapUpdateDepthsNoCheck(t, x) ==
    [t EXCEPT
      !.min[x] = [s \in Side |-> IF t.kid[x][s] = NIL THEN -1 ELSE Min(Range(t.min[t.kid[x][s]])) + 1],
      !.max[x] = [s \in Side |-> IF t.kid[x][s] = NIL THEN -1 ELSE Max(Range(t.max[t.kid[x][s]])) + 1]]

(* MapRotLeft and MapRotRight: x goes down on side s, its child y goes up. *)
Rotated(t, x, s, y) == Hang(Hang(HangAbove(t, x, y), x, Other(s), t.kid[y][s]), y, s, x)
MapRot(t, x, s) ==
    LET y == t.kid[x][Other(s)] IN
    MapUpdateDepthsNoCheck(MapUpdateDepthsNoCheck(Rotated(t, x, s, y), x), y)
(* MapDoubleLeft and MapDoubleRight: the inner grandchild n goes up.       *)
Doubled(t, x, s, y, n) ==
    Hang(Hang(Hang(Hang(HangAbove(t, x, n), y, s, t.kid[n][Other(s)]), n, Other(s), y),
              x, Other(s), t.kid[n][s]), n, s, x)
DoubleUpdated(t, x, y, n) ==
    MapUpdateDepthsNoCheck(MapUpdateDepthsNoCheck(MapUpdateDepthsNoCheck(t, y), x), n)
MapDouble(t, x, s) ==
    LET y == t.kid[x][Other(s)] IN DoubleUpdated(Doubled(t, x, s, y, t.kid[y][s]), x, y, t.kid[y][s])

-----------------------------------------------------------------------------
(* Deletion and insertion at the bottom *)

RECURSIVE MapItorProbe(_, _, _)
MapItorProbe(t, x, s) == IF t.kid[x][s] = NIL THEN x ELSE MapItorProbe(t, t.kid[x][s], s)

MapItorDeleteLeaf(t, x) == HangAbove(Asserted(t, Leaf(t, x)), x, NIL)
(* Deletes an item that has a child on side s at most.                     *)
MapItorDeleteHalfLeaf(t, x, s) == HangAbove(Asserted(t, t.kid[x][Other(s)] = NIL), x, t.kid[x][s])
MapItemExchange(t, old, new) ==
    Hang(Hang(HangAbove(t, old, new), new, "L", t.kid[old]["L"]), new, "R", t.kid[old]["R"])
MapItemInsert(t, x, at, s) ==
    MapItemResetBalances(Hang([Asserted(t, t.kid[at][s] = NIL) EXCEPT !.kid[x] = Both(NIL)], at, s, x), x)

-----------------------------------------------------------------------------
(* Balance *)

(* What MapItemCheckRot asserts of the depths of x.                        *)
Checked(t, x) ==
    \A s \in Side : /\ t.max[x][s] - t.min[x][Other(s)] <= MAP_MAX_MIN_DELTA
                    /\ t.max[x][s] - t.min[x][s] < MAP_MAX_MIN_DELTA
(* The heavy side of x, the left before the right, and what is to be done. *)
Heavy(t, x) == {s \in Side : t.max[x][s] - t.min[x][Other(s)] = MAP_MAX_MIN_DELTA}
HeavySide(t, x) == IF "L" \in Heavy(t, x) THEN "L" ELSE "R"
OuterDeeper(t, y, s) == t.max[y][s] > t.max[y][Other(s)]
Rotation(t, x, s) ==
    IF t.max[x][Other(s)] > MAP_RECURSION_THRESHOLD THEN "recursive"
    ELSE IF OuterDeeper(t, t.kid[x][s], s) THEN "single" ELSE "double"
MapItemCheckRot(t, x) == IF Heavy(t, x) = {} THEN "none" ELSE Rotation(t, x, HeavySide(t, x))

RECURSIVE MapItorRecursiveBalance(_, _, _), WalkBackTo(_, _, _), MapItorBalance(_, _)
MapItorBalance(t, x) ==
    CASE MapItemCheckRot(t, x) = "single" -> MapRot(Asserted(t, Checked(t, x)), x, Other(HeavySide(t, x)))
      [] MapItemCheckRot(t, x) = "double" -> MapDouble(Asserted(t, Checked(t, x)), x, Other(HeavySide(t, x)))
      [] MapItemCheckRot(t, x) = "recursive" ->
           MapItorRecursiveBalance(Asserted(t, Checked(t, x)), x, HeavySide(t, x))
      [] OTHER -> Asserted(t, Checked(t, x))
(* Mutant: the walk goes up twice, rotation or not.                        *)
UpTwice(t, b, x) == b.up[x]
(* Where the walk goes on when x of t has been balanced and the tree is b. *)
Balanced(t, b, x) == IF MapItemCheckRot(t, x) = "none" THEN x ELSE b.up[x]

(* MapItorWalkBackAndBalanceToItem, up to item; to m_End it is             *)
(* MapItorWalkBackAndBalance.  A walk that has missed its item would turn  *)
(* round at m_End for ever.                                                *)
WalkUp(b, y, item) ==
    IF y = item THEN b ELSE IF MapItorAtRoot(b, y) THEN Asserted(b, FALSE) ELSE WalkBackTo(b, y, item)
WalkOn(u, b, x, item) == WalkUp(b, b.up[Balanced(u, b, x)], item)
WalkBackTo(t, x, item) ==
    WalkOn(MapUpdateDepthsNoCheck(t, x), MapItorBalance(MapUpdateDepthsNoCheck(t, x), x), x, item)
MapItorWalkBackAndBalanceToItem(t, x, item) ==
    IF Leaf(t, x) THEN WalkBackTo(MapItemResetBalances(t, x), t.up[x], item) ELSE WalkBackTo(t, x, item)

(* The heavy side h gives up its innermost item, which becomes the new     *)
(* root, and the old root goes down to the innermost place of the other    *)
(* side; then both sides are balanced up to the new root.                  *)
Swapped(t, old, new, h) == MapItemExchange(MapItorDeleteHalfLeaf(t, new, h), old, new)
BothSides(t, heavy, light, new) ==
    MapItorBalance(MapUpdateDepthsNoCheck(
        MapItorWalkBackAndBalanceToItem(
            MapItorWalkBackAndBalanceToItem(t, heavy, new), light, new), new), new)
Reseated(t, old, new, heavy, h, light) == BothSides(MapItemInsert(t, old, light, h), heavy, light, new)
MapItorRecursiveBalance(t, old, h) ==
    LET new == MapItorProbe(t, t.kid[old][h], Other(h)) IN
    Reseated(Swapped(t, old, new, h), old, new, t.up[new], h,
             MapItorProbe(Swapped(t, old, new, h), t.kid[old][Other(h)], h))

-----------------------------------------------------------------------------
(* The map *)

RECURSIVE Sought(_, _, _), MapItorInsert(_, _, _)
Sought(t, x, k) ==
    IF x = NIL \/ x = k THEN x ELSE Sought(t, t.kid[x][IF k < x THEN "L" ELSE "R"], k)
MapItorGet(t, k) == Sought(t, MapRoot(t), k)
MapGet(t, k) == MapItorGet(t, k)
MapHead(t) == IF MapRoot(t) = NIL THEN NIL ELSE MapItorProbe(t, MapRoot(t), "L")
MapTail(t) == IF MapRoot(t) = NIL THEN NIL ELSE MapItorProbe(t, MapRoot(t), "R")

(* The item where k goes.                                                  *)
MapItorInsert(t, x, k) ==
    LET s == IF k < x THEN "L" ELSE "R" IN
    IF t.kid[x][s] = NIL THEN x ELSE MapItorInsert(t, t.kid[x][s], k)
Grown(t, k, at) ==
    MapItorWalkBackAndBalanceToItem(MapItemInsert(t, k, at, IF k < at THEN "L" ELSE "R"), at, m_End)
(* The first item is not walked back from; a key that is there already     *)
(* goes back to the pool.                                                  *)
MapInsert(k) ==
    /\ MapItorGet(tree, k) = NIL
    /\ tree' = IF MapRoot(tree) = NIL THEN MapItemResetBalances(Hang([tree EXCEPT !.kid[k] = Both(NIL)], m_End, "L", k), k)
               ELSE Grown(tree, k, MapItorInsert(tree, MapRoot(tree), k))
    /\ m_Count' = m_Count + 1 /\ UNCHANGED m_DelToggle

(* The item that takes the place of x, deleted from the bottom by half;    *)
(* the walk begins at its old parent, or at itself if that is x.           *)
Replaced(t, x, sub, s) == MapItemExchange(MapItorDeleteHalfLeaf(t, sub, s), x, sub)
ReplacedByLeaf(t, x, sub) == MapItemExchange(MapItorDeleteLeaf(t, sub), x, sub)
From(t, x, sub) == IF t.up[sub] = x THEN sub ELSE t.up[sub]
Substitute(t, x, s) == MapItorProbe(t, t.kid[x][s], Other(s))
OnlySide(t, x) == IF t.kid[x]["R"] # NIL THEN "R" ELSE "L"
TwoKids(t, x) == NIL \notin Range(t.kid[x])
SubsSide == IF m_DelToggle THEN "R" ELSE "L"
TreeWithout(t, x, s) ==
    CASE Leaf(t, x) -> MapItorWalkBackAndBalanceToItem(MapItorDeleteLeaf(t, x), t.up[x], m_End)
      [] TwoKids(t, x) ->
           MapItorWalkBackAndBalanceToItem(Replaced(t, x, Substitute(t, x, s), s),
                                           From(t, x, Substitute(t, x, s)), m_End)
      [] OTHER ->
           MapItorWalkBackAndBalanceToItem(ReplacedByLeaf(t, x, t.kid[x][OnlySide(t, x)]),
                                           t.kid[x][OnlySide(t, x)], m_End)
(* What the pool gets back keeps nothing.                                  *)
Freed(t, x) == [MapItemResetBalances(t, x) EXCEPT !.kid[x] = Both(NIL), !.up[x] = NIL]
MapRemove(k) ==
    /\ MapItorGet(tree, k) # NIL
    /\ m_DelToggle' = IF TwoKids(tree, k) THEN ~m_DelToggle ELSE m_DelToggle
    /\ m_Count' = m_Count - 1
    /\ tree' = IF m_Count = 1 THEN Freed(MapItorDeleteLeaf(tree, k), k) ELSE Freed(TreeWithout(tree, k, SubsSide), k)
MapRemoveHead == MapHead(tree) # NIL /\ MapRemove(MapHead(tree))
MapRemoveTail == MapTail(tree) # NIL /\ MapRemove(MapTail(tree))

(* MapItorNext (s = "R") and MapItorPrev (s = "L"); NIL at the end.        *)
RECURSIVE UpFrom(_, _, _)
UpFrom(t, x, s) == IF t.kid[t.up[x]][s] = x THEN UpFrom(t, t.up[x], s) ELSE t.up[x]
MapItorStep(t, x, s) ==
    IF t.kid[x][s] # NIL THEN MapItorProbe(t, t.kid[x][s], Other(s)) ELSE UpFrom(t, x, s)
Stepped(t, y) == IF MapItorAtRoot(t, y) THEN NIL ELSE y
MapItorNext(t, x) == Stepped(t, MapItorStep(t, x, "R"))
RECURSIVE Walked(_, _, _)
Walked(t, x, s) == IF x = NIL THEN << >> ELSE <<x>> \o Walked(t, Stepped(t, MapItorStep(t, x, s)), s)

(* MapDestroy: round after round in order, each gives the leaves it meets  *)
(* to the pool; the last item is the root.                                 *)
RECURSIVE Round(_, _, _, _), Rounds(_, _)
Round(t, x, leaf, put) ==
    IF x = NIL THEN <<t, put>>
    ELSE IF leaf THEN LET u == HangAbove(t, x, NIL)
                          y == MapItorNext(u, t.up[x])
                      IN Round(u, y, y # NIL /\ Leaf(u, y), Append(put, x))
    ELSE LET y == MapItorNext(t, x) IN Round(t, y, y # NIL /\ Leaf(t, y), put)
Rounds(t, put) ==
    IF Leaf(t, MapRoot(t)) THEN Append(put, MapRoot(t))
    ELSE LET x == MapHead(t)
             r == Round(t, x, Leaf(t, x), put)
         IN Rounds(r[1], r[2])
PutByDestroy(t) == IF MapRoot(t) = NIL THEN << >> ELSE Rounds(t, << >>)

EmptyTree ==
    [kid |-> [x \in TreeKey \cup {m_End} |-> Both(NIL)],
     up |-> [x \in TreeKey \cup {m_End} |-> IF x = m_End THEN m_End ELSE NIL],
     min |-> [x \in TreeKey \cup {m_End} |-> Both(-1)], max |-> [x \in TreeKey \cup {m_End} |-> Both(-1)],
     ok |-> TRUE]
MapDestroy == m_Count # 0 /\ tree' = EmptyTree /\ m_Count' = 0 /\ m_DelToggle' = FALSE

TreeMapInit == tree = EmptyTree /\ m_Count = 0 /\ m_DelToggle = FALSE
TreeMapNext ==
    \/ \E k \in TreeKey : MapInsert(k) \/ MapRemove(k)
    \/ MapRemoveHead \/ MapRemoveTail \/ MapDestroy
TreeMapSpec == TreeMapInit /\ [][TreeMapNext]_treeVars

-----------------------------------------------------------------------------
(* Properties *)

InTree == {k \in TreeKey : MapGet(tree, k) = k}
RECURSIVE Depth(_, _)
Depth(t, x) == IF x = m_End THEN -1 ELSE 1 + Depth(t, t.up[x])
(* The depths at which a place for one more item is free.                  *)
Places == {Depth(tree, x) : x \in {y \in InTree : NIL \in Range(tree.kid[y])}}

Ascending(w) == Range(w) = InTree /\ \A i \in 1..(Len(w) - 1) : w[i] < w[i + 1]

(* However items come and go, every ASSERT of the balancing holds, the     *)
(* depths of the map vary by no more than one, as the comment on           *)
(* MapDebugCheckDepth has it, every item is found by its key, the walks    *)
(* from both ends meet all items in order, and MapDestroy gives each of    *)
(* them to the pool once (imap.c).                                         *)
LevelAndSorted ==
    /\ tree.ok
    /\ Places # {} => Max(Places) - Min(Places) <= 1
    /\ Cardinality(InTree) = m_Count
    /\ Ascending(Walked(tree, MapHead(tree), "R"))
    /\ Ascending(Reverse(Walked(tree, MapTail(tree), "L")))
    /\ Len(PutByDestroy(tree)) = m_Count /\ Range(PutByDestroy(tree)) = InTree
=============================================================================
