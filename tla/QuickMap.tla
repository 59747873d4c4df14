------------------------------ MODULE QuickMap ------------------------------
(***************************************************************************)
(* The quick map (Public/iquickmap.c, iquickmap.h): a red-black tree whose *)
(* items are also threaded on a list in the order of their keys, under     *)
(* every index of the Connection Manager and of the topology.  The model   *)
(* keeps every pointer: an operation is a sequence of pointer assignments  *)
(* on the heap, in the order of the code.                                  *)
(***************************************************************************)
EXTENDS Integers, Sequences, FiniteSets, SequencesExt

CONSTANTS
    Map,        \* maps, numbers
    MapKey,     \* keys, positive numbers
    Copy,       \* items of one key
    Collate     \* the order of the caller's key_compare: [MapKey -> Nat]

ASSUME QuickMapAssumption ==
    Map \subseteq Nat /\ MapKey \subseteq Nat \ {0} /\ Copy \subseteq Nat /\ Collate \in [MapKey -> Nat]

VARIABLES
    heap,         \* the items, and root and nil_item of each map
    count,        \* p_map->count
    keyCompare    \* p_map->key_compare: "NULL" or "user"

qmapVars == <<heap, count, keyCompare>>

MapItem == MapKey \X Copy
Nil(m) == <<0, m>>
Root(m) == <<-1, m>>
IsNil(x) == x[1] = 0
Ptr == MapItem \cup {Nil(m) : m \in Map} \cup {Root(m) : m \in Map}

(* cl_map_item_t: p_left, p_right, p_up, color, and the list item.         *)
Node(l, r, u, n, p) == [l |-> l, r |-> r, u |-> u, c |-> "BLACK", n |-> n, p |-> p]
(* What is never read again: the links of the items xs, which are in no    *)
(* map, and p_up of nil_item, which one removal uses as its scratch.       *)
Settled(h, xs) ==
    [x \in DOMAIN h |-> IF x \in xs THEN Node(x, x, x, x, x)
                        ELSE IF IsNil(x) THEN [h[x] EXCEPT !.u = x] ELSE h[x]]
KeyOf(x) == x[1]

-----------------------------------------------------------------------------
(* The tree *)

IsLeftChild(h, x) == h[h[x].u].l = x
(* *__cl_map_get_parent_ptr_to_item(x) = y                                 *)
SetLink(h, x, y) ==
    IF IsLeftChild(h, x) THEN [h EXCEPT ![h[x].u].l = y] ELSE [h EXCEPT ![h[x].u].r = y]

(* B, the subtree that changes its parent, may be nil, which stays as it is.*)
SetUp(h, b, x) == IF IsNil(b) THEN h ELSE [h EXCEPT ![b].u = x]
RotLeft(h, x) ==
    LET y == h[x].r
        b == h[y].l
        g == [SetLink(h, x, y) EXCEPT ![y].u = h[x].u, ![x].r = b]
    IN [SetUp(g, b, x) EXCEPT ![y].l = x, ![x].u = y]
RotRight(h, x) ==
    LET y == h[x].l
        b == h[y].r
        g == [SetLink(h, x, y) EXCEPT ![y].u = h[x].u, ![x].l = b]
    IN [SetUp(g, b, x) EXCEPT ![y].r = x, ![x].u = y]

Paint(h, x, c) == [h EXCEPT ![x].c = c]
Red(h, x) == h[x].c = "RED"

Child(h, x, left) == IF left THEN h[x].l ELSE h[x].r
Turn(h, x, left) == IF left THEN RotLeft(h, x) ELSE RotRight(h, x)

(* __cl_map_ins_bal: left says on which side x's parent hangs.             *)
Raised(h, x, left) ==
    LET p == h[x].u
        g == h[p].u
    IN Turn(Paint(Paint(h, p, "BLACK"), g, "RED"), g, ~left)
RECURSIVE InsBal(_, _)
InsBal(h, x) ==
    LET p == h[x].u
        g == h[p].u
        left == IsLeftChild(h, p)
        uncle == Child(h, g, ~left)
    IN IF ~Red(h, p) THEN h
       ELSE IF Red(h, uncle)
            THEN InsBal(Paint(Paint(Paint(h, uncle, "BLACK"), p, "BLACK"), g, "RED"), g)
       ELSE IF IsLeftChild(h, x) # left THEN InsBal(Raised(Turn(h, p, left), p, left), p)
       ELSE InsBal(Raised(h, x, left), x)

(* __cl_map_del_bal: x is one black short.  Its sibling is made black,     *)
(* then the far child of the sibling red, and that closes the gap.         *)
SiblingBlack(h, p, left) ==
    LET s == Child(h, p, ~left)
    IN IF Red(h, s) THEN Turn(Paint(Paint(h, s, "BLACK"), p, "RED"), p, left) ELSE h
FarRed(h, s, left) ==
    IF Red(h, Child(h, s, ~left)) THEN h
    ELSE Turn(Paint(Paint(h, Child(h, s, left), "BLACK"), s, "RED"), s, ~left)
Closed(h, p, left) ==
    LET s == Child(h, p, ~left)
    IN Turn(Paint(Paint(Paint(h, s, h[p].c), p, "BLACK"), Child(h, s, ~left), "BLACK"), p, left)
RECURSIVE DelBal(_, _, _), DelBlack(_, _, _, _)
DelBal(h, m, x) ==
    IF Red(h, x) \/ h[x].u = Root(m) THEN Paint(h, x, "BLACK")
    ELSE LET left == IsLeftChild(h, x) IN DelBlack(SiblingBlack(h, h[x].u, left), m, x, left)
DelBlack(h, m, x, left) ==
    LET p == h[x].u
        s == Child(h, p, ~left)
    IN IF ~Red(h, Child(h, s, left)) /\ ~Red(h, Child(h, s, ~left))
       THEN DelBal(Paint(h, s, "RED"), m, p)
       ELSE Paint(Closed(FarRed(h, s, left), p, left), x, "BLACK")

-----------------------------------------------------------------------------
(* Looking up *)

Compare(a, b) == IF keyCompare = "NULL" THEN a - b ELSE Collate[a] - Collate[b]

(* The item of key k, or nil_item.                                         *)
RECURSIVE Search(_, _, _)
Search(h, x, k) ==
    IF IsNil(x) \/ Compare(KeyOf(x), k) = 0 THEN x
    ELSE Search(h, IF Compare(KeyOf(x), k) > 0 THEN h[x].l ELSE h[x].r, k)
cl_qmap_get(h, m, k) == Search(h, h[Root(m)].l, k)

(* Mutant: an item of the key itself counts as the next one.               *)
NextSame(x, k) == IF keyCompare = "NULL" THEN k <= KeyOf(x) ELSE Compare(KeyOf(x), k) < 0
(* The test that turns the search to the left: with a compare function it  *)
(* is the other way round.                                                 *)
IsBeyond(x, k) == IF keyCompare = "NULL" THEN k < KeyOf(x) ELSE Compare(KeyOf(x), k) < 0
RECURSIVE SearchNext(_, _, _, _)
SearchNext(h, x, k, found) ==
    IF IsNil(x) THEN found
    ELSE IF IsBeyond(x, k) THEN SearchNext(h, h[x].l, k, x) ELSE SearchNext(h, h[x].r, k, found)
cl_qmap_get_next(h, m, k) == SearchNext(h, h[Root(m)].l, k, Nil(m))

-----------------------------------------------------------------------------
(* Changing a map *)

(* __cl_primitive_insert, __cl_primitive_remove                            *)
ListInsert(h, at, x) ==
    LET g == [h EXCEPT ![x].n = at, ![x].p = h[at].p, ![at].p = x] IN [g EXCEPT ![g[x].p].n = x]
ListRemove(h, x) ==
    LET g == [h EXCEPT ![h[x].n].p = h[x].p] IN [g EXCEPT ![g[x].p].n = g[x].n]

(* Where the search for k ends: the last item it saw, or the root.         *)
RECURSIVE FindSlot(_, _, _, _)
FindSlot(h, at, x, k) ==
    IF IsNil(x) \/ Compare(KeyOf(x), k) = 0 THEN (IF IsNil(x) THEN at ELSE x)
    ELSE FindSlot(h, x, IF Compare(KeyOf(x), k) > 0 THEN h[x].l ELSE h[x].r, k)

(* Mutant: a new last item is threaded before the item it hangs on.        *)
ThreadedBefore(h, m, at, x) ==
    IF at = Root(m) THEN [ListInsert(h, Nil(m), x) EXCEPT ![at].l = x]
    ELSE IF Compare(KeyOf(at), KeyOf(x)) > 0 THEN [ListInsert(h, at, x) EXCEPT ![at].l = x]
    ELSE [ListInsert(h, at, x) EXCEPT ![at].r = x]
(* The new item hangs on at, and is threaded before or behind it.          *)
HungOn(h, m, at, x) ==
    IF at = Root(m) THEN [ListInsert(h, Nil(m), x) EXCEPT ![at].l = x]
    ELSE IF Compare(KeyOf(at), KeyOf(x)) > 0 THEN [ListInsert(h, at, x) EXCEPT ![at].l = x]
    ELSE [ListInsert(h, h[at].n, x) EXCEPT ![at].r = x]

(* The item now at the key is the one given, unless the key was taken.     *)
Taken(h, m, x) == LET at == FindSlot(h, Root(m), h[Root(m)].l, KeyOf(x))
                  IN at # Root(m) /\ Compare(KeyOf(at), KeyOf(x)) = 0
RootBlack(h, m) == Paint(h, h[Root(m)].l, "BLACK")
Inserted(h, m, x) ==
    LET at == FindSlot(h, Root(m), h[Root(m)].l, KeyOf(x))
        new == [h EXCEPT ![x] = [@ EXCEPT !.l = Nil(m), !.r = Nil(m), !.c = "RED"]]
    IN IF Taken(h, m, x) THEN h
       ELSE RootBlack(InsBal([HungOn(new, m, at, x) EXCEPT ![x].u = at], x), m)

(* Mutant: the substitute keeps its own color.                             *)
SpliceKeepsColor(h, x, y) ==
    LET g == [h EXCEPT ![y].u = h[x].u, ![y].l = h[x].l, ![y].r = h[x].r]
        s == SetLink(g, x, y)
        t == [s EXCEPT ![s[x].r].u = y]
    IN [t EXCEPT ![t[x].l].u = y]
(* The substitute y takes the place of x.                                  *)
Splice(h, x, y) ==
    LET g == [h EXCEPT ![y].u = h[x].u, ![y].l = h[x].l, ![y].r = h[x].r]
        s == SetLink(g, x, y)
        t == [s EXCEPT ![s[x].r].u = y]
        v == [t EXCEPT ![t[x].l].u = y]
    IN [v EXCEPT ![y].c = v[x].c]

Spliced(h, x, y) == IF y = x THEN h ELSE Splice(h, x, y)

(* cl_qmap_remove_item: an item with two children is replaced by the next  *)
(* one, which is taken out in its stead.  nil_item is not removed.         *)
Removed(h, m, x) ==
    LET del == IF IsNil(h[x].l) \/ IsNil(h[x].r) THEN x ELSE h[x].n
        child == IF ~IsNil(h[del].l) THEN h[del].l ELSE h[del].r
        g == SetLink([ListRemove(h, x) EXCEPT ![child].u = h[del].u], del, child)
    IN IF IsNil(x) THEN h
       ELSE Spliced(IF Red(h, del) THEN g ELSE DelBal(g, m, child), x, del)

Holds(h, m, x) == cl_qmap_get(h, m, KeyOf(x)) = x
Free == {x \in MapItem : \A m \in Map : ~Holds(heap, m, x)}

cl_qmap_insert(m, x) ==
    /\ x \in Free
    /\ heap' = Inserted(heap, m, x)
    /\ count' = IF Taken(heap, m, x) THEN count ELSE [count EXCEPT ![m] = @ + 1]
    /\ UNCHANGED keyCompare

cl_qmap_remove(m, k) ==
    LET x == cl_qmap_get(heap, m, k)
    IN /\ heap' = Settled(Removed(heap, m, x), {x} \cap MapItem)
       /\ count' = IF IsNil(x) THEN count ELSE [count EXCEPT ![m] = @ - 1]
       /\ UNCHANGED keyCompare

cl_qmap_remove_all(m) ==
    /\ heap' = Settled([heap EXCEPT ![Root(m)].l = Nil(m), ![Nil(m)].n = Nil(m), ![Nil(m)].p = Nil(m)],
                        {x \in MapItem : Holds(heap, m, x)})
    /\ count' = [count EXCEPT ![m] = 0] /\ UNCHANGED keyCompare

-----------------------------------------------------------------------------
(* Merge and delta, on [h |-> the heap, n |-> the counts] *)

(* Mutant: an item whose key d has is lost to both maps.                   *)
MovedDrops(w, h, d, s, x) ==
    IF Taken(h, d, x) THEN [w EXCEPT !.h = h]
    ELSE [h |-> Inserted(h, d, x), n |-> [w.n EXCEPT ![d] = @ + 1, ![s] = @ - 1]]
(* x, which has left map s, enters map d, or s again when d has its key.   *)
Moved(w, h, d, s, x) ==
    IF Taken(h, d, x) THEN [w EXCEPT !.h = Inserted(h, s, x)]
    ELSE [h |-> Inserted(h, d, x), n |-> [w.n EXCEPT ![d] = @ + 1, ![s] = @ - 1]]
RECURSIVE Merge(_, _, _, _)
Merge(w, d, s, x) ==
    IF IsNil(x) THEN w ELSE Merge(Moved(w, Removed(w.h, s, x), d, s, x), d, s, w.h[x].n)

MapsBecome(w) == heap' = Settled(w.h, {}) /\ count' = w.n /\ UNCHANGED keyCompare
cl_qmap_merge(d, s) ==
    d # s /\ MapsBecome(Merge([h |-> heap, n |-> count], d, s, heap[Nil(s)].n))

(* The two maps are walked together; what one lacks is moved.              *)
RECURSIVE Delta(_, _, _, _, _, _, _)
Delta(w, a, b, new, old, x, y) ==
    IF IsNil(x) /\ IsNil(y) THEN w
    ELSE IF IsNil(x) \/ (~IsNil(y) /\ KeyOf(x) > KeyOf(y))
         THEN Delta(Moved(w, Removed(w.h, b, y), new, b, y), a, b, new, old, x, w.h[y].n)
    ELSE IF IsNil(y) \/ KeyOf(x) < KeyOf(y)
         THEN Delta(Moved(w, Removed(w.h, a, x), old, a, x), a, b, new, old, w.h[x].n, y)
    ELSE Delta(w, a, b, new, old, w.h[x].n, w.h[y].n)

(* The keys are compared as numbers: a caller with a compare function      *)
(* cannot use it.                                                          *)
cl_qmap_delta(a, b, new, old) ==
    /\ Cardinality({a, b, new, old}) = 4 /\ count[new] = 0 /\ count[old] = 0
    /\ keyCompare = "NULL"
    /\ MapsBecome(Delta([h |-> heap, n |-> count], a, b, new, old, heap[Nil(a)].n, heap[Nil(b)].n))

(* cl_qmap_init for every map.                                             *)
QuickMapInit ==
    /\ heap = [x \in Ptr |->
                 IF x \in MapItem THEN Node(x, x, x, x, x)
                 ELSE IF IsNil(x) THEN Node(x, x, x, x, x)
                 ELSE Node(Nil(x[2]), Nil(x[2]), x, x, x)]
    /\ count = [m \in Map |-> 0] /\ keyCompare \in {"NULL", "user"}

QuickMapNext ==
    \/ \E m \in Map : cl_qmap_remove_all(m) \/ (\E k \in MapKey : cl_qmap_remove(m, k))
                      \/ (\E x \in MapItem : cl_qmap_insert(m, x))
    \/ \E a, b \in Map : cl_qmap_merge(a, b)
         \/ \E new, old \in Map : cl_qmap_delta(a, b, new, old)
QuickMapSpec == QuickMapInit /\ [][QuickMapNext]_qmapVars

-----------------------------------------------------------------------------
(* Properties *)

(* The items below x, in order.                                            *)
RECURSIVE InOrder(_, _)
InOrder(h, x) == IF IsNil(x) THEN << >> ELSE InOrder(h, h[x].l) \o <<x>> \o InOrder(h, h[x].r)
Tree(m) == InOrder(heap, heap[Root(m)].l)
Content == [m \in Map |-> Range(Tree(m))]

(* Blacks on every path from x to a leaf, or -1 when they differ or a red  *)
(* item has a red child.                                                   *)
RECURSIVE BlackHeight(_)
BlackHeight(x) ==
    IF IsNil(x) THEN 0
    ELSE LET l == BlackHeight(heap[x].l)
             r == BlackHeight(heap[x].r)
         IN IF l = -1 \/ l # r \/ (Red(heap, x) /\ (Red(heap, heap[x].l) \/ Red(heap, heap[x].r)))
            THEN -1 ELSE IF Red(heap, x) THEN l ELSE l + 1
(* The tree stays balanced, "verified against Cormen-Leiserson-Rivest":    *)
(* the same number of blacks on every path, no red item with a red child,  *)
(* a black root, nil_item black.                                           *)
RedBlack ==
    \A m \in Map : BlackHeight(heap[Root(m)].l) # -1 /\ ~Red(heap, heap[Root(m)].l)
                   /\ ~Red(heap, Root(m)) /\ ~Red(heap, Nil(m))

(* The items from x on, along the list.                                    *)
RECURSIVE Thread(_, _)
Thread(x, bound) == IF IsNil(x) \/ bound = 0 THEN << >> ELSE <<x>> \o Thread(heap[x].n, bound - 1)
(* The tree is in the order of the keys, the list threads exactly its      *)
(* items in that order in both directions, p_up agrees with the children,  *)
(* and count is their number.                                              *)
Threaded ==
    \A m \in Map :
        LET t == Tree(m)
        IN /\ Thread(heap[Nil(m)].n, Cardinality(MapItem) + 1) = t /\ count[m] = Len(t)
           /\ \A i \in 1..Len(t) :
                /\ i < Len(t) => Compare(KeyOf(t[i]), KeyOf(t[i + 1])) < 0
                /\ heap[t[i]].p = (IF i = 1 THEN Nil(m) ELSE t[i - 1])
                /\ heap[heap[t[i]].u].l = t[i] \/ heap[heap[t[i]].u].r = t[i]
           /\ heap[Nil(m)].p = IF t = << >> THEN Nil(m) ELSE t[Len(t)]

NextItem(m, k) ==
    LET above == {y \in Content[m] : Compare(KeyOf(y), k) > 0}
    IN IF above = {} THEN Nil(m)
       ELSE CHOOSE y \in above : \A z \in above : Compare(KeyOf(y), KeyOf(z)) <= 0
(* cl_qmap_get_next finds the item of the next greater key, in a map       *)
(* without a compare function.                                             *)
GetNextFinds ==
    keyCompare = "NULL" =>
        \A m \in Map, k \in MapKey : cl_qmap_get_next(heap, m, k) = NextItem(m, k)
(* "If Quickmap uses a key compare function, this must be pointer to key   *)
(* structure to compare against keys of object in map" (iquickmap.h): the  *)
(* next item is found with a compare function too.                         *)
GetNextFindsAlways ==
    \A m \in Map, k \in MapKey : cl_qmap_get_next(heap, m, k) = NextItem(m, k)

(* The tree implements the map: every operation, merge and delta included, *)
(* does to the items of the maps what the header says.                     *)
Abstract == INSTANCE AbsMap WITH Item <- MapItem, content <- Content
ImplementsMap == Abstract!AbsSpec

(* The map is a red-black tree by the user's order, its items are threaded *)
(* in that order, and the successor of a key is found.                     *)
TreeKept == RedBlack /\ Threaded /\ GetNextFinds
=============================================================================
