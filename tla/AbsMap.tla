------------------------------- MODULE AbsMap -------------------------------
(***************************************************************************)
(* What a quick map promises (Public/iquickmap.h): a map holds at most one *)
(* item of each key, and merge and delta move items by their keys.         *)
(***************************************************************************)
EXTENDS Integers

CONSTANTS Map, Item
VARIABLE content      \* content[m]: the items in map m

Key(i) == i[1]
Keys(m) == {Key(i) : i \in content[m]}
Loose == {i \in Item : \A m \in Map : i \notin content[m]}
Shared(m, n) == {i \in content[m] : Key(i) \in Keys(n)}

AbsInsert(m, i) ==
    /\ i \in Loose
    /\ content' = IF Key(i) \in Keys(m) THEN content
                  ELSE [content EXCEPT ![m] = @ \cup {i}]
AbsRemove(m, k) == content' = [content EXCEPT ![m] = {i \in @ : Key(i) # k}]
AbsRemoveAll(m) == content' = [content EXCEPT ![m] = {}]
(* The source keeps the duplicates.                                        *)
AbsMerge(d, s) ==
    content' = [content EXCEPT ![d] = @ \cup (content[s] \ Shared(s, d)), ![s] = Shared(s, d)]
(* new gets what only b has, old what only a has.                          *)
AbsDelta(a, b, new, old) ==
    /\ content[new] = {} /\ content[old] = {}
    /\ content' = [content EXCEPT ![a] = Shared(a, b), ![b] = Shared(b, a),
                     ![new] = content[b] \ Shared(b, a), ![old] = content[a] \ Shared(a, b)]

AbsInit == content = [m \in Map |-> {}]
AbsStep ==
    \/ \E m \in Map : AbsRemoveAll(m) \/ (\E i \in Item : AbsInsert(m, i) \/ AbsRemove(m, Key(i)))
    \/ \E a, b \in Map : a # b /\ (AbsMerge(a, b)
         \/ \E new, old \in Map \ {a, b} : new # old /\ AbsDelta(a, b, new, old))
(* Steps that change nothing are stuttering steps.                         *)
AbsNext == content' # content /\ AbsStep
AbsSpec == AbsInit /\ [][AbsNext]_content
=============================================================================
