------------------------------ MODULE AbsLists ------------------------------
(***************************************************************************)
(* What locked quick lists promise (Public/ilist.h): a list is a sequence  *)
(* of items, no item is in two places, and an operation is one step, but   *)
(* for the move of a whole list, whose items are for an instance in the    *)
(* hands of the thread that moves them.                                    *)
(***************************************************************************)
EXTENDS Integers, Sequences, SequencesExt

CONSTANTS List, ListItem, Mover
VARIABLES list, carried

Loose == {x \in ListItem : (\A l \in List : x \notin Range(list[l])) /\ (\A t \in Mover : x \notin Range(carried[t]))}

AbsPut(l) == \E x \in Loose, i \in 1..(Len(list[l]) + 1) :
    list' = [list EXCEPT ![l] = InsertAt(@, i, x)] /\ UNCHANGED carried
(* An array, or a list that nobody else can see, to one end of a list.     *)
AbsPutAll(l) == \E xs \in {p \in Loose \X Loose : p[1] # p[2]} :
    list' \in {[list EXCEPT ![l] = @ \o xs], [list EXCEPT ![l] = xs \o @]} /\ UNCHANGED carried
AbsGet(l) == \E i \in DOMAIN list[l] :
    list' = [list EXCEPT ![l] = RemoveAt(@, i)] /\ UNCHANGED carried
AbsClear(l) == list' = [list EXCEPT ![l] = << >>] /\ UNCHANGED carried
AbsJoin(d, s) == d # s /\ UNCHANGED carried /\
    list' \in {[list EXCEPT ![d] = list[s] \o @, ![s] = << >>], [list EXCEPT ![d] = @ \o list[s], ![s] = << >>]}
AbsSift(d, s) == d # s /\ UNCHANGED carried /\ \E P \in SUBSET ListItem :
    list' = [list EXCEPT ![d] = @ \o SelectSeq(list[s], LAMBDA x : x \in P),
                         ![s] = SelectSeq(@, LAMBDA x : x \notin P)]
AbsTake(t, s) ==
    /\ carried[t] = << >>
    /\ carried' = [carried EXCEPT ![t] = list[s]] /\ list' = [list EXCEPT ![s] = << >>]
AbsGive(t, d) ==
    /\ carried' = [carried EXCEPT ![t] = << >>]
    /\ list' \in {[list EXCEPT ![d] = carried[t] \o @], [list EXCEPT ![d] = @ \o carried[t]]}

AbsInit == list = [l \in List |-> << >>] /\ carried = [t \in Mover |-> << >>]
AbsStep ==
    \/ \E l \in List : AbsPut(l) \/ AbsPutAll(l) \/ AbsGet(l) \/ AbsClear(l)
    \/ \E t \in Mover, l \in List : AbsTake(t, l) \/ AbsGive(t, l)
    \/ \E d, s \in List : AbsJoin(d, s) \/ AbsSift(d, s)
(* Steps that change nothing are stuttering steps.                         *)
AbsNext == <<list, carried>>' # <<list, carried>> /\ AbsStep
AbsSpec == AbsInit /\ [][AbsNext]_<<list, carried>>
=============================================================================
