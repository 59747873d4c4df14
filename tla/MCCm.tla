-------------------------------- MODULE MCCm --------------------------------
(***************************************************************************)
(* Instances of Cm for TLC: a client host h1 with CEPs a1, a2 and queue    *)
(* pairs p1, p2, and a server host h2 with a listener l1, CEPs d1, d2 for  *)
(* the requests it receives, and queue pairs q1, q2.                       *)
(***************************************************************************)
EXTENDS Cm, TLC
CONSTANTS h1, h2, a1, a2, l1, d1, d2, p1, p2, q1, q2, s1,
          C1, C2        \* MaxCommID of h1 and of h2

MCHost == {h1, h2}
MCHostOf == [c \in Cep |-> IF c \in {a1, a2} THEN h1 ELSE h2]
MCQpHost == [q \in Qp |-> IF q \in {p1, p2} THEN h1 ELSE h2]
MCMaxCommID == [h \in Host |-> IF h = h1 THEN C1 ELSE C2]

(* The two clients are alike, and so are their queue pairs.                *)
MCSymmetry == Permutations({a1, a2}) \cup Permutations({p1, p2})
=============================================================================
