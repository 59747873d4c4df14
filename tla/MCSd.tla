-------------------------------- MODULE MCSd --------------------------------
(***************************************************************************)
(* The Subnet Driver: its queries, and its subscriptions ("subscribe", with*)
(* two clients).  For the queries `sdPart' bounds what a behaviour may     *)
(* contain: "plain" queries without children meet every fault, with one    *)
(* receiving thread; a "path" query has children and two receiving threads,*)
(* on a port that stays.                                                   *)
(***************************************************************************)
EXTENDS SdQuery, Subscribe, TLC

CONSTANTS q1, q2, q3, r1, r2

(* Which receiver thread GSA calls back on makes no difference.            *)
Symmetry == Permutations(Receiver)

VARIABLE sdPart

mcVars == <<sdVars, subVars, sdPart>>

(* Which free address malloc returns makes no difference: it is the first  *)
(* in Address, and the children of a parent are on the list in that order. *)
Address == <<q1, q2, q3>>
Before(x, y) == \E i, j \in DOMAIN Address : i < j /\ Address[i] = x /\ Address[j] = y
Made(x) == ~Live(x) /\ sd'.q[x].st # "FREE"
InOrder ==
    /\ \A x, y \in Query : Before(x, y) /\ Available(x) /\ Made(y) => Made(x)
    /\ \A i, j \in DOMAIN sd'.kids :
           i < j /\ Made(sd'.kids[i]) /\ Made(sd'.kids[j]) => Before(sd'.kids[i], sd'.kids[j])
(* An answer without records is for these queries one with records or one  *)
(* with an error.  An operation is the first query and has the driver to   *)
(* itself, and an adapter that was removed comes back when the queries are *)
(* done.                                                                   *)
Plain ==
    LET kinds == {sd'.q[x].kind : x \in {y \in Query : sd'.q[y].st # "FREE"}}
    IN /\ (kinds = {"op"} /\ made' = 1) \/ kinds \subseteq {"info", "self"}
       /\ \E r \in Receiver : \A u \in Receiver \ {r} : thr'[u] = Idle
       /\ \A r \in Receiver : thr'[r].resp # "NORECORDS"
       /\ caPort = "absent" /\ caPort' # "absent" => \A x \in Query : ~Live(x)
Path ==
    /\ \A x \in Query : /\ sd'.q[x].kind \in {"path", "child"} \/ sd'.q[x].st = "FREE"
                        /\ sd'.q[x].st \notin {"BusyRetryDelay", "NotAbleToSend"}
    /\ \A r \in Receiver : thr'[r].resp \in {"OK", "ERROR"}
    /\ made' <= 1 /\ caPort' # "absent"

MCInit == SdInit /\ SubscribeInitialize /\ sdPart \in {"plain", "path", "subscribe"}
MCNext ==
    /\ UNCHANGED sdPart
    /\ \/ sdPart = "plain" /\ SdNext /\ InOrder /\ Plain /\ UNCHANGED subVars
       \/ /\ sdPart = "path" /\ SdNext /\ InOrder /\ UNCHANGED subVars
          /\ Path \/ (caPort = "absent" /\ UNCHANGED sd)
       \/ sdPart = "subscribe" /\ SubscribeNext /\ UNCHANGED sdVars
MCSafety == MCInit /\ [][MCNext]_mcVars
=============================================================================
