----------------------------- MODULE MCEvents -------------------------------
(***************************************************************************)
(* The callbacks and the reaper of the Public library, the subscriptions   *)
(* of the Subnet Driver, one client's, and the SIDR queries of the         *)
(* Communication Manager, with their fairness.  They share no state:       *)
(* `part' picks the one a behaviour is about, and the others stay in their *)
(* initial states.                                                         *)
(***************************************************************************)
EXTENDS Callbacks, Subscribe, Sidr

VARIABLE part

mcVars == <<cbVars, subVars, sidrVars, part>>

MCInit ==
    /\ CallbacksInit /\ SubscribeInitialize /\ SidrInit
    /\ part \in {"callbacks", "subscribe", "sidr"}
MCNext ==
    /\ UNCHANGED part
    /\ \/ part = "callbacks" /\ CallbacksNext /\ UNCHANGED <<subVars, sidrVars>>
       \/ part = "subscribe" /\ SubscribeNext /\ UNCHANGED <<cbVars, sidrVars>>
       \/ part = "sidr" /\ SidrNext /\ UNCHANGED <<cbVars, subVars>>

(* CallbacksFairness, SubscribeFairness and SidrFairness, for the          *)
(* behaviours of each.                                                     *)
C == part = "callbacks"
U == part = "subscribe"
I == part = "sidr"
MCFairness ==
    /\ \A w \in Worker : WF_cbVars(C /\ WorkerStep(w))
    /\ \A i \in WorkItem : WF_cbVars(C /\ Signal(i))
    /\ \A g \in Giver : WF_cbVars(C /\ GiverStep(g))
    /\ WF_subVars(U /\ Event) /\ WF_subVars(U /\ PortUp)
    /\ \A c \in SubClient : WF_subVars(U /\ CallerStep(c))
    /\ \A x \in Ref : /\ WF_subVars(U /\ TimerFires(x)) /\ WF_subVars(U /\ TrapTimerCallback(x))
                      /\ WF_subVars(U /\ \E ok \in BOOLEAN : ProcessTrapSubscribeResponse(x, ok))
                      /\ SF_subVars(U /\ Issued(x)) /\ SF_subVars(U /\ SaProcesses(x))
                      /\ SF_subVars(U /\ Succeeds(x))
    /\ \A q \in Querier :
          /\ WF_sidrVars(I /\ QueryTimerFires(q)) /\ WF_sidrVars(I /\ QueryTimerCallback(q))
          /\ WF_sidrVars(I /\ QueryCallback(q)) /\ WF_sidrVars(I /\ QueryCallbackDone(q))
MCSpec == MCInit /\ [][MCNext]_mcVars /\ MCFairness
=============================================================================
