----------------------------- MODULE MCServices -----------------------------
(***************************************************************************)
(* Transfers of the General Services Agent and queries of the Subnet       *)
(* Driver, with the fairness of each.  They share no state, so `service'   *)
(* picks the one a behaviour is about; the others stay in their initial    *)
(* state.                                                                  *)
(***************************************************************************)
EXTENDS Rmpp, GsaSend, SdQuery, TLC

CONSTANTS x1, x2, t1

(* One response of three segments, and MADs a sender never sends.          *)
MCCtx == {x1, x2}
MCTid == {t1}
MCMsgLen == (t1 :> 5)
MCLenKnown == (t1 :> TRUE)
MCNoise == {Reply("ABORT", t1, 0, 0), [DataMad(t1, 3) EXCEPT !.last = FALSE, !.len = 0]}

VARIABLE service

mcVars == <<rmppVars, sendVars, sdVars, service>>

MCInit ==
    /\ RmppInit /\ SendInit /\ SdInit
    /\ service \in {"rmpp", "send", "sd"}
MCNext ==
    /\ UNCHANGED service
    /\ \/ service = "rmpp" /\ RmppNext /\ UNCHANGED <<sendVars, sdVars>>
       \/ service = "send" /\ GsaSendNext /\ UNCHANGED <<rmppVars, sdVars>>
       \/ service = "sd" /\ SdNext /\ UNCHANGED <<rmppVars, sendVars>>

(* RmppFairness, SendFairness and SdFairness with SdElapse: each for the   *)
(* behaviours of its own service.                                          *)
R == service = "rmpp"
S == service = "send"
Q == service = "sd"
MCFairness ==
    /\ WF_rmppVars(R /\ ReceiveThread) /\ WF_rmppVars(R /\ DestroySARContexts)
    /\ \A c \in Ctx : /\ WF_rmppVars(R /\ SarTimerFires(c)) /\ WF_rmppVars(R /\ TimerThread(c))
                      /\ WF_rmppVars(R /\ sarUnload = c /\ SarReaped(c))
    /\ WF_sendVars(S /\ SendCompletion) /\ WF_sendVars(S /\ SendCallback)
    /\ \A s \in Sender : WF_sendVars(S /\ SendThread(s))
    /\ WF_sdVars(Q /\ TimerHandler) /\ WF_sdVars(Q /\ UnloadDone) /\ WF_sdVars(Q /\ SendStep(Boot))
    /\ \A c \in SdClient : WF_sdVars(Q /\ SendStep(c)) /\ WF_sdVars(Q /\ CancelStep(c))
    /\ \A r \in Receiver : WF_sdVars(Q /\ ReceiveStep(r))
    /\ \A w \in Worker : WF_sdVars(Q /\ WorkStep(w))
    /\ \A x \in Query : SF_sdVars(Q /\ Elapses(x))
MCSpec == MCInit /\ [][MCNext]_mcVars /\ MCFairness
=============================================================================
