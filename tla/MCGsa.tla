------------------------------- MODULE MCGsa --------------------------------
(***************************************************************************)
(* The receive path of the General Services Agent.  `part' bounds what a   *)
(* behaviour may contain: two ports that share the datagram pool, with MADs*)
(* nobody answers ("pool"), one port that is removed while its event thread*)
(* still works ("remove"), or one port with all registered classes and     *)
(* MADs ("class").  And, with no state in common, the service ID           *)
(* resolution of a client of the GSA, the Communication Manager ("sidr").  *)
(***************************************************************************)
EXTENDS Gsa, Sidr, TLC

CONSTANTS p1, p2, h1, h2, h3, e1, e2, r1

MCOf == e1 :> p1 @@ e2 :> p2 @@ r1 :> p1

(* Two managers of one class, one of them with segmentation, and a third   *)
(* client that only listens.                                               *)
MCReg ==
    h1 :> [class |-> 1, responder |-> TRUE, report |-> TRUE, trap |-> FALSE, sar |-> FALSE]
    @@ h2 :> [class |-> 1, responder |-> TRUE, report |-> TRUE, trap |-> FALSE, sar |-> TRUE]
    @@ h3 :> [class |-> 1, responder |-> FALSE, report |-> TRUE, trap |-> TRUE, sar |-> FALSE]
MCMad ==
    {[class |-> 1, method |-> "GET", cid |-> 0], [class |-> 1, method |-> "REPORT", cid |-> 0],
     [class |-> 1, method |-> "TRAP", cid |-> 0], [class |-> 1, method |-> "RESP", cid |-> 1]}

VARIABLE part

mcVars == <<gsaVars, sidrVars, part>>

MCInit == GsaInit /\ SidrInit /\ part \in {"pool", "remove", "class", "sidr"}
GsaPart ==
    \/ GrowPoolSysCallback \/ ClientPuts
    \/ part = "class" /\ \E h \in Handle : ClassStep(h)
    \/ part = "class" /\ ThreadStep(e1)
    \/ part \in {"pool", "remove"} /\ \E p \in Port : PortStep(p)
    \/ part \in {"pool", "remove"} /\ iba_gsi_register_class(h3)
    \/ \E w \in IF part = "pool" THEN {e1, e2} ELSE IF part = "remove" THEN {e1, r1} ELSE {} :
         ThreadStep(w) /\ gsa'[w].mad.method \in {"TRAP", "SEND"}
MCNext ==
    /\ UNCHANGED part
    /\ \/ part # "sidr" /\ GsaPart /\ UNCHANGED sidrVars
       \/ part = "sidr" /\ SidrNext /\ UNCHANGED gsaVars
MCSpec == MCInit /\ [][MCNext]_mcVars
=============================================================================
