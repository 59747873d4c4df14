------------------------------ MODULE GsaSend -------------------------------
(***************************************************************************)
(* Sending by the General Services Agent: iba_gsi_post_send and            *)
(* GsiDoSendDgrm (gsasend.c) post a list of datagrams one by one while the *)
(* completion callback (gsacallb.c) already counts the ones that are done. *)
(* The list goes back to its client when the two counts meet, or with the  *)
(* status of the call.  The client may post it again from another thread   *)
(* before the first call has returned.                                     *)
(***************************************************************************)
EXTENDS Integers, FiniteSets

CONSTANTS
    Sender,       \* threads of the client
    ListLen,      \* datagrams in the client's list
    MaxPosts      \* bound: how often the list is posted

ASSUME GsaSendAssumption ==
    ListLen \in Nat \ {0} /\ MaxPosts \in Nat

VARIABLES
    postList,     \* GSA_POST_SEND_LIST: DgrmIn and DgrmOut
    sdgrm,        \* the datagrams of the list
    sender,       \* GsiDoSendDgrm in each thread
    complete,     \* the completion callback: the datagram it is counting
    owner,        \* who may use the list: "client" or "gsi"
    outcome,      \* history of the last post: how often the client was told of it,
                  \* and split, see EndsSplit
    posts

sendVars == <<postList, sdgrm, sender, complete, owner, outcome, posts>>

Item == 1..ListLen
NotYet == [failed |-> 0, completed |-> 0, split |-> FALSE]
(* taken: Element.Status does not say that the datagram was refused.       *)
Unposted == [onSendQ |-> FALSE, swapped |-> FALSE, av |-> FALSE, tagged |-> FALSE, taken |-> TRUE]
Returned == [pc |-> "idle", i |-> 1, failed |-> 0, status |-> "FSUCCESS"]

(* After a split list nothing more is modelled: its client may use         *)
(* datagrams the adapter still has.                                        *)
iba_gsi_post_send(s) ==
    /\ sender[s].pc = "idle" /\ owner = "client" /\ posts < MaxPosts /\ ~outcome.split
    /\ postList' = [in |-> ListLen, out |-> 0]
    /\ sender' = [sender EXCEPT ![s] = [Returned EXCEPT !.pc = "loop"]]
    /\ owner' = "gsi" /\ outcome' = NotYet /\ posts' = posts + 1
    /\ UNCHANGED <<sdgrm, complete>>

(* The next datagram of the list.                                          *)
Sending(s) == sender[s].pc = "loop" /\ sender[s].i <= ListLen

(* The last datagram is refused while others are out: the call will fail,  *)
(* although the completions of the others are still to come.               *)
EndsSplit(s) ==
    /\ sender[s].i = ListLen
    /\ complete # 0 \/ \E i \in Item : sdgrm[i].onSendQ

(* A datagram that could not be posted counts as done.                     *)
Failed(s, status) ==
    /\ postList' = [postList EXCEPT !.out = @ + 1]
    /\ sender' = [sender EXCEPT ![s].i = @ + 1, ![s].failed = @ + 1, ![s].status = status]
    /\ outcome' = [outcome EXCEPT !.split = @ \/ EndsSplit(s)]
    /\ UNCHANGED <<complete, owner, posts>>

(* GetCaContextFromAvInfo finds no usable port or no address vector.       *)
NoAddress(s) ==
    /\ Sending(s)
    /\ sdgrm' = [sdgrm EXCEPT ![sender[s].i].taken = FALSE]
    /\ Failed(s, "FINVALID_PARAMETER")

(* Mutant: the address vector of a refused datagram is kept.               *)
RefusedKeepsAv(d) == [d EXCEPT !.tagged = TRUE, !.taken = FALSE, !.av = TRUE]
(* iba_post_send refuses: swapped back and the address vector put; the     *)
(* client id stays in the transaction id.                                  *)
Refused(d) == [d EXCEPT !.tagged = TRUE, !.taken = FALSE]

PostRefused(s) ==
    /\ Sending(s)
    /\ sdgrm' = [sdgrm EXCEPT ![sender[s].i] = Refused(@)]
    /\ Failed(s, "FINSUFFICIENT_RESOURCES")

PostSends(s) ==
    /\ Sending(s)
    /\ sdgrm' = [sdgrm EXCEPT ![sender[s].i] =
                   [onSendQ |-> TRUE, swapped |-> TRUE, av |-> TRUE, tagged |-> TRUE, taken |-> @.taken]]
    /\ sender' = [sender EXCEPT ![s].i = @ + 1, ![s].status = "FSUCCESS"]
    /\ UNCHANGED <<postList, complete, owner, outcome, posts>>

(* Mutant: a call that failed throughout is taken for a success.           *)
SomeStatus(s) == IF postList.in # 0 /\ sender[s].failed = postList.in THEN "FSUCCESS"
                 ELSE sender[s].status
(* The list may be posted again by now: DgrmIn is whatever it says.        *)
CallStatus(s) == IF postList.in # 0 /\ sender[s].failed = postList.in THEN "FINVALID_STATE"
                 ELSE sender[s].status

(* On failure the client has its list back.                                *)
SendReturns(s) ==
    /\ sender[s].pc = "loop" /\ sender[s].i > ListLen
    /\ sender' = [sender EXCEPT ![s] = Returned]
    /\ IF CallStatus(s) = "FSUCCESS" THEN UNCHANGED <<owner, outcome>>
       ELSE owner' = "client" /\ outcome' = [outcome EXCEPT !.failed = @ + 1]
    /\ UNCHANGED <<postList, sdgrm, complete, posts>>

(* Swapped back, the transaction id restored, the address vector put; the  *)
(* status is the completion's.                                             *)
Completed(d) == Unposted

(* GsaCompletionCallback for a send: the datagram is counted ...           *)
SendCompletion ==
    /\ complete = 0
    /\ \E i \in Item :
         /\ sdgrm[i].onSendQ
         /\ sdgrm' = [sdgrm EXCEPT ![i] = Completed(@)]
         /\ postList' = [postList EXCEPT !.out = @ + 1]
         /\ complete' = i
    /\ UNCHANGED <<sender, owner, outcome, posts>>

(* Mutant: the callback comes with the first datagram that is done.        *)
AllDoneAtOnce == postList.out > 0
AllDone == postList.in = postList.out

(* ... and when it was the last one the client is called.                  *)
SendCallback ==
    /\ complete # 0 /\ complete' = 0
    /\ IF AllDone THEN owner' = "client" /\ outcome' = [outcome EXCEPT !.completed = @ + 1]
       ELSE UNCHANGED <<owner, outcome>>
    /\ UNCHANGED <<postList, sdgrm, sender, posts>>

SendInit ==
    /\ postList = [in |-> 0, out |-> 0] /\ sdgrm = [i \in Item |-> Unposted]
    /\ sender = [s \in Sender |-> Returned] /\ complete = 0
    /\ owner = "client" /\ outcome = NotYet /\ posts = 0

SendThread(s) == NoAddress(s) \/ PostRefused(s) \/ PostSends(s) \/ SendReturns(s)
GsaSendNext ==
    \/ SendCompletion \/ SendCallback
    \/ \E s \in Sender : iba_gsi_post_send(s) \/ SendThread(s)

(* The client's call runs on, and the adapter completes what it was given. *)
SendFairness ==
    /\ WF_sendVars(SendCompletion) /\ WF_sendVars(SendCallback)
    /\ \A s \in Sender : WF_sendVars(SendThread(s))
SendSpec == SendInit /\ [][GsaSendNext]_sendVars /\ SendFairness

-----------------------------------------------------------------------------
(* Properties *)

(* The list is never its client's while the agent still counts on it, and  *)
(* what comes back is in host order, with its transaction id restored      *)
(* unless it was refused, and without an address vector.                   *)
ListComesBackWhole ==
    owner = "client" => \A i \in Item :
        /\ ~sdgrm[i].onSendQ /\ ~sdgrm[i].swapped /\ ~sdgrm[i].av
        /\ sdgrm[i].taken => ~sdgrm[i].tagged
(* A post ends: the client gets the list back, by the call or the callback.*)
SendEnds == owner = "gsi" ~> owner = "client"

(* "On success, GSI owns the buffer and will byte swap back the MAD header *)
(* prior to send completion, on failure the buffer will be restored"       *)
(* (gsasend.c): a list the client has got back by a failed call is not on  *)
(* the send queue and is not completed later.                              *)
OwnedOnce ==
    /\ outcome.failed + outcome.completed <= 1
    /\ owner = "client" => \A i \in Item : ~sdgrm[i].onSendQ

(* A list of datagrams comes back to its sender once and whole, by the     *)
(* call's failure or by the callback, never by both, also when the adapter *)
(* takes some of its datagrams and not others; but not when the last one   *)
(* is refused while others are out.                                        *)
ListReturnedOnce == ~outcome.split => ListComesBackWhole /\ OwnedOnce
=============================================================================
