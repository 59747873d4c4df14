--------------------------- MODULE GsaSendProofs ----------------------------
(***************************************************************************)
(* ListReturnedOnce for any number of threads, any length of the list, any *)
(* number of posts and any datagrams refused among the others.  SInv tells *)
(* the stages of a post apart: the list is its client's, or it is being    *)
(* posted, refused and completed.                                          *)
(***************************************************************************)
EXTENDS GsaSend, FiniteSetTheorems, TLAPS

SendRec == [pc : {"idle", "loop"}, i : Nat \ {0}, failed : Nat,
            status : {"FSUCCESS", "FINVALID_PARAMETER", "FINSUFFICIENT_RESOURCES"}]
DgrmRec == [onSendQ : BOOLEAN, swapped : BOOLEAN, av : BOOLEAN, tagged : BOOLEAN,
            taken : BOOLEAN]
SendTypes ==
    /\ postList \in [in : Nat, out : Nat] /\ sdgrm \in [Item -> DgrmRec]
    /\ sender \in [Sender -> SendRec] /\ complete \in 0..ListLen
    /\ owner \in {"client", "gsi"} /\ outcome \in [failed : Nat, completed : Nat, split : BOOLEAN]
    /\ posts \in Nat

Clean(d) == ~d.onSendQ /\ ~d.swapped /\ ~d.av /\ (d.taken => ~d.tagged)
Looping(s) == sender[s].pc = "loop"
(* A call that has posted the last datagram and only has to return.        *)
Finished(s) == /\ sender[s].i = ListLen + 1 /\ sender[s].failed < ListLen
               /\ sender[s].status = "FSUCCESS"
(* The datagrams before p that are completed or were refused.              *)
DoneBefore(p) == {k \in 1..(p - 1) : ~sdgrm[k].onSendQ}
NoneOut == complete = 0 /\ \A i \in Item : ~sdgrm[i].onSendQ
OneBusy == \A s, t \in Sender :
    Looping(s) /\ Looping(t) /\ ~Finished(s) /\ ~Finished(t) => s = t

AtClient ==
    /\ \A s \in Sender : Looping(s) => Finished(s)
    /\ \A i \in Item : Clean(sdgrm[i])
    /\ complete = 0 /\ outcome.failed + outcome.completed <= 1 /\ postList.in \in {0, ListLen}
(* A call before datagram p: its status is that of the one before.  If the *)
(* last datagram was refused, no other one is out.                         *)
Walking(s, p) ==
    /\ sender[s].i = p /\ sender[s].failed < p
    /\ sender[s].status = "FSUCCESS" => p = 1 \/ sender[s].failed < p - 1
    /\ p = ListLen + 1 => NoneOut
(* The datagrams before p have been posted or refused, the others not.     *)
Posting(p) ==
    /\ \A s \in Sender : Looping(s) => Finished(s) \/ Walking(s, p)
    /\ \A i \in Item : Clean(sdgrm[i]) \/ (i < p /\ sdgrm[i].onSendQ)
    /\ postList.out = Cardinality(DoneBefore(p)) /\ complete < p
AtGsi ==
    /\ outcome.failed = 0 /\ outcome.completed = 0 /\ postList.in = ListLen /\ OneBusy
    /\ \E p \in 1..(ListLen + 1) : Posting(p)

SInv == /\ SendTypes
        /\ owner = "client" /\ ~outcome.split => AtClient
        /\ owner = "gsi" /\ ~outcome.split => AtGsi

-----------------------------------------------------------------------------

(* Nothing counts zero.                                                    *)
LEMMA EmptyCount == Cardinality({}) = 0
  BY FS_EmptySet

(* The counts of DoneBefore: finite, at most p - 1, and all of the list    *)
(* only when the whole list has been posted and completed.                 *)
LEMMA DoneBeforeBounds ==
    ASSUME NEW p \in 1..(ListLen + 1)
    PROVE  /\ IsFiniteSet(DoneBefore(p)) /\ Cardinality(DoneBefore(p)) \in Nat
           /\ Cardinality(DoneBefore(p)) = ListLen =>
                p = ListLen + 1 /\ \A i \in Item : ~sdgrm[i].onSendQ
  <1> USE GsaSendAssumption DEF Item
  <1>1. IsFiniteSet(1..(p - 1)) /\ Cardinality(1..(p - 1)) = p - 1
    BY FS_Interval, p - 1 \in Int, 1 \in Int
  <1>2. DoneBefore(p) \subseteq 1..(p - 1)
    BY DEF DoneBefore
  <1>3. /\ IsFiniteSet(DoneBefore(p)) /\ Cardinality(DoneBefore(p)) <= p - 1
        /\ Cardinality(DoneBefore(p)) = p - 1 => DoneBefore(p) = 1..(p - 1)
    BY <1>1, <1>2, FS_Subset
  <1>4. Cardinality(DoneBefore(p)) \in Nat
    BY <1>3, FS_CardinalityType
  <1>5. ASSUME Cardinality(DoneBefore(p)) = ListLen
        PROVE  p = ListLen + 1 /\ \A i \in Item : ~sdgrm[i].onSendQ
    <2>1. p = ListLen + 1
      BY <1>3, <1>5
    <2>2. DoneBefore(p) = 1..(p - 1)
      BY <1>3, <1>5, <2>1
    <2> QED BY <2>1, <2>2 DEF DoneBefore, Item
  <1> QED BY <1>3, <1>4, <1>5

(* A sender's record with its counters and its status replaced.            *)
LEMMA SendRecExcept ==
    ASSUME NEW r \in SendRec, NEW n \in Nat \ {0}, NEW f \in Nat,
           NEW st \in {"FSUCCESS", "FINVALID_PARAMETER", "FINSUFFICIENT_RESOURCES"}
    PROVE  /\ [r EXCEPT !.i = n, !.status = st] \in SendRec
           /\ [r EXCEPT !.i = n, !.failed = f, !.status = st] \in SendRec
           /\ r.i \in Nat \ {0} /\ r.failed \in Nat
  BY DEF SendRec

(* Nothing is posted before the first call.                                *)
LEMMA SendInitInv == SendInit => SInv
  BY GsaSendAssumption
  DEF SendInit, SInv, SendTypes, SendRec, DgrmRec, Unposted, Returned, NotYet, AtClient,
      Clean, Looping, Item

(* Every action keeps the types.                                           *)
LEMMA SendTypesKept == SendTypes /\ [GsaSendNext]_sendVars => SendTypes'
  <1> USE GsaSendAssumption DEF Item
  <1> SUFFICES ASSUME SendTypes, [GsaSendNext]_sendVars PROVE SendTypes'
    OBVIOUS
  <1>1. ASSUME NEW s \in Sender, iba_gsi_post_send(s) PROVE SendTypes'
    <2>1. [Returned EXCEPT !.pc = "loop"] \in SendRec
      BY DEF Returned, SendRec
    <2>2. sender' \in [Sender -> SendRec]
      BY <1>1, <2>1 DEF SendTypes, iba_gsi_post_send
    <2>3. posts' \in Nat /\ postList' \in [in : Nat, out : Nat]
      BY <1>1 DEF SendTypes, iba_gsi_post_send
    <2> QED BY <1>1, <2>2, <2>3 DEF SendTypes, iba_gsi_post_send, NotYet
  <1>2. ASSUME NEW s \in Sender, NEW st \in {"FINVALID_PARAMETER", "FINSUFFICIENT_RESOURCES"},
               Failed(s, st), sdgrm' \in [Item -> DgrmRec]
        PROVE  SendTypes'
    <2>1. postList' \in [in : Nat, out : Nat]
      BY <1>2 DEF SendTypes, Failed
    <2>2. sender[s] \in SendRec
      BY DEF SendTypes
    <2> DEFINE r == sender[s]
               n == [r EXCEPT !.i = r.i + 1, !.failed = r.failed + 1, !.status = st]
    <2>3. n \in SendRec
      <3>1. r.i \in Nat \ {0} /\ r.failed \in Nat
        BY <2>2, SendRecExcept
      <3>2. r.i + 1 \in Nat \ {0} /\ r.failed + 1 \in Nat
        BY <3>1
      <3> HIDE DEF r
      <3> QED BY <2>2, <3>2, SendRecExcept DEF r
    <2>4. sender' = [sender EXCEPT ![s] = n]
      BY <1>2, <2>2 DEF Failed, SendTypes, SendRec
    <2> HIDE DEF n
    <2>5. outcome' \in [failed : Nat, completed : Nat, split : BOOLEAN]
      BY <1>2 DEF SendTypes, Failed, EndsSplit
    <2> QED BY <1>2, <2>1, <2>3, <2>4, <2>5 DEF SendTypes, Failed
  <1>3. ASSUME NEW s \in Sender, NoAddress(s) PROVE SendTypes'
    <2>1. sdgrm' \in [Item -> DgrmRec]
      BY <1>3 DEF SendTypes, NoAddress, DgrmRec
    <2> QED BY <1>2, <1>3, <2>1 DEF NoAddress
  <1>4. ASSUME NEW s \in Sender, PostRefused(s) PROVE SendTypes'
    <2>1. sdgrm' \in [Item -> DgrmRec]
      BY <1>4 DEF SendTypes, PostRefused, Refused, DgrmRec
    <2> QED BY <1>2, <1>4, <2>1 DEF PostRefused
  <1>5. ASSUME NEW s \in Sender, PostSends(s) PROVE SendTypes'
    <2>1. sdgrm' \in [Item -> DgrmRec]
      BY <1>5 DEF SendTypes, PostSends, DgrmRec
    <2>2. sender[s] \in SendRec
      BY DEF SendTypes
    <2> DEFINE r == sender[s]
               n == [r EXCEPT !.i = r.i + 1, !.status = "FSUCCESS"]
    <2>3. n \in SendRec
      <3>1. r.i \in Nat \ {0}
        BY <2>2, SendRecExcept
      <3>2. r.i + 1 \in Nat \ {0}
        BY <3>1
      <3> HIDE DEF r
      <3> QED BY <2>2, <3>2, SendRecExcept DEF r
    <2>4. sender' = [sender EXCEPT ![s] = n]
      BY <1>5, <2>2 DEF PostSends, SendTypes, SendRec
    <2>5. sender' \in [Sender -> SendRec]
      BY <2>3, <2>4 DEF SendTypes
    <2> QED BY <1>5, <2>1, <2>5 DEF SendTypes, PostSends
  <1>6. ASSUME NEW s \in Sender, SendReturns(s) PROVE SendTypes'
    <2>1. sender' \in [Sender -> SendRec]
      BY <1>6 DEF SendTypes, SendReturns, Returned, SendRec
    <2>2. owner' \in {"client", "gsi"} /\ outcome' \in [failed : Nat, completed : Nat, split : BOOLEAN]
      BY <1>6 DEF SendTypes, SendReturns
    <2> QED BY <1>6, <2>1, <2>2 DEF SendTypes, SendReturns
  <1>7. ASSUME SendCompletion PROVE SendTypes'
    BY <1>7 DEF SendTypes, SendCompletion, Completed, Unposted, DgrmRec, Item
  <1>8. ASSUME SendCallback PROVE SendTypes'
    BY <1>8 DEF SendTypes, SendCallback
  <1>9. CASE UNCHANGED sendVars
    BY <1>9 DEF SendTypes, sendVars, Item
  <1> QED BY <1>1, <1>3, <1>4, <1>5, <1>6, <1>7, <1>8, <1>9 DEF GsaSendNext, SendThread

(* A post starts with the list at its client, and nothing posted.          *)
LEMMA PostStarts ==
    ASSUME SInv, NEW s \in Sender, iba_gsi_post_send(s), SendTypes'
    PROVE  SInv'
  <1> USE GsaSendAssumption DEF Item
  <1>1. AtClient /\ owner' = "gsi" /\ ~outcome.split
    BY DEF SInv, iba_gsi_post_send
  <1>2. sender'[s] = [pc |-> "loop", i |-> 1, failed |-> 0, status |-> "FSUCCESS"]
    BY DEF iba_gsi_post_send, Returned, SInv, SendTypes
  <1>3. \A t \in Sender : t # s => sender'[t] = sender[t]
    BY DEF iba_gsi_post_send, SInv, SendTypes
  <1>4. OneBusy'
    BY <1>1, <1>3 DEF AtClient, OneBusy, Looping, Finished
  <1>5. DoneBefore(1)' = {}
    BY DEF DoneBefore
  <1>6. postList'.in = ListLen /\ postList'.out = 0 /\ outcome' = NotYet /\ sdgrm' = sdgrm
    BY DEF iba_gsi_post_send
  <1>7. Posting(1)'
    <2>1. Cardinality(DoneBefore(1)') = 0
      BY <1>5, EmptyCount
    <2>2. complete' = 0
      BY <1>1 DEF iba_gsi_post_send, AtClient
    <2>3. \A i \in Item : Clean(sdgrm'[i])
      BY <1>1, <1>6 DEF AtClient
    <2>4. Walking(s, 1)'
      BY <1>2 DEF Walking
    <2>5. \A t \in Sender : Looping(t)' => Finished(t)' \/ Walking(t, 1)'
      BY <1>1, <1>3, <2>4 DEF AtClient, Looping, Finished
    <2> QED BY <1>6, <2>1, <2>2, <2>3, <2>5 DEF Posting
  <1>8. 1 \in 1..(ListLen + 1)
    OBVIOUS
  <1> QED BY <1>1, <1>4, <1>6, <1>7, <1>8 DEF SInv, AtGsi, NotYet

(* A refused datagram is done; if it was the last one, none is out.        *)
LEMMA FailsKeeps ==
    ASSUME SInv, SendTypes', NEW s \in Sender, NEW st, NEW d \in DgrmRec,
           Sending(s), Failed(s, st), st # "FSUCCESS",
           sdgrm' = [sdgrm EXCEPT ![sender[s].i] = d], Clean(sdgrm[sender[s].i]) => Clean(d)
    PROVE  SInv'
  <1> USE GsaSendAssumption DEF Item
  <1> SUFFICES ASSUME ~outcome'.split PROVE SInv'
    BY DEF SInv
  <1>1. /\ SendTypes /\ sender[s] \in SendRec /\ sender[s].i \in Nat /\ sender[s].failed \in Nat
        /\ ~outcome.split /\ ~EndsSplit(s)
    BY DEF SInv, SendTypes, SendRec, Failed
  <1>2. /\ sender'[s].pc = "loop" /\ sender'[s].i = sender[s].i + 1
        /\ sender'[s].failed = sender[s].failed + 1 /\ sender'[s].status = st
        /\ \A t \in Sender : t # s => sender'[t] = sender[t]
        /\ postList'.in = postList.in /\ postList'.out = postList.out + 1
    BY <1>1 DEF Failed, Sending, SendTypes, SendRec
  <1>3. Looping(s) /\ ~Finished(s)
    BY <1>1 DEF Sending, Looping, Finished
  <1>4. AtGsi /\ owner' = "gsi" /\ complete' = complete
    BY <1>1, <1>3 DEF SInv, AtClient, SendTypes, Failed
  <1>5. PICK p \in 1..(ListLen + 1) : Posting(p)
    BY <1>4 DEF AtGsi
  <1>6. sender[s].i = p /\ p <= ListLen /\ sender[s].failed < p
    BY <1>3, <1>5, <1>1 DEF Posting, Walking, Sending
  <1>7. \A t \in Sender : t # s /\ Looping(t) => Finished(t)
    BY <1>3, <1>4 DEF AtGsi, OneBusy
  <1>8. Clean(sdgrm[p]) /\ ~sdgrm[p].onSendQ
    BY <1>5, <1>6 DEF Posting, Clean
  <1>9. sdgrm'[p] = d /\ Clean(d) /\ ~d.onSendQ /\ \A i \in Item : i # p => sdgrm'[i] = sdgrm[i]
    BY <1>1, <1>6, <1>8 DEF SendTypes, Clean
  <1>10. DoneBefore(p + 1)' = DoneBefore(p) \cup {p} /\ p \notin DoneBefore(p)
    BY <1>6, <1>8, <1>9 DEF DoneBefore
  <1>11. postList'.out = Cardinality(DoneBefore(p + 1)')
    <2>1. Cardinality(DoneBefore(p + 1)') = Cardinality(DoneBefore(p)) + 1
      BY <1>10, DoneBeforeBounds, FS_AddElement
    <2> QED BY <1>2, <1>5, <2>1 DEF Posting
  <1>12. p = ListLen => NoneOut'
    BY <1>1, <1>4, <1>6, <1>9 DEF EndsSplit, NoneOut
  <1>13. Walking(s, p + 1)'
    BY <1>1, <1>2, <1>6, <1>12 DEF Walking
  <1>14. \A t \in Sender : Looping(t)' => Finished(t)' \/ Walking(t, p + 1)'
    BY <1>2, <1>7, <1>13 DEF Looping, Finished
  <1>15. \A i \in Item : Clean(sdgrm'[i]) \/ (i < p + 1 /\ sdgrm'[i].onSendQ)
    BY <1>5, <1>6, <1>9 DEF Posting
  <1>16. complete' < p + 1
    BY <1>1, <1>4, <1>5 DEF Posting, SendTypes
  <1>17. Posting(p + 1)'
    BY <1>11, <1>14, <1>15, <1>16 DEF Posting
  <1>18. OneBusy'
    BY <1>2, <1>7 DEF OneBusy, Looping, Finished
  <1>19. p + 1 \in 1..(ListLen + 1)
    BY <1>6
  <1>20. outcome'.failed = 0 /\ outcome'.completed = 0 /\ postList'.in = ListLen
    BY <1>1, <1>2, <1>4 DEF AtGsi, Failed, SendTypes
  <1> QED BY <1>4, <1>17, <1>18, <1>19, <1>20 DEF SInv, AtGsi

(* A datagram is posted, whatever became of the ones before it.            *)
LEMMA PostSendsKeeps ==
    ASSUME SInv, SendTypes', NEW s \in Sender, PostSends(s)
    PROVE  SInv'
  <1> USE GsaSendAssumption DEF Item
  <1> SUFFICES ASSUME ~outcome'.split PROVE SInv'
    BY DEF SInv
  <1>1. /\ SendTypes /\ sender[s] \in SendRec /\ sender[s].i \in Nat /\ sender[s].failed \in Nat
        /\ ~outcome.split
    BY DEF SInv, SendTypes, SendRec, PostSends
  <1>2. /\ sender'[s].pc = "loop" /\ sender'[s].i = sender[s].i + 1
        /\ sender'[s].failed = sender[s].failed /\ sender'[s].status = "FSUCCESS"
        /\ \A t \in Sender : t # s => sender'[t] = sender[t]
    BY <1>1 DEF PostSends, Sending, SendTypes, SendRec
  <1>3. Looping(s) /\ ~Finished(s)
    BY <1>1 DEF PostSends, Sending, Looping, Finished
  <1>4. AtGsi /\ owner' = "gsi" /\ postList' = postList /\ complete' = complete /\ outcome' = outcome
    BY <1>1, <1>3 DEF SInv, AtClient, SendTypes, PostSends
  <1>5. PICK p \in 1..(ListLen + 1) : Posting(p)
    BY <1>4 DEF AtGsi
  <1>6. sender[s].i = p /\ p <= ListLen /\ sender[s].failed < p
    BY <1>1, <1>3, <1>5 DEF Posting, Walking, PostSends, Sending
  <1>7. \A t \in Sender : t # s /\ Looping(t) => Finished(t)
    BY <1>3, <1>4 DEF AtGsi, OneBusy
  <1>8. sdgrm'[p].onSendQ /\ \A i \in Item : i # p => sdgrm'[i] = sdgrm[i]
    BY <1>6, <1>1 DEF PostSends, SendTypes
  <1>9. DoneBefore(p + 1)' = DoneBefore(p)
    BY <1>6, <1>8 DEF DoneBefore
  <1>10. Finished(s)' \/ Walking(s, p + 1)'
    BY <1>1, <1>2, <1>6 DEF Finished, Walking
  <1>11. \A t \in Sender : Looping(t)' => Finished(t)' \/ Walking(t, p + 1)'
    BY <1>2, <1>7, <1>10 DEF Looping, Finished
  <1>12. \A i \in Item : Clean(sdgrm'[i]) \/ (i < p + 1 /\ sdgrm'[i].onSendQ)
    BY <1>5, <1>6, <1>8 DEF Posting
  <1>13. Posting(p + 1)'
    BY <1>1, <1>4, <1>5, <1>9, <1>11, <1>12 DEF Posting, SendTypes
  <1>14. OneBusy'
    BY <1>2, <1>7 DEF OneBusy, Looping, Finished
  <1>15. p + 1 \in 1..(ListLen + 1)
    BY <1>6
  <1> QED BY <1>4, <1>13, <1>14, <1>15 DEF SInv, AtGsi

(* The call returns: with success when the last datagram was posted, and   *)
(* then nothing changes hands; with a failure when it was refused, and     *)
(* then nothing is out.                                                    *)
LEMMA SendReturnsKeeps ==
    ASSUME SInv, SendTypes', NEW s \in Sender, SendReturns(s)
    PROVE  SInv'
  <1> USE GsaSendAssumption DEF Item
  <1> SUFFICES ASSUME ~outcome'.split PROVE SInv'
    BY DEF SInv
  <1>1. /\ SendTypes /\ sender[s] \in SendRec /\ sender[s].i \in Nat /\ sender[s].failed \in Nat
        /\ Looping(s) /\ ~outcome.split
    BY DEF SInv, SendTypes, SendRec, SendReturns, Looping
  <1>2. /\ ~Looping(s)' /\ \A t \in Sender : t # s => sender'[t] = sender[t]
        /\ postList' = postList /\ sdgrm' = sdgrm /\ complete' = complete
    BY <1>1 DEF SendReturns, Returned, SendTypes, Looping
  <1>3. CASE Finished(s) /\ owner = "gsi"
    <2>1. AtGsi
      BY <1>1, <1>3 DEF SInv
    <2>2. CallStatus(s) = "FSUCCESS"
      BY <1>1, <1>3, <2>1 DEF CallStatus, Finished, AtGsi
    <2>3. owner' = owner /\ outcome' = outcome
      BY <2>2 DEF SendReturns
    <2>4. OneBusy'
      BY <1>2, <2>1 DEF AtGsi, OneBusy, Looping, Finished
    <2>5. PICK p \in 1..(ListLen + 1) : Posting(p)
      BY <2>1 DEF AtGsi
    <2>6. Posting(p)'
      BY <1>2, <2>5 DEF Posting, Looping, Finished, Walking, NoneOut, DoneBefore
    <2> QED BY <1>2, <1>3, <2>1, <2>3, <2>4, <2>6 DEF SInv, AtGsi
  <1>4. CASE owner = "client"
    <2>1. AtClient /\ Finished(s)
      BY <1>1, <1>4 DEF SInv, AtClient
    <2>2. CallStatus(s) = "FSUCCESS"
      BY <1>1, <2>1 DEF CallStatus, Finished, AtClient
    <2>3. owner' = owner /\ outcome' = outcome
      BY <2>2 DEF SendReturns
    <2> QED BY <1>2, <1>4, <2>1, <2>3 DEF SInv, AtClient, Looping, Finished
  <1>5. CASE ~Finished(s) /\ owner = "gsi"
    <2>1. AtGsi
      BY <1>1, <1>5 DEF SInv
    <2>2. PICK p \in 1..(ListLen + 1) : Posting(p)
      BY <2>1 DEF AtGsi
    <2>3. Walking(s, p) /\ p = ListLen + 1 /\ NoneOut
      BY <1>1, <1>5, <2>2 DEF Posting, Walking, SendReturns
    <2>4. CallStatus(s) # "FSUCCESS"
      BY <1>1, <1>5, <2>1, <2>3 DEF CallStatus, AtGsi, Walking, Finished
    <2>5. owner' = "client" /\ outcome'.failed = 1 /\ outcome'.completed = 0
      BY <1>1, <2>1, <2>4 DEF SendReturns, AtGsi, SendTypes
    <2>6. \A t \in Sender : Looping(t)' => Finished(t)'
      BY <1>1, <1>2, <1>5, <2>1 DEF AtGsi, OneBusy, Looping, Finished
    <2>7. \A i \in Item : Clean(sdgrm'[i])
      BY <1>2, <2>2, <2>3 DEF Posting, NoneOut
    <2> QED BY <1>2, <2>1, <2>3, <2>5, <2>6, <2>7 DEF SInv, AtClient, AtGsi, NoneOut
  <1> QED BY <1>1, <1>3, <1>4, <1>5 DEF SendTypes

(* A completion is counted: the datagram is one that was posted.           *)
LEMMA SendCompletionKeeps ==
    ASSUME SInv, SendTypes', SendCompletion
    PROVE  SInv'
  <1> USE GsaSendAssumption DEF Item
  <1> SUFFICES ASSUME ~outcome'.split PROVE SInv'
    BY DEF SInv
  <1>1. SendTypes /\ ~outcome.split
    BY DEF SInv, SendCompletion
  <1>2. PICK i \in Item : /\ sdgrm[i].onSendQ /\ sdgrm' = [sdgrm EXCEPT ![i] = Unposted]
                          /\ postList' = [postList EXCEPT !.out = @ + 1] /\ complete' = i
    BY DEF SendCompletion, Completed
  <1>3. AtGsi /\ owner' = "gsi" /\ sender' = sender /\ outcome' = outcome
    BY <1>1, <1>2 DEF SInv, AtClient, SendTypes, SendCompletion, Clean
  <1>4. PICK p \in 1..(ListLen + 1) : Posting(p)
    BY <1>3 DEF AtGsi
  <1>5. i < p
    BY <1>2, <1>4 DEF Posting, Clean
  <1>6. sdgrm'[i] = Unposted /\ Clean(Unposted) /\ \A j \in Item : j # i => sdgrm'[j] = sdgrm[j]
    BY <1>1, <1>2 DEF SendTypes, Clean, Unposted
  <1>7. DoneBefore(p)' = DoneBefore(p) \cup {i} /\ i \notin DoneBefore(p)
    BY <1>2, <1>5, <1>6 DEF DoneBefore, Unposted
  <1>8. Cardinality(DoneBefore(p)') = Cardinality(DoneBefore(p)) + 1
    BY <1>7, DoneBeforeBounds, FS_AddElement
  <1>9. postList'.in = postList.in /\ postList'.out = postList.out + 1
    BY <1>1, <1>2 DEF SendTypes
  <1>10. \A j \in Item : Clean(sdgrm'[j]) \/ (j < p /\ sdgrm'[j].onSendQ)
    BY <1>4, <1>6 DEF Posting
  <1>11. \A s \in Sender : Looping(s)' => Finished(s)' \/ Walking(s, p)'
    <2> SUFFICES ASSUME NEW s \in Sender, Looping(s), ~Finished(s) PROVE Walking(s, p)'
      BY <1>3 DEF Looping, Finished
    <2>1. Walking(s, p) /\ ~NoneOut
      BY <1>2, <1>4 DEF Posting, NoneOut
    <2> QED BY <1>3, <2>1 DEF Walking
  <1>12. Posting(p)'
    BY <1>2, <1>4, <1>5, <1>8, <1>9, <1>10, <1>11 DEF Posting
  <1>13. OneBusy'
    BY <1>3 DEF AtGsi, OneBusy, Looping, Finished
  <1> QED BY <1>3, <1>9, <1>12, <1>13 DEF SInv, AtGsi

(* The counts meet only when the last datagram was posted and all are      *)
(* completed or were refused.                                              *)
LEMMA SendCallbackKeeps ==
    ASSUME SInv, SendTypes', SendCallback
    PROVE  SInv'
  <1> USE GsaSendAssumption DEF Item
  <1> SUFFICES ASSUME ~outcome'.split PROVE SInv'
    BY DEF SInv
  <1>1. /\ SendTypes /\ complete # 0 /\ complete' = 0 /\ ~outcome.split
        /\ postList' = postList /\ sdgrm' = sdgrm /\ sender' = sender
    BY DEF SInv, SendCallback, SendTypes
  <1>2. AtGsi /\ owner = "gsi"
    BY <1>1 DEF SInv, AtClient, SendTypes
  <1>3. PICK p \in 1..(ListLen + 1) : Posting(p)
    BY <1>2 DEF AtGsi
  <1>4. CASE AllDone
    <2>1. p = ListLen + 1 /\ \A i \in Item : ~sdgrm[i].onSendQ
      BY <1>2, <1>3, <1>4, DoneBeforeBounds DEF AllDone, AtGsi, Posting
    <2>2. \A i \in Item : Clean(sdgrm[i])
      BY <1>3, <2>1 DEF Posting
    <2>3. \A s \in Sender : Looping(s) => Finished(s)
      BY <1>1, <1>3, <2>1 DEF Posting, Walking, NoneOut
    <2>4. owner' = "client" /\ outcome'.failed = 0 /\ outcome'.completed = 1
      BY <1>1, <1>2, <1>4 DEF SendCallback, AtGsi, SendTypes
    <2> QED BY <1>1, <1>2, <2>2, <2>3, <2>4 DEF SInv, AtClient, AtGsi, Looping, Finished
  <1>5. CASE ~AllDone
    <2>1. owner' = owner /\ outcome' = outcome
      BY <1>5 DEF SendCallback
    <2>2. Posting(p)'
      <3>1. \A s \in Sender : Looping(s)' => Finished(s)' \/ Walking(s, p)'
        BY <1>1, <1>3 DEF Posting, Looping, Finished, Walking, NoneOut
      <3> QED BY <1>1, <1>3, <3>1 DEF Posting, DoneBefore
    <2>3. OneBusy'
      BY <1>1, <1>2 DEF AtGsi, OneBusy, Looping, Finished
    <2> QED BY <1>1, <1>2, <2>1, <2>2, <2>3 DEF SInv, AtGsi
  <1> QED BY <1>4, <1>5

(* SInv is inductive.                                                      *)
LEMMA SendNextInv == SInv /\ [GsaSendNext]_sendVars => SInv'
  <1> SUFFICES ASSUME SInv, [GsaSendNext]_sendVars PROVE SInv'
    OBVIOUS
  <1> SendTypes /\ SendTypes'
    BY SendTypesKept DEF SInv
  <1>1. ASSUME NEW s \in Sender, NoAddress(s) PROVE SInv'
    <2>1. sender[s].i \in Item
      BY <1>1, GsaSendAssumption DEF NoAddress, Sending, SendTypes, SendRec, Item
    <2> DEFINE d == [sdgrm[sender[s].i] EXCEPT !.taken = FALSE]
    <2>2. d \in DgrmRec /\ sdgrm' = [sdgrm EXCEPT ![sender[s].i] = d]
      BY <1>1, <2>1 DEF NoAddress, SendTypes, DgrmRec
    <2>3. Clean(sdgrm[sender[s].i]) => Clean(d)
      BY <2>1 DEF Clean, SendTypes, DgrmRec
    <2> HIDE DEF d
    <2> QED BY <1>1, <2>2, <2>3, FailsKeeps DEF NoAddress
  <1>2. ASSUME NEW s \in Sender, PostRefused(s) PROVE SInv'
    <2>1. sender[s].i \in Item
      BY <1>2, GsaSendAssumption DEF PostRefused, Sending, SendTypes, SendRec, Item
    <2> DEFINE d == Refused(sdgrm[sender[s].i])
    <2>2. d \in DgrmRec /\ sdgrm' = [sdgrm EXCEPT ![sender[s].i] = d]
      BY <1>2, <2>1 DEF PostRefused, Refused, SendTypes, DgrmRec
    <2>3. Clean(sdgrm[sender[s].i]) => Clean(d)
      BY <2>1 DEF Clean, Refused, SendTypes, DgrmRec
    <2> HIDE DEF d
    <2> QED BY <1>2, <2>2, <2>3, FailsKeeps DEF PostRefused
  <1>3. CASE UNCHANGED sendVars
    <2>1. \A p : Posting(p) => Posting(p)'
      BY <1>3 DEF sendVars, DoneBefore, Posting, Walking, NoneOut, Looping, Finished
    <2>2. OneBusy = OneBusy' /\ AtClient = AtClient'
      BY <1>3 DEF sendVars, OneBusy, AtClient, Looping, Finished
    <2> QED BY <1>3, <2>1, <2>2 DEF sendVars, SInv, AtGsi
  <1> QED BY <1>1, <1>2, <1>3, PostStarts, PostSendsKeeps, SendReturnsKeeps, SendCompletionKeeps,
             SendCallbackKeeps DEF GsaSendNext, SendThread

(* SInv says what ListReturnedOnce does.                                   *)
LEMMA SInvImplies == SInv => ListReturnedOnce
  BY DEF SInv, SendTypes, AtClient, AtGsi, Clean, ListReturnedOnce, ListComesBackWhole, OwnedOnce

(* iba_gsi_post_send gives a list back once, by its failure or by the      *)
(* callback, and whole, whichever of its datagrams are refused and         *)
(* whichever threads post it again meanwhile; unless its last datagram is  *)
(* refused while others are out.                                           *)
THEOREM ListsReturnedOnce == SendSpec => []ListReturnedOnce
  <1>1. SendInit => SInv
    BY SendInitInv
  <1>2. SInv /\ [GsaSendNext]_sendVars => SInv'
    BY SendNextInv
  <1>3. SInv => ListReturnedOnce
    BY SInvImplies
  <1> QED BY <1>1, <1>2, <1>3, PTL DEF SendSpec
=============================================================================
