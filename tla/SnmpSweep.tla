----------------------------- MODULE SnmpSweep ------------------------------
(***************************************************************************)
(* The discovery of the fabric over SNMP (Topology/hpnmgt_snmp.c): one     *)
(* session per device, all served by one select loop.  A session walks the *)
(* wanted columns with GET and GETBULK, one request at a time; when it has *)
(* walked the last one its answers become nodes and ports, and when no     *)
(* session is active any more the links are made.                          *)
(*                                                                         *)
(* Devices answer in any order, cut answers short, answer with an error,   *)
(* or not at all.                                                          *)
(***************************************************************************)
EXTENDS Fabric

CONSTANTS
    HostList,      \* the devices, in the order of init_hosts
    HostType,      \* "SW" or "FI"
    Mibs,          \* what the devices may hold: m[h] are the variables of h, by their OIDs
    MibOrder,      \* the columns in the order of their OIDs
    Wanted,        \* the columns wanted of a type of device, in order
    EntColumn,     \* the columns below entPhysical
    GetColumn,     \* the columns asked for with GET
    BulkSize, EntSize,     \* SNMP_BULK_SIZE, and 5
    MemoryMayFail,         \* an answer may find no memory
    NoReq

ASSUME SnmpAssumption ==
    /\ BulkSize \in Nat \ {0} /\ EntSize \in Nat \ {0} /\ MemoryMayFail \in BOOLEAN
    /\ Range(HostList) \subseteq DOMAIN HostType
    /\ \A m \in Mibs : Range(HostList) \subseteq DOMAIN m

VARIABLES
    flags, mib,    \* FF_STATS and FF_DOWNPORTINFO; what the devices hold
    ctx,           \* contexts[]: the session of each device
    request,       \* the request a session waits for
    opened,        \* how many devices collect_data has gone through
    active_hosts,
    fabric, raw,   \* the fabric, and populated_data of each device
    sweep          \* "collecting", then the status collect_data returns, or "crashed"

sweepVars == <<flags, mib, ctx, request, opened, active_hosts, fabric, raw, sweep>>

Host == Range(HostList)
Col(h, i) == Wanted[HostType[h]][i]
LastOid(h) == Len(Wanted[HostType[h]])

-----------------------------------------------------------------------------
(* Requests, and what a device answers *)

Rank(col) == CHOOSE i \in DOMAIN MibOrder : MibOrder[i] = col
Beyond(v, at) == Rank(v.col) > Rank(at.col) \/ (v.col = at.col /\ v.row > at.row)
(* The type SNMP_ENDOFMIBVIEW or SNMP_NOSUCHINSTANCE of a variable.        *)
EndOf(at) == [col |-> at.col, row |-> at.row, end |-> TRUE]
IsEnd(v) == "end" \in DOMAIN v

(* prepare_snmp_query for the column i: none is left when i is past it.    *)
RepsOf(c) == IF c.ifNumber = 0 THEN BulkSize ELSE c.ifNumber + 1
prepare_snmp_query(h, c, i) ==
    IF i > LastOid(h) THEN NoReq
    ELSE [at |-> [col |-> Col(h, i), row |-> -1], get |-> Col(h, i) \in GetColumn,
          max |-> IF Col(h, i) \in EntColumn THEN EntSize ELSE RepsOf(c)]
(* ... and to go on behind a variable.                                     *)
GoOn(c, v) == [at |-> [col |-> v.col, row |-> v.row], get |-> FALSE, max |-> RepsOf(c)]

(* The agent of the device: it may answer with fewer variables.            *)
Answers(h, r) ==
    LET rest == SelectSeq(mib[h], LAMBDA v : Beyond(v, r.at))
        n == IF Len(rest) < r.max THEN Len(rest) ELSE r.max
        whole == SubSeq(rest, 1, n)
    IN IF r.get
       THEN {IF n > 0 /\ rest[1].col = r.at.col THEN <<rest[1]>> ELSE <<EndOf(r.at)>>}
       ELSE IF n = 0 THEN {<<EndOf(r.at)>>}
       ELSE {SubSeq(rest, 1, 1), IF n < r.max THEN Append(whole, EndOf(rest[n])) ELSE whole}

-----------------------------------------------------------------------------
(* asynch_mixed_response *)

(* add_snmp_result: once it has failed, what follows is chained to nothing.*)
Kept(c, v, fails) ==
    IF fails THEN [c EXCEPT !.attached = FALSE]
    ELSE IF c.attached THEN [c EXCEPT !.result = Append(@, v)] ELSE c

(* Mutant: the column is left after the first answer.                      *)
LeavesColumn(h, c, v) == "END_NEXT"
(* The state after a variable of the current column was kept.              *)
StateOf(h, c, v) == IF Col(h, c.oid) \in GetColumn THEN "END_NEXT" ELSE "NEXT"

(* The variables vs from i on; bad is the one without memory.  An error is *)
(* forgotten when another variable follows.                                *)
RECURSIVE TakeVars(_, _, _, _, _)
TakeVars(h, c, vs, i, bad) ==
    LET v == vs[i]
        kept == Kept([c EXCEPT !.ifNumber = IF @ = 0 /\ v.col = "ifNumber" THEN v.val ELSE @], v, i = bad)
        next == [kept EXCEPT !.state = IF i = bad THEN "ERROR" ELSE StateOf(h, c, v)]
    IN IF v.col # Col(h, c.oid)
       THEN IF c.oid < LastOid(h) /\ v.col = Col(h, c.oid + 1)
            THEN TakeVars(h, [c EXCEPT !.oid = @ + 1, !.state = "NEXT"], vs, i, bad)
            ELSE [c EXCEPT !.state = "END_NEXT"]
       ELSE IF IsEnd(v) THEN [c EXCEPT !.state = "WARN"]
       ELSE IF i = Len(vs) THEN next ELSE TakeVars(h, next, vs, i + 1, bad)

(* "Entity MIB data can be big", so no continued query for it.             *)
GoesOn(c, v) == c.state = "NEXT" /\ v.col \notin EntColumn
NextOid(c) == [c EXCEPT !.oid = @ + 1]
NextReq(h, c, v) ==
    IF GoesOn(c, v) THEN GoOn(c, v)
    ELSE IF c.state = "ERROR" THEN NoReq ELSE prepare_snmp_query(h, c, c.oid + 1)

(* Mutant: a session that failed stays active.                             *)
CountsOnly(h) == UNCHANGED active_hosts
SessionEnds(h) == active_hosts' = active_hosts - 1

FabricHas(h, d) == fabric' = d.fab /\ raw' = [raw EXCEPT ![h] = d.raw]
(* The session ends: what it has is processed, unless there was an error.  *)
Finish(h, c) ==
    /\ request' = [request EXCEPT ![h] = NoReq]
    /\ ctx' = [ctx EXCEPT ![h] = [c EXCEPT !.state = IF @ = "ERROR" THEN "ERROR" ELSE "DONE"]]
    /\ IF c.state = "ERROR" THEN UNCHANGED <<fabric, raw, sweep>>
       ELSE IF FreesBareMap(HostType[h], c.result) THEN sweep' = "crashed" /\ UNCHANGED <<fabric, raw>>
       ELSE FabricHas(h, process_dev_data(fabric, HostType[h], c.result, flags)) /\ UNCHANGED sweep
    /\ SessionEnds(h) /\ UNCHANGED <<flags, mib, opened>>

Waiting(h) == sweep = "collecting" /\ opened = Len(HostList) /\ request[h] # NoReq

(* An answer without error: the next request is sent, or it cannot be.     *)
Sends(h, c, r) ==
    IF r = NoReq THEN Finish(h, c)
    ELSE \/ /\ ctx' = [ctx EXCEPT ![h] = c] /\ request' = [request EXCEPT ![h] = r]
            /\ UNCHANGED <<flags, mib, opened, active_hosts, fabric, raw, sweep>>
         \/ Finish(h, [c EXCEPT !.state = "ERROR"])
Proceed(h, c, v) ==
    Sends(h, IF GoesOn(c, v) \/ c.state = "ERROR" THEN c ELSE NextOid(c), NextReq(h, c, v))
Response(h) ==
    /\ Waiting(h)
    /\ \E vs \in Answers(h, request[h]) :
       \E bad \in {0} \cup (IF MemoryMayFail THEN DOMAIN vs ELSE {}) :
         Proceed(h, TakeVars(h, [ctx[h] EXCEPT !.state = "NONE"], vs, 1, bad), vs[Len(vs)])
(* errstat of the answer, or the library has given up.                     *)
ErrorOrTimeout(h) == Waiting(h) /\ Finish(h, [ctx[h] EXCEPT !.state = "ERROR"])

-----------------------------------------------------------------------------
(* collect_data *)

NewCtx == [oid |-> 1, result |-> << >>, attached |-> TRUE, ifNumber |-> 0, state |-> "NONE"]

(* The session of the next device is opened, unless snmp_open or snmp_send *)
(* fails; without its keys, or memory for the community, collect_data      *)
(* returns, whatever sessions are open.                                    *)
OpenSession ==
    /\ sweep = "collecting" /\ opened < Len(HostList)
    /\ LET h == HostList[opened + 1]
       IN \/ /\ request' = [request EXCEPT ![h] = prepare_snmp_query(h, NewCtx, 1)]
             /\ active_hosts' = active_hosts + 1
             /\ opened' = opened + 1 /\ UNCHANGED sweep
          \/ opened' = opened + 1 /\ UNCHANGED <<request, active_hosts, sweep>>
          \/ sweep' = "INVALID_SETTING" /\ UNCHANGED <<request, active_hosts, opened>>
    /\ UNCHANGED <<flags, mib, ctx, fabric, raw>>

(* Mutant: the loop ends with the first device that has.                   *)
FirstDone == active_hosts < Cardinality({h \in Host : request[h] # NoReq})
                \/ \E h \in Host : ctx[h].state = "DONE"
LoopEnds == active_hosts = 0

(* The sessions are closed, the links made and the lists freed.  PARTIAL   *)
(* counts as success.                                                      *)
LinksMade(w) == fabric' = w.fab /\ sweep' = IF w.status = "ERROR" THEN "ERROR" ELSE "SUCCESS"
CollectionEnds ==
    /\ sweep = "collecting" /\ opened = Len(HostList) /\ LoopEnds
    /\ LinksMade(process_fab_data(fabric, FlattenSeq([i \in DOMAIN HostList |-> raw[HostList[i]]])))
    /\ UNCHANGED <<flags, mib, ctx, request, opened, active_hosts, raw>>

SnmpInit ==
    /\ flags \in SUBSET {"STATS", "DOWNPORTINFO"} /\ mib \in Mibs
    /\ ctx = [h \in Host |-> NewCtx] /\ request = [h \in Host |-> NoReq]
    /\ opened = 0 /\ active_hosts = 0
    /\ fabric = EmptyFabric /\ raw = [h \in Host |-> << >>] /\ sweep = "collecting"

SnmpCallback(h) == ErrorOrTimeout(h) \/ Response(h)
SnmpNext == OpenSession \/ CollectionEnds \/ \E h \in Host : SnmpCallback(h)

(* The one thread does not stop: while a request is out the library calls  *)
(* back for some session, answered or timed out.                           *)
SnmpFairness == WF_sweepVars(SnmpNext)
SnmpSpec == SnmpInit /\ [][SnmpNext]_sweepVars /\ SnmpFairness

-----------------------------------------------------------------------------
(* Properties *)

(* The select loop is over and the links are made.                         *)
Swept == sweep \in {"SUCCESS", "ERROR"}

(* active_hosts, on which the select loop ends, counts the sessions that   *)
(* wait; after the loop, when collect_data closes them and gives up the    *)
(* contexts in its frame, none does.                                       *)
ActiveCounted ==
    /\ active_hosts = Cardinality({h \in Host : request[h] # NoReq})
    /\ Swept => \A h \in Host : request[h] = NoReq

Rows(h, col) == SelectSeq(mib[h], LAMBDA v : v.col = col)
(* What is processed of a device is every row of every wanted column, once *)
(* and column by column as wanted, however its answers were cut, and       *)
(* whichever column an answer ran into.  The parsers rely on that order.   *)
ResultWhole ==
    \A h \in Host : ctx[h].state = "DONE" =>
        SelectSeq(ctx[h].result, LAMBDA v : v.col \notin EntColumn)
          = FlattenSeq([i \in 1..LastOid(h) |-> IF Col(h, i) \in EntColumn THEN << >> ELSE Rows(h, Col(h, i))])

(* "We only care Module/Chassis that supposed to be in the first 5": of a  *)
(* column below entPhysical the first entities are there.                  *)
EntitiesCollected ==
    \A h \in Host : ctx[h].state = "DONE" => \A col \in EntColumn \cap Range(Wanted[HostType[h]]) :
        LET rows == Rows(h, col)
        IN \A i \in DOMAIN rows : i <= EntSize => rows[i] \in Range(ctx[h].result)

(* A link joins two ports, each the neighbor of the other, LinkCount is    *)
(* the number of links, and an address is that of a port of the fabric.    *)
LinksMutual ==
    /\ \A p \in DOMAIN fabric.neighbor :
         LET q == fabric.neighbor[p]
         IN Has(fabric.neighbor, q) /\ fabric.neighbor[q] = p /\ Has(fabric.port, p)
    /\ fabric.LinkCount = Cardinality({{p, fabric.neighbor[p]} : p \in DOMAIN fabric.neighbor})
    /\ \A l \in DOMAIN fabric.lid : Has(fabric.port, fabric.lid[l])

GuidOf(h) == TheOne({v.val.guid : v \in {w \in Range(mib[h]) : w.col = "locChassisId"}}, 0)
(* What the LLDP tables say: <<port, name>> of a switch sees another one.  *)
Claims ==
    UNION {{<<<<GuidOf(h), t[3].val>>, <<t[1].val, t[2].val>>>> :
              t \in {u \in Range(Rows(h, "remChassisId")) \X Range(Rows(h, "remPortId"))
                            \X Range(Rows(h, "locPortId")) :
                      u[2].row = u[1].row /\ u[3].port = u[1].port}} : h \in Host}
End(p) == <<p[1], fabric.port[p].id>>
Clear(c) == \A d \in Claims : {d[1], d[2]} \cap {c[1], c[2]} # {} => {d[1], d[2]} = {c[1], c[2]}
(* The links are those of the LLDP tables: every link was seen from one of *)
(* its ends, and when the sweep is over two ports of devices that were     *)
(* processed, one of which sees the other and which see and are seen by    *)
(* nothing else, are linked, whichever device answered first and whichever *)
(* failed.                                                                 *)
LinksAreSeen ==
    /\ \A p \in DOMAIN fabric.neighbor :
         LET q == fabric.neighbor[p] IN <<End(p), End(q)>> \in Claims \/ <<End(q), End(p)>> \in Claims
    /\ Swept =>
         LET ids == UNION {{<<<<r.guid, a>>, r.ids[a]>> : a \in DOMAIN r.ids} :
                             r \in UNION {Range(raw[h]) : h \in Host}}
         IN \A x, y \in ids : <<x[1], y[1]>> \in Claims /\ Clear(<<x[1], y[1]>>) =>
                Neighbor(fabric, x[2]) = y[2]

(* A port has the state of the interface of its own name: "the             *)
(* lldpLocPortId shall match ifName" (hpnmgt_snmp.c).                      *)
StateIsItsOwn ==
    \A h \in Host : HostType[h] = "SW" => \A p \in DOMAIN fabric.port :
        p[1] = GuidOf(h) /\ fabric.port[p].ifx # 0 =>
            \A v \in Range(mib[h]) : v.col = "ifName" /\ v.val = fabric.port[p].id =>
                fabric.port[p].ifx = v.row

(* The sweep ends, whatever devices fall silent.                           *)
SweepEnds == <>(sweep # "collecting")

(* The select loop counts the sessions that are open, and what was         *)
(* collected from a device is every row of the columns it was asked for.   *)
CollectionWhole == ActiveCounted /\ ResultWhole

(* The links of the fabric: both ends name each other, somebody saw the    *)
(* link, and a port has the state of its own interface, in whatever order  *)
(* the devices answered.                                                   *)
LinksKept == LinksMutual /\ LinksAreSeen /\ StateIsItsOwn
=============================================================================
