------------------------------- MODULE Fabric -------------------------------
(***************************************************************************)
(* The fabric data of the tools (Topology/fabricdata.c) and how the answers*)
(* of one device become its nodes and ports, and those of all devices its  *)
(* links (Topology/hpnmgt_snmp.c).  Everything here is an operator on a    *)
(* fabric record or on the variables a device has answered; the sweep that *)
(* collects them is module SnmpSweep.                                      *)
(*                                                                         *)
(* Names of ports are numbers, in the order of get_hash; a variable is a   *)
(* record of its column, its row, the local port an LLDP row is about, and *)
(* its value.  The management address of a switch (lldpLocManAddrIfId) is  *)
(* kept in the value of its chassis id.                                    *)
(***************************************************************************)
EXTENDS Integers, Sequences, FiniteSets, SequencesExt, TLC

CONSTANTS
    PortNumOf,     \* the number pn_gen_get_port finds for a name
    NamePrefix,    \* <<a, b>>: name b is a proper prefix of name a
    NoPort         \* NULL

-----------------------------------------------------------------------------
(* fabricdata.c *)

EmptyFabric ==
    [node |-> << >>, port |-> << >>, lid |-> << >>, neighbor |-> << >>, LinkCount |-> 0]

Has(f, x) == x \in DOMAIN f
With(f, x, v) == x :> v @@ f
Neighbor(fab, p) == IF Has(fab.neighbor, p) THEN fab.neighbor[p] ELSE NoPort

(* A node of a known GUID is the one that is there already.                *)
FabricDataAddNode(fab, n) ==
    IF Has(fab.node, n.guid) THEN fab ELSE [fab EXCEPT !.node = With(@, n.guid, n.type)]

(* AllLidsAdd: only ports with a PortGUID, and only in a live state.       *)
LidNeeded(fab, n, p, flags) ==
    /\ "DOWNPORTINFO" \notin flags \/ n.lid # 0
    /\ fab.node[n.guid] = "FI" \/ p.num = 0
    /\ p.state = "UP"

(* NodeDataAddPort refuses a port number or an address that is taken.      *)
AddsPort(fab, n, p, flags) ==
    ~Has(fab.port, <<n.guid, p.num>>) /\ ~(LidNeeded(fab, n, p, flags) /\ Has(fab.lid, n.lid))
NodeDataAddPort(fab, n, p, flags) ==
    [fab EXCEPT !.port = With(@, <<n.guid, p.num>>, p),
                !.lid = IF LidNeeded(fab, n, p, flags) THEN With(@, n.lid, <<n.guid, p.num>>) ELSE @]

(* Mutant: the far port may have a neighbor already.                       *)
CanLinkNear(fab, p, q) == Neighbor(fab, p) = NoPort
CanLink(fab, p, q) == Neighbor(fab, p) = NoPort /\ Neighbor(fab, q) = NoPort
FabricDataAddLink(fab, p, q) ==
    IF CanLink(fab, p, q)
    THEN [fab EXCEPT !.neighbor = With(With(@, p, q), q, p), !.LinkCount = @ + 1]
    ELSE fab

-----------------------------------------------------------------------------
(* populate_switch_node_port_records: the ports of a switch *)

Item(port, guid) == [port |-> port, id |-> 0, num |-> 0, ifx |-> 0, state |-> "NOP",
                     nguid |-> guid, nid |-> 0]
PortZero == [Item(0, 0) EXCEPT !.state = "UP"]

(* portNumMap holds the first item of a local port until its interface is  *)
(* known, portIdMap the items by their interface.                          *)
Parsed0 == [items |-> <<PortZero>>, byNum |-> << >>, byIf |-> << >>, names |-> {}, broken |-> FALSE]
NewItem(a, port, guid) ==
    LET i == Len(a.items) + 1
    IN [a EXCEPT !.items = Append(@, Item(port, guid)),
                 !.byNum = IF Has(@, port) THEN @ ELSE With(@, port, i)]
SetItem(a, map, k, field, v) ==
    IF Has(map, k) THEN [a EXCEPT !.items[map[k]] = [@ EXCEPT ![field] = v]] ELSE a
NumItem(a, v, field) == SetItem(a, a.byNum, v.port, field, v.val)

(* Mutant: any port will do.                                               *)
AnyName(id, name) == id # 0
(* strncmp(LocalPortId, portName, strlen(portName)) == 0                   *)
NameMatches(id, name) == id = name \/ <<id, name>> \in NamePrefix

(* The row of ifName: the first port of that name moves to portIdMap.      *)
HasInterface(a, k, row) ==
    [SetItem(a, a.byNum, k, "ifx", row) EXCEPT
       !.byNum = [n \in DOMAIN @ \ {k} |-> @[n]], !.byIf = With(@, row, a.byNum[k])]
FirstOf(a, ports, row) == IF ports = {} THEN a ELSE HasInterface(a, Min(ports), row)
GotName(a, v) ==
    FirstOf([a EXCEPT !.names = @ \cup {v.val}],
            {k \in DOMAIN a.byNum : NameMatches(a.items[a.byNum[k]].id, v.val)}, v.row)

(* The row of lldpLocPortIdSubtype: the name of a port that has a neighbor *)
(* must be its interface name (5) or local (7), or the rest of the answers *)
(* is not read; for one that has none, an inactive port is made.           *)
GotSubtype(a, v, flags) ==
    IF Has(a.byNum, v.port) THEN [a EXCEPT !.broken = v.val \notin {5, 7}]
    ELSE IF "DOWNPORTINFO" \in flags THEN NewItem(a, v.port, 0) ELSE a

GotRow(a, v, flags) ==
    CASE a.broken -> a
      [] v.col = "remChassisId" -> NewItem(a, v.port, v.val)
      [] v.col = "remPortId" -> NumItem(a, v, "nid")
      [] v.col = "locPortIdSubtype" -> GotSubtype(a, v, flags)
      [] v.col = "locPortId" -> NumItem(a, v, "id")
      [] v.col = "ifName" -> GotName(a, v)
      [] v.col = "ifOperStatus" -> SetItem(a, a.byIf, v.row, "state", v.val)
      [] OTHER -> a

Numbered(a) ==
    [i \in DOMAIN a.items |->
       [a.items[i] EXCEPT !.num = IF a.items[i].id \in a.names THEN PortNumOf[a.items[i].id] ELSE 0]]
SwitchPorts(res, flags) ==
    Numbered(FoldLeft(LAMBDA b, v : GotRow(b, v, flags), Parsed0, res))

(* The value of a column in the answers, at a row.                         *)
Answered(res, col, row) == {res[i].val : i \in {j \in DOMAIN res : res[j].col = col /\ res[j].row = row}}
TheOne(S, none) == IF S = {} THEN none ELSE CHOOSE x \in S : TRUE
NoAddr == [guid |-> 0, lid |-> 0]

(* A management address that is not an IPv4 one: an error, after which     *)
(* free_node_list walks the map of port ids that nobody has initialized,   *)
(* from the head NULL.                                                     *)
OtherAddress == -1
FreesBareMap(type, res) ==
    type = "SW" /\ TheOne(Answered(res, "locChassisId", 0), NoAddr).lid = OtherAddress

(* populate_switch_node_record: one node.                                  *)
SwitchNodes(res, flags) ==
    LET addr == TheOne(Answered(res, "locChassisId", 0), NoAddr)
    IN <<[guid |-> addr.guid, type |-> "SW", lid |-> addr.lid, ports |-> SwitchPorts(res, flags)]>>

(* populate_host_node_port_records: an interface whose type is known has   *)
(* one port, whose id is its MAC address.                                  *)
Loopback(res, row) == "loopback" \in Answered(res, "ifType", row)
HostPorts(res, row) ==
    IF Answered(res, "ifType", row) = {} THEN << >>
    ELSE <<[Item(1, 0) EXCEPT !.num = 1, !.ifx = row,
              !.id = TheOne(Answered(res, "ifPhysAddress", row), NoAddr).guid,
              !.state = TheOne(Answered(res, "ifOperStatus", row), "NOP")]>>
(* populate_host_node_record: every interface is a node, but not lo.       *)
HostNodes(res) ==
    LET ifs == SelectSeq(res, LAMBDA v : v.col = "ifName" /\ ~Loopback(res, v.row))
        Node(v) == LET addr == TheOne(Answered(res, "ifPhysAddress", v.row), NoAddr)
                   IN [guid |-> addr.guid, type |-> "FI", lid |-> addr.lid, ports |-> HostPorts(res, v.row)]
    IN [i \in DOMAIN ifs |-> Node(ifs[i])]

-----------------------------------------------------------------------------
(* process_dev_data: the nodes of a device enter the fabric *)

(* w: the fabric, the port ids of the node, and whether all went well.     *)
(* A port with a name and without a number is the management port.         *)
AddPort(w, n, p, flags) ==
    IF p.id # 0 /\ p.num = 0 THEN w
    ELSE IF ~AddsPort(w.fab, n, p, flags) THEN [w EXCEPT !.ok = FALSE]
    ELSE [w EXCEPT !.fab = NodeDataAddPort(@, n, p, flags),
                   !.ids = IF (n.type = "SW" /\ p.num = 0) \/ Has(@, p.id) THEN @
                           ELSE With(@, p.id, <<n.guid, p.num>>)]
(* A node without an address is skipped unless down ports are wanted; it   *)
(* stays on the list without its NodeData.                                 *)
Listed(w, n) == [w EXCEPT !.raw = Append(@, [guid |-> n.guid, ids |-> w.ids])]
AddNode(w, n, flags) ==
    IF n.lid = 0 /\ "DOWNPORTINFO" \notin flags THEN w
    ELSE Listed(FoldLeft(LAMBDA a, p : AddPort(a, n, p, flags),
                         [w EXCEPT !.fab = FabricDataAddNode(@, n), !.ids = << >>], n.ports), n)

(* The list of raw nodes is dropped when a port could not be added, unless *)
(* the counters were read, whose status takes the place of that one.       *)
Entered(w, flags) == [fab |-> w.fab, raw |-> IF w.ok \/ "STATS" \in flags THEN w.raw ELSE << >>]
process_dev_data(fab, type, res, flags) ==
    IF res = << >> THEN [fab |-> fab, raw |-> << >>]
    ELSE Entered(FoldLeft(LAMBDA a, n : AddNode(a, n, flags),
                          [fab |-> fab, raw |-> << >>, ids |-> << >>, ok |-> TRUE],
                          IF type = "SW" THEN SwitchNodes(res, flags) ELSE HostNodes(res)), flags)

-----------------------------------------------------------------------------
(* process_fab_data: the links *)

(* nodeMap: the first raw node of a GUID.                                  *)
RawNode(raws, guid) ==
    LET is == {i \in DOMAIN raws : raws[i].guid = guid}
    IN IF is = {} THEN [guid |-> 0, ids |-> << >>] ELSE raws[CHOOSE i \in is : \A j \in is : i <= j]

(* Mutant: the name of the near port.                                      *)
NearId(p) == p.id
(* The name under which the far port is looked up in the node's portMap.   *)
FarId(p) == p.nid

(* The port p of a switch: its neighbor is told, when it is a NIC, and the *)
(* two are linked.  The status is that of the last port with a neighbor.   *)
Told(fab, p, q) ==
    IF fab.node[q[1]] # "FI" THEN fab
    ELSE [fab EXCEPT !.port[q] = [@ EXCEPT !.nguid = p[1], !.nid = fab.port[p].id]]
Link(w, p, q) ==
    IF Neighbor(w.fab, p) = q /\ Neighbor(w.fab, q) = p THEN w
    ELSE [fab |-> FabricDataAddLink(w.fab, p, q),
          status |-> IF CanLink(w.fab, p, q) THEN "OK" ELSE "ERROR"]
LinkTo(w, p, nbr) ==
    LET far == FarId(w.fab.port[p])
    IN IF ~Has(nbr.ids, far) THEN [w EXCEPT !.status = "PARTIAL"]
       ELSE Link([w EXCEPT !.fab = Told(@, p, nbr.ids[far])], p, nbr.ids[far])
LinkPort(w, raws, p) == LinkTo(w, p, RawNode(raws, w.fab.port[p].nguid))

LinkNode(w, raws, raw) ==
    IF w.fab.node[raw.guid] = "FI" THEN w
    ELSE FoldLeft(LAMBDA a, id : LinkPort(a, raws, raw.ids[id]), w,
                  SetToSortSeq(DOMAIN raw.ids, <))

process_fab_data(fab, raws) ==
    FoldLeft(LAMBDA a, raw : LinkNode(a, raws, raw), [fab |-> fab, status |-> "OK"], raws)
=============================================================================
