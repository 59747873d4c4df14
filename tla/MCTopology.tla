----------------------------- MODULE MCTopology -----------------------------
(***************************************************************************)
(* The SNMP sweep over two switches and a host, and the containers in      *)
(* which what it finds is kept.  `part' picks what a behaviour is about:   *)
(*   "sweep"  all three devices, every order of answers and failures;      *)
(*   "end"    two of them, for the end of the sweep under fairness;        *)
(*   "one"    one quick map, all its keys;                                 *)
(*   "four"   four quick maps, merged and compared;                        *)
(*   "lists"  quick lists;                                                 *)
(*   "tree"   the map of imap.c.                                           *)
(***************************************************************************)
EXTENDS QuickMap, SnmpSweep, Lists, TreeMap

CONSTANTS swA, swB, host

V(c, r, p, v) == [col |-> c, row |-> r, port |-> p, val |-> v]
MCHostList == <<swA, swB, host>>
MCHostType == swA :> "SW" @@ swB :> "SW" @@ host :> "FI"
MCMibOrder == <<"locChassisId", "locPortIdSubtype", "locPortId", "remChassisId", "remPortId", "ifNumber",
                "ifType", "ifPhysAddress", "ifOperStatus", "ifName", "hwRev", "fwRev">>
MCWanted ==
    [SW |-> <<"ifNumber", "locChassisId", "remChassisId", "remPortId", "locPortIdSubtype", "locPortId",
              "ifName", "ifOperStatus", "hwRev", "fwRev">>,
     FI |-> <<"ifNumber", "ifName", "ifType", "ifPhysAddress", "ifOperStatus">>]
(* Port 1 of swA, port 2 of swB see each other; port 2 of swA, 3 of swB *)
(* both see the first interface of the host, whose second interface has    *)
(* the address of swB.  Port 1 of swB sees nothing, and its name is of any *)
(* kind.  The name of its port 2 is of kind t, what that port sees is far, *)
(* and its address is l.                                                   *)
MibWith(t, l, far) ==
    swA :> <<V("locChassisId", 0, 0, [guid |-> 11, lid |-> 1]),
           V("locPortIdSubtype", 1, 1, 5), V("locPortIdSubtype", 2, 2, 5),
           V("locPortId", 1, 1, 1), V("locPortId", 2, 2, 2),
           V("remChassisId", 1, 1, 12), V("remChassisId", 2, 2, 21),
           V("remPortId", 1, 1, 2), V("remPortId", 2, 2, 21), V("ifNumber", 0, 0, 2),
           V("ifOperStatus", 1, 0, "UP"), V("ifOperStatus", 2, 0, "DOWN"),
           V("ifName", 1, 0, 1), V("ifName", 2, 0, 2),
           V("hwRev", 1, 0, 0), V("hwRev", 2, 0, 0), V("fwRev", 1, 0, 0), V("fwRev", 2, 0, 0)>>
    @@ swB :> <<V("locChassisId", 0, 0, [guid |-> 12, lid |-> l]),
           V("locPortIdSubtype", 1, 1, 3), V("locPortIdSubtype", 2, 2, t), V("locPortIdSubtype", 3, 3, 7),
           V("locPortId", 1, 1, 1), V("locPortId", 2, 2, 2), V("locPortId", 3, 3, 3),
           V("remChassisId", 2, 2, far[1]), V("remChassisId", 3, 3, 21),
           V("remPortId", 2, 2, far[2]), V("remPortId", 3, 3, 21), V("ifNumber", 0, 0, 3),
           V("ifOperStatus", 1, 0, "UP"), V("ifOperStatus", 2, 0, "UP"), V("ifOperStatus", 3, 0, "UP"),
           V("ifName", 1, 0, 1), V("ifName", 2, 0, 2), V("ifName", 3, 0, 3)>>
    @@ host :> <<V("ifNumber", 0, 0, 3), V("ifType", 1, 0, "eth"), V("ifType", 2, 0, "eth"),
           V("ifType", 3, 0, "loopback"),
           V("ifPhysAddress", 1, 0, [guid |-> 21, lid |-> 3]),
           V("ifPhysAddress", 2, 0, [guid |-> 22, lid |-> 2]),
           V("ifOperStatus", 1, 0, "UP"), V("ifOperStatus", 2, 0, "UP"), V("ifOperStatus", 3, 0, "UP"),
           V("ifName", 1, 0, 5), V("ifName", 2, 0, 6), V("ifName", 3, 0, 7)>>
Usual == MibWith(7, 2, <<11, 1>>)
MCMibs == {Usual, MibWith(3, 2, <<11, 1>>), MibWith(7, OtherAddress, <<11, 1>>), MibWith(7, 2, <<21, 21>>)}
MCPortNumOf == 1 :> 1 @@ 2 :> 2 @@ 3 :> 3

(* Names where one begins with another, "Eth1/1" and "Eth1/10", and the    *)
(* port of the shorter name has no neighbor.                               *)
PrefixHostList == <<swA>>
PrefixHostType == swA :> "SW"
PrefixMibs ==
    {swA :> <<V("locChassisId", 0, 0, [guid |-> 11, lid |-> 1]),
           V("locPortId", 1, 1, 1), V("locPortId", 2, 2, 2),
           V("remChassisId", 2, 2, 21), V("remPortId", 2, 2, 21), V("ifNumber", 0, 0, 2),
           V("ifOperStatus", 1, 0, "DOWN"), V("ifOperStatus", 2, 0, "UP"),
           V("ifName", 1, 0, 1), V("ifName", 2, 0, 2)>>}
NoPrefix == {}
SomePrefix == {<<2, 1>>}

(* The user's key order is the reverse of the numbers' order.              *)
MCCollate == [k \in MapKey |-> 9 - k]

VARIABLE part

storeVars == <<qmapVars, listVars, treeVars>>
mcVars == <<storeVars, sweepVars, part>>

OneMap ==
    \/ cl_qmap_remove_all(1)
    \/ \E k \in MapKey : cl_qmap_remove(1, k) \/ cl_qmap_insert(1, <<k, 1>>)
FourMaps ==
    \/ cl_qmap_remove_all(1) \/ cl_qmap_remove(1, 1)
    \/ cl_qmap_merge(1, 2) \/ cl_qmap_merge(1, 3) \/ cl_qmap_merge(2, 4)
    \/ cl_qmap_delta(1, 2, 3, 4)
    \/ \E m \in {1, 2}, x \in (1..3) \X Copy : cl_qmap_insert(m, x)
TwoDevices == SnmpNext /\ request'[swA] = NoReq

MCInit ==
    /\ QuickMapInit /\ ListsInit /\ TreeMapInit /\ SnmpInit
    /\ part \in {"sweep", "end", "one", "four", "lists", "tree"}
    /\ flags \in IF part = "sweep" THEN {{}, {"STATS", "DOWNPORTINFO"}} ELSE {{}}
    /\ part # "end" => mib = Usual
    /\ keyCompare = "user" => part \in {"one", "four"}
MCNext ==
    /\ UNCHANGED part
    /\ \/ part = "one" /\ OneMap /\ UNCHANGED <<listVars, treeVars, sweepVars>>
       \/ part = "four" /\ FourMaps /\ UNCHANGED <<listVars, treeVars, sweepVars>>
       \/ part = "lists" /\ ListsNext /\ UNCHANGED <<qmapVars, treeVars, sweepVars>>
       \/ part = "tree" /\ TreeMapNext /\ UNCHANGED <<qmapVars, listVars, sweepVars>>
       \/ part = "sweep" /\ SnmpNext /\ UNCHANGED storeVars
       \/ part = "end" /\ TwoDevices /\ UNCHANGED storeVars
MCSpec == MCInit /\ [][MCNext]_mcVars /\ WF_sweepVars(part = "end" /\ TwoDevices)

(* The sweep ends, whatever devices fall silent: the select loop of        *)
(* collect_data never waits for a session that has been closed.            *)
SilentDevicesEnd == part = "end" => SweepEnds

(* The sweep alone.                                                        *)
MCSweep ==
    /\ SnmpInit /\ QuickMapInit /\ ListsInit /\ TreeMapInit /\ part = "sweep"
    /\ [][SnmpNext /\ UNCHANGED <<storeVars, part>>]_mcVars
=============================================================================
