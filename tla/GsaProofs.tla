------------------------------ MODULE GsaProofs -------------------------------
(***************************************************************************)
(* ReceiveQueueKept and ClassesKept for any ports, classes, MADs and pool  *)
(* sizes, and FanoutComplete when no client deregisters in its callback.   *)
(* A datagram moves from one of its owners to another in every step; what  *)
(* a port's thread is about to post makes up for what the port has used.   *)
(***************************************************************************)
EXTENDS Gsa, FiniteSetTheorems, SequenceTheorems, WellFoundedInduction, TLAPS

GsaPc == {"idle", "addToRecvQ", "get", "lookup", "posting", "counting", "grow", "schedule", "callback", "conclude", "lost"}
GsaThread ==
    [pc : GsaPc, list : SUBSET Dgrm, n : Nat, seen : Int, mad : GsiMad \cup {NoMad}, at : Handle \cup {NoClass},
     status : {"FNOT_FOUND", "FPENDING", "FCOMPLETED", "FREJECT"}, told : SUBSET Handle]
GsaPool == [free : SUBSET Dgrm, elements : Nat, total : 0..DgrmLimit, grow : Nat]
ClassState == {"none", "setMask", "on", "looking", "clearMask"}

PoolTypes ==
    /\ gpool \in GsaPool /\ dgrm \in [Dgrm -> Flags]
    /\ qp1 \in [Port -> {"absent", "NORMAL", "DESTROY"}]
    /\ posted \in [Port -> Int] /\ short \in [Port -> Int] /\ recvQ \in [Port -> SUBSET Dgrm]
    /\ sendQ \subseteq [port : Port, d : Dgrm] /\ held \subseteq Dgrm
    /\ gsa \in [Thread -> GsaThread]
ClassTypes ==
    /\ cls \in [Handle -> ClassState] /\ classList \in Seq(Handle) /\ cid \in [Handle -> 0..MaxClientId]

(* The owners of the datagrams, of which n were made, have none in common: *)
(* the pool F, the adapter R[p], the thread L[w], the answers S, clients H.*)
Apart(F, R, L, S, H) ==
    /\ F \cap H = {}
    /\ \A p \in Port : R[p] \cap F = {} /\ R[p] \cap H = {}
    /\ \A w \in Thread : L[w] \cap F = {} /\ L[w] \cap H = {}
    /\ \A p \in Port, w \in Thread : R[p] \cap L[w] = {}
    /\ \A p, q \in Port : p # q => R[p] \cap R[q] = {}
    /\ \A v, w \in Thread : v # w => L[v] \cap L[w] = {}
    /\ \A x \in S : /\ x.d \notin F /\ x.d \notin H
                    /\ \A p \in Port : x.d \notin R[p]
                    /\ \A w \in Thread : x.d \notin L[w]
    /\ \A x, y \in S : x.d = y.d => x = y
Owns(d, F, R, L, S, H) ==
    d \in F \/ d \in H \/ (\E p \in Port : d \in R[p]) \/ (\E w \in Thread : d \in L[w]) \/ (\E x \in S : x.d = d)
Split(F, R, L, S, H, n) ==
    /\ Apart(F, R, L, S, H)
    /\ \A d \in Dgrm : (d <= n) = Owns(d, F, R, L, S, H)
(* The flags of the datagrams tell their owners.                           *)
Flagged(g, F, R, S, n) ==
    \A d \in Dgrm : /\ g[d].alloc = (d <= n /\ d \notin F)
                    /\ g[d].onRecv = \E p \in Port : d \in R[p]
                    /\ g[d].onSend = \E x \in S : x.d = d
Lists == [w \in Thread |-> gsa[w].list]

(* A port in use counts the buffers r that the adapter has, but for the    *)
(* one its thread t has just posted; with what t is about to post, and     *)
(* what it fell short of or discarded, they are the minimum.               *)
Filled(t, c, r, s) ==
    /\ t.pc # "counting" => c = Cardinality(r)
    /\ t.pc = "counting" => c + 1 = Cardinality(r) /\ t.seen = c /\ c + 1 + Cardinality(t.list) + s >= MinBuffers
    /\ t.pc \in {"addToRecvQ", "get", "callback", "conclude"} => c + t.n >= MinBuffers
    /\ t.pc \in {"lookup", "posting"} => c + Cardinality(t.list) + s >= MinBuffers
    /\ t.pc \in {"idle", "grow", "schedule"} => c + s >= MinBuffers

(* A thread w, its port's QP, and the buffers the adapter has.             *)
PortOK(w, t, q, c, r, s) ==
    /\ q = "absent" \/ (w \in Remover /\ q # "DESTROY") => t.pc = "idle"
    /\ t.pc \in {"idle", "addToRecvQ", "get", "grow", "schedule"} => t.list = {}
    /\ t.status = "FPENDING" => t.pc = "conclude" /\ t.list = {}
    /\ w \notin Remover /\ q = "NORMAL" => Filled(t, c, r, s)

QueueInv ==
    /\ PoolTypes
    /\ gpool.elements = Cardinality(gpool.free)
    /\ Split(gpool.free, recvQ, Lists, sendQ, held, gpool.total)
    /\ Flagged(dgrm, gpool.free, recvQ, sendQ, gpool.total)
    /\ \A p \in Port : qp1[p] = "absent" => recvQ[p] = {} /\ posted[p] = 0
    /\ \A w \in Thread : PortOK(w, gsa[w], qp1[Of[w]], posted[Of[w]], recvQ[Of[w]], short[Of[w]])

(* The threads that may take a step at all, and a step that changes no     *)
(* other port's history.                                                   *)
Working(w) == qp1[Of[w]] # "absent" /\ (w \in Remover => qp1[Of[w]] = "DESTROY")
Shorts(p) == short' \in [Port -> Int] /\ \A x \in Port \ {p} : short'[x] = short[x]

(* Registered classes: the list has each once, with its own client id, and *)
(* a class that is advertised has a manager that is not through with it.   *)
Listed(h) == \E i \in DOMAIN classList : classList[i] = h
ClassInv ==
    /\ ClassTypes
    /\ \A i, j \in DOMAIN classList : classList[i] = classList[j] => i = j
    /\ \A h \in Handle : Listed(h) <=> cls[h] \in {"setMask", "on"}
    /\ \A h \in Handle : cls[h] \in {"setMask", "looking", "clearMask"} => Reg[h].responder
    /\ \A g, h \in Handle : cls[g] \in {"setMask", "on"} /\ cls[h] \in {"setMask", "on"} /\ cid[g] = cid[h] => g = h
    /\ \A c \in capMask : \E h \in Handle : Reg[h].responder /\ Reg[h].class = c /\ cls[h] # "none"

(* Of a walk under way: the classes from the one called to the tail have   *)
(* been told of the report or trap m.                                      *)
Wants(h, m) == Reg[h].class = m.class /\ IF m.method = "REPORT" THEN Reg[h].report ELSE Reg[h].trap
WalkOK(t, q) ==
    /\ t.pc = "callback" => t.at \in Handle /\ \E i \in DOMAIN q : q[i] = t.at
    /\ t.pc # "callback" => t.at = NoClass
    /\ t.pc = "callback" /\ Fanout(t.mad) =>
         \A i, j \in DOMAIN q : q[j] = t.at /\ j <= i /\ Wants(q[i], t.mad) => q[i] \in t.told
WalkInv == \A w \in Thread : WalkOK(gsa[w], classList)

-----------------------------------------------------------------------------
(* Sets of numbers *)

(* A set of naturals that is not empty has a least element.                *)
LEMMA LeastNat == ASSUME NEW S, S \subseteq Nat, S # {} PROVE \E x \in S : \A y \in S : x <= y
  <1>1. IsWellFoundedOn(OpToRel(<, Nat), Nat)
    BY NatLessThanWellFounded
  <1>2. PICK x \in S : \A y \in S : ~ (<<y, x>> \in OpToRel(<, Nat))
    BY <1>1, WFMin, Zenon
  <1>3. \A y \in S : ~ (y < x)
    BY <1>2 DEF OpToRel
  <1> QED BY <1>3

LEMMA MaxIn ==
    ASSUME NEW k \in Nat, NEW S, S \subseteq 1..k, S # {}
    PROVE  Max(S) \in S /\ \A y \in S : y <= Max(S)
  <1> DEFINE T == {n \in Nat : k - n \in S}
  <1>0. PICK s \in S : TRUE
    OBVIOUS
  <1>1. T \subseteq Nat /\ T # {}
    <2>1. s \in 1..k /\ k - s \in Nat /\ k - (k - s) = s
      OBVIOUS
    <2>2. k - s \in T
      BY <2>1
    <2> QED BY <2>2
  <1>2. PICK x \in T : \A y \in T : x <= y
    BY <1>1, LeastNat
  <1>3. PICK i \in S : x = k - i
    BY <1>2
  <1>4. \A j \in S : i >= j
    <2> SUFFICES ASSUME NEW j \in S PROVE i >= j
      OBVIOUS
    <2>1. j \in 1..k /\ k - j \in Nat /\ k - (k - j) = j /\ i \in 1..k
      OBVIOUS
    <2>2. k - j \in T
      BY <2>1
    <2>3. x <= k - j
      BY <1>2, <2>2
    <2> QED BY <1>3, <2>1, <2>3
  <1> QED BY <1>4 DEF Max

LEMMA MinOfTwo ==
    ASSUME NEW a \in Int, NEW b \in Int
    PROVE  Min({a, b}) = IF a <= b THEN a ELSE b
  <1>1. ASSUME NEW x \in {a, b}, \A y \in {a, b} : x <= y PROVE x = IF a <= b THEN a ELSE b
    BY <1>1
  <1>2. \E x \in {a, b} : \A y \in {a, b} : x <= y
    OBVIOUS
  <1> QED BY <1>1, <1>2 DEF Min

(* The n lowest of a finite set of numbers are n.                          *)
LEMMA LowestFacts ==
    ASSUME NEW S, S \subseteq Nat, IsFiniteSet(S), NEW n \in Nat, n <= Cardinality(S)
    PROVE  Lowest(n, S) \subseteq S /\ IsFiniteSet(Lowest(n, S)) /\ Cardinality(Lowest(n, S)) = n
  <1>1. PICK N \in Nat : N = Cardinality(S)
    BY FS_CardinalityType
  <1> DEFINE B(d) == {e \in S : e < d}
             f == [d \in S |-> Cardinality(B(d))]
  <1>2. ASSUME NEW d \in S PROVE IsFiniteSet(B(d)) /\ Cardinality(B(d)) \in Nat /\ Cardinality(B(d)) < N
    <2>1. B(d) \in SUBSET S /\ B(d) # S
      OBVIOUS
    <2>2. IsFiniteSet(B(d)) /\ Cardinality(B(d)) <= Cardinality(S) /\ Cardinality(B(d)) # Cardinality(S)
      BY <2>1, FS_Subset
    <2>3. Cardinality(B(d)) \in Nat
      BY <2>2, FS_CardinalityType
    <2> HIDE DEF B
    <2> QED BY <1>1, <2>2, <2>3
  <1>3. ASSUME NEW d \in S, NEW e \in S, d < e PROVE Cardinality(B(d)) < Cardinality(B(e))
    <2>0. ASSUME NEW x \in S, x < d PROVE x < e
      <3>1. x \in Nat /\ d \in Nat /\ e \in Nat
        OBVIOUS
      <3> QED BY <1>3, <2>0, <3>1
    <2>9. d \in Nat /\ ~ (d < d)
      OBVIOUS
    <2>10. d \in B(e) /\ d \notin B(d)
      BY <1>3, <2>9
    <2>11. B(d) \subseteq B(e)
      BY <2>0
    <2>1. B(d) \in SUBSET B(e) /\ d \in B(e) /\ d \notin B(d)
      BY <2>10, <2>11
    <2>2. IsFiniteSet(B(e)) /\ Cardinality(B(d)) \in Nat /\ Cardinality(B(e)) \in Nat
      BY <1>2
    <2>3. Cardinality(B(d)) <= Cardinality(B(e)) /\ Cardinality(B(d)) # Cardinality(B(e))
      BY <2>1, <2>2, FS_Subset
    <2> HIDE DEF B
    <2> QED BY <2>2, <2>3
  <1>4. f \in [S -> 0..(N - 1)]
    <2> SUFFICES ASSUME NEW d \in S PROVE Cardinality(B(d)) \in 0..(N - 1)
      OBVIOUS
    <2>1. PICK c \in Nat : c = Cardinality(B(d)) /\ c < N
      BY <1>2
    <2> HIDE DEF B
    <2> QED BY <2>1
  <1>5. ASSUME NEW d \in S, NEW e \in S, f[d] = f[e] PROVE d = e
    <2>1. f[d] = Cardinality(B(d)) /\ f[e] = Cardinality(B(e))
      OBVIOUS
    <2>2. Cardinality(B(d)) \in Nat /\ Cardinality(B(e)) \in Nat
      BY <1>2
    <2>3. ~ (d < e) /\ ~ (e < d)
      <3>1. Cardinality(B(d)) = Cardinality(B(e))
        BY <1>5, <2>1
      <3> HIDE DEF B, f
      <3>2. CASE d < e
        BY <1>3, <2>2, <3>1, <3>2
      <3>3. CASE e < d
        BY <1>3, <2>2, <3>1, <3>3
      <3> QED BY <3>2, <3>3
    <2>4. d \in Nat /\ e \in Nat
      OBVIOUS
    <2> QED BY <2>3, <2>4
  <1>6. \A d \in S : f[d] = Cardinality({e \in S : e < d})
    OBVIOUS
  <1>7. Lowest(n, S) = {d \in S : f[d] < n}
    BY <1>6 DEF Lowest
  <1> HIDE DEF f, B
  <1>8. f \in Injection(S, 0..(N - 1))
    BY <1>4, <1>5 DEF Injection, IsInjective
  <1>9. IsFiniteSet(0..(N - 1)) /\ Cardinality(0..(N - 1)) = N
    BY FS_Interval
  <1>10. f \in Surjection(S, 0..(N - 1))
    BY <1>1, <1>8, <1>9, FS_Injection
  <1> DEFINE L == {d \in S : f[d] < n}
             g == [d \in L |-> f[d]]
  <1>11. L \in SUBSET S /\ IsFiniteSet(L)
    BY FS_Subset
  <1>12. g \in [L -> 0..(n - 1)]
    <2> SUFFICES ASSUME NEW d \in L PROVE f[d] \in 0..(n - 1)
      OBVIOUS
    <2>1. PICK i \in 0..(N - 1) : i = f[d]
      BY <1>4
    <2>2. i < n
      BY <2>1
    <2> QED BY <2>1, <2>2
  <1>13. \A d, e \in L : g[d] = g[e] => d = e
    BY <1>5
  <1>14. \A i \in 0..(n - 1) : \E d \in L : g[d] = i
    <2> SUFFICES ASSUME NEW i \in 0..(n - 1) PROVE \E d \in L : g[d] = i
      OBVIOUS
    <2>1. i \in 0..(N - 1)
      BY <1>1
    <2>2. PICK d \in S : f[d] = i
      BY <1>10, <2>1 DEF Surjection
    <2> QED BY <2>2
  <1> HIDE DEF g
  <1>15. g \in Bijection(L, 0..(n - 1))
    BY <1>12, <1>13, <1>14 DEF Bijection, Injection, Surjection, IsInjective
  <1>16. ExistsBijection(L, 0..(n - 1))
    BY <1>15 DEF ExistsBijection
  <1>17. Cardinality(0..(n - 1)) = Cardinality(L)
    BY <1>11, <1>16, FS_Bijection
  <1>18. Cardinality(0..(n - 1)) = n
    BY FS_Interval
  <1> HIDE DEF L
  <1> QED BY <1>7, <1>11, <1>17, <1>18 DEF L

-----------------------------------------------------------------------------
(* Datagrams change owners *)

(* The thread of p takes l from the pool.                                  *)
LEMMA PoolToList ==
    ASSUME NEW F, NEW R \in [Port -> SUBSET Dgrm], NEW L \in [Thread -> SUBSET Dgrm], NEW S, NEW H, NEW n \in Nat,
           Split(F, R, L, S, H, n), NEW th \in Thread, NEW l, l \subseteq F, L[th] = {}, l \subseteq Dgrm
    PROVE  Split(F \ l, R, [L EXCEPT ![th] = l], S, H, n)
  <1> DEFINE F2 == F \ l
             L2 == [L EXCEPT ![th] = l]
  <1>1. (\A q \in Thread : L2[q] = IF q = th THEN l ELSE L[q])
    OBVIOUS
  <1> HIDE DEF L2
  <1>2. Apart(F2, R, L2, S, H)
    BY <1>1 DEF Split, Apart
  <1>3. ASSUME NEW d \in Dgrm PROVE (d <= n) = Owns(d, F2, R, L2, S, H)
    BY <1>1 DEF Split, Apart, Owns, Dgrm
  <1>4. Split(F2, R, L2, S, H, n)
    BY <1>2, <1>3 DEF Split
  <1> QED BY <1>4 DEF L2

(* It puts its list back.                                                  *)
LEMMA ListToPool ==
    ASSUME NEW F, NEW R \in [Port -> SUBSET Dgrm], NEW L \in [Thread -> SUBSET Dgrm], NEW S, NEW H, NEW n \in Nat,
           Split(F, R, L, S, H, n), NEW th \in Thread
    PROVE  Split(F \cup L[th], R, [L EXCEPT ![th] = {}], S, H, n)
  <1> DEFINE F2 == F \cup L[th]
             L2 == [L EXCEPT ![th] = {}]
  <1>1. (\A q \in Thread : L2[q] = IF q = th THEN {} ELSE L[q])
    OBVIOUS
  <1> HIDE DEF L2
  <1>2. Apart(F2, R, L2, S, H)
    <2>1. L[th] \subseteq Dgrm /\ \A q \in Thread : L2[q] \subseteq L[q]
      BY <1>1
    <2>2. F2 \cap H = {}
      BY DEF Split, Apart
    <2>3. /\ \A q \in Thread : L2[q] \cap F = {} /\ L2[q] \cap H = {} /\ L2[q] \cap L[th] = {}
          /\ \A p \in Port, q \in Thread : R[p] \cap L2[q] = {}
          /\ \A v, q \in Thread : v # q => L2[v] \cap L2[q] = {}
      BY <1>1 DEF Split, Apart
    <2>4. ASSUME NEW x \in S PROVE x.d \notin L[th] /\ \A q \in Thread : x.d \notin L2[q]
      <3>1. \A q \in Thread : x.d \notin L[q]
        BY DEF Split, Apart
      <3> QED BY <1>1, <3>1
    <2>5. \A p \in Port : R[p] \cap L[th] = {} /\ R[p] \cap F = {} /\ R[p] \cap H = {}
      BY DEF Split, Apart
    <2> QED BY <2>2, <2>3, <2>4, <2>5 DEF Split, Apart
  <1>3. ASSUME NEW d \in Dgrm PROVE (d <= n) = Owns(d, F2, R, L2, S, H)
    BY <1>1 DEF Split, Apart, Owns, Dgrm
  <1>4. Split(F2, R, L2, S, H, n)
    BY <1>2, <1>3 DEF Split
  <1> QED BY <1>4 DEF L2

(* The adapter takes e of the list.                                        *)
LEMMA ListToRecv ==
    ASSUME NEW F, NEW R \in [Port -> SUBSET Dgrm], NEW L \in [Thread -> SUBSET Dgrm], NEW S, NEW H, NEW n \in Nat,
           Split(F, R, L, S, H, n), NEW p \in Port, NEW th \in Thread, NEW e \in L[th]
    PROVE  Split(F, [R EXCEPT ![p] = R[p] \cup {e}], [L EXCEPT ![th] = L[th] \ {e}], S, H, n)
  <1> DEFINE R2 == [R EXCEPT ![p] = R[p] \cup {e}]
             L2 == [L EXCEPT ![th] = L[th] \ {e}]
  <1>1. (\A q \in Port : R2[q] = IF q = p THEN R[p] \cup {e} ELSE R[q]) /\ (\A q \in Thread : L2[q] = IF q = th THEN L[th] \ {e} ELSE L[q])
    OBVIOUS
  <1> HIDE DEF R2, L2
  <1>2. Apart(F, R2, L2, S, H)
    BY <1>1 DEF Split, Apart
  <1>3. ASSUME NEW d \in Dgrm PROVE (d <= n) = Owns(d, F, R2, L2, S, H)
    BY <1>1 DEF Split, Apart, Owns, Dgrm
  <1>4. Split(F, R2, L2, S, H, n)
    BY <1>2, <1>3 DEF Split
  <1> QED BY <1>4 DEF R2, L2

(* The adapter has filled d.                                               *)
LEMMA RecvToList ==
    ASSUME NEW F, NEW R \in [Port -> SUBSET Dgrm], NEW L \in [Thread -> SUBSET Dgrm], NEW S, NEW H, NEW n \in Nat,
           Split(F, R, L, S, H, n), NEW p \in Port, NEW th \in Thread, NEW e \in R[p], L[th] = {}
    PROVE  Split(F, [R EXCEPT ![p] = R[p] \ {e}], [L EXCEPT ![th] = {e}], S, H, n)
  <1> DEFINE R2 == [R EXCEPT ![p] = R[p] \ {e}]
             L2 == [L EXCEPT ![th] = {e}]
  <1>1. (\A q \in Port : R2[q] = IF q = p THEN R[p] \ {e} ELSE R[q]) /\ (\A q \in Thread : L2[q] = IF q = th THEN {e} ELSE L[q])
    OBVIOUS
  <1> HIDE DEF R2, L2
  <1>2. Apart(F, R2, L2, S, H)
    BY <1>1 DEF Split, Apart
  <1>3. ASSUME NEW d \in Dgrm PROVE (d <= n) = Owns(d, F, R2, L2, S, H)
    BY <1>1 DEF Split, Apart, Owns, Dgrm
  <1>4. Split(F, R2, L2, S, H, n)
    BY <1>2, <1>3 DEF Split
  <1> QED BY <1>4 DEF R2, L2

(* A context keeps it.                                                     *)
LEMMA RecvToHeld ==
    ASSUME NEW F, NEW R \in [Port -> SUBSET Dgrm], NEW L \in [Thread -> SUBSET Dgrm], NEW S, NEW H, NEW n \in Nat,
           Split(F, R, L, S, H, n), NEW p \in Port, NEW e \in R[p]
    PROVE  Split(F, [R EXCEPT ![p] = R[p] \ {e}], L, S, H \cup {e}, n)
  <1> DEFINE R2 == [R EXCEPT ![p] = R[p] \ {e}]
             H2 == H \cup {e}
  <1>1. (\A q \in Port : R2[q] = IF q = p THEN R[p] \ {e} ELSE R[q])
    OBVIOUS
  <1> HIDE DEF R2
  <1>2. Apart(F, R2, L, S, H2)
    BY <1>1 DEF Split, Apart
  <1>3. ASSUME NEW d \in Dgrm PROVE (d <= n) = Owns(d, F, R2, L, S, H2)
    BY <1>1 DEF Split, Apart, Owns, Dgrm
  <1>4. Split(F, R2, L, S, H2, n)
    BY <1>2, <1>3 DEF Split
  <1> QED BY <1>4 DEF R2

(* It was flushed.                                                         *)
LEMMA RecvToPool ==
    ASSUME NEW F, NEW R \in [Port -> SUBSET Dgrm], NEW L \in [Thread -> SUBSET Dgrm], NEW S, NEW H, NEW n \in Nat,
           Split(F, R, L, S, H, n), NEW p \in Port, NEW e \in R[p]
    PROVE  Split(F \cup {e}, [R EXCEPT ![p] = R[p] \ {e}], L, S, H, n)
  <1> DEFINE F2 == F \cup {e}
             R2 == [R EXCEPT ![p] = R[p] \ {e}]
  <1>1. (\A q \in Port : R2[q] = IF q = p THEN R[p] \ {e} ELSE R[q])
    OBVIOUS
  <1> HIDE DEF R2
  <1>2. Apart(F2, R2, L, S, H)
    BY <1>1 DEF Split, Apart
  <1>3. ASSUME NEW d \in Dgrm PROVE (d <= n) = Owns(d, F2, R2, L, S, H)
    BY <1>1 DEF Split, Apart, Owns, Dgrm
  <1>4. Split(F2, R2, L, S, H, n)
    BY <1>2, <1>3 DEF Split
  <1> QED BY <1>4 DEF R2

(* A client keeps the list.                                                *)
LEMMA ListToHeld ==
    ASSUME NEW F, NEW R \in [Port -> SUBSET Dgrm], NEW L \in [Thread -> SUBSET Dgrm], NEW S, NEW H, NEW n \in Nat,
           Split(F, R, L, S, H, n), NEW th \in Thread
    PROVE  Split(F, R, [L EXCEPT ![th] = {}], S, H \cup L[th], n)
  <1> DEFINE L2 == [L EXCEPT ![th] = {}]
             H2 == H \cup L[th]
  <1>1. (\A q \in Thread : L2[q] = IF q = th THEN {} ELSE L[q])
    OBVIOUS
  <1> HIDE DEF L2
  <1>2. Apart(F, R, L2, S, H2)
    <2>1. L[th] \subseteq Dgrm /\ \A q \in Thread : L2[q] \subseteq L[q]
      BY <1>1
    <2>2. F \cap H2 = {}
      BY DEF Split, Apart
    <2>3. /\ \A q \in Thread : L2[q] \cap F = {} /\ L2[q] \cap H = {} /\ L2[q] \cap L[th] = {}
          /\ \A p \in Port, q \in Thread : R[p] \cap L2[q] = {}
          /\ \A v, q \in Thread : v # q => L2[v] \cap L2[q] = {}
      BY <1>1 DEF Split, Apart
    <2>4. ASSUME NEW x \in S PROVE x.d \notin L[th] /\ \A q \in Thread : x.d \notin L2[q]
      <3>1. \A q \in Thread : x.d \notin L[q]
        BY DEF Split, Apart
      <3> QED BY <1>1, <3>1
    <2>5. \A p \in Port : R[p] \cap L[th] = {} /\ R[p] \cap F = {} /\ R[p] \cap H = {}
      BY DEF Split, Apart
    <2> QED BY <2>2, <2>3, <2>4, <2>5 DEF Split, Apart
  <1>3. ASSUME NEW d \in Dgrm PROVE (d <= n) = Owns(d, F, R, L2, S, H2)
    BY <1>1 DEF Split, Apart, Owns, Dgrm
  <1>4. Split(F, R, L2, S, H2, n)
    BY <1>2, <1>3 DEF Split
  <1> QED BY <1>4 DEF L2

(* An answer takes l from the pool.                                        *)
LEMMA PoolToSend ==
    ASSUME NEW F, NEW R \in [Port -> SUBSET Dgrm], NEW L \in [Thread -> SUBSET Dgrm], NEW S, NEW H, NEW n \in Nat,
           Split(F, R, L, S, H, n), NEW l, l \subseteq F, NEW N,
           \A x \in N : x.d \in l, \A d \in l : \E x \in N : x.d = d, \A x, y \in N : x.d = y.d => x = y
    PROVE  Split(F \ l, R, L, S \cup N, H, n)
  <1> DEFINE F2 == F \ l
             S2 == S \cup N
  <1>2. Apart(F2, R, L, S2, H)
    BY DEF Split, Apart
  <1>3. ASSUME NEW d \in Dgrm PROVE (d <= n) = Owns(d, F2, R, L, S2, H)
    <2>1. (\E x \in S2 : x.d = d) <=> (\E x \in S : x.d = d) \/ d \in l
      OBVIOUS
    <2>2. (d <= n) = Owns(d, F, R, L, S, H)
      BY DEF Split
    <2> HIDE DEF S2
    <2> QED BY <2>1, <2>2 DEF Owns
  <1>4. Split(F2, R, L, S2, H, n)
    BY <1>2, <1>3 DEF Split
  <1> QED BY <1>4

(* The answer has been sent.                                               *)
LEMMA SendToPool ==
    ASSUME NEW F, NEW R \in [Port -> SUBSET Dgrm], NEW L \in [Thread -> SUBSET Dgrm], NEW S, NEW H, NEW n \in Nat,
           Split(F, R, L, S, H, n), NEW p \in Port, NEW x \in S, x.d \in Dgrm
    PROVE  Split(F \cup {x.d}, R, L, S \ {x}, H, n)
  <1> DEFINE F2 == F \cup {x.d}
             S2 == S \ {x}
  <1>2. Apart(F2, R, L, S2, H)
    BY DEF Split, Apart
  <1>3. ASSUME NEW d \in Dgrm PROVE (d <= n) = Owns(d, F2, R, L, S2, H)
    BY DEF Split, Apart, Owns, Dgrm
  <1>4. Split(F2, R, L, S2, H, n)
    BY <1>2, <1>3 DEF Split
  <1> QED BY <1>4

(* A client returns e.                                                     *)
LEMMA HeldToPool ==
    ASSUME NEW F, NEW R \in [Port -> SUBSET Dgrm], NEW L \in [Thread -> SUBSET Dgrm], NEW S, NEW H, NEW n \in Nat,
           Split(F, R, L, S, H, n), NEW e \in H
    PROVE  Split(F \cup {e}, R, L, S, H \ {e}, n)
  <1> DEFINE F2 == F \cup {e}
             H2 == H \ {e}
  <1>2. Apart(F2, R, L, S, H2)
    BY DEF Split, Apart
  <1>3. ASSUME NEW d \in Dgrm PROVE (d <= n) = Owns(d, F2, R, L, S, H2)
    BY DEF Split, Apart, Owns, Dgrm
  <1>4. Split(F2, R, L, S, H2, n)
    BY <1>2, <1>3 DEF Split
  <1> QED BY <1>4

(* The pool has k more.                                                    *)
LEMMA PoolGrows ==
    ASSUME NEW F, NEW R \in [Port -> SUBSET Dgrm], NEW L \in [Thread -> SUBSET Dgrm], NEW S, NEW H, NEW n \in Nat,
           Split(F, R, L, S, H, n), NEW k \in Nat, n + k \in 0..DgrmLimit,
           F \subseteq Dgrm, H \subseteq Dgrm, \A x \in S : x.d \in Dgrm
    PROVE  Split(F \cup (n + 1)..(n + k), R, L, S, H, n + k)
  <1> DEFINE F2 == F \cup (n + 1)..(n + k)
             n2 == n + k
  <1>1. ASSUME NEW d \in (n + 1)..(n + k) PROVE ~ Owns(d, F, R, L, S, H)
    <2>1. d \in Dgrm /\ ~ (d <= n)
      BY GsaAssumption DEF Dgrm
    <2> QED BY <2>1 DEF Split
  <1>2. Apart(F2, R, L, S, H)
    <2> DEFINE G == (n + 1)..(n + k)
    <2>1. \A d \in G : ~ Owns(d, F, R, L, S, H)
      BY <1>1
    <2> HIDE DEF G
    <2>2. Apart(F \cup G, R, L, S, H)
      BY <2>1 DEF Split, Apart, Owns
    <2> QED BY <2>2 DEF G
  <1>3. ASSUME NEW d \in Dgrm PROVE (d <= n2) = Owns(d, F2, R, L, S, H)
    BY DEF Split, Apart, Owns, Dgrm
  <1>4. Split(F2, R, L, S, H, n2)
    BY <1>2, <1>3 DEF Split
  <1> QED BY <1>4

-----------------------------------------------------------------------------
(* The pool *)

LEMMA DgrmFinite == ASSUME NEW l, l \subseteq Dgrm PROVE IsFiniteSet(l) /\ Cardinality(l) \in Nat /\ l \subseteq Nat
  <1>1. IsFiniteSet(Dgrm) /\ Dgrm \subseteq Nat
    BY GsaAssumption, FS_Interval DEF Dgrm
  <1> QED BY <1>1, FS_Subset, FS_CardinalityType

LEMMA PoolFacts ==
    ASSUME QueueInv
    PROVE  /\ gpool \in GsaPool /\ gpool.free \subseteq Dgrm /\ gpool.elements \in Nat /\ gpool.total \in 0..DgrmLimit
           /\ gpool.grow \in Nat /\ gpool.elements = Cardinality(gpool.free) /\ gpool.total \in Nat
  BY GsaAssumption DEF QueueInv, PoolTypes, GsaPool

(* Without l, with l put back, and grown by k.                             *)
LEMMA PoolWithout ==
    ASSUME QueueInv, NEW l, l \subseteq gpool.free
    PROVE  /\ Without(l) \in GsaPool /\ Without(l).free = gpool.free \ l /\ Without(l).total = gpool.total
           /\ Without(l).elements = Cardinality(gpool.free \ l)
  <1>1. PICK P \in GsaPool : P = gpool
    BY PoolFacts
  <1>2. P.free \subseteq Dgrm /\ P.elements = Cardinality(P.free) /\ l \subseteq P.free
    BY <1>1, PoolFacts
  <1>3. Cardinality(P.free \ l) = Cardinality(P.free) - Cardinality(P.free \cap l)
    BY <1>2, DgrmFinite, FS_Difference
  <1>4. P.free \cap l = l /\ P.free \ l \subseteq Dgrm
    BY <1>2
  <1>5. PICK G \in SUBSET Dgrm : G = P.free \ l
    BY <1>4
  <1>6. PICK c \in Nat : c = Cardinality(G)
    BY <1>5, DgrmFinite
  <1>7. P.elements - Cardinality(l) = c
    BY <1>2, <1>3, <1>4, <1>5, <1>6
  <1> DEFINE Q == [P EXCEPT !.free = G, !.elements = c]
  <1>8. Without(l) = Q
    BY <1>1, <1>5, <1>7 DEF Without
  <1>9. Q \in GsaPool
    BY DEF GsaPool
  <1>10. Q.free = G /\ Q.total = P.total /\ Q.elements = c
    BY DEF GsaPool
  <1> QED BY <1>1, <1>5, <1>6, <1>8, <1>9, <1>10

LEMMA PoolPut ==
    ASSUME QueueInv, NEW l, l \subseteq Dgrm, l \cap gpool.free = {}
    PROVE  LET Q == DgrmPoolPut(l) IN
           /\ Q \in GsaPool /\ Q.free = gpool.free \cup l /\ Q.total = gpool.total
           /\ Q.elements = Cardinality(gpool.free \cup l)
  <1>1. PICK P \in GsaPool : P = gpool
    BY PoolFacts
  <1>2. P.free \subseteq Dgrm /\ P.elements = Cardinality(P.free) /\ P.free \cap l = {}
    BY <1>1, PoolFacts
  <1>3. Cardinality(P.free \cup l) = Cardinality(P.free) + Cardinality(l) - Cardinality(P.free \cap l)
    BY <1>2, DgrmFinite, FS_Union
  <1>4. Cardinality(P.free \cap l) = 0 /\ P.free \cup l \subseteq Dgrm
    BY <1>2, FS_EmptySet
  <1>5. PICK G \in SUBSET Dgrm : G = P.free \cup l
    BY <1>4
  <1>6. PICK c \in Nat : c = Cardinality(G)
    BY <1>5, DgrmFinite
  <1>7. P.elements + Cardinality(l) = c
    <2>1. PICK a \in Nat : a = Cardinality(P.free)
      BY <1>2, DgrmFinite
    <2>2. PICK b \in Nat : b = Cardinality(l)
      BY DgrmFinite
    <2>3. c = a + b - 0
      BY <1>3, <1>4, <1>5, <1>6, <2>1, <2>2
    <2> QED BY <1>2, <2>1, <2>2, <2>3
  <1> DEFINE Q == [P EXCEPT !.free = G, !.elements = c]
  <1>8. DgrmPoolPut(l) = Q
    BY <1>1, <1>5, <1>7 DEF DgrmPoolPut
  <1>9. Q \in GsaPool
    BY DEF GsaPool
  <1>10. Q.free = G /\ Q.total = P.total /\ Q.elements = c
    BY DEF GsaPool
  <1> QED BY <1>1, <1>5, <1>6, <1>8, <1>9, <1>10

LEMMA PoolGrown ==
    ASSUME QueueInv, NEW k \in Nat, gpool.total + k <= DgrmLimit
    PROVE  LET Q == DgrmPoolGrow(k) IN
           /\ Q \in GsaPool /\ Q.free = gpool.free \cup (gpool.total + 1)..(gpool.total + k)
           /\ Q.total = gpool.total + k /\ Q.total \in 0..DgrmLimit
           /\ Q.elements = Cardinality(gpool.free \cup (gpool.total + 1)..(gpool.total + k))
  <1>1. PICK P \in GsaPool : P = gpool
    BY PoolFacts
  <1>2. P.free \subseteq Dgrm /\ P.elements = Cardinality(P.free) /\ P.total \in Nat /\ P.total + k <= DgrmLimit
    BY <1>1, PoolFacts
  <1>3. PICK n \in Nat : n = P.total
    BY <1>2
  <1>4. n + k \in 0..DgrmLimit
    BY <1>2, <1>3, GsaAssumption
  <1>5. PICK I : I = (n + 1)..(n + k)
    OBVIOUS
  <1>6. I \subseteq Dgrm /\ \A d \in I : ~ (d <= n)
    BY <1>2, <1>3, <1>5, GsaAssumption DEF Dgrm
  <1>7. Cardinality(I) = k
    BY <1>5, FS_Interval
  <1>8. P.free \cap I = {}
    <2> SUFFICES ASSUME NEW d \in P.free PROVE d \notin I
      OBVIOUS
    <2>1. d \in Dgrm /\ Owns(d, gpool.free, recvQ, Lists, sendQ, held)
      BY <1>1, <1>2 DEF Owns
    <2>2. d <= n
      BY <1>1, <1>3, <2>1 DEF QueueInv, Split
    <2> QED BY <1>6, <2>2
  <1>9. PICK G \in SUBSET Dgrm : G = P.free \cup I
    BY <1>2, <1>6
  <1>10. PICK c \in Nat : c = Cardinality(G)
    BY <1>9, DgrmFinite
  <1>11. P.elements + k = c
    <2>1. PICK a \in Nat : a = Cardinality(P.free)
      BY <1>2, DgrmFinite
    <2>2. Cardinality(P.free \cup I) = Cardinality(P.free) + Cardinality(I) - Cardinality(P.free \cap I)
      BY <1>2, <1>6, DgrmFinite, FS_Union
    <2>3. c = a + k - 0
      BY <1>7, <1>8, <1>9, <1>10, <2>1, <2>2, FS_EmptySet
    <2> QED BY <1>2, <2>1, <2>3
  <1> DEFINE m == n + k
             Q == [P EXCEPT !.free = G, !.elements = c, !.total = m]
  <1>12. DgrmPoolGrow(k) = Q
    <2>1. Q = [P EXCEPT !.free = P.free \cup (P.total + 1)..(P.total + k), !.elements = P.elements + k, !.total = P.total + k]
      BY <1>3, <1>5, <1>9, <1>11
    <2> QED BY <1>1, <2>1 DEF DgrmPoolGrow
  <1> HIDE DEF m
  <1>13. Q \in GsaPool
    BY <1>4 DEF GsaPool, m
  <1>14. Q.free = G /\ Q.total = m /\ Q.elements = c
    BY DEF GsaPool
  <1> HIDE DEF Q
  <1> QED BY <1>1, <1>3, <1>4, <1>5, <1>9, <1>10, <1>12, <1>13, <1>14 DEF m

(* What the pool hands out.                                                *)
LEMMA PoolGets ==
    ASSUME QueueInv, NEW n \in Nat
    PROVE  LET l == DgrmPoolGet(n) IN
           /\ l \subseteq gpool.free /\ l \subseteq Dgrm /\ Cardinality(l) \in Nat /\ Cardinality(l) <= n
           /\ gpool.elements >= n => Cardinality(l) = n
  <1>1. gpool.free \subseteq Dgrm /\ gpool.elements \in Nat /\ gpool.elements = Cardinality(gpool.free)
    BY PoolFacts
  <1>2. PICK m \in Nat : m = Min({n, gpool.elements}) /\ m <= n /\ m <= gpool.elements /\ (gpool.elements >= n => m = n)
    BY <1>1, MinOfTwo
  <1>3. Lowest(m, gpool.free) \subseteq gpool.free /\ Cardinality(Lowest(m, gpool.free)) = m
    BY <1>1, <1>2, DgrmFinite, LowestFacts
  <1> QED BY <1>1, <1>2, <1>3 DEF DgrmPoolGet, DgrmPoolCount

-----------------------------------------------------------------------------
(* The flags of the datagrams *)

LEMMA FlagsPut ==
    ASSUME NEW F, NEW R, NEW S, NEW n \in Nat, Flagged(dgrm, F, R, S, n), dgrm \in [Dgrm -> Flags], NEW l
    PROVE  Allocated(l, FALSE) \in [Dgrm -> Flags] /\ Flagged(Allocated(l, FALSE), F \cup l, R, S, n)
  <1> DEFINE g == Allocated(l, FALSE)
  <1>1. ASSUME NEW d \in Dgrm
        PROVE  /\ g[d] \in Flags /\ g[d].onRecv = dgrm[d].onRecv /\ g[d].onSend = dgrm[d].onSend
               /\ d \in l => g[d].alloc = FALSE
               /\ d \notin l => g[d].alloc = dgrm[d].alloc
    <2>1. PICK r \in Flags : r = dgrm[d]
      OBVIOUS
    <2>2. /\ [r EXCEPT !.alloc = FALSE] \in Flags /\ [r EXCEPT !.alloc = FALSE].alloc = FALSE
          /\ [r EXCEPT !.alloc = FALSE].onRecv = r.onRecv /\ [r EXCEPT !.alloc = FALSE].onSend = r.onSend
      BY DEF Flags
    <2>3. g[d] = IF d \in l THEN [r EXCEPT !.alloc = FALSE] ELSE r
      BY <2>1 DEF Allocated
    <2> QED BY <2>1, <2>2, <2>3
  <1>2. g \in [Dgrm -> Flags]
    <2>1. g = [d \in Dgrm |-> g[d]]
      BY DEF Allocated
    <2> HIDE DEF g
    <2> QED BY <1>1, <2>1
  <1> HIDE DEF g
  <1>3. Flagged(g, F \cup l, R, S, n)
    BY <1>1 DEF Flagged
  <1> QED BY <1>2, <1>3 DEF g

LEMMA FlagsGet ==
    ASSUME NEW F, NEW R, NEW S, NEW n \in Nat, Flagged(dgrm, F, R, S, n), dgrm \in [Dgrm -> Flags], NEW l, l \subseteq F,
           \A d \in F : d <= n
    PROVE  Allocated(l, TRUE) \in [Dgrm -> Flags] /\ Flagged(Allocated(l, TRUE), F \ l, R, S, n)
  <1> DEFINE g == Allocated(l, TRUE)
  <1>1. ASSUME NEW d \in Dgrm
        PROVE  /\ g[d] \in Flags /\ g[d].onRecv = dgrm[d].onRecv /\ g[d].onSend = dgrm[d].onSend
               /\ d \in l => g[d].alloc = TRUE
               /\ d \notin l => g[d].alloc = dgrm[d].alloc
    <2>1. PICK r \in Flags : r = dgrm[d]
      OBVIOUS
    <2>2. /\ [r EXCEPT !.alloc = TRUE] \in Flags /\ [r EXCEPT !.alloc = TRUE].alloc = TRUE
          /\ [r EXCEPT !.alloc = TRUE].onRecv = r.onRecv /\ [r EXCEPT !.alloc = TRUE].onSend = r.onSend
      BY DEF Flags
    <2>3. g[d] = IF d \in l THEN [r EXCEPT !.alloc = TRUE] ELSE r
      BY <2>1 DEF Allocated
    <2> QED BY <2>1, <2>2, <2>3
  <1>2. g \in [Dgrm -> Flags]
    <2>1. g = [d \in Dgrm |-> g[d]]
      BY DEF Allocated
    <2> HIDE DEF g
    <2> QED BY <1>1, <2>1
  <1> HIDE DEF g
  <1>3. ASSUME NEW d \in Dgrm
        PROVE  /\ g[d].alloc = (d <= n /\ d \notin F \ l)
               /\ g[d].onRecv = (\E p \in Port : d \in R[p]) /\ g[d].onSend = (\E x \in S : x.d = d)
    <2>1. /\ dgrm[d].alloc = (d <= n /\ d \notin F)
          /\ dgrm[d].onRecv = (\E p \in Port : d \in R[p]) /\ dgrm[d].onSend = (\E x \in S : x.d = d)
      BY DEF Flagged
    <2>2. g[d].alloc = (d <= n /\ d \notin F \ l)
      <3>1. CASE d \in l
        <4>1. d <= n /\ d \notin F \ l
          BY <3>1
        <4> QED BY <1>1, <3>1, <4>1
      <3>2. CASE d \notin l
        <4>1. (d \notin F \ l) <=> (d \notin F)
          BY <3>2
        <4> QED BY <1>1, <2>1, <3>2, <4>1
      <3> QED BY <3>1, <3>2
    <2> QED BY <1>1, <2>1, <2>2
  <1>4. Flagged(g, F \ l, R, S, n)
    BY <1>3 DEF Flagged
  <1> QED BY <1>2, <1>4 DEF g

-----------------------------------------------------------------------------
(* The steps of the receive queue *)

LEMMA RestingFields ==
    /\ Resting \in GsaThread /\ Resting.pc = "idle" /\ Resting.list = {} /\ Resting.n = 0 /\ Resting.seen = 0
    /\ Resting.at = NoClass /\ Resting.status = "FNOT_FOUND" /\ Resting.told = {}
  BY DEF Resting, GsaThread, GsaPc

LEMMA SameAt == ASSUME NEW X, NEW Y, NEW f \in [Y -> X], NEW p PROVE [f EXCEPT ![p] = f[p]] = f
  OBVIOUS

LEMMA QueueFacts ==
    ASSUME QueueInv
    PROVE  /\ PoolTypes /\ Lists \in [Thread -> SUBSET Dgrm] /\ recvQ \in [Port -> SUBSET Dgrm]
           /\ \A w \in Thread : Lists[w] = gsa[w].list /\ gsa[w] \in GsaThread
           /\ Split(gpool.free, recvQ, Lists, sendQ, held, gpool.total)
           /\ Flagged(dgrm, gpool.free, recvQ, sendQ, gpool.total)
           /\ \A p \in Port : qp1[p] = "absent" => recvQ[p] = {} /\ posted[p] = 0
           /\ \A w \in Thread : PortOK(w, gsa[w], qp1[Of[w]], posted[Of[w]], recvQ[Of[w]], short[Of[w]])
           /\ \A d \in gpool.free : d <= gpool.total
  <1>1. PoolTypes /\ gpool.free \subseteq Dgrm
    BY PoolFacts DEF QueueInv
  <1>2. \A w \in Thread : gsa[w] \in GsaThread /\ gsa[w].list \subseteq Dgrm
    BY <1>1 DEF PoolTypes, GsaThread
  <1>3. \A d \in gpool.free : d <= gpool.total
    BY <1>1 DEF QueueInv, Split, Owns
  <1> QED BY <1>1, <1>2, <1>3 DEF QueueInv, PoolTypes, Lists

(* A step of thread th leaves the others as they are: of its port's        *)
(* threads only one counts while the QP works.                             *)
LEMMA OthersKept ==
    ASSUME QueueInv, NEW th \in Thread, NEW p \in Port, p = Of[th], Working(th), NEW v \in Thread, v # th,
           NEW c, NEW r, NEW s, qp1' = qp1, gsa'[v] = gsa[v], posted' = [posted EXCEPT ![p] = c],
           recvQ' = [recvQ EXCEPT ![p] = r], Shorts(p)
    PROVE  PortOK(v, gsa'[v], qp1'[Of[v]], posted'[Of[v]], recvQ'[Of[v]], short'[Of[v]])
  <1>1. PoolTypes /\ PortOK(v, gsa[v], qp1[Of[v]], posted[Of[v]], recvQ[Of[v]], short[Of[v]])
    BY QueueFacts
  <1>2. Of[v] \in Port
    BY GsaAssumption
  <1>3. CASE Of[v] # p
    <2>1. posted'[Of[v]] = posted[Of[v]] /\ recvQ'[Of[v]] = recvQ[Of[v]] /\ short'[Of[v]] = short[Of[v]]
      BY <1>1, <1>2, <1>3 DEF PoolTypes, Shorts
    <2> QED BY <1>1, <2>1
  <1>4. CASE Of[v] = p
    <2>1. v \in Remover \/ qp1[Of[v]] # "NORMAL"
      BY <1>4, GsaAssumption DEF Working
    <2> QED BY <1>1, <2>1 DEF PortOK
  <1> QED BY <1>3, <1>4

(* A step of thread th, of port p.                                         *)
LEMMA QueueStep ==
    ASSUME QueueInv, NEW th \in Thread, NEW p \in Port, p = Of[th], Working(th), NEW t \in GsaThread,
           NEW c \in Int, NEW r \in SUBSET Dgrm,
           gpool' \in GsaPool, dgrm' \in [Dgrm -> Flags], sendQ' \in SUBSET [port : Port, d : Dgrm],
           held' \in SUBSET Dgrm, gsa' = [gsa EXCEPT ![th] = t], posted' = [posted EXCEPT ![p] = c],
           recvQ' = [recvQ EXCEPT ![p] = r], qp1' = qp1, Shorts(p),
           gpool'.elements = Cardinality(gpool'.free),
           Split(gpool'.free, [recvQ EXCEPT ![p] = r], [Lists EXCEPT ![th] = t.list], sendQ', held', gpool'.total),
           Flagged(dgrm', gpool'.free, [recvQ EXCEPT ![p] = r], sendQ', gpool'.total),
           PortOK(th, t, qp1[p], c, r, short'[p])
    PROVE  QueueInv'
  <1>1. PoolTypes
    BY DEF QueueInv
  <1>2. PoolTypes'
    BY <1>1 DEF PoolTypes, Shorts
  <1>3. Lists' = [Lists EXCEPT ![th] = t.list]
    BY <1>1 DEF Lists, PoolTypes
  <1>4. /\ gsa'[th] = t /\ posted'[p] = c /\ recvQ'[p] = r
        /\ \A x \in Thread \ {th} : gsa'[x] = gsa[x]
        /\ \A x \in Port \ {p} : posted'[x] = posted[x] /\ recvQ'[x] = recvQ[x]
    BY <1>1 DEF PoolTypes
  <1>5. ASSUME NEW x \in Thread PROVE PortOK(x, gsa'[x], qp1'[Of[x]], posted'[Of[x]], recvQ'[Of[x]], short'[Of[x]])
    <2>1. CASE x = th
      BY <1>4, <2>1
    <2>2. CASE x # th
      BY <1>4, <2>2, OthersKept
    <2> QED BY <2>1, <2>2
  <1>6. gpool'.elements = Cardinality(gpool'.free)
    OBVIOUS
  <1>7. Split(gpool'.free, recvQ', Lists', sendQ', held', gpool'.total)
    BY <1>3
  <1>8. Flagged(dgrm', gpool'.free, recvQ', sendQ', gpool'.total)
    OBVIOUS
  <1>9. \A x \in Port : qp1'[x] = "absent" => recvQ'[x] = {} /\ posted'[x] = 0
    BY <1>4, QueueFacts DEF Working
  <1> QED BY <1>2, <1>5, <1>6, <1>7, <1>8, <1>9 DEF QueueInv

LEMMA GrowPoolInv ==
    ASSUME QueueInv, GrowPoolSysCallback PROVE QueueInv'
  <1>0. /\ PoolTypes /\ Lists \in [Thread -> SUBSET Dgrm] /\ recvQ \in [Port -> SUBSET Dgrm]
        /\ Split(gpool.free, recvQ, Lists, sendQ, held, gpool.total)
        /\ Flagged(dgrm, gpool.free, recvQ, sendQ, gpool.total)
    BY QueueFacts
  <1>1. gpool.total \in Nat /\ gpool.free \subseteq Dgrm /\ gpool.grow \in Nat /\ gpool.elements = Cardinality(gpool.free)
        /\ gpool \in GsaPool
    BY PoolFacts
  <1>2. UNCHANGED <<dgrm, qp1, posted, recvQ, short, sendQ, held, gsa>>
    BY DEF GrowPoolSysCallback, portVars
  <1>3. Lists' = Lists
    BY <1>2 DEF Lists
  <1>4. ASSUME NEW P \in GsaPool, gpool' = P, P.elements = Cardinality(P.free),
               Split(P.free, recvQ, Lists, sendQ, held, P.total), Flagged(dgrm, P.free, recvQ, sendQ, P.total)
        PROVE  QueueInv'
    <2>1. PoolTypes'
      BY <1>0, <1>2, <1>4 DEF PoolTypes
    <2>2. /\ \A w \in Thread : PortOK(w, gsa'[w], qp1'[Of[w]], posted'[Of[w]], recvQ'[Of[w]], short'[Of[w]])
          /\ \A p \in Port : qp1'[p] = "absent" => recvQ'[p] = {} /\ posted'[p] = 0
      BY <1>2 DEF QueueInv
    <2>3. Split(gpool'.free, recvQ', Lists', sendQ', held', gpool'.total)
      BY <1>2, <1>3, <1>4
    <2>4. Flagged(dgrm', gpool'.free, recvQ', sendQ', gpool'.total) /\ gpool'.elements = Cardinality(gpool'.free)
      BY <1>2, <1>4
    <2> QED BY <2>1, <2>2, <2>3, <2>4 DEF QueueInv
  <1>5. ASSUME NEW Q \in GsaPool PROVE LET P == [Q EXCEPT !.grow = 0] IN
          P \in GsaPool /\ P.free = Q.free /\ P.elements = Q.elements /\ P.total = Q.total
    BY DEF GsaPool
  <1>6. CASE gpool' = [gpool EXCEPT !.grow = 0]
    BY <1>0, <1>1, <1>4, <1>5, <1>6
  <1>7. CASE gpool.total + gpool.grow <= DgrmLimit /\ gpool' = [DgrmPoolGrow(gpool.grow) EXCEPT !.grow = 0]
    <2>1. PICK k \in Nat : k = gpool.grow
      BY <1>1
    <2>2. PICK n \in Nat : n = gpool.total
      BY <1>1
    <2> DEFINE Q == DgrmPoolGrow(k)
    <2>3. /\ Q \in GsaPool /\ Q.free = gpool.free \cup (n + 1)..(n + k) /\ Q.total = n + k /\ n + k \in 0..DgrmLimit
          /\ Q.elements = Cardinality(gpool.free \cup (n + 1)..(n + k))
      BY <1>7, <2>1, <2>2, PoolGrown
    <2>4. \A x \in sendQ : x.d \in Dgrm
      BY <1>0 DEF PoolTypes
    <2>5. Split(gpool.free \cup (n + 1)..(n + k), recvQ, Lists, sendQ, held, n + k)
      BY <1>0, <1>1, <2>2, <2>3, <2>4, PoolGrows DEF PoolTypes
    <2>6. Flagged(dgrm, gpool.free \cup (n + 1)..(n + k), recvQ, sendQ, n + k)
      <3>1. ASSUME NEW d \in Dgrm
            PROVE  (d <= n /\ d \notin gpool.free) = (d <= n + k /\ d \notin gpool.free \cup (n + 1)..(n + k))
        <4>1. d \in Nat
          BY GsaAssumption DEF Dgrm
        <4>2. d \in (n + 1)..(n + k) <=> ~ (d <= n) /\ d <= n + k
          BY <4>1
        <4>3. d <= n => d <= n + k
          BY <4>1
        <4> QED BY <4>2, <4>3
      <3> QED BY <1>0, <2>2, <3>1 DEF Flagged
    <2> HIDE DEF Q
    <2>7. gpool' = [Q EXCEPT !.grow = 0]
      BY <1>7, <2>1 DEF Q
    <2>8. /\ gpool' \in GsaPool /\ gpool'.free = Q.free /\ gpool'.elements = Q.elements
          /\ gpool'.total = Q.total
      BY <1>5, <2>3, <2>7
    <2>9. /\ Split(gpool'.free, recvQ, Lists, sendQ, held, gpool'.total)
          /\ Flagged(dgrm, gpool'.free, recvQ, sendQ, gpool'.total)
      BY <2>3, <2>5, <2>6, <2>8
    <2>10. gpool'.elements = Cardinality(gpool'.free)
      BY <2>3, <2>8
    <2> QED BY <1>4, <2>8, <2>9, <2>10
  <1> QED BY <1>6, <1>7 DEF GrowPoolSysCallback

LEMMA ClientPutsInv ==
    ASSUME QueueInv, ClientPuts PROVE QueueInv'
  <1>0. /\ PoolTypes /\ Lists \in [Thread -> SUBSET Dgrm] /\ recvQ \in [Port -> SUBSET Dgrm]
        /\ Split(gpool.free, recvQ, Lists, sendQ, held, gpool.total)
        /\ Flagged(dgrm, gpool.free, recvQ, sendQ, gpool.total)
    BY QueueFacts
  <1>1. gpool.total \in Nat
    BY PoolFacts
  <1>2. PICK e \in held : held' = held \ {e} /\ gpool' = DgrmPoolPut({e}) /\ dgrm' = Allocated({e}, FALSE)
                          /\ UNCHANGED <<qp1, posted, recvQ, short, sendQ, gsa>>
    BY DEF ClientPuts, portVars
  <1>3. e \in Dgrm /\ {e} \cap gpool.free = {}
    BY <1>0 DEF PoolTypes, Split, Apart
  <1>4. /\ gpool' \in GsaPool /\ gpool'.free = gpool.free \cup {e} /\ gpool'.total = gpool.total
        /\ gpool'.elements = Cardinality(gpool.free \cup {e})
    BY <1>2, <1>3, PoolPut
  <1>5. Split(gpool.free \cup {e}, recvQ, Lists, sendQ, held \ {e}, gpool.total)
    BY <1>0, <1>1, HeldToPool
  <1>6. dgrm' \in [Dgrm -> Flags] /\ Flagged(dgrm', gpool.free \cup {e}, recvQ, sendQ, gpool.total)
    BY <1>0, <1>1, <1>2, FlagsPut DEF PoolTypes
  <1>7. PoolTypes'
    BY <1>0, <1>2, <1>4, <1>6 DEF PoolTypes
  <1>8. Lists' = Lists
    BY <1>2 DEF Lists
  <1>9. /\ \A w \in Thread : PortOK(w, gsa'[w], qp1'[Of[w]], posted'[Of[w]], recvQ'[Of[w]], short'[Of[w]])
        /\ \A p \in Port : qp1'[p] = "absent" => recvQ'[p] = {} /\ posted'[p] = 0
    BY <1>2 DEF QueueInv
  <1> QED BY <1>2, <1>4, <1>5, <1>6, <1>7, <1>8, <1>9 DEF QueueInv

LEMMA PortFacts ==
    ASSUME QueueInv, NEW th \in Thread, NEW p \in Port, p = Of[th]
    PROVE  /\ gsa[th] \in GsaThread /\ qp1[p] \in {"absent", "NORMAL", "DESTROY"} /\ posted[p] \in Int
           /\ recvQ[p] \in SUBSET Dgrm /\ short[p] \in Int /\ Lists[th] = gsa[th].list
           /\ PortOK(th, gsa[th], qp1[p], posted[p], recvQ[p], short[p])
           /\ [gsa EXCEPT ![th] = gsa[th]] = gsa
           /\ [posted EXCEPT ![p] = posted[p]] = posted /\ [recvQ EXCEPT ![p] = recvQ[p]] = recvQ
           /\ [Lists EXCEPT ![th] = Lists[th]] = Lists
  <1>1. PoolTypes /\ Lists \in [Thread -> SUBSET Dgrm] /\ Lists[th] = gsa[th].list
        /\ PortOK(th, gsa[th], qp1[p], posted[p], recvQ[p], short[p])
    BY QueueFacts
  <1> QED BY <1>1, SameAt DEF PoolTypes

LEMMA ShortsSame == ASSUME QueueInv, NEW p, short' = short PROVE Shorts(p)
  BY DEF QueueInv, PoolTypes, Shorts

LEMMA ShortsAt == ASSUME QueueInv, NEW p \in Port, NEW s \in Int, short' = [short EXCEPT ![p] = s]
                  PROVE  Shorts(p) /\ short'[p] = s
  BY DEF QueueInv, PoolTypes, Shorts

(* Only the thread itself goes on.                                         *)
LEMMA ThreadOnly ==
    ASSUME QueueInv, NEW th \in Thread, NEW p \in Port, p = Of[th], Working(th), NEW t \in GsaThread,
           t.list = gsa[th].list, gsa' = [gsa EXCEPT ![th] = t],
           UNCHANGED <<gpool, dgrm, qp1, posted, recvQ, sendQ, held>>, Shorts(p),
           PortOK(th, t, qp1[p], posted[p], recvQ[p], short'[p])
    PROVE  QueueInv'
  <1>1. /\ PoolTypes /\ Split(gpool.free, recvQ, Lists, sendQ, held, gpool.total)
        /\ Flagged(dgrm, gpool.free, recvQ, sendQ, gpool.total) /\ gpool.elements = Cardinality(gpool.free)
    BY QueueFacts, PoolFacts
  <1>2. /\ [posted EXCEPT ![p] = posted[p]] = posted /\ [recvQ EXCEPT ![p] = recvQ[p]] = recvQ
        /\ [Lists EXCEPT ![th] = t.list] = Lists
    BY PortFacts
  <1>3. PICK c \in Int : c = posted[p]
    BY PortFacts
  <1>4. PICK r \in SUBSET Dgrm : r = recvQ[p]
    BY PortFacts
  <1>5. /\ gpool' \in GsaPool /\ dgrm' \in [Dgrm -> Flags] /\ sendQ' \in SUBSET [port : Port, d : Dgrm]
        /\ held' \in SUBSET Dgrm /\ posted' = [posted EXCEPT ![p] = c] /\ recvQ' = [recvQ EXCEPT ![p] = r] /\ qp1' = qp1
        /\ gpool'.elements = Cardinality(gpool'.free)
    BY <1>1, <1>2, <1>3, <1>4 DEF PoolTypes
  <1>6. /\ Split(gpool'.free, [recvQ EXCEPT ![p] = r], [Lists EXCEPT ![th] = t.list], sendQ', held', gpool'.total)
        /\ Flagged(dgrm', gpool'.free, [recvQ EXCEPT ![p] = r], sendQ', gpool'.total)
    BY <1>1, <1>2, <1>4
  <1>7. PortOK(th, t, qp1[p], c, r, short'[p])
    BY <1>3, <1>4
  <1> QED BY <1>5, <1>6, <1>7, QueueStep

(* The fields of a thread that has another list, or is somewhere else.     *)
LEMMA ThreadAt ==
    ASSUME NEW t \in GsaThread, NEW l \in SUBSET Dgrm, NEW a \in GsaPc
    PROVE  LET u == [t EXCEPT !.list = l, !.pc = a] IN
           u \in GsaThread /\ u.list = l /\ u.pc = a /\ u.n = t.n /\ u.status = t.status /\ u.at = t.at
  BY DEF GsaThread

LEMMA ThreadPc ==
    ASSUME NEW t \in GsaThread, NEW a \in GsaPc
    PROVE  LET u == [t EXCEPT !.pc = a] IN
           u \in GsaThread /\ u.list = t.list /\ u.pc = a /\ u.n = t.n /\ u.status = t.status /\ u.at = t.at
  BY DEF GsaThread

LEMMA RestingAt ==
    ASSUME NEW a \in GsaPc, NEW k \in Nat
    PROVE  LET u == [Resting EXCEPT !.n = k, !.pc = a] IN
           /\ u \in GsaThread /\ u.list = {} /\ u.pc = a /\ u.n = k /\ u.status = "FNOT_FOUND" /\ u.at = NoClass
           /\ u = [Resting EXCEPT !.pc = a, !.n = k]
  <1>1. ASSUME NEW r \in GsaThread
        PROVE  LET u == [r EXCEPT !.n = k, !.pc = a] IN
               /\ u \in GsaThread /\ u.list = r.list /\ u.pc = a /\ u.n = k /\ u.status = r.status /\ u.at = r.at
               /\ u = [r EXCEPT !.pc = a, !.n = k]
    BY DEF GsaThread
  <1> QED BY <1>1, RestingFields

LEMMA AddDeviceInv ==
    ASSUME QueueInv, NEW th \in Thread, NEW p \in Port, p = Of[th], GsaAddDevice(th) PROVE QueueInv'
  <1>0. PICK a \in GsaPc : a = IF DgrmPoolCount <= PreAlloc THEN "addToRecvQ" ELSE "get"
    BY DEF GsaPc
  <1> DEFINE t == [Resting EXCEPT !.n = MinBuffers, !.pc = a]
  <1>1. /\ qp1[p] = "absent" /\ th \notin Remover /\ gsa[th].pc = "idle" /\ qp1' = [qp1 EXCEPT ![p] = "NORMAL"]
        /\ gsa' = [gsa EXCEPT ![th] = t] /\ UNCHANGED <<gpool, dgrm, posted, recvQ, short, sendQ, held>>
    BY <1>0 DEF GsaAddDevice
  <1>2. /\ t \in GsaThread /\ t.list = {} /\ t.pc = a /\ t.n = MinBuffers /\ t.status = "FNOT_FOUND"
    BY RestingAt, GsaAssumption
  <1> HIDE DEF t
  <1>3. /\ PoolTypes /\ recvQ[p] = {} /\ posted[p] = 0
        /\ \A w \in Thread : PortOK(w, gsa[w], qp1[Of[w]], posted[Of[w]], recvQ[Of[w]], short[Of[w]])
    BY <1>1, QueueFacts
  <1>4. gsa[th].list = {}
    BY <1>1, <1>3 DEF PortOK
  <1>5. /\ gsa' \in [Thread -> GsaThread] /\ gsa'[th] = t /\ qp1'[p] = "NORMAL"
        /\ qp1' \in [Port -> {"absent", "NORMAL", "DESTROY"}]
        /\ \A x \in Thread \ {th} : gsa'[x] = gsa[x]
        /\ \A x \in Port \ {p} : qp1'[x] = qp1[x]
    BY <1>1, <1>2, <1>3 DEF PoolTypes
  <1>6. \A w \in Thread : gsa'[w].list = gsa[w].list
    BY <1>2, <1>4, <1>5
  <1>7. PortOK(th, t, "NORMAL", posted[p], recvQ[p], short[p])
    <2>1. Cardinality({}) = 0 /\ MinBuffers \in Nat
      BY FS_EmptySet, GsaAssumption
    <2>2. Filled(t, posted[p], recvQ[p], short[p])
      BY <1>0, <1>2, <1>3, <2>1 DEF Filled
    <2> QED BY <1>0, <1>1, <1>2, <2>2 DEF PortOK
  <1>8. ASSUME NEW w \in Thread PROVE PortOK(w, gsa'[w], qp1'[Of[w]], posted'[Of[w]], recvQ'[Of[w]], short'[Of[w]])
    <2>1. CASE w = th
      BY <1>1, <1>5, <1>7, <2>1
    <2>2. CASE w # th /\ Of[w] = p
      <3>1. gsa[w].pc = "idle" /\ w \in Remover
        BY <1>1, <1>3, <2>2, GsaAssumption DEF PortOK
      <3> QED BY <1>3, <1>5, <2>2, <3>1 DEF PortOK
    <2>3. CASE w # th /\ Of[w] # p
      <3>1. Of[w] \in Port /\ qp1'[Of[w]] = qp1[Of[w]] /\ gsa'[w] = gsa[w]
        BY <1>5, <2>3, GsaAssumption
      <3> QED BY <1>1, <1>3, <3>1
    <2> QED BY <2>1, <2>2, <2>3
  <1>9. \A x \in Port : qp1'[x] = "absent" => recvQ'[x] = {} /\ posted'[x] = 0
    BY <1>1, <1>5, QueueFacts
  <1>10. PoolTypes'
    BY <1>1, <1>3, <1>5 DEF PoolTypes
  <1> QED BY <1>1, <1>6, <1>8, <1>9, <1>10 DEF QueueInv, Lists

LEMMA QpInv ==
    ASSUME QueueInv, NEW p \in Port, QpDestroy(p) \/ QpGone(p) PROVE QueueInv'
  <1>1. /\ PoolTypes
        /\ \A w \in Thread : PortOK(w, gsa[w], qp1[Of[w]], posted[Of[w]], recvQ[Of[w]], short[Of[w]])
        /\ \A x \in Port : qp1[x] = "absent" => recvQ[x] = {} /\ posted[x] = 0
    BY QueueFacts
  <1>2. PICK q \in {"absent", "DESTROY"} :
          /\ qp1' = [qp1 EXCEPT ![p] = q]
          /\ q = "absent" => recvQ[p] = {} /\ posted'[p] = 0 /\ \A w \in Thread : Of[w] = p => gsa[w].pc = "idle"
          /\ posted' \in [Port -> Int] /\ short' \in [Port -> Int]
          /\ \A x \in Port \ {p} : posted'[x] = posted[x] /\ short'[x] = short[x]
          /\ UNCHANGED <<gpool, dgrm, recvQ, sendQ, held, gsa>>
    <2>1. CASE QpDestroy(p)
      BY <1>1, <2>1 DEF QpDestroy, PoolTypes
    <2>2. CASE QpGone(p)
      BY <1>1, <2>2 DEF QpGone, PoolTypes
    <2> QED BY <2>1, <2>2
  <1>3. qp1' \in [Port -> {"absent", "NORMAL", "DESTROY"}] /\ qp1'[p] = q /\ \A x \in Port \ {p} : qp1'[x] = qp1[x]
    BY <1>1, <1>2 DEF PoolTypes
  <1>4. ASSUME NEW w \in Thread PROVE PortOK(w, gsa'[w], qp1'[Of[w]], posted'[Of[w]], recvQ'[Of[w]], short'[Of[w]])
    <2>1. CASE Of[w] = p
      BY <1>1, <1>2, <1>3, <2>1 DEF PortOK
    <2>2. CASE Of[w] # p
      <3>1. Of[w] \in Port
        BY GsaAssumption
      <3> QED BY <1>1, <1>2, <1>3, <2>2, <3>1
    <2> QED BY <2>1, <2>2
  <1>5. \A x \in Port : qp1'[x] = "absent" => recvQ'[x] = {} /\ posted'[x] = 0
    BY <1>1, <1>2, <1>3
  <1>6. PoolTypes'
    BY <1>1, <1>2, <1>3 DEF PoolTypes
  <1> QED BY <1>2, <1>4, <1>5, <1>6 DEF QueueInv, Lists

LEMMA GrowAsNeededInv ==
    ASSUME QueueInv, NEW th \in Thread, NEW p \in Port, p = Of[th], Working(th), GrowRecvQAsNeeded(th) PROVE QueueInv'
  <1>1. /\ gsa[th].pc = "grow" /\ UNCHANGED <<gpool, dgrm, qp1, posted, recvQ, short, sendQ, held>>
    BY DEF GrowRecvQAsNeeded, portVars
  <1>2. /\ gsa[th] \in GsaThread
        /\ PortOK(th, gsa[th], qp1[p], posted[p], recvQ[p], short[p]) /\ posted[p] \in Int
    BY PortFacts
  <1>3. PICK t \in GsaThread : t = IF DgrmPoolCount < LowWater /\ DgrmPoolTotal < MaxRecvBuffers
                                   THEN [Resting EXCEPT !.pc = "schedule"] ELSE Resting
    BY RestingFields, ThreadPc DEF GsaPc
  <1>4. t.pc \in {"idle", "schedule"} /\ t.list = {} /\ t.status = "FNOT_FOUND"
    BY <1>3, RestingFields, ThreadPc DEF GsaPc
  <1>7. t.pc = "idle" \/ t.pc = "schedule"
    BY <1>4
  <1>5. gsa' = [gsa EXCEPT ![th] = t]
    BY <1>3 DEF GrowRecvQAsNeeded
  <1>6. PortOK(th, t, qp1[p], posted[p], recvQ[p], short'[p]) /\ t.list = gsa[th].list /\ Shorts(p)
    BY <1>1, <1>2, <1>4, <1>7, ShortsSame DEF PortOK, Filled, Working
  <1> QED BY <1>1, <1>2, <1>5, <1>6, ThreadOnly

(* The pool changes, or takes part of what the thread has; the port keeps  *)
(* its buffers.                                                            *)
LEMMA PoolStep ==
    ASSUME QueueInv, NEW th \in Thread, NEW p \in Port, p = Of[th], Working(th), NEW t \in GsaThread,
           gsa' = [gsa EXCEPT ![th] = t],
           gpool' \in GsaPool, gpool'.elements = Cardinality(gpool'.free), dgrm' \in [Dgrm -> Flags],
           UNCHANGED <<qp1, posted, recvQ, sendQ>>, held' \in SUBSET Dgrm, Shorts(p),
           Split(gpool'.free, recvQ, [Lists EXCEPT ![th] = t.list], sendQ, held', gpool'.total),
           Flagged(dgrm', gpool'.free, recvQ, sendQ, gpool'.total),
           PortOK(th, t, qp1[p], posted[p], recvQ[p], short'[p])
    PROVE  QueueInv'
  <1>1. sendQ \subseteq [port : Port, d : Dgrm]
    BY QueueFacts DEF PoolTypes
  <1>2. [posted EXCEPT ![p] = posted[p]] = posted /\ [recvQ EXCEPT ![p] = recvQ[p]] = recvQ
    BY PortFacts
  <1>3. PICK c \in Int : c = posted[p]
    BY PortFacts
  <1>4. PICK r \in SUBSET Dgrm : r = recvQ[p]
    BY PortFacts
  <1>5. posted' = [posted EXCEPT ![p] = c] /\ recvQ' = [recvQ EXCEPT ![p] = r] /\ qp1' = qp1
        /\ sendQ' \in SUBSET [port : Port, d : Dgrm]
    BY <1>1, <1>2, <1>3, <1>4
  <1>6. /\ Split(gpool'.free, [recvQ EXCEPT ![p] = r], [Lists EXCEPT ![th] = t.list], sendQ', held', gpool'.total)
        /\ Flagged(dgrm', gpool'.free, [recvQ EXCEPT ![p] = r], sendQ', gpool'.total)
    BY <1>2, <1>4
  <1>7. PortOK(th, t, qp1[p], c, r, short'[p])
    BY <1>3, <1>4
  <1> QED BY <1>5, <1>6, <1>7, QueueStep

LEMMA GrowScheduleInv ==
    ASSUME QueueInv, NEW th \in Thread, NEW p \in Port, p = Of[th], Working(th), DgrmPoolGrowAsNeeded(th) PROVE QueueInv'
  <1>1. /\ gsa[th].pc = "schedule" /\ gsa' = [gsa EXCEPT ![th] = Resting]
        /\ UNCHANGED <<dgrm, qp1, posted, recvQ, short, sendQ, held>>
    BY DEF DgrmPoolGrowAsNeeded, portVars
  <1>2. /\ gsa[th] \in GsaThread /\ PortOK(th, gsa[th], qp1[p], posted[p], recvQ[p], short[p]) /\ posted[p] \in Int
        /\ Lists[th] = gsa[th].list /\ [Lists EXCEPT ![th] = Lists[th]] = Lists
    BY PortFacts
  <1>3. /\ PoolTypes /\ Split(gpool.free, recvQ, Lists, sendQ, held, gpool.total)
        /\ Flagged(dgrm, gpool.free, recvQ, sendQ, gpool.total)
    BY QueueFacts
  <1>4. /\ gpool' \in GsaPool /\ gpool'.free = gpool.free /\ gpool'.elements = gpool.elements
        /\ gpool'.total = gpool.total
    <2>1. PICK P \in GsaPool : P = gpool
      BY PoolFacts
    <2>2. ASSUME NEW k \in Nat
          PROVE  LET Q == [P EXCEPT !.grow = k] IN
                 Q \in GsaPool /\ Q.free = P.free /\ Q.elements = P.elements /\ Q.total = P.total
      BY DEF GsaPool
    <2>3. P.total \in Nat
      BY <2>1, PoolFacts
    <2>4. P.total < MaxRecvBuffers => Min({MaxRecvBuffers - P.total, PreAlloc}) \in Nat
      <3>1. MaxRecvBuffers \in Nat /\ PreAlloc \in Nat
        BY GsaAssumption
      <3> QED BY <2>3, <3>1, MinOfTwo
    <2>5. gpool' = gpool \/ (P.total < MaxRecvBuffers /\ gpool' = [P EXCEPT !.grow = Min({MaxRecvBuffers - P.total, PreAlloc})])
      BY <2>1 DEF DgrmPoolGrowAsNeeded, DgrmPoolTotal
    <2> QED BY <2>1, <2>2, <2>4, <2>5
  <1>5. gpool.elements = Cardinality(gpool.free)
    BY PoolFacts
  <1>6. Resting \in GsaThread /\ Resting.pc = "idle" /\ Resting.list = {} /\ Resting.status = "FNOT_FOUND"
    BY RestingFields
  <1>7. PortOK(th, Resting, qp1[p], posted[p], recvQ[p], short'[p]) /\ gsa[th].list = {}
    BY <1>1, <1>2, <1>6 DEF PortOK, Filled, Working
  <1>8. /\ Split(gpool'.free, recvQ, [Lists EXCEPT ![th] = Resting.list], sendQ, held', gpool'.total)
        /\ Flagged(dgrm', gpool'.free, recvQ, sendQ, gpool'.total)
    BY <1>1, <1>2, <1>3, <1>4, <1>6, <1>7
  <1>9. dgrm' \in [Dgrm -> Flags] /\ held' \in SUBSET Dgrm /\ gpool'.elements = Cardinality(gpool'.free) /\ Shorts(p)
    BY <1>1, <1>3, <1>4, <1>5, ShortsSame DEF PoolTypes
  <1> QED BY <1>1, <1>4, <1>6, <1>7, <1>8, <1>9, PoolStep

LEMMA AddToRecvQInv ==
    ASSUME QueueInv, NEW th \in Thread, NEW p \in Port, p = Of[th], Working(th), DgrmPoolAddToGlobalRecvQ(th) PROVE QueueInv'
  <1>1. /\ gsa[th].pc = "addToRecvQ" /\ UNCHANGED <<dgrm, qp1, posted, recvQ, sendQ, held>>
    BY DEF DgrmPoolAddToGlobalRecvQ
  <1>2. /\ gsa[th] \in GsaThread /\ PortOK(th, gsa[th], qp1[p], posted[p], recvQ[p], short[p]) /\ posted[p] \in Int
        /\ Lists[th] = gsa[th].list /\ [Lists EXCEPT ![th] = Lists[th]] = Lists
    BY PortFacts
  <1>3. /\ PoolTypes /\ Lists \in [Thread -> SUBSET Dgrm] /\ recvQ \in [Port -> SUBSET Dgrm]
        /\ Split(gpool.free, recvQ, Lists, sendQ, held, gpool.total)
        /\ Flagged(dgrm, gpool.free, recvQ, sendQ, gpool.total)
    BY QueueFacts
  <1>4. CASE gsa' = [gsa EXCEPT ![th] = Resting] /\ short' = [short EXCEPT ![p] = MinBuffers] /\ UNCHANGED gpool
    <2>1. Resting \in GsaThread /\ Resting.pc = "idle" /\ Resting.list = {} /\ Resting.status = "FNOT_FOUND"
      BY RestingFields
    <2>2. MinBuffers \in Nat /\ Cardinality(recvQ[p]) \in Nat
      BY GsaAssumption, DgrmFinite, PortFacts
    <2>5. PICK s \in Int : s = MinBuffers
      BY <2>2
    <2>3. Shorts(p) /\ short'[p] = MinBuffers /\ UNCHANGED <<gpool, dgrm, qp1, posted, recvQ, sendQ, held>>
      BY <1>1, <1>4, <2>5, ShortsAt
    <2>4. PortOK(th, Resting, qp1[p], posted[p], recvQ[p], short'[p]) /\ Resting.list = gsa[th].list
      BY <1>1, <1>2, <2>1, <2>2, <2>3 DEF PortOK, Filled, Working
    <2> QED BY <1>4, <2>1, <2>3, <2>4, ThreadOnly
  <1>5. CASE /\ gpool.total + PreAlloc <= DgrmLimit /\ gpool' = DgrmPoolGrow(PreAlloc)
             /\ gsa' = [gsa EXCEPT ![th].pc = "get"] /\ UNCHANGED short
    <2>1. PICK u \in GsaThread : u = gsa[th]
      BY <1>2
    <2> DEFINE t == [u EXCEPT !.pc = "get"]
    <2>2. gsa' = [gsa EXCEPT ![th] = t]
      BY <1>5, <2>1
    <2>3. t \in GsaThread /\ t.list = u.list /\ t.pc = "get" /\ t.n = u.n /\ t.status = u.status
      BY ThreadPc DEF GsaPc
    <2> HIDE DEF t
    <2>4. PortOK(th, t, qp1[p], posted[p], recvQ[p], short'[p])
      BY <1>1, <1>2, <1>5, <2>1, <2>3 DEF PortOK, Filled, Working
    <2>5. PICK n \in Nat : n = gpool.total
      BY PoolFacts
    <2>6. PICK k \in Nat : k = PreAlloc
      BY GsaAssumption
    <2>7. /\ gpool' \in GsaPool /\ gpool'.free = gpool.free \cup (n + 1)..(n + k) /\ gpool'.total = n + k
          /\ n + k \in 0..DgrmLimit /\ gpool'.elements = Cardinality(gpool'.free)
      BY <1>5, <2>5, <2>6, PoolGrown
    <2>8. gpool.free \subseteq Dgrm /\ held \subseteq Dgrm /\ \A x \in sendQ : x.d \in Dgrm
      BY <1>3, PoolFacts DEF PoolTypes
    <2>9. Split(gpool.free \cup (n + 1)..(n + k), recvQ, Lists, sendQ, held, n + k)
      BY <1>3, <2>5, <2>7, <2>8, PoolGrows
    <2>10. Flagged(dgrm, gpool.free \cup (n + 1)..(n + k), recvQ, sendQ, n + k)
      <3>1. ASSUME NEW d \in Dgrm
            PROVE  (d <= n /\ d \notin gpool.free) = (d <= n + k /\ d \notin gpool.free \cup (n + 1)..(n + k))
        <4>1. d \in Nat
          BY GsaAssumption DEF Dgrm
        <4>2. d \in (n + 1)..(n + k) <=> ~ (d <= n) /\ d <= n + k
          BY <4>1
        <4>3. d <= n => d <= n + k
          BY <4>1
        <4> QED BY <4>2, <4>3
      <3> QED BY <1>3, <2>5, <3>1 DEF Flagged
    <2>11. /\ Split(gpool'.free, recvQ, [Lists EXCEPT ![th] = t.list], sendQ, held', gpool'.total)
           /\ Flagged(dgrm', gpool'.free, recvQ, sendQ, gpool'.total)
      BY <1>1, <1>2, <2>1, <2>3, <2>7, <2>9, <2>10
    <2>12. dgrm' \in [Dgrm -> Flags] /\ held' \in SUBSET Dgrm /\ Shorts(p)
      BY <1>1, <1>3, <1>5, ShortsSame DEF PoolTypes
    <2> QED BY <1>1, <2>2, <2>3, <2>4, <2>7, <2>11, <2>12, PoolStep
  <1> QED BY <1>4, <1>5 DEF DgrmPoolAddToGlobalRecvQ

LEMMA PostRecvInv ==
    ASSUME QueueInv, NEW th \in Thread, NEW p \in Port, p = Of[th], Working(th), PostRecvMsgToPort(th) PROVE QueueInv'
  <1>1. PICK u \in GsaThread : u = gsa[th]
    BY PortFacts
  <1>2. u.n \in Nat
    BY DEF GsaThread
  <1>3. PICK l \in SUBSET Dgrm : l = DgrmPoolGet(u.n)
    BY <1>2, PoolGets
  <1>4. PICK a \in GsaPc : a = IF l = {} THEN "grow" ELSE "lookup"
    BY DEF GsaPc
  <1>5. PICK k \in Nat : k = Cardinality(l)
    BY DgrmFinite
  <1>6. PICK s \in Int : s = u.n - k
    BY <1>2
  <1> DEFINE t == [u EXCEPT !.list = l, !.n = 0, !.pc = a]
  <1>7. /\ u.pc = "get" /\ gpool' = Without(l) /\ dgrm' = Allocated(l, TRUE) /\ gsa' = [gsa EXCEPT ![th] = t]
        /\ short' = [short EXCEPT ![p] = s] /\ UNCHANGED <<qp1, posted, recvQ, sendQ, held>>
    BY <1>1, <1>3, <1>4, <1>5, <1>6 DEF PostRecvMsgToPort
  <1>8. l \subseteq gpool.free /\ Shorts(p) /\ short'[p] = s
    BY <1>2, <1>3, <1>7, PoolGets, ShortsAt
  <1>9. t \in GsaThread /\ t.list = l /\ t.pc = a /\ t.status = u.status
    BY DEF GsaThread
  <1> HIDE DEF t
  <1>10. PortOK(th, u, qp1[p], posted[p], recvQ[p], short[p]) /\ posted[p] \in Int /\ Lists[th] = u.list
    BY <1>1, PortFacts
  <1>11. u.list = {} /\ u.status # "FPENDING"
    BY <1>7, <1>10 DEF PortOK
  <1>12. PICK c \in Int : c = posted[p]
    BY <1>10
  <1>13. PortOK(th, t, qp1[p], posted[p], recvQ[p], short'[p])
    <2>1. l = {} => k = 0
      BY <1>5, FS_EmptySet
    <2>2. ASSUME th \notin Remover, qp1[p] = "NORMAL" PROVE Filled(t, c, recvQ[p], s)
      <3>1. c = Cardinality(recvQ[p]) /\ c + u.n >= MinBuffers
        BY <1>7, <1>10, <1>12, <2>2 DEF PortOK, Filled
      <3>2. c + k + s >= MinBuffers
        BY <1>2, <1>6, <3>1, GsaAssumption
      <3>3. l = {} => c + s >= MinBuffers
        BY <2>1, <3>2, GsaAssumption
      <3> QED BY <1>4, <1>5, <1>9, <3>1, <3>2, <3>3 DEF Filled
    <2> QED BY <1>4, <1>8, <1>9, <1>11, <1>12, <2>2 DEF PortOK, Working
  <1>14. /\ PoolTypes /\ Lists \in [Thread -> SUBSET Dgrm] /\ recvQ \in [Port -> SUBSET Dgrm]
         /\ Split(gpool.free, recvQ, Lists, sendQ, held, gpool.total)
         /\ Flagged(dgrm, gpool.free, recvQ, sendQ, gpool.total) /\ \A d \in gpool.free : d <= gpool.total
    BY QueueFacts
  <1>15. gpool.total \in Nat
    BY PoolFacts
  <1>16. /\ gpool' \in GsaPool /\ gpool'.free = gpool.free \ l /\ gpool'.total = gpool.total
         /\ gpool'.elements = Cardinality(gpool'.free)
    BY <1>7, <1>8, PoolWithout
  <1>17. Split(gpool.free \ l, recvQ, [Lists EXCEPT ![th] = l], sendQ, held, gpool.total)
    BY <1>8, <1>10, <1>11, <1>14, <1>15, PoolToList
  <1>18. dgrm' \in [Dgrm -> Flags] /\ Flagged(dgrm', gpool.free \ l, recvQ, sendQ, gpool.total)
    BY <1>7, <1>8, <1>14, <1>15, FlagsGet DEF PoolTypes
  <1>19. /\ Split(gpool'.free, recvQ, [Lists EXCEPT ![th] = t.list], sendQ, held', gpool'.total)
         /\ Flagged(dgrm', gpool'.free, recvQ, sendQ, gpool'.total) /\ held' \in SUBSET Dgrm
    BY <1>7, <1>9, <1>14, <1>16, <1>17, <1>18 DEF PoolTypes
  <1> QED BY <1>7, <1>8, <1>9, <1>13, <1>16, <1>18, <1>19, PoolStep

(* What the thread of p has is put back; the list it keeps is empty.       *)
LEMMA PutListStep ==
    ASSUME QueueInv, NEW th \in Thread, NEW p \in Port, p = Of[th], Working(th), NEW t \in GsaThread,
           gsa' = [gsa EXCEPT ![th] = t], t.list = {},
           gpool' = DgrmPoolPut(gsa[th].list), dgrm' = Allocated(gsa[th].list, FALSE),
           UNCHANGED <<qp1, posted, recvQ, sendQ, held>>, Shorts(p),
           PortOK(th, t, qp1[p], posted[p], recvQ[p], short'[p])
    PROVE  QueueInv'
  <1>1. /\ PoolTypes /\ Lists \in [Thread -> SUBSET Dgrm] /\ recvQ \in [Port -> SUBSET Dgrm] /\ Lists[th] = gsa[th].list
        /\ Split(gpool.free, recvQ, Lists, sendQ, held, gpool.total)
        /\ Flagged(dgrm, gpool.free, recvQ, sendQ, gpool.total)
    BY QueueFacts
  <1>2. PICK l \in SUBSET Dgrm : l = gsa[th].list /\ l = Lists[th]
    BY <1>1
  <1>3. l \cap gpool.free = {}
    BY <1>1, <1>2 DEF Split, Apart
  <1>4. gpool.total \in Nat
    BY PoolFacts
  <1>5. /\ gpool' \in GsaPool /\ gpool'.free = gpool.free \cup l /\ gpool'.total = gpool.total
        /\ gpool'.elements = Cardinality(gpool'.free)
    BY <1>2, <1>3, PoolPut
  <1>6. Split(gpool.free \cup Lists[th], recvQ, [Lists EXCEPT ![th] = {}], sendQ, held, gpool.total)
    BY <1>1, <1>4, ListToPool
  <1>7. dgrm' \in [Dgrm -> Flags] /\ Flagged(dgrm', gpool.free \cup l, recvQ, sendQ, gpool.total)
    BY <1>1, <1>2, <1>4, FlagsPut DEF PoolTypes
  <1>8. /\ Split(gpool'.free, recvQ, [Lists EXCEPT ![th] = t.list], sendQ, held', gpool'.total)
        /\ Flagged(dgrm', gpool'.free, recvQ, sendQ, gpool'.total) /\ held' \in SUBSET Dgrm
    BY <1>1, <1>2, <1>5, <1>6, <1>7 DEF PoolTypes
  <1> QED BY <1>5, <1>7, <1>8, PoolStep

LEMMA LookupQpInv ==
    ASSUME QueueInv, NEW th \in Thread, NEW p \in Port, p = Of[th], Working(th), LookupQp(th) PROVE QueueInv'
  <1>1. PICK u \in GsaThread : u = gsa[th]
    BY PortFacts
  <1>2. u.pc = "lookup" /\ UNCHANGED <<qp1, posted, recvQ, short, sendQ, held>>
    BY <1>1 DEF LookupQp, portVars
  <1>3. /\ PortOK(th, u, qp1[p], posted[p], recvQ[p], short[p]) /\ posted[p] \in Int /\ Shorts(p)
    BY <1>1, <1>2, PortFacts, ShortsSame
  <1>4. CASE qp1[p] = "DESTROY"
    <2> DEFINE t == [u EXCEPT !.list = {}, !.pc = "grow"]
    <2>1. /\ gpool' = DgrmPoolPut(gsa[th].list) /\ dgrm' = Allocated(gsa[th].list, FALSE) /\ gsa' = [gsa EXCEPT ![th] = t]
      BY <1>1, <1>4 DEF LookupQp
    <2>2. t \in GsaThread /\ t.list = {} /\ t.pc = "grow" /\ t.status = u.status
      BY DEF GsaThread, GsaPc
    <2> HIDE DEF t
    <2>3. PortOK(th, t, qp1[p], posted[p], recvQ[p], short'[p])
      BY <1>3, <1>2, <1>4, <2>2 DEF PortOK
    <2> QED BY <1>3, <1>2, <2>1, <2>2, <2>3, PutListStep
  <1>5. CASE qp1[p] # "DESTROY"
    <2> DEFINE t == [u EXCEPT !.pc = "posting"]
    <2>1. gsa' = [gsa EXCEPT ![th] = t] /\ UNCHANGED <<gpool, dgrm>>
      BY <1>1, <1>5 DEF LookupQp
    <2>2. t \in GsaThread /\ t.list = u.list /\ t.pc = "posting" /\ t.status = u.status
      BY DEF GsaThread, GsaPc
    <2> HIDE DEF t
    <2>3. PortOK(th, t, qp1[p], posted[p], recvQ[p], short'[p])
      BY <1>3, <1>2, <2>2 DEF PortOK, Filled
    <2>4. UNCHANGED <<gpool, dgrm, qp1, posted, recvQ, sendQ, held>>
          /\ Shorts(p) /\ t.list = gsa[th].list
      BY <1>1, <1>3, <1>2, <2>1, <2>2
    <2> QED BY <1>3, <2>1, <2>2, <2>3, <2>4, ThreadOnly
  <1> QED BY <1>4, <1>5

LEMMA ConcludeInv ==
    ASSUME QueueInv, NEW th \in Thread, NEW p \in Port, p = Of[th], Working(th), ConcludeReceive(th) PROVE QueueInv'
  <1>1. PICK u \in GsaThread : u = gsa[th]
    BY PortFacts
  <1>2. /\ PortOK(th, u, qp1[p], posted[p], recvQ[p], short[p]) /\ posted[p] \in Int
    BY <1>1, PortFacts
  <1>3. PICK k \in Nat : k = u.n
    BY DEF GsaThread
  <1> DEFINE t == [Resting EXCEPT !.pc = "get", !.n = k]
  <1>4. u.pc = "conclude" /\ gsa' = [gsa EXCEPT ![th] = t] /\ UNCHANGED <<qp1, posted, recvQ, short, sendQ, held>>
    BY <1>1, <1>3 DEF ConcludeReceive, portVars
  <1>5. t \in GsaThread /\ t.list = {} /\ t.pc = "get" /\ t.n = k /\ t.status = "FNOT_FOUND"
    <2>1. PICK a \in GsaPc : a = "get"
      BY DEF GsaPc
    <2> DEFINE v == [Resting EXCEPT !.n = k, !.pc = a]
    <2>2. v \in GsaThread /\ v.list = {} /\ v.pc = a /\ v.n = k /\ v.status = "FNOT_FOUND"
      BY RestingAt
    <2>3. v = [Resting EXCEPT !.pc = a, !.n = k]
      BY RestingAt
    <2> HIDE DEF v
    <2> QED BY <2>1, <2>2, <2>3
  <1> HIDE DEF t
  <1>6. Shorts(p) /\ PortOK(th, t, qp1[p], posted[p], recvQ[p], short'[p])
    BY <1>2, <1>3, <1>4, <1>5, ShortsSame DEF PortOK, Filled, Working
  <1>7. CASE u.status = "FPENDING"
    <2>1. UNCHANGED <<gpool, dgrm>> /\ u.list = {}
      BY <1>1, <1>2, <1>7 DEF ConcludeReceive, PortOK
    <2>2. UNCHANGED <<gpool, dgrm, qp1, posted, recvQ, sendQ, held>>
          /\ Shorts(p) /\ t.list = gsa[th].list
      BY <1>1, <1>2, <1>4, <1>5, <2>1
    <2> QED BY <1>2, <1>4, <1>5, <1>6, <2>2, ThreadOnly
  <1>8. CASE u.status # "FPENDING"
    <2>1. gpool' = DgrmPoolPut(gsa[th].list) /\ dgrm' = Allocated(gsa[th].list, FALSE)
      BY <1>1, <1>8 DEF ConcludeReceive
    <2> QED BY <1>4, <1>5, <1>6, <2>1, PutListStep
  <1> QED BY <1>7, <1>8

(* The flags of e once the adapter has it.                                 *)
LEMMA PostFlags ==
    ASSUME QueueInv, NEW p \in Port, NEW e \in Dgrm
    PROVE  LET g == [dgrm EXCEPT ![e].onRecv = TRUE] IN
           g \in [Dgrm -> Flags] /\ Flagged(g, gpool.free, [recvQ EXCEPT ![p] = recvQ[p] \cup {e}], sendQ, gpool.total)
  <1>1. PoolTypes /\ recvQ \in [Port -> SUBSET Dgrm] /\ Flagged(dgrm, gpool.free, recvQ, sendQ, gpool.total)
    BY QueueFacts
  <1>2. PICK f \in Flags : f = dgrm[e]
    BY <1>1 DEF PoolTypes
  <1>3. PICK k \in Flags : k = [f EXCEPT !.onRecv = TRUE] /\ k.onRecv = TRUE /\ k.alloc = f.alloc /\ k.onSend = f.onSend
    <2>1. PICK k : k = [f EXCEPT !.onRecv = TRUE]
      OBVIOUS
    <2>2. k \in Flags /\ k.onRecv = TRUE /\ k.alloc = f.alloc /\ k.onSend = f.onSend
      BY <2>1 DEF Flags
    <2> QED BY <2>1, <2>2
  <1> DEFINE g == [dgrm EXCEPT ![e].onRecv = TRUE]
             R == [recvQ EXCEPT ![p] = recvQ[p] \cup {e}]
  <1>4. g = [dgrm EXCEPT ![e] = k]
    BY <1>1, <1>2, <1>3 DEF PoolTypes
  <1>5. g \in [Dgrm -> Flags] /\ g[e] = k /\ \A d \in Dgrm \ {e} : g[d] = dgrm[d]
    BY <1>1, <1>4 DEF PoolTypes
  <1>6. \A q \in Port : R[q] = IF q = p THEN recvQ[p] \cup {e} ELSE recvQ[q]
    BY <1>1
  <1> HIDE DEF g, R
  <1>7. \A d \in Dgrm : (\E q \in Port : d \in R[q]) <=> (\E q \in Port : d \in recvQ[q]) \/ d = e
    BY <1>6
  <1>8. \A d \in Dgrm : /\ dgrm[d].alloc = (d <= gpool.total /\ d \notin gpool.free) /\ dgrm[d].onSend = (\E x \in sendQ : x.d = d)
                        /\ dgrm[d].onRecv = (\E q \in Port : d \in recvQ[q])
    BY <1>1 DEF Flagged
  <1>9. ASSUME NEW d \in Dgrm
        PROVE  /\ g[d].alloc = (d <= gpool.total /\ d \notin gpool.free)
               /\ g[d].onRecv = (\E q \in Port : d \in R[q]) /\ g[d].onSend = (\E x \in sendQ : x.d = d)
    <2>1. CASE d = e
      <3>1. g[d].alloc = dgrm[d].alloc /\ g[d].onSend = dgrm[d].onSend /\ g[d].onRecv = TRUE
        BY <1>2, <1>3, <1>5, <2>1
      <3>2. \E q \in Port : d \in R[q]
        BY <1>7, <2>1
      <3> QED BY <1>8, <3>1, <3>2, Zenon
    <2>2. CASE d # e
      <3>1. g[d] = dgrm[d]
        BY <1>5, <2>2
      <3>2. (\E q \in Port : d \in R[q]) <=> (\E q \in Port : d \in recvQ[q])
        BY <1>7, <2>2
      <3> QED BY <1>8, <3>1, <3>2
    <2> QED BY <2>1, <2>2
  <1>10. Flagged(g, gpool.free, R, sendQ, gpool.total)
    BY <1>9 DEF Flagged
  <1> QED BY <1>5, <1>10 DEF g, R

(* One more, or one less, of a list or a queue.                            *)
LEMMA OneMore ==
    ASSUME NEW r \in SUBSET Dgrm, NEW e \in Dgrm, e \notin r
    PROVE  Cardinality(r \cup {e}) = Cardinality(r) + 1
  BY DgrmFinite, FS_AddElement

LEMMA OneLess ==
    ASSUME NEW r \in SUBSET Dgrm, NEW e \in r
    PROVE  Cardinality(r) \in Nat /\ Cardinality(r) # 0 /\ Cardinality(r \ {e}) = Cardinality(r) - 1 /\ r \ {e} \in SUBSET Dgrm
  <1>1. Cardinality(r \ {e}) = Cardinality(r) - 1 /\ r \ {e} \in SUBSET Dgrm
    BY DgrmFinite, FS_RemoveElement
  <1>2. Cardinality(r \ {e}) \in Nat /\ Cardinality(r) \in Nat
    BY DgrmFinite
  <1> QED BY <1>1, <1>2

(* The adapter takes one buffer, or refuses it and the rest go back.       *)
LEMMA PostInv ==
    ASSUME QueueInv, NEW th \in Thread, NEW p \in Port, p = Of[th], Working(th), iba_post_recv(th) PROVE QueueInv'
  <1>1. PICK u \in GsaThread : u = gsa[th]
    BY PortFacts
  <1>2. PICK c \in Int : c = posted[p]
    BY PortFacts
  <1>3. PICK r \in SUBSET Dgrm : r = recvQ[p]
    BY PortFacts
  <1>4. PICK s \in Int : s = short[p]
    BY PortFacts
  <1>5. PICK l \in SUBSET Dgrm : l = u.list
    BY DEF GsaThread
  <1>6. PICK n \in Nat : n = Cardinality(l)
    BY DgrmFinite
  <1>7. u.pc = "posting" /\ UNCHANGED <<qp1, posted, sendQ, held>>
    BY <1>1 DEF iba_post_recv
  <1>8. PortOK(th, u, qp1[p], c, r, s) /\ Lists[th] = l /\ [posted EXCEPT ![p] = c] = posted
    BY <1>1, <1>2, <1>3, <1>4, <1>5, PortFacts
  <1>9. /\ u.status # "FPENDING"
        /\ th \notin Remover /\ qp1[p] = "NORMAL" => c = Cardinality(r) /\ c + n + s >= MinBuffers
    BY <1>5, <1>6, <1>7, <1>8 DEF PortOK, Filled
  <1>10. CASE gpool' = DgrmPoolPut(gsa[th].list) /\ dgrm' = Allocated(gsa[th].list, FALSE)
              /\ gsa' = [gsa EXCEPT ![th].list = {}, ![th].pc = "grow"]
              /\ short' = [short EXCEPT ![p] = @ + Cardinality(gsa[th].list)] /\ UNCHANGED recvQ
    <2> DEFINE t == [u EXCEPT !.list = {}, !.pc = "grow"]
    <2>1. t \in GsaThread /\ t.list = {} /\ t.pc = "grow" /\ t.status = u.status
      BY DEF GsaThread, GsaPc
    <2>2. gsa' = [gsa EXCEPT ![th] = t]
      BY <1>1, <1>10
    <2> HIDE DEF t
    <2>3. PICK s2 \in Int : s2 = s + n
      OBVIOUS
    <2>4. short' = [short EXCEPT ![p] = s2]
      BY <1>1, <1>4, <1>5, <1>6, <1>10, <2>3
    <2>5. Shorts(p) /\ short'[p] = s2
      BY <2>4, ShortsAt
    <2>6. th \notin Remover /\ qp1[p] = "NORMAL" => c + s2 >= MinBuffers
      BY <1>9, <2>3, GsaAssumption
    <2>7. PortOK(th, t, qp1[p], posted[p], recvQ[p], short'[p])
      BY <1>2, <1>3, <1>9, <2>1, <2>5, <2>6 DEF PortOK, Filled, Working
    <2> QED BY <1>7, <1>10, <2>1, <2>2, <2>5, <2>7, PutListStep
  <1>11. ASSUME NEW e \in Lowest(1, gsa[th].list),
                recvQ' = [recvQ EXCEPT ![Of[th]] = @ \cup {e}], dgrm' = [dgrm EXCEPT ![e].onRecv = TRUE],
                gsa' = [gsa EXCEPT ![th].list = @ \ {e}, ![th].seen = posted[Of[th]], ![th].pc = "counting"],
                UNCHANGED <<gpool, short>>
         PROVE  QueueInv'
    <2>1. e \in l /\ e \in Dgrm
      BY <1>1, <1>5 DEF Lowest
    <2>2. PICK b \in SUBSET Dgrm : b = l \ {e}
      OBVIOUS
    <2>3. PICK r2 \in SUBSET Dgrm : r2 = r \cup {e}
      BY <2>1
    <2> DEFINE t == [u EXCEPT !.list = b, !.seen = c, !.pc = "counting"]
    <2>4. t \in GsaThread /\ t.list = b /\ t.pc = "counting" /\ t.status = u.status /\ t.seen = c
      BY DEF GsaThread, GsaPc
    <2>5. gsa' = [gsa EXCEPT ![th] = t] /\ recvQ' = [recvQ EXCEPT ![p] = r2]
      BY <1>1, <1>2, <1>3, <1>5, <1>11, <2>2, <2>3
    <2> HIDE DEF t
    <2>6. /\ PoolTypes /\ Lists \in [Thread -> SUBSET Dgrm] /\ recvQ \in [Port -> SUBSET Dgrm]
          /\ Split(gpool.free, recvQ, Lists, sendQ, held, gpool.total)
      BY QueueFacts
    <2>7. gpool.total \in Nat /\ gpool \in GsaPool /\ gpool.elements = Cardinality(gpool.free)
      BY PoolFacts
    <2>8. e \notin r
      BY <1>3, <1>8, <2>1, <2>6 DEF Split, Apart
    <2>9. Cardinality(r2) = Cardinality(r) + 1 /\ Cardinality(b) = n - 1
      BY <1>6, <2>1, <2>2, <2>3, <2>8, OneMore, OneLess
    <2>10. PortOK(th, t, qp1[p], c, r2, short'[p])
      <3>1. short'[p] = s
        BY <1>4, <1>11
      <3>2. ASSUME th \notin Remover, qp1[p] = "NORMAL" PROVE Filled(t, c, r2, s)
        <4>1. c = Cardinality(r) /\ c + n + s >= MinBuffers
          BY <1>9, <3>2
        <4>2. c + 1 = Cardinality(r2) /\ c + 1 + Cardinality(b) + s >= MinBuffers
          BY <2>9, <4>1, GsaAssumption
        <4> QED BY <2>4, <4>2 DEF Filled
      <3> QED BY <1>9, <2>4, <3>1, <3>2 DEF PortOK, Working
    <2>11. Split(gpool.free, [recvQ EXCEPT ![p] = recvQ[p] \cup {e}], [Lists EXCEPT ![th] = Lists[th] \ {e}], sendQ, held, gpool.total)
      BY <1>8, <2>1, <2>6, <2>7, ListToRecv
    <2>12. dgrm' \in [Dgrm -> Flags] /\ Flagged(dgrm', gpool.free, [recvQ EXCEPT ![p] = recvQ[p] \cup {e}], sendQ, gpool.total)
      BY <1>11, <2>1, PostFlags
    <2>13. /\ Split(gpool'.free, [recvQ EXCEPT ![p] = r2], [Lists EXCEPT ![th] = t.list], sendQ', held', gpool'.total)
           /\ Flagged(dgrm', gpool'.free, [recvQ EXCEPT ![p] = r2], sendQ', gpool'.total)
      BY <1>3, <1>7, <1>8, <1>11, <2>2, <2>3, <2>4, <2>11, <2>12
    <2>14. /\ posted' = [posted EXCEPT ![p] = c] /\ qp1' = qp1 /\ Shorts(p)
           /\ gpool' \in GsaPool /\ gpool'.elements = Cardinality(gpool'.free)
           /\ sendQ' \in SUBSET [port : Port, d : Dgrm] /\ held' \in SUBSET Dgrm
      BY <1>7, <1>8, <1>11, <2>6, <2>7, ShortsSame DEF PoolTypes
    <2> QED BY <2>4, <2>5, <2>10, <2>12, <2>13, <2>14, QueueStep
  <1> QED BY <1>10, <1>11 DEF iba_post_recv

(* The port's own thread sees what it has seen.                            *)
LEMMA CountInv ==
    ASSUME QueueInv, NEW th \in Thread, NEW p \in Port, p = Of[th], Working(th), CountPosted(th) PROVE QueueInv'
  <1>1. PICK u \in GsaThread : u = gsa[th]
    BY PortFacts
  <1>2. PICK c \in Int : c = posted[p]
    BY PortFacts
  <1>3. PICK r \in SUBSET Dgrm : r = recvQ[p]
    BY PortFacts
  <1>4. PICK s \in Int : s = short[p]
    BY PortFacts
  <1>5. PICK n \in Nat : n = Cardinality(u.list)
    BY DgrmFinite DEF GsaThread
  <1>6. PICK a \in GsaPc : a = IF u.list = {} THEN "grow" ELSE "posting"
    BY DEF GsaPc
  <1>7. u.pc = "counting" /\ UNCHANGED <<gpool, dgrm, qp1, recvQ, short, sendQ, held>>
    BY <1>1 DEF CountPosted
  <1>8. PICK k \in Int : posted' = [posted EXCEPT ![p] = k] /\ (c = u.seen => k = c + 1)
    <2>1. PICK k \in Increments(th) : posted' = [posted EXCEPT ![p] = k]
      BY DEF CountPosted
    <2>2. k \in (IF c = u.seen THEN {c + 1} ELSE {c, c + 1, u.seen + 1})
      BY <1>1, <1>2, <2>1 DEF Increments
    <2>3. PICK n1 \in Int : n1 = u.seen
      BY DEF GsaThread
    <2>4. k \in Int /\ (c = u.seen => k = c + 1)
      BY <2>2, <2>3
    <2> QED BY <2>1, <2>4
  <1> DEFINE t == [u EXCEPT !.seen = 0, !.pc = a]
  <1>9. t \in GsaThread /\ t.list = u.list /\ t.pc = a /\ t.status = u.status
    <2>1. PICK i \in Int : i = 0
      OBVIOUS
    <2>2. PICK v : v = [u EXCEPT !.seen = i, !.pc = a]
      OBVIOUS
    <2>3. v \in GsaThread /\ v.list = u.list /\ v.pc = a /\ v.status = u.status
      BY <2>2 DEF GsaThread
    <2> QED BY <2>1, <2>2, <2>3
  <1>10. gsa' = [gsa EXCEPT ![th] = t]
    BY <1>1, <1>6 DEF CountPosted
  <1> HIDE DEF t
  <1>11. PortOK(th, u, qp1[p], c, r, s) /\ [recvQ EXCEPT ![p] = r] = recvQ /\ [Lists EXCEPT ![th] = u.list] = Lists
    BY <1>1, <1>2, <1>3, <1>4, PortFacts
  <1>12. PortOK(th, t, qp1[p], k, r, short'[p])
    <2>1. ASSUME th \notin Remover, qp1[p] = "NORMAL" PROVE Filled(t, k, r, s)
      <3>1. c + 1 = Cardinality(r) /\ u.seen = c /\ c + 1 + n + s >= MinBuffers
        BY <1>5, <1>7, <1>11, <2>1 DEF PortOK, Filled
      <3>2. k = Cardinality(r) /\ k + n + s >= MinBuffers
        BY <1>8, <3>1
      <3>3. u.list = {} => n = 0
        BY <1>5, FS_EmptySet
      <3>4. u.list = {} => k + s >= MinBuffers
        BY <3>2, <3>3, GsaAssumption
      <3> QED BY <1>5, <1>6, <1>9, <3>2, <3>4 DEF Filled
    <2>2. short'[p] = s /\ u.status # "FPENDING"
      BY <1>4, <1>7, <1>11 DEF PortOK
    <2> QED BY <1>6, <1>9, <2>1, <2>2 DEF PortOK, Working
  <1>13. /\ PoolTypes /\ Split(gpool.free, recvQ, Lists, sendQ, held, gpool.total)
         /\ Flagged(dgrm, gpool.free, recvQ, sendQ, gpool.total) /\ gpool \in GsaPool
         /\ gpool.elements = Cardinality(gpool.free)
    BY QueueFacts, PoolFacts
  <1>14. /\ gpool' \in GsaPool /\ dgrm' \in [Dgrm -> Flags] /\ sendQ' \in SUBSET [port : Port, d : Dgrm]
         /\ held' \in SUBSET Dgrm /\ recvQ' = [recvQ EXCEPT ![p] = r] /\ qp1' = qp1
         /\ gpool'.elements = Cardinality(gpool'.free) /\ Shorts(p)
    BY <1>7, <1>11, <1>13, ShortsSame DEF PoolTypes
  <1>15. /\ Split(gpool'.free, [recvQ EXCEPT ![p] = r], [Lists EXCEPT ![th] = t.list], sendQ', held', gpool'.total)
         /\ Flagged(dgrm', gpool'.free, [recvQ EXCEPT ![p] = r], sendQ', gpool'.total)
    BY <1>7, <1>9, <1>11, <1>13
  <1> QED BY <1>8, <1>9, <1>10, <1>12, <1>14, <1>15, QueueStep

(* Its flags when it leaves the adapter, for the pool or not.              *)
LEMMA RecvFlags ==
    ASSUME QueueInv, NEW p \in Port, NEW e \in recvQ[p], NEW g, NEW F,
           \/ F = gpool.free /\ g = [dgrm EXCEPT ![e].onRecv = FALSE]
           \/ F = gpool.free \cup {e} /\ g = [dgrm EXCEPT ![e].onRecv = FALSE, ![e].alloc = FALSE]
    PROVE  /\ g \in [Dgrm -> Flags]
           /\ Flagged(g, F, [recvQ EXCEPT ![p] = recvQ[p] \ {e}], sendQ, gpool.total)
  <1>1. /\ PoolTypes /\ recvQ \in [Port -> SUBSET Dgrm] /\ Split(gpool.free, recvQ, Lists, sendQ, held, gpool.total)
        /\ Flagged(dgrm, gpool.free, recvQ, sendQ, gpool.total)
    BY QueueFacts
  <1>2. e \in Dgrm
    BY <1>1
  <1>3. PICK f \in Flags : f = dgrm[e]
    BY <1>1, <1>2 DEF PoolTypes
  <1>4. ASSUME NEW x \in BOOLEAN, NEW y \in BOOLEAN
        PROVE  LET h == [f EXCEPT !.onRecv = x, !.alloc = y]
                   k == [f EXCEPT !.onRecv = x]
               IN  /\ h \in Flags /\ h.onSend = f.onSend /\ h.onRecv = x /\ h.alloc = y
                   /\ k \in Flags /\ k.onSend = f.onSend /\ k.onRecv = x /\ k.alloc = f.alloc
    BY DEF Flags
  <1>5. /\ g \in [Dgrm -> Flags] /\ \A d \in Dgrm \ {e} : g[d] = dgrm[d]
        /\ g[e].onSend = f.onSend /\ g[e].onRecv = FALSE
        /\ F = gpool.free => g[e].alloc = f.alloc
        /\ F # gpool.free => g[e].alloc = FALSE /\ F = gpool.free \cup {e}
    <2>1. dgrm \in [Dgrm -> Flags] /\ e \notin gpool.free
      BY <1>1 DEF PoolTypes, Split, Apart
    <2>2. CASE F = gpool.free /\ g = [dgrm EXCEPT ![e].onRecv = FALSE]
      <3>1. PICK k \in Flags : k = [f EXCEPT !.onRecv = FALSE] /\ k.onSend = f.onSend /\ k.onRecv = FALSE /\ k.alloc = f.alloc
        BY <1>4
      <3>2. g = [dgrm EXCEPT ![e] = k]
        BY <1>3, <2>2, <3>1
      <3> QED BY <1>2, <2>1, <2>2, <3>1, <3>2
    <2>3. CASE F = gpool.free \cup {e} /\ g = [dgrm EXCEPT ![e].onRecv = FALSE, ![e].alloc = FALSE]
      <3>1. PICK k \in Flags : /\ k = [f EXCEPT !.onRecv = FALSE, !.alloc = FALSE]
                               /\ k.onSend = f.onSend /\ k.onRecv = FALSE /\ k.alloc = FALSE
        BY <1>4
      <3>2. g = [dgrm EXCEPT ![e] = k]
        BY <1>2, <1>3, <2>1, <2>3, <3>1
      <3> QED BY <1>2, <2>1, <2>3, <3>1, <3>2
    <2> QED BY <2>2, <2>3
  <1> DEFINE R == [recvQ EXCEPT ![p] = recvQ[p] \ {e}]
  <1>6. \A q \in Port : R[q] = IF q = p THEN recvQ[p] \ {e} ELSE recvQ[q]
    BY <1>1
  <1> HIDE DEF R
  <1>7. \A q \in Port : e \notin R[q]
    BY <1>1, <1>6 DEF Split, Apart
  <1>8. \A d \in Dgrm : (\E q \in Port : d \in R[q]) <=> (\E q \in Port : d \in recvQ[q]) /\ d # e
    BY <1>6, <1>7
  <1>9. \A d \in Dgrm : /\ dgrm[d].alloc = (d <= gpool.total /\ d \notin gpool.free) /\ dgrm[d].onSend = (\E x \in sendQ : x.d = d)
                        /\ dgrm[d].onRecv = (\E q \in Port : d \in recvQ[q])
    BY <1>1 DEF Flagged
  <1>10. ASSUME NEW d \in Dgrm
         PROVE  /\ g[d].alloc = (d <= gpool.total /\ d \notin F)
                /\ g[d].onRecv = (\E q \in Port : d \in R[q]) /\ g[d].onSend = (\E x \in sendQ : x.d = d)
    <2>1. CASE d = e
      BY <1>2, <1>3, <1>5, <1>7, <1>9, <2>1
    <2>2. CASE d # e
      <3>1. g[d] = dgrm[d] /\ (d \in F <=> d \in gpool.free)
        BY <1>5, <2>2
      <3>2. (\E q \in Port : d \in R[q]) <=> (\E q \in Port : d \in recvQ[q])
        BY <1>8, <2>2
      <3> QED BY <1>9, <3>1, <3>2
    <2> QED BY <2>1, <2>2
  <1>11. Flagged(g, F, R, sendQ, gpool.total)
    BY <1>10 DEF Flagged
  <1> QED BY <1>5, <1>11 DEF R

LEMMA DiscardInv ==
    ASSUME QueueInv, NEW th \in Thread, NEW p \in Port, p = Of[th], Working(th), DiscardCompletion(th) PROVE QueueInv'
  <1>1. PICK t \in GsaThread : t = gsa[th] /\ [gsa EXCEPT ![th] = t] = gsa
    BY PortFacts
  <1>2. PICK c \in Int : c = posted[p]
    BY PortFacts
  <1>3. PICK r \in SUBSET Dgrm : r = recvQ[p]
    BY PortFacts
  <1>4. PICK s \in Int : s = short[p]
    BY PortFacts
  <1>5. PICK c2 \in Int : c2 = c - 1
    OBVIOUS
  <1>6. PICK s2 \in Int : s2 = s + 1
    OBVIOUS
  <1>7. PICK e \in r :
          /\ recvQ' = [recvQ EXCEPT ![p] = r \ {e}] /\ posted' = [posted EXCEPT ![p] = c2]
          /\ dgrm' = [dgrm EXCEPT ![e].onRecv = FALSE, ![e].alloc = FALSE] /\ gpool' = DgrmPoolPut({e})
    BY <1>2, <1>3, <1>5 DEF DiscardCompletion
  <1>8. t.pc = "idle" /\ short' = [short EXCEPT ![p] = s2] /\ UNCHANGED <<qp1, sendQ, held, gsa>>
    BY <1>1, <1>4, <1>6 DEF DiscardCompletion, Polls
  <1>9. PortOK(th, t, qp1[p], c, r, s) /\ Lists[th] = t.list /\ [Lists EXCEPT ![th] = Lists[th]] = Lists
    BY <1>1, <1>2, <1>3, <1>4, PortFacts
  <1>10. PICK r2 \in SUBSET Dgrm : r2 = r \ {e} /\ Cardinality(r2) = Cardinality(r) - 1
    BY OneLess
  <1>11. Shorts(p) /\ short'[p] = s2
    BY <1>8, ShortsAt
  <1>12. PortOK(th, t, qp1[p], c2, r2, short'[p])
    <2>1. ASSUME th \notin Remover, qp1[p] = "NORMAL" PROVE Filled(t, c2, r2, s2)
      <3>1. c = Cardinality(r) /\ c + s >= MinBuffers
        BY <1>8, <1>9, <2>1 DEF PortOK, Filled
      <3>2. c2 = Cardinality(r2) /\ c2 + s2 >= MinBuffers
        BY <1>5, <1>6, <1>10, <3>1, GsaAssumption
      <3> QED BY <1>8, <3>2 DEF Filled
    <2> QED BY <1>8, <1>9, <1>11, <2>1 DEF PortOK
  <1>13. /\ PoolTypes /\ Lists \in [Thread -> SUBSET Dgrm] /\ recvQ \in [Port -> SUBSET Dgrm]
         /\ Split(gpool.free, recvQ, Lists, sendQ, held, gpool.total)
    BY QueueFacts
  <1>14. gpool.total \in Nat /\ e \in recvQ[p] /\ {e} \subseteq Dgrm /\ {e} \cap gpool.free = {}
    BY <1>3, <1>13, PoolFacts DEF Split, Apart
  <1>15. /\ gpool' \in GsaPool /\ gpool'.free = gpool.free \cup {e} /\ gpool'.total = gpool.total
         /\ gpool'.elements = Cardinality(gpool'.free)
    BY <1>7, <1>14, PoolPut
  <1>16. Split(gpool.free \cup {e}, [recvQ EXCEPT ![p] = recvQ[p] \ {e}], Lists, sendQ, held, gpool.total)
    BY <1>13, <1>14, RecvToPool
  <1>17. dgrm' \in [Dgrm -> Flags] /\ Flagged(dgrm', gpool.free \cup {e}, [recvQ EXCEPT ![p] = recvQ[p] \ {e}], sendQ, gpool.total)
    BY <1>7, <1>14, RecvFlags
  <1>18. /\ Split(gpool'.free, [recvQ EXCEPT ![p] = r2], [Lists EXCEPT ![th] = t.list], sendQ', held', gpool'.total)
         /\ Flagged(dgrm', gpool'.free, [recvQ EXCEPT ![p] = r2], sendQ', gpool'.total)
    BY <1>3, <1>8, <1>9, <1>10, <1>15, <1>16, <1>17
  <1>19. /\ posted' = [posted EXCEPT ![p] = c2] /\ recvQ' = [recvQ EXCEPT ![p] = r2] /\ qp1' = qp1
         /\ sendQ' \in SUBSET [port : Port, d : Dgrm] /\ held' \in SUBSET Dgrm /\ gsa' = [gsa EXCEPT ![th] = t]
    BY <1>1, <1>7, <1>8, <1>10, <1>13 DEF PoolTypes
  <1> QED BY <1>11, <1>12, <1>15, <1>17, <1>18, <1>19, QueueStep

(* The walk over the first k classes of the list ends, or calls the last   *)
(* of them that is interested.                                             *)
LEMMA WalkFacts ==
    ASSUME classList \in Seq(Handle), NEW t \in GsaThread, NEW k \in Nat, k <= Len(classList)
    PROVE  LET w == Walk(t, k) IN
           /\ w \in GsaThread /\ w.list = t.list /\ w.n = t.n /\ w.status = t.status /\ w.mad = t.mad
           /\ w.pc \in {"callback", "conclude"}
           /\ w.pc = "conclude" => w.at = NoClass /\ w.told = t.told /\ \A i \in 1..k : ~ Interested(classList[i], t.mad)
           /\ w.pc = "callback" =>
                \E j \in 1..k : /\ w.at = classList[j] /\ w.told = t.told \cup {classList[j]}
                                /\ \A i \in 1..k : Interested(classList[i], t.mad) => i <= j
  <1> DEFINE W == {i \in 1..k : Interested(classList[i], t.mad)}
  <1>1. CASE W = {}
    <2> DEFINE w == [t EXCEPT !.pc = "conclude", !.at = NoClass]
    <2>1. Walk(t, k) = w
      BY <1>1 DEF Walk
    <2>2. /\ w \in GsaThread /\ w.list = t.list /\ w.n = t.n /\ w.status = t.status /\ w.mad = t.mad
          /\ w.pc = "conclude" /\ w.at = NoClass /\ w.told = t.told
      BY DEF GsaThread, GsaPc
    <2>3. \A i \in 1..k : ~ Interested(classList[i], t.mad)
      BY <1>1
    <2> HIDE DEF w
    <2> QED BY <2>1, <2>2, <2>3
  <1>2. CASE W # {}
    <2>1. Max(W) \in W /\ \A i \in W : i <= Max(W)
      BY <1>2, MaxIn
    <2>2. PICK j \in 1..k : j = Max(W) /\ \A i \in 1..k : Interested(classList[i], t.mad) => i <= j
      BY <2>1
    <2>21. j \in 1..Len(classList)
      OBVIOUS
    <2>3. PICK h \in Handle : h = classList[j]
      BY <2>21
    <2>4. PICK T \in SUBSET Handle : T = t.told \cup {h}
      BY DEF GsaThread
    <2> DEFINE w == [t EXCEPT !.pc = "callback", !.at = h, !.told = T]
    <2>5. Walk(t, k) = w
      BY <1>2, <2>2, <2>3, <2>4 DEF Walk
    <2>6. /\ w \in GsaThread /\ w.list = t.list /\ w.n = t.n /\ w.status = t.status /\ w.mad = t.mad
          /\ w.pc = "callback" /\ w.at = h /\ w.told = T
      BY DEF GsaThread, GsaPc
    <2> HIDE DEF w
    <2> QED BY <2>2, <2>3, <2>4, <2>5, <2>6
  <1> QED BY <1>1, <1>2

(* A buffer of p was filled; k are to be posted for it.                    *)
LEMMA PostCountFacts ==
    ASSUME NEW c \in Int
    PROVE  LET k == IF c - 1 \in 0..(MinBuffers - 1) THEN MinBuffers - (c - 1) ELSE 1 IN
           k \in Nat /\ (c - 1 >= 0 => (c - 1) + k >= MinBuffers)
  <1>1. PICK m \in Nat : m = MinBuffers
    BY GsaAssumption
  <1>2. CASE c - 1 \in 0..(m - 1)
    BY <1>1, <1>2
  <1>3. CASE c - 1 \notin 0..(m - 1)
    BY <1>1, <1>3
  <1> QED BY <1>2, <1>3

LEMMA ReceiveInv ==
    ASSUME QueueInv, classList \in Seq(Handle), NEW th \in Thread, NEW p \in Port, p = Of[th], Working(th),
           NEW m \in GsiMad, ReceiveCompletion(th, m) PROVE QueueInv'
  <1>1. PICK u \in GsaThread : u = gsa[th]
    BY PortFacts
  <1>2. PICK c \in Int : c = posted[p]
    BY PortFacts
  <1>3. PICK r \in SUBSET Dgrm : r = recvQ[p]
    BY PortFacts
  <1>4. PICK c2 \in Int : c2 = c - 1
    OBVIOUS
  <1>5. PICK k : k = IF c - 1 \in 0..(MinBuffers - 1) THEN MinBuffers - (c - 1) ELSE 1
    OBVIOUS
  <1>6. PostCount(p) = k
    BY <1>2, <1>5 DEF PostCount
  <1>7. PICK e \in r :
          LET t == [Resting EXCEPT !.list = {e}, !.n = k, !.mad = m] IN
          /\ recvQ' = [recvQ EXCEPT ![p] = r \ {e}] /\ posted' = [posted EXCEPT ![p] = c2]
          /\ dgrm' = [dgrm EXCEPT ![e].onRecv = FALSE]
          /\ \/ gsa' = [gsa EXCEPT ![th] = Walk(t, Len(classList))] /\ UNCHANGED held
             \/ held' = held \cup {e}
                /\ gsa' = [gsa EXCEPT ![th] = [t EXCEPT !.pc = "conclude", !.status = "FPENDING", !.list = {}]]
             \/ UNCHANGED held
                /\ gsa' = [gsa EXCEPT ![th] = [t EXCEPT !.pc = "conclude", !.status = "FREJECT"]]
    BY <1>2, <1>3, <1>4, <1>6 DEF ReceiveCompletion
  <1>8. u.pc = "idle" /\ UNCHANGED <<gpool, qp1, short, sendQ>>
    BY <1>1 DEF ReceiveCompletion, Polls
  <1>9. /\ PortOK(th, u, qp1[p], c, r, short[p]) /\ Lists[th] = u.list /\ [Lists EXCEPT ![th] = Lists[th]] = Lists
        /\ u.list = {}
    BY <1>1, <1>2, <1>3, <1>8, PortFacts DEF PortOK
  <1>10. PICK r2 \in SUBSET Dgrm : r2 = r \ {e} /\ Cardinality(r2) = Cardinality(r) - 1
    BY OneLess
  <1>11. Cardinality(r2) \in Nat
    BY DgrmFinite
  <1>12. k \in Nat /\ (c2 >= 0 => c2 + k >= MinBuffers)
    BY <1>4, <1>5, PostCountFacts
  <1>14. /\ PoolTypes /\ Lists \in [Thread -> SUBSET Dgrm] /\ recvQ \in [Port -> SUBSET Dgrm]
         /\ Split(gpool.free, recvQ, Lists, sendQ, held, gpool.total)
    BY QueueFacts
  <1>15. gpool.total \in Nat /\ e \in recvQ[p] /\ e \in Dgrm /\ gpool \in GsaPool /\ gpool.elements = Cardinality(gpool.free)
    BY <1>3, PoolFacts
  <1>16. dgrm' \in [Dgrm -> Flags] /\ Flagged(dgrm', gpool.free, [recvQ EXCEPT ![p] = recvQ[p] \ {e}], sendQ, gpool.total)
    BY <1>7, <1>15, RecvFlags
  <1>17. Split(gpool.free, [recvQ EXCEPT ![p] = recvQ[p] \ {e}], [Lists EXCEPT ![th] = {e}], sendQ, held, gpool.total)
    BY <1>9, <1>14, <1>15, RecvToList
  <1>18. Split(gpool.free, [recvQ EXCEPT ![p] = recvQ[p] \ {e}], Lists, sendQ, held \cup {e}, gpool.total)
    BY <1>14, <1>15, RecvToHeld
  <1>19. ASSUME NEW t \in GsaThread, gsa' = [gsa EXCEPT ![th] = t], t.pc \in {"callback", "conclude"}, t.n = k,
                \/ t.list = {e} /\ t.status # "FPENDING" /\ UNCHANGED held
                \/ t.list = {} /\ t.pc = "conclude" /\ held' = held \cup {e}
         PROVE  QueueInv'
    <2>1. PortOK(th, t, qp1[p], c2, r2, short'[p])
      <3>1. ASSUME th \notin Remover, qp1[p] = "NORMAL" PROVE Filled(t, c2, r2, short[p])
        <4>1. c = Cardinality(r)
          BY <1>8, <1>9, <3>1 DEF PortOK, Filled
        <4>2. c2 = Cardinality(r2) /\ c2 + k >= MinBuffers
          BY <1>4, <1>10, <1>11, <1>12, <4>1
        <4> QED BY <1>19, <4>2 DEF Filled
      <3> QED BY <1>8, <1>19, <3>1 DEF PortOK, Working
    <2>2. Split(gpool'.free, [recvQ EXCEPT ![p] = r2], [Lists EXCEPT ![th] = t.list], sendQ', held', gpool'.total)
      BY <1>3, <1>8, <1>9, <1>10, <1>17, <1>18, <1>19
    <2>3. Flagged(dgrm', gpool'.free, [recvQ EXCEPT ![p] = r2], sendQ', gpool'.total)
      BY <1>3, <1>8, <1>10, <1>16
    <2>4. /\ qp1' = qp1 /\ posted' = [posted EXCEPT ![p] = c2] /\ recvQ' = [recvQ EXCEPT ![p] = r2]
          /\ gpool' \in GsaPool /\ gpool'.elements = Cardinality(gpool'.free)
          /\ Shorts(p)
      BY <1>7, <1>8, <1>10, <1>15, ShortsSame
    <2>5. sendQ' \in SUBSET [port : Port, d : Dgrm] /\ held' \in SUBSET Dgrm
      BY <1>8, <1>14, <1>15, <1>19 DEF PoolTypes
    <2> QED BY <1>16, <1>19, <2>1, <2>2, <2>3, <2>4, <2>5, QueueStep
  <1>24. PICK n \in Nat : n = k
    BY <1>12
  <1>25. PICK x \in Dgrm : x = e
    BY <1>15
  <1> DEFINE t == [Resting EXCEPT !.list = {x}, !.n = n, !.mad = m]
  <1>26. t \in GsaThread /\ t.list = {x} /\ t.n = n /\ t.status = "FNOT_FOUND"
    <2>1. PICK z \in GsaThread : z = Resting /\ z.status = "FNOT_FOUND"
      BY RestingFields
    <2>2. PICK l \in SUBSET Dgrm : l = {x}
      OBVIOUS
    <2> DEFINE v == [z EXCEPT !.list = l, !.n = n, !.mad = m]
    <2>3. v \in GsaThread /\ v.list = l /\ v.n = n /\ v.status = z.status
      BY DEF GsaThread
    <2>4. t = v
      BY <2>1, <2>2
    <2> HIDE DEF v, t
    <2> QED BY <2>1, <2>2, <2>3, <2>4
  <1>20. t \in GsaThread /\ t.list = {e} /\ t.n = k /\ t.status = "FNOT_FOUND"
    BY <1>24, <1>25, <1>26
  <1> HIDE DEF t
  <1>21. CASE gsa' = [gsa EXCEPT ![th] = Walk(t, Len(classList))] /\ UNCHANGED held
    <2>1. PICK z \in Nat : z = Len(classList) /\ z <= Len(classList)
      OBVIOUS
    <2> DEFINE w == Walk(t, z)
    <2>2. w \in GsaThread /\ w.list = t.list /\ w.n = t.n /\ w.status = t.status /\ w.pc \in {"callback", "conclude"}
      BY <1>20, <2>1, WalkFacts
    <2>3. gsa' = [gsa EXCEPT ![th] = w]
      BY <1>21, <2>1
    <2> HIDE DEF w
    <2> QED BY <1>19, <1>20, <1>21, <2>2, <2>3
  <1>22. CASE held' = held \cup {e}
              /\ gsa' = [gsa EXCEPT ![th] = [t EXCEPT !.pc = "conclude", !.status = "FPENDING", !.list = {}]]
    <2> DEFINE w == [t EXCEPT !.pc = "conclude", !.status = "FPENDING", !.list = {}]
    <2>1. w \in GsaThread /\ w.list = {} /\ w.n = t.n /\ w.pc = "conclude"
      BY <1>20 DEF GsaThread, GsaPc
    <2>2. gsa' = [gsa EXCEPT ![th] = w]
      BY <1>22
    <2> HIDE DEF w
    <2> QED BY <1>19, <1>20, <1>22, <2>1, <2>2
  <1>23. CASE UNCHANGED held /\ gsa' = [gsa EXCEPT ![th] = [t EXCEPT !.pc = "conclude", !.status = "FREJECT"]]
    <2> DEFINE w == [t EXCEPT !.pc = "conclude", !.status = "FREJECT"]
    <2>1. w \in GsaThread /\ w.list = t.list /\ w.n = t.n /\ w.pc = "conclude" /\ w.status = "FREJECT"
      BY <1>20 DEF GsaThread, GsaPc
    <2>2. gsa' = [gsa EXCEPT ![th] = w]
      BY <1>23
    <2> HIDE DEF w
    <2> QED BY <1>19, <1>20, <1>23, <2>1, <2>2
  <1> QED BY <1>7, <1>21, <1>22, <1>23, <1>24, <1>25 DEF t

(* The callback of the class at hand has returned ret.                     *)
LEMMA AfterFacts ==
    ASSUME classList \in Seq(Handle), NEW th \in Thread, gsa[th] \in GsaThread, gsa[th].status # "FPENDING",
           NEW ret \in {"FCOMPLETED", "FPENDING", "FREJECT"}
    PROVE  LET u == gsa[th]
               w == AfterCallback(th, ret)
           IN  /\ w \in GsaThread /\ w.n = u.n /\ w.mad = u.mad /\ w.pc \in {"callback", "conclude", "lost"}
               /\ ret = "FPENDING" => w.list = {} /\ w.pc = "conclude" /\ w.status = "FPENDING" /\ w.at = NoClass
               /\ ret # "FPENDING" => w.list = u.list /\ w.status # "FPENDING"
               /\ ret # "FPENDING" /\ (Fanout(u.mad) \/ w.pc # "conclude") =>
                     \/ w.pc = "lost" /\ ~ Listed(u.at)
                     \/ \E j \in DOMAIN classList : classList[j] = u.at
                          /\ \E s \in GsaThread : s.mad = u.mad /\ s.told = u.told /\ w = Walk(s, j - 1)
               /\ w.pc = "conclude" => w.at = NoClass
  <1>1. PICK u \in GsaThread : u = gsa[th]
    OBVIOUS
  <1>2. PICK st \in {"FNOT_FOUND", "FCOMPLETED", "FPENDING", "FREJECT"} :
           /\ st = (IF ret \in {"FPENDING", "FCOMPLETED"} \/ u.status = "FNOT_FOUND" THEN ret ELSE u.status)
           /\ ret = "FPENDING" <=> st = "FPENDING"
    <2>1. u.status \in {"FNOT_FOUND", "FPENDING", "FCOMPLETED", "FREJECT"} /\ u.status # "FPENDING"
      BY <1>1 DEF GsaThread
    <2> QED BY <2>1
  <1>3. PICK s : s = [u EXCEPT !.status = st]
    OBVIOUS
  <1>4. s \in GsaThread /\ s.mad = u.mad /\ s.told = u.told /\ s.list = u.list /\ s.n = u.n /\ s.status = st /\ s.at = u.at
    BY <1>3 DEF GsaThread
  <1> DEFINE at == {i \in DOMAIN classList : classList[i] = u.at}
             done == u.mad.method = "RESP" \/ ret = "FPENDING" \/ (ret = "FCOMPLETED" /\ ~ Fanout(u.mad))
             l == IF ret = "FPENDING" THEN {} ELSE s.list
             w == AfterCallback(th, ret)
  <1>5. w = IF done THEN [s EXCEPT !.pc = "conclude", !.at = NoClass, !.list = l]
            ELSE IF at = {} THEN [s EXCEPT !.pc = "lost"] ELSE Walk(s, Max(at) - 1)
    BY <1>1, <1>2, <1>3 DEF AfterCallback
  <1>6. l \in SUBSET Dgrm
    BY <1>4 DEF GsaThread
  <1>7. done => ret = "FPENDING" \/ ~ Fanout(u.mad)
    BY DEF Fanout
  <1>8. l = IF ret = "FPENDING" THEN {} ELSE u.list
    BY <1>4
  <1>9. ~ done => ret # "FPENDING"
    OBVIOUS
  <1> HIDE DEF w, l, done
  <1>10. CASE done
    <2>1. PICK v : v = [s EXCEPT !.pc = "conclude", !.at = NoClass, !.list = l]
      OBVIOUS
    <2>2. v \in GsaThread /\ v.mad = s.mad /\ v.list = l /\ v.n = s.n /\ v.status = s.status /\ v.pc = "conclude" /\ v.at = NoClass
      BY <1>4, <1>6, <2>1 DEF GsaThread, GsaPc
    <2>3. w = v
      BY <1>5, <1>10, <2>1
    <2> QED BY <1>1, <1>2, <1>4, <1>7, <1>8, <1>10, <2>2, <2>3 DEF w
  <1>11. CASE ~ done /\ at = {}
    <2>1. PICK v : v = [s EXCEPT !.pc = "lost"]
      OBVIOUS
    <2>2. v \in GsaThread /\ v.mad = s.mad /\ v.list = s.list /\ v.n = s.n /\ v.status = s.status /\ v.pc = "lost"
      BY <1>4, <2>1 DEF GsaThread, GsaPc
    <2>3. w = v
      BY <1>5, <1>11, <2>1
    <2>4. ~ Listed(u.at)
      BY <1>11 DEF Listed
    <2> QED BY <1>1, <1>2, <1>4, <1>9, <1>11, <2>2, <2>3, <2>4 DEF w
  <1>12. CASE ~ done /\ at # {}
    <2>1. PICK z \in Nat : z = Len(classList) /\ DOMAIN classList = 1..z
      OBVIOUS
    <2>2. at \subseteq 1..z
      BY <2>1
    <2>3. Max(at) \in at
      BY <1>12, <2>2, MaxIn
    <2>4. PICK j \in 1..z : j = Max(at) /\ classList[j] = u.at
      BY <2>1, <2>3
    <2>5. PICK k \in Nat : k = j - 1 /\ k <= Len(classList)
      BY <2>1
    <2>6. w = Walk(s, k)
      BY <1>5, <1>12, <2>4, <2>5
    <2> DEFINE v == Walk(s, k)
    <2>7. /\ v \in GsaThread /\ v.list = s.list /\ v.n = s.n /\ v.status = s.status /\ v.mad = s.mad
          /\ v.pc \in {"callback", "conclude"} /\ (v.pc = "conclude" => v.at = NoClass)
      BY <1>4, <2>5, WalkFacts
    <2> HIDE DEF v
    <2>8. w = v
      BY <2>6 DEF v
    <2>9. /\ w \in GsaThread /\ w.n = u.n /\ w.mad = u.mad /\ w.pc \in {"callback", "conclude", "lost"}
          /\ ret # "FPENDING" /\ w.list = u.list /\ w.status # "FPENDING" /\ (w.pc = "conclude" => w.at = NoClass)
      BY <1>2, <1>4, <1>9, <1>12, <2>7, <2>8
    <2>10. w = Walk(s, j - 1) /\ j \in DOMAIN classList
      BY <2>1, <2>5, <2>6
    <2> QED BY <1>1, <1>4, <2>4, <2>9, <2>10 DEF w
  <1> QED BY <1>10, <1>11, <1>12

LEMMA NotifyInv ==
    ASSUME QueueInv, classList \in Seq(Handle), NEW th \in Thread, NEW p \in Port, p = Of[th], Working(th), GsaNotifyClients(th) PROVE QueueInv'
  <1>1. PICK u \in GsaThread : u = gsa[th]
    BY PortFacts
  <1>2. /\ PortOK(th, u, qp1[p], posted[p], recvQ[p], short[p]) /\ posted[p] \in Int
        /\ Lists[th] = u.list /\ [Lists EXCEPT ![th] = Lists[th]] = Lists
    BY <1>1, PortFacts
  <1>3. u.pc = "callback" /\ UNCHANGED <<gpool, dgrm, qp1, posted, recvQ, short, sendQ>>
    BY <1>1 DEF GsaNotifyClients, portVars
  <1>4. PICK ret \in {"FCOMPLETED", "FPENDING", "FREJECT"} :
          /\ gsa' = [gsa EXCEPT ![th] = AfterCallback(th, ret)]
          /\ held' = IF ret = "FPENDING" THEN held \cup u.list ELSE held
    BY <1>1 DEF GsaNotifyClients
  <1>5. u.status # "FPENDING" /\ Shorts(p)
    BY <1>2, <1>3, ShortsSame DEF PortOK
  <1> DEFINE w == AfterCallback(th, ret)
  <1>6. /\ w \in GsaThread /\ w.n = u.n /\ w.pc \in {"callback", "conclude", "lost"}
        /\ ret = "FPENDING" => w.list = {} /\ w.pc = "conclude" /\ w.status = "FPENDING"
        /\ ret # "FPENDING" => w.list = u.list /\ w.status # "FPENDING"
    BY <1>1, <1>5, AfterFacts
  <1>7. gsa' = [gsa EXCEPT ![th] = w]
    BY <1>4
  <1> HIDE DEF w
  <1>8. PortOK(th, w, qp1[p], posted[p], recvQ[p], short'[p])
    BY <1>2, <1>3, <1>5, <1>6 DEF PortOK, Filled, Working
  <1>9. /\ PoolTypes /\ Lists \in [Thread -> SUBSET Dgrm] /\ recvQ \in [Port -> SUBSET Dgrm]
        /\ Split(gpool.free, recvQ, Lists, sendQ, held, gpool.total)
        /\ Flagged(dgrm, gpool.free, recvQ, sendQ, gpool.total)
    BY QueueFacts
  <1>10. /\ gpool.total \in Nat /\ gpool \in GsaPool /\ gpool.elements = Cardinality(gpool.free)
         /\ u.list \subseteq Dgrm
    BY PoolFacts DEF GsaThread
  <1>11. Split(gpool.free, recvQ, [Lists EXCEPT ![th] = {}], sendQ, held \cup Lists[th], gpool.total)
    BY <1>9, <1>10, ListToHeld
  <1>12. Split(gpool'.free, recvQ, [Lists EXCEPT ![th] = w.list], sendQ, held', gpool'.total)
    <2>1. CASE ret = "FPENDING"
      BY <1>2, <1>3, <1>4, <1>6, <1>11, <2>1
    <2>2. CASE ret # "FPENDING"
      BY <1>2, <1>3, <1>4, <1>6, <1>9, <2>2
    <2> QED BY <2>1, <2>2
  <1>13. /\ gpool' \in GsaPool /\ gpool'.elements = Cardinality(gpool'.free) /\ dgrm' \in [Dgrm -> Flags]
         /\ held' \in SUBSET Dgrm /\ Shorts(p)
         /\ Flagged(dgrm', gpool'.free, recvQ, sendQ, gpool'.total)
    BY <1>3, <1>4, <1>5, <1>9, <1>10 DEF PoolTypes
  <1> QED BY <1>3, <1>6, <1>7, <1>8, <1>12, <1>13, PoolStep

(* A step of port p that sends an answer, or hears that one was sent.      *)
LEMMA SendStep ==
    ASSUME QueueInv, NEW th \in Thread, NEW p \in Port, p = Of[th], Working(th), NEW t \in GsaThread,
           gsa' = [gsa EXCEPT ![th] = t], t.list = gsa[th].list,
           gpool' \in GsaPool, gpool'.elements = Cardinality(gpool'.free), dgrm' \in [Dgrm -> Flags],
           UNCHANGED <<qp1, posted, recvQ, short, held>>, sendQ' \subseteq [port : Port, d : Dgrm],
           Split(gpool'.free, recvQ, Lists, sendQ', held, gpool'.total),
           Flagged(dgrm', gpool'.free, recvQ, sendQ', gpool'.total),
           PortOK(th, t, qp1[p], posted[p], recvQ[p], short[p])
    PROVE  QueueInv'
  <1>1. held \subseteq Dgrm
    BY QueueFacts DEF PoolTypes
  <1>2. /\ [posted EXCEPT ![p] = posted[p]] = posted /\ [recvQ EXCEPT ![p] = recvQ[p]] = recvQ
        /\ [Lists EXCEPT ![th] = t.list] = Lists
    BY PortFacts
  <1>3. PICK c \in Int : c = posted[p]
    BY PortFacts
  <1>4. PICK r \in SUBSET Dgrm : r = recvQ[p]
    BY PortFacts
  <1>5. posted' = [posted EXCEPT ![p] = c] /\ recvQ' = [recvQ EXCEPT ![p] = r] /\ qp1' = qp1
        /\ sendQ' \in SUBSET [port : Port, d : Dgrm] /\ held' \in SUBSET Dgrm
    BY <1>1, <1>2, <1>3, <1>4
  <1>6. /\ Split(gpool'.free, [recvQ EXCEPT ![p] = r], [Lists EXCEPT ![th] = t.list], sendQ', held', gpool'.total)
        /\ Flagged(dgrm', gpool'.free, [recvQ EXCEPT ![p] = r], sendQ', gpool'.total)
    BY <1>2, <1>4
  <1>7. PortOK(th, t, qp1[p], c, r, short'[p])
    BY <1>3, <1>4
  <1>8. Shorts(p)
    BY ShortsSame
  <1> QED BY <1>5, <1>6, <1>7, <1>8, QueueStep

LEMMA SendInvalidInv ==
    ASSUME QueueInv, NEW th \in Thread, NEW p \in Port, p = Of[th], Working(th), GsiSendInvalid(th) PROVE QueueInv'
  <1>1. PICK u \in GsaThread : u = gsa[th]
    BY PortFacts
  <1>2. PortOK(th, u, qp1[p], posted[p], recvQ[p], short[p])
    BY <1>1, PortFacts
  <1> DEFINE t == [u EXCEPT !.status = "FREJECT"]
  <1>3. u.pc = "conclude" /\ gsa' = [gsa EXCEPT ![th] = t] /\ UNCHANGED <<qp1, posted, recvQ, short, held>>
    BY <1>1 DEF GsiSendInvalid, portVars
  <1>4. t \in GsaThread /\ t.list = u.list /\ t.n = u.n /\ t.pc = u.pc /\ t.status = "FREJECT"
    BY DEF GsaThread
  <1> HIDE DEF t
  <1>5. PortOK(th, t, qp1[p], posted[p], recvQ[p], short[p])
    BY <1>2, <1>3, <1>4 DEF PortOK, Filled, Working
  <1>6. /\ PoolTypes /\ Lists \in [Thread -> SUBSET Dgrm] /\ recvQ \in [Port -> SUBSET Dgrm]
        /\ Split(gpool.free, recvQ, Lists, sendQ, held, gpool.total)
        /\ Flagged(dgrm, gpool.free, recvQ, sendQ, gpool.total) /\ \A d \in gpool.free : d <= gpool.total
    BY QueueFacts
  <1>7. gpool.total \in Nat /\ gpool \in GsaPool /\ gpool.elements = Cardinality(gpool.free) /\ gpool.free \subseteq Dgrm
    BY PoolFacts
  <1>8. dgrm \in [Dgrm -> Flags] /\ sendQ \subseteq [port : Port, d : Dgrm]
    BY <1>6 DEF PoolTypes
  <1>9. CASE UNCHANGED <<gpool, dgrm, sendQ>>
    <2>1. /\ Split(gpool'.free, recvQ, Lists, sendQ', held, gpool'.total)
          /\ Flagged(dgrm', gpool'.free, recvQ, sendQ', gpool'.total)
          /\ gpool' \in GsaPool /\ gpool'.elements = Cardinality(gpool'.free) /\ dgrm' \in [Dgrm -> Flags]
          /\ sendQ' \subseteq [port : Port, d : Dgrm] /\ t.list = gsa[th].list
      BY <1>1, <1>4, <1>6, <1>7, <1>8, <1>9
    <2> QED BY <1>3, <1>4, <1>5, <2>1, SendStep
  <1>10. CASE ~ UNCHANGED <<gpool, dgrm, sendQ>>
    <2>1. PICK l : l = DgrmPoolGet(1)
      OBVIOUS
    <2>2. l \subseteq gpool.free /\ l \subseteq Dgrm
      BY <2>1, PoolGets
    <2> DEFINE g == [d \in Dgrm |-> IF d \in l THEN [dgrm[d] EXCEPT !.alloc = TRUE, !.onSend = TRUE] ELSE dgrm[d]]
               S == sendQ \cup {[port |-> p, d |-> d] : d \in l}
    <2>3. gpool' = Without(l) /\ dgrm' = g /\ sendQ' = S
      BY <1>10, <2>1 DEF GsiSendInvalid
    <2>4. /\ gpool' \in GsaPool /\ gpool'.free = gpool.free \ l /\ gpool'.total = gpool.total
          /\ gpool'.elements = Cardinality(gpool'.free)
      BY <2>2, <2>3, PoolWithout
    <2>5. Split(gpool.free \ l, recvQ, Lists, S, held, gpool.total)
      <3>1. PICK F : F = gpool.free
        OBVIOUS
      <3>2. PICK n \in Nat : n = gpool.total
        BY <1>7
      <3>3. Split(F, recvQ, Lists, sendQ, held, n) /\ l \subseteq F
        BY <1>6, <2>2, <3>1, <3>2
      <3>4. PICK N : N = {[port |-> p, d |-> d] : d \in l}
        OBVIOUS
      <3>5. (\A x \in N : x.d \in l) /\ (\A d \in l : \E x \in N : x.d = d) /\ \A x, y \in N : x.d = y.d => x = y
        <4>1. ASSUME NEW e PROVE [port |-> p, d |-> e].d = e
          OBVIOUS
        <4>2. ASSUME NEW d \in l PROVE [port |-> p, d |-> d] \in N
          BY <3>4
        <4>3. ASSUME NEW x \in N PROVE \E d \in l : x = [port |-> p, d |-> d]
          BY <3>4
        <4>4. \A x \in N : x.d \in l
          BY <4>1, <4>3
        <4>5. \A d \in l : \E x \in N : x.d = d
          BY <4>1, <4>2
        <4>6. ASSUME NEW x \in N, NEW y \in N, x.d = y.d PROVE x = y
          <5>1. PICK d \in l : x = [port |-> p, d |-> d]
            BY <4>3
          <5>2. PICK e \in l : y = [port |-> p, d |-> e]
            BY <4>3
          <5> QED BY <4>1, <4>6, <5>1, <5>2
        <4> QED BY <4>4, <4>5, <4>6
      <3>6. Split(F \ l, recvQ, Lists, sendQ \cup N, held, n)
        BY <1>6, <3>3, <3>5, PoolToSend
      <3> QED BY <3>1, <3>2, <3>4, <3>6
    <2>6. ASSUME NEW d \in Dgrm
          PROVE  /\ g[d] \in Flags /\ g[d].onRecv = dgrm[d].onRecv
                 /\ d \in l => g[d].alloc = TRUE /\ g[d].onSend = TRUE
                 /\ d \notin l => g[d].alloc = dgrm[d].alloc /\ g[d].onSend = dgrm[d].onSend
      <3>1. PICK r \in Flags : r = dgrm[d]
        BY <1>8
      <3>2. PICK k : k = [r EXCEPT !.alloc = TRUE, !.onSend = TRUE]
        OBVIOUS
      <3>3. k \in Flags /\ k.alloc = TRUE /\ k.onSend = TRUE /\ k.onRecv = r.onRecv
        BY <3>2 DEF Flags
      <3>4. g[d] = IF d \in l THEN k ELSE r
        BY <3>1, <3>2
      <3> HIDE DEF g
      <3> QED BY <3>1, <3>3, <3>4
    <2>7. g \in [Dgrm -> Flags]
      <3>1. g = [d \in Dgrm |-> g[d]]
        OBVIOUS
      <3> HIDE DEF g
      <3> QED BY <2>6, <3>1
    <2> HIDE DEF g
    <2>8. \A d \in Dgrm : (\E x \in S : x.d = d) <=> (\E x \in sendQ : x.d = d) \/ d \in l
      <3> SUFFICES ASSUME NEW d \in Dgrm PROVE (\E x \in S : x.d = d) <=> (\E x \in sendQ : x.d = d) \/ d \in l
        OBVIOUS
      <3>1. ASSUME NEW e PROVE [port |-> p, d |-> e].d = e
        OBVIOUS
      <3>2. ASSUME NEW x \in S, x.d = d PROVE (\E y \in sendQ : y.d = d) \/ d \in l
        BY <3>1, <3>2
      <3>3. ASSUME d \in l PROVE \E x \in S : x.d = d
        <4>1. [port |-> p, d |-> d] \in S
          BY <3>3
        <4> QED BY <3>1, <4>1
      <3> QED BY <3>2, <3>3
    <2>9. S \subseteq [port : Port, d : Dgrm]
      BY <1>8, <2>2
    <2> HIDE DEF S
    <2>10. Flagged(g, gpool.free \ l, recvQ, S, gpool.total)
      <3>1. \A d \in Dgrm : /\ dgrm[d].alloc = (d <= gpool.total /\ d \notin gpool.free) /\ dgrm[d].onSend = (\E x \in sendQ : x.d = d)
                            /\ dgrm[d].onRecv = (\E q \in Port : d \in recvQ[q])
        BY <1>6 DEF Flagged
      <3>2. ASSUME NEW d \in Dgrm
            PROVE  /\ g[d].alloc = (d <= gpool.total /\ d \notin gpool.free \ l)
                   /\ g[d].onRecv = (\E q \in Port : d \in recvQ[q]) /\ g[d].onSend = (\E x \in S : x.d = d)
        <4>1. CASE d \in l
          BY <1>6, <2>2, <2>6, <2>8, <3>1, <4>1
        <4>2. CASE d \notin l
          <5>1. (\E x \in S : x.d = d) <=> (\E x \in sendQ : x.d = d)
            BY <2>8, <4>2
          <5>2. g[d].alloc = dgrm[d].alloc /\ g[d].onSend = dgrm[d].onSend /\ g[d].onRecv = dgrm[d].onRecv
            BY <2>6, <4>2
          <5>3. (d \notin gpool.free \ l) <=> (d \notin gpool.free)
            BY <4>2
          <5>4. g[d].alloc = (d <= gpool.total /\ d \notin gpool.free \ l)
            BY <3>1, <5>2, <5>3
          <5>5. g[d].onSend = (\E x \in S : x.d = d)
            BY <3>1, <5>1, <5>2
          <5> QED BY <3>1, <5>2, <5>4, <5>5
        <4> QED BY <4>1, <4>2
      <3> QED BY <3>2 DEF Flagged
    <2>11. /\ Split(gpool'.free, recvQ, Lists, sendQ', held, gpool'.total)
           /\ Flagged(dgrm', gpool'.free, recvQ, sendQ', gpool'.total)
           /\ dgrm' \in [Dgrm -> Flags] /\ sendQ' \subseteq [port : Port, d : Dgrm] /\ t.list = gsa[th].list
      BY <1>1, <1>4, <2>3, <2>4, <2>5, <2>7, <2>9, <2>10
    <2> QED BY <1>3, <1>4, <1>5, <2>4, <2>11, SendStep
  <1> QED BY <1>9, <1>10

LEMMA SentInv ==
    ASSUME QueueInv, NEW th \in Thread, NEW p \in Port, p = Of[th], Working(th), SendInvalidCompletion(th) PROVE QueueInv'
  <1>1. PICK t \in GsaThread : t = gsa[th] /\ [gsa EXCEPT ![th] = t] = gsa
    BY PortFacts
  <1>2. PortOK(th, t, qp1[p], posted[p], recvQ[p], short[p])
    BY <1>1, PortFacts
  <1>3. UNCHANGED <<qp1, posted, recvQ, short, held, gsa>>
    BY DEF SendInvalidCompletion, portVars
  <1>4. PICK x \in sendQ : /\ sendQ' = sendQ \ {x} /\ gpool' = DgrmPoolPut({x.d})
                           /\ dgrm' = [dgrm EXCEPT ![x.d].alloc = FALSE, ![x.d].onSend = FALSE]
    BY DEF SendInvalidCompletion
  <1>6. /\ PoolTypes /\ Lists \in [Thread -> SUBSET Dgrm] /\ recvQ \in [Port -> SUBSET Dgrm]
        /\ Split(gpool.free, recvQ, Lists, sendQ, held, gpool.total)
        /\ Flagged(dgrm, gpool.free, recvQ, sendQ, gpool.total)
    BY QueueFacts
  <1>7. gpool.total \in Nat
    BY PoolFacts
  <1>8. dgrm \in [Dgrm -> Flags] /\ sendQ \subseteq [port : Port, d : Dgrm]
    BY <1>6 DEF PoolTypes
  <1>9. PICK e \in Dgrm : e = x.d
    BY <1>8
  <1>10. /\ e \notin gpool.free /\ {e} \cap gpool.free = {} /\ {e} \subseteq Dgrm
         /\ \A y \in sendQ : y.d = e => y = x
    BY <1>6, <1>9 DEF Split, Apart
  <1>11. /\ gpool' \in GsaPool /\ gpool'.free = gpool.free \cup {e} /\ gpool'.total = gpool.total
         /\ gpool'.elements = Cardinality(gpool'.free)
    BY <1>4, <1>9, <1>10, PoolPut
  <1>12. Split(gpool.free \cup {x.d}, recvQ, Lists, sendQ \ {x}, held, gpool.total)
    BY <1>6, <1>7, <1>9, SendToPool
  <1>13. PICK f \in Flags : f = dgrm[e]
    BY <1>8
  <1>14. PICK k : k = [f EXCEPT !.alloc = FALSE, !.onSend = FALSE]
    OBVIOUS
  <1>15. k \in Flags /\ k.alloc = FALSE /\ k.onSend = FALSE /\ k.onRecv = f.onRecv
    BY <1>14 DEF Flags
  <1>16. dgrm' = [dgrm EXCEPT ![e] = k]
    BY <1>4, <1>8, <1>9, <1>13, <1>14
  <1>17. dgrm' \in [Dgrm -> Flags] /\ dgrm'[e] = k /\ \A d \in Dgrm \ {e} : dgrm'[d] = dgrm[d]
    BY <1>8, <1>15, <1>16
  <1>18. Flagged(dgrm', gpool.free \cup {e}, recvQ, sendQ \ {x}, gpool.total)
    <2>1. \A d \in Dgrm : /\ dgrm[d].alloc = (d <= gpool.total /\ d \notin gpool.free) /\ dgrm[d].onSend = (\E y \in sendQ : y.d = d)
                          /\ dgrm[d].onRecv = (\E q \in Port : d \in recvQ[q])
      BY <1>6 DEF Flagged
    <2>2. \A d \in Dgrm : (\E y \in sendQ \ {x} : y.d = d) <=> (\E y \in sendQ : y.d = d) /\ d # e
      BY <1>9, <1>10
    <2>3. ASSUME NEW d \in Dgrm
          PROVE  /\ dgrm'[d].alloc = (d <= gpool.total /\ d \notin gpool.free \cup {e})
                 /\ dgrm'[d].onRecv = (\E q \in Port : d \in recvQ[q]) /\ dgrm'[d].onSend = (\E y \in sendQ \ {x} : y.d = d)
      <3>1. CASE d = e
        BY <1>13, <1>15, <1>17, <2>1, <2>2, <3>1
      <3>2. CASE d # e
        <4>1. (\E y \in sendQ \ {x} : y.d = d) <=> (\E y \in sendQ : y.d = d)
          BY <2>2, <3>2
        <4>2. dgrm'[d] = dgrm[d]
          BY <1>17, <3>2
        <4>3. (d \notin gpool.free \cup {e}) <=> (d \notin gpool.free)
          BY <3>2
        <4>4. dgrm'[d].alloc = (d <= gpool.total /\ d \notin gpool.free \cup {e})
          BY <2>1, <4>2, <4>3
        <4>5. dgrm'[d].onSend = (\E y \in sendQ \ {x} : y.d = d)
          BY <2>1, <4>1, <4>2
        <4>6. dgrm'[d].onRecv = (\E q \in Port : d \in recvQ[q])
          <5>1. dgrm[d].onRecv = (\E q \in Port : d \in recvQ[q])
            BY <2>1, Zenon
          <5> QED BY <4>2, <5>1, Zenon
        <4> QED BY <4>4, <4>5, <4>6, ZenonT(30)
      <3> QED BY <3>1, <3>2
    <2> QED BY <2>3 DEF Flagged
  <1>19. /\ Split(gpool'.free, recvQ, Lists, sendQ', held, gpool'.total)
         /\ Flagged(dgrm', gpool'.free, recvQ, sendQ', gpool'.total)
         /\ sendQ' \subseteq [port : Port, d : Dgrm] /\ t.list = gsa[th].list /\ gsa' = [gsa EXCEPT ![th] = t]
    BY <1>1, <1>3, <1>4, <1>8, <1>9, <1>11, <1>12, <1>18
  <1> QED BY <1>2, <1>3, <1>11, <1>17, <1>19, SendStep

(* Steps of the classes do not touch the queues.                           *)
LEMMA QueueKept ==
    ASSUME QueueInv, UNCHANGED <<gpool, dgrm, qp1, posted, recvQ, short, sendQ, held, gsa>> PROVE QueueInv'
  <1>1. Lists' = Lists
    BY DEF Lists
  <1> QED BY <1>1 DEF QueueInv, PoolTypes

LEMMA QueueInit == ASSUME GsaInit PROVE QueueInv
  <1>0. /\ gpool = [free |-> {}, elements |-> 0, total |-> 0, grow |-> 0]
        /\ dgrm = [d \in Dgrm |-> [alloc |-> FALSE, onRecv |-> FALSE, onSend |-> FALSE]]
        /\ qp1 = [p \in Port |-> "absent"] /\ posted = [p \in Port |-> 0]
        /\ recvQ = [p \in Port |-> {}] /\ sendQ = {} /\ held = {}
        /\ gsa = [w \in Thread |-> Resting] /\ short = [p \in Port |-> 0]
    BY DEF GsaInit
  <1>1. gpool \in GsaPool /\ gpool.free = {} /\ gpool.elements = 0 /\ gpool.total = 0
    BY <1>0, GsaAssumption DEF GsaPool
  <1>2. gsa \in [Thread -> GsaThread] /\ \A w \in Thread : gsa[w] = Resting
    BY <1>0, RestingFields
  <1>3. [alloc |-> FALSE, onRecv |-> FALSE, onSend |-> FALSE] \in Flags
    BY DEF Flags
  <1>4. PoolTypes
    BY <1>0, <1>1, <1>2, <1>3 DEF PoolTypes
  <1>5. (\A w \in Thread : Lists[w] = {}) /\ \A p \in Port : recvQ[p] = {}
    BY <1>0, <1>2, RestingFields DEF Lists
  <1>6. \A d \in Dgrm : ~ (d <= 0)
    BY GsaAssumption DEF Dgrm
  <1>7. Split(gpool.free, recvQ, Lists, sendQ, held, gpool.total)
    BY <1>0, <1>1, <1>5, <1>6 DEF Split, Apart, Owns
  <1>8. Flagged(dgrm, gpool.free, recvQ, sendQ, gpool.total)
    <2>1. ASSUME NEW d \in Dgrm PROVE dgrm[d].alloc = FALSE /\ dgrm[d].onRecv = FALSE /\ dgrm[d].onSend = FALSE
      BY <1>0
    <2>2. ASSUME NEW d \in Dgrm
          PROVE  ~ (d <= gpool.total /\ d \notin gpool.free) /\ ~ (\E p \in Port : d \in recvQ[p]) /\ ~ (\E x \in sendQ : x.d = d)
      BY <1>0, <1>1, <1>5, <1>6
    <2> QED BY <2>1, <2>2 DEF Flagged
  <1>9. ASSUME NEW w \in Thread PROVE PortOK(w, gsa[w], qp1[Of[w]], posted[Of[w]], recvQ[Of[w]], short[Of[w]])
    <2>1. gsa[w] = Resting /\ qp1[Of[w]] = "absent"
      BY <1>0, <1>2, GsaAssumption
    <2> QED BY <2>1, RestingFields DEF PortOK
  <1>10. gpool.elements = Cardinality(gpool.free)
    BY <1>1, FS_EmptySet
  <1>11. \A p \in Port : recvQ[p] = {} /\ posted[p] = 0
    BY <1>0
  <1> QED BY <1>4, <1>7, <1>8, <1>9, <1>10, <1>11 DEF QueueInv

-----------------------------------------------------------------------------
(* The registrations *)

(* QListInsertHead, and QListRemoveItem of entry k.                        *)
LEMMA InsertHead ==
    ASSUME NEW S, NEW q \in Seq(S), NEW h \in S, NEW t, t = <<h>> \o q
    PROVE  /\ t \in Seq(S) /\ DOMAIN t = 1..(Len(q) + 1) /\ t[1] = h
           /\ \A i \in 1..Len(q) : t[i + 1] = q[i]
           /\ \A i \in DOMAIN t : i # 1 => i - 1 \in DOMAIN q /\ t[i] = q[i - 1]
  <1>1. PICK n \in Nat : n = Len(q) /\ DOMAIN q = 1..n
    OBVIOUS
  <1>2. <<h>> \in Seq(S) /\ Len(<<h>>) = 1 /\ <<h>>[1] = h
    OBVIOUS
  <1>3. PICK o \in Seq(S) : o = <<h>> /\ Len(o) = 1 /\ o[1] = h
    BY <1>2
  <1>4. /\ t \in Seq(S) /\ Len(t) = Len(o) + Len(q)
        /\ \A i \in 1..(Len(o) + Len(q)) : t[i] = IF i <= Len(o) THEN o[i] ELSE q[i - Len(o)]
    BY <1>3, ConcatProperties
  <1>5. Len(t) = n + 1 /\ \A i \in 1..(n + 1) : t[i] = IF i <= 1 THEN o[i] ELSE q[i - 1]
    BY <1>1, <1>3, <1>4
  <1>6. DOMAIN t = 1..(n + 1)
    BY <1>4, <1>5
  <1>7. t[1] = h
    BY <1>3, <1>5
  <1>8. ASSUME NEW i \in 1..n PROVE t[i + 1] = q[i]
    <2>1. i + 1 \in 1..(n + 1) /\ ~ (i + 1 <= 1) /\ (i + 1) - 1 = i
      OBVIOUS
    <2> QED BY <1>5, <2>1
  <1>9. ASSUME NEW i \in 1..(n + 1), i # 1 PROVE i - 1 \in 1..n /\ t[i] = q[i - 1]
    <2>1. i - 1 \in 1..n /\ ~ (i <= 1)
      BY <1>9
    <2> QED BY <1>5, <2>1
  <1> QED BY <1>1, <1>4, <1>6, <1>7, <1>8, <1>9

(* t is the list q of items of S without entry k.                          *)
Removed(t, q, k, S) ==
    /\ t \in Seq(S) /\ DOMAIN t = 1..(Len(q) - 1)
    /\ \A i \in 1..(Len(q) - 1) : t[i] = IF i < k THEN q[i] ELSE q[i + 1]

LEMMA RemoveItem ==
    ASSUME NEW S, NEW q \in Seq(S), NEW k \in DOMAIN q PROVE Removed(RemoveAt(q, k), q, k, S)
  <1> DEFINE t == RemoveAt(q, k)
  <1>1. PICK n \in Nat : n = Len(q) /\ DOMAIN q = 1..n /\ k \in 1..n
    OBVIOUS
  <1> DEFINE a == SubSeq(q, 1, k - 1)
             b == SubSeq(q, k + 1, n)
  <1>2. a \in Seq(S) /\ Len(a) = k - 1 /\ \A i \in 1..(k - 1) : a[i] = q[i]
    <2>1. \A i \in 1..(k - 1) : q[i] \in S
      BY <1>1
    <2>2. /\ a \in Seq(S) /\ Len(a) = IF 1 <= k - 1 THEN (k - 1) - 1 + 1 ELSE 0
          /\ \A i \in 1..((k - 1) - 1 + 1) : a[i] = q[1 + i - 1]
      BY <1>1, <2>1, SubSeqProperties
    <2> HIDE DEF a
    <2> QED BY <1>1, <2>2
  <1>3. b \in Seq(S) /\ Len(b) = n - k /\ \A i \in 1..(n - k) : b[i] = q[k + i]
    <2>1. \A i \in (k + 1)..n : q[i] \in S
      BY <1>1
    <2>2. /\ b \in Seq(S) /\ Len(b) = IF k + 1 <= n THEN n - (k + 1) + 1 ELSE 0
          /\ \A i \in 1..(n - (k + 1) + 1) : b[i] = q[(k + 1) + i - 1]
      BY <1>1, <2>1, SubSeqProperties
    <2> HIDE DEF b
    <2>3. Len(b) = n - k
      BY <1>1, <2>2
    <2>4. ASSUME NEW i \in 1..(n - k) PROVE b[i] = q[k + i]
      <3>1. i \in 1..(n - (k + 1) + 1) /\ (k + 1) + i - 1 = k + i
        BY <1>1
      <3>2. b[i] = q[(k + 1) + i - 1]
        BY <2>2, <3>1
      <3> QED BY <3>1, <3>2
    <2> QED BY <2>2, <2>3, <2>4
  <1>4. t = a \o b
    BY <1>1 DEF RemoveAt, t
  <1> HIDE DEF a, b, t
  <1>5. /\ t \in Seq(S) /\ Len(t) = Len(a) + Len(b)
        /\ \A i \in 1..(Len(a) + Len(b)) : t[i] = IF i <= Len(a) THEN a[i] ELSE b[i - Len(a)]
    BY <1>2, <1>3, <1>4, ConcatProperties
  <1>6. Len(a) + Len(b) = n - 1
    <2>1. (k - 1) + (n - k) = n - 1
      BY <1>1
    <2> QED BY <1>2, <1>3, <2>1
  <1>7. DOMAIN t = 1..(n - 1)
    BY <1>5, <1>6
  <1>8. ASSUME NEW i \in 1..(n - 1), i < k PROVE t[i] = q[i]
    BY <1>1, <1>2, <1>5, <1>6, <1>8
  <1>9. ASSUME NEW i \in 1..(n - 1), ~ (i < k) PROVE t[i] = q[i + 1]
    <2>1. t[i] = b[i - (k - 1)]
      BY <1>1, <1>2, <1>5, <1>6, <1>9
    <2>2. i - (k - 1) \in 1..(n - k) /\ k + (i - (k - 1)) = i + 1
      BY <1>1, <1>9
    <2> QED BY <1>3, <2>1, <2>2
  <1>10. Removed(t, q, k, S)
    BY <1>1, <1>5, <1>7, <1>8, <1>9 DEF Removed
  <1> QED BY <1>10 DEF t

LEMMA ClassInit == ASSUME GsaInit PROVE ClassInv
  <1>1. cls = [h \in Handle |-> "none"] /\ classList = << >> /\ cid = [h \in Handle |-> 0] /\ capMask = {}
    BY DEF GsaInit
  <1>2. << >> \in Seq(Handle) /\ DOMAIN << >> = {}
    OBVIOUS
  <1>3. classList \in Seq(Handle) /\ DOMAIN classList = {}
    BY <1>1, <1>2
  <1>4. cls \in [Handle -> ClassState] /\ cid \in [Handle -> 0..MaxClientId]
    BY <1>1, GsaAssumption DEF ClassState
  <1>5. \A h \in Handle : cls[h] = "none"
    BY <1>1
  <1> QED BY <1>1, <1>3, <1>4, <1>5 DEF ClassInv, ClassTypes, Listed

LEMMA RegisterInv ==
    ASSUME ClassInv, NEW h \in Handle, iba_gsi_register_class(h) PROVE ClassInv'
  <1>1. PICK i \in GetClientId : /\ cid' = [cid EXCEPT ![h] = i] /\ classList' = <<h>> \o classList
                                 /\ cls' = [cls EXCEPT ![h] = IF Reg[h].responder THEN "setMask" ELSE "on"]
    BY DEF iba_gsi_register_class
  <1>2. cls[h] = "none" /\ capMask' = capMask
    BY DEF iba_gsi_register_class
  <1>3. i \in 0..MaxClientId /\ \A g \in Handle : cls[g] \in {"setMask", "on"} => cid[g] # i
    <2>1. i \in 0..(MaxClientId - 1) /\ i \notin ClientIdArray
      BY DEF GetClientId
    <2>2. i \in 0..MaxClientId
      BY <2>1, GsaAssumption
    <2> QED BY <2>1, <2>2 DEF ClientIdArray
  <1>4. classList \in Seq(Handle) /\ cls \in [Handle -> ClassState] /\ cid \in [Handle -> 0..MaxClientId]
    BY DEF ClassInv, ClassTypes
  <1>5. PICK s \in {"setMask", "on"} : s = (IF Reg[h].responder THEN "setMask" ELSE "on")
    OBVIOUS
  <1>6. /\ cls' \in [Handle -> ClassState] /\ cid' \in [Handle -> 0..MaxClientId]
        /\ cls'[h] = s /\ cid'[h] = i /\ \A g \in Handle \ {h} : cls'[g] = cls[g] /\ cid'[g] = cid[g]
    BY <1>1, <1>3, <1>4, <1>5 DEF ClassState
  <1>7. /\ classList' \in Seq(Handle) /\ DOMAIN classList' = 1..(Len(classList) + 1) /\ classList'[1] = h
        /\ \A j \in 1..Len(classList) : classList'[j + 1] = classList[j]
        /\ \A j \in DOMAIN classList' : j # 1 => j - 1 \in DOMAIN classList /\ classList'[j] = classList[j - 1]
    BY <1>1, <1>4, InsertHead
  <1>8. PICK n \in Nat : n = Len(classList) /\ DOMAIN classList = 1..n
    BY <1>4
  <1>9. \A j \in DOMAIN classList : classList[j] # h
    BY <1>2 DEF ClassInv, Listed
  <1>10. ASSUME NEW a \in DOMAIN classList', NEW b \in DOMAIN classList', classList'[a] = classList'[b] PROVE a = b
    <2>1. a \in 1..(n + 1) /\ b \in 1..(n + 1)
      BY <1>7, <1>8
    <2>2. CASE a = 1 \/ b = 1
      BY <1>7, <1>9, <1>10, <2>2
    <2>3. CASE a # 1 /\ b # 1
      <3>1. a - 1 \in DOMAIN classList /\ b - 1 \in DOMAIN classList /\ classList[a - 1] = classList[b - 1]
        BY <1>7, <1>10, <2>3
      <3>2. a - 1 = b - 1
        BY <3>1 DEF ClassInv
      <3> QED BY <2>1, <3>2
    <2> QED BY <2>2, <2>3
  <1>11. ASSUME NEW g \in Handle PROVE (\E j \in DOMAIN classList' : classList'[j] = g) <=> cls'[g] \in {"setMask", "on"}
    <2>1. CASE g = h
      <3>1. 1 \in DOMAIN classList'
        BY <1>7, <1>8
      <3> QED BY <1>6, <1>7, <2>1, <3>1
    <2>2. CASE g # h
      <3>1. ASSUME NEW j \in DOMAIN classList, classList[j] = g PROVE \E k \in DOMAIN classList' : classList'[k] = g
        <4>1. j \in 1..n /\ j + 1 \in 1..(n + 1)
          BY <1>8
        <4>2. j + 1 \in DOMAIN classList' /\ classList'[j + 1] = g
          BY <1>7, <1>8, <3>1, <4>1
        <4> QED BY <4>2
      <3>2. ASSUME NEW j \in DOMAIN classList', classList'[j] = g PROVE \E k \in DOMAIN classList : classList[k] = g
        <4>1. j # 1
          BY <1>7, <2>2, <3>2
        <4>2. j - 1 \in DOMAIN classList /\ classList[j - 1] = g
          BY <1>7, <3>2, <4>1
        <4> QED BY <4>2
      <3>3. (\E j \in DOMAIN classList : classList[j] = g) <=> cls[g] \in {"setMask", "on"}
        BY DEF ClassInv, Listed
      <3> QED BY <1>6, <2>2, <3>1, <3>2, <3>3
    <2> QED BY <2>1, <2>2
  <1>12. \A g \in Handle : cls'[g] \in {"setMask", "looking", "clearMask"} => Reg[g].responder
    BY <1>5, <1>6 DEF ClassInv
  <1>13. \A f, g \in Handle : cls'[f] \in {"setMask", "on"} /\ cls'[g] \in {"setMask", "on"} /\ cid'[f] = cid'[g] => f = g
    BY <1>3, <1>6 DEF ClassInv
  <1>14. \A c \in capMask' : \E g \in Handle : Reg[g].responder /\ Reg[g].class = c /\ cls'[g] # "none"
    BY <1>2, <1>6 DEF ClassInv
  <1> QED BY <1>6, <1>7, <1>10, <1>11, <1>12, <1>13, <1>14 DEF ClassInv, ClassTypes, Listed

LEMMA DeregisterInv ==
    ASSUME ClassInv, NEW h \in Handle, iba_gsi_deregister_class(h) PROVE ClassInv'
  <1>1. PICK k \in DOMAIN classList : classList[k] = h /\ classList' = RemoveAt(classList, k)
    BY DEF iba_gsi_deregister_class
  <1>2. PICK s \in {"looking", "none"} : s = (IF Reg[h].responder THEN "looking" ELSE "none")
    OBVIOUS
  <1>3. cls[h] = "on" /\ cls' = [cls EXCEPT ![h] = s] /\ cid' = [cid EXCEPT ![h] = 0] /\ capMask' = capMask
    BY <1>2 DEF iba_gsi_deregister_class
  <1>4. classList \in Seq(Handle) /\ cls \in [Handle -> ClassState] /\ cid \in [Handle -> 0..MaxClientId]
    BY DEF ClassInv, ClassTypes
  <1>5. /\ cls' \in [Handle -> ClassState] /\ cid' \in [Handle -> 0..MaxClientId]
        /\ cls'[h] = s /\ \A g \in Handle \ {h} : cls'[g] = cls[g] /\ cid'[g] = cid[g]
    BY <1>3, <1>4, GsaAssumption DEF ClassState
  <1>6. PICK n \in Nat : n = Len(classList) /\ DOMAIN classList = 1..n /\ k \in 1..n
    BY <1>4
  <1>7. /\ classList' \in Seq(Handle) /\ DOMAIN classList' = 1..(n - 1)
        /\ \A i \in 1..(n - 1) : classList'[i] = IF i < k THEN classList[i] ELSE classList[i + 1]
    <2>1. PICK q \in Seq(Handle) : q = classList
      BY <1>4
    <2>2. PICK t : t = RemoveAt(q, k) /\ t = classList' /\ k \in DOMAIN q
      BY <1>1, <2>1
    <2>3. t = RemoveAt(q, k) /\ k \in DOMAIN q
      BY <2>2
    <2>4. Removed(t, q, k, Handle)
      BY <2>3, RemoveItem
    <2> QED BY <1>6, <2>1, <2>2, <2>4 DEF Removed
  <1>8. \A i, j \in 1..n : classList[i] = classList[j] => i = j
    BY <1>6 DEF ClassInv
  <1>9. \A i, j \in 1..(n - 1) : classList'[i] = classList'[j] => i = j
    <2> SUFFICES ASSUME NEW i \in 1..(n - 1), NEW j \in 1..(n - 1), classList'[i] = classList'[j] PROVE i = j
      OBVIOUS
    <2>1. PICK x \in 1..n : x = (IF i < k THEN i ELSE i + 1) /\ classList'[i] = classList[x]
      BY <1>6, <1>7
    <2>2. PICK y \in 1..n : y = (IF j < k THEN j ELSE j + 1) /\ classList'[j] = classList[y]
      BY <1>6, <1>7
    <2>3. x = y
      BY <1>8, <2>1, <2>2
    <2> QED BY <1>6, <2>1, <2>2, <2>3
  <1>10. ASSUME NEW g \in Handle PROVE (\E j \in DOMAIN classList' : classList'[j] = g) <=> cls'[g] \in {"setMask", "on"}
    <2>1. CASE g = h
      <3>1. ASSUME NEW j \in 1..(n - 1) PROVE classList'[j] # h
        <4>1. PICK x \in 1..n : x = (IF j < k THEN j ELSE j + 1) /\ classList'[j] = classList[x]
          BY <1>6, <1>7
        <4>2. x # k
          BY <1>6, <4>1
        <4> QED BY <1>1, <1>6, <1>8, <4>1, <4>2
      <3> QED BY <1>2, <1>5, <1>7, <2>1, <3>1
    <2>2. CASE g # h
      <3>1. ASSUME NEW j \in 1..n, classList[j] = g PROVE \E i \in 1..(n - 1) : classList'[i] = g
        <4>1. j # k
          BY <1>1, <2>2, <3>1
        <4>2. CASE j < k
          <5>1. j \in 1..(n - 1) /\ classList'[j] = g
            BY <1>6, <1>7, <3>1, <4>2
          <5> QED BY <5>1
        <4>3. CASE ~ (j < k)
          <5>1. PICK i \in 1..(n - 1) : i = j - 1 /\ ~ (i < k) /\ i + 1 = j
            BY <1>6, <4>1, <4>3
          <5>2. classList'[i] = g
            BY <1>7, <3>1, <5>1
          <5> QED BY <5>2
        <4> QED BY <4>2, <4>3
      <3>2. ASSUME NEW j \in 1..(n - 1), classList'[j] = g PROVE \E i \in 1..n : classList[i] = g
        <4>1. PICK x \in 1..n : classList'[j] = classList[x]
          BY <1>6, <1>7
        <4> QED BY <3>2, <4>1
      <3>3. (\E j \in DOMAIN classList : classList[j] = g) <=> cls[g] \in {"setMask", "on"}
        BY DEF ClassInv, Listed
      <3> QED BY <1>5, <1>6, <1>7, <2>2, <3>1, <3>2, <3>3
    <2> QED BY <2>1, <2>2
  <1>11. \A g \in Handle : cls'[g] \in {"setMask", "looking", "clearMask"} => Reg[g].responder
    BY <1>2, <1>5 DEF ClassInv
  <1>12. \A f, g \in Handle : cls'[f] \in {"setMask", "on"} /\ cls'[g] \in {"setMask", "on"} /\ cid'[f] = cid'[g] => f = g
    BY <1>5 DEF ClassInv
  <1>13. \A c \in capMask' : \E g \in Handle : Reg[g].responder /\ Reg[g].class = c /\ cls'[g] # "none"
    BY <1>2, <1>3, <1>5 DEF ClassInv
  <1> QED BY <1>5, <1>7, <1>9, <1>10, <1>11, <1>12, <1>13 DEF ClassInv, ClassTypes, Listed

(* The mask is set or cleared; another manager is looked for.              *)
LEMMA MaskInv ==
    ASSUME ClassInv, NEW h \in Handle, SetPortCapabilityMask(h) \/ LookForClassMgr(h) PROVE ClassInv'
  <1>1. classList \in Seq(Handle) /\ cls \in [Handle -> ClassState] /\ cid \in [Handle -> 0..MaxClientId]
        /\ UNCHANGED <<classList, cid>>
    BY DEF ClassInv, ClassTypes, SetPortCapabilityMask, LookForClassMgr
  <1>2. ASSUME NEW s \in ClassState, cls' = [cls EXCEPT ![h] = s], s \in {"setMask", "on"} <=> cls[h] \in {"setMask", "on"},
               s \in {"setMask", "looking", "clearMask"} => Reg[h].responder,
               \A c \in capMask' : \E g \in Handle : Reg[g].responder /\ Reg[g].class = c /\ cls'[g] # "none"
        PROVE  ClassInv'
    <2>1. cls' \in [Handle -> ClassState] /\ cls'[h] = s /\ \A g \in Handle \ {h} : cls'[g] = cls[g]
      BY <1>1, <1>2
    <2>2. \A g \in Handle : cls'[g] \in {"setMask", "on"} <=> cls[g] \in {"setMask", "on"}
      BY <1>2, <2>1
    <2>3. \A g \in Handle : (\E j \in DOMAIN classList : classList[j] = g) <=> cls'[g] \in {"setMask", "on"}
      BY <2>2 DEF ClassInv, Listed
    <2>4. \A f, g \in Handle : cls'[f] \in {"setMask", "on"} /\ cls'[g] \in {"setMask", "on"} /\ cid[f] = cid[g] => f = g
      BY <2>2 DEF ClassInv
    <2>5. \A g \in Handle : cls'[g] \in {"setMask", "looking", "clearMask"} => Reg[g].responder
      BY <1>2, <2>1 DEF ClassInv
    <2>6. \A i, j \in DOMAIN classList : classList[i] = classList[j] => i = j
      BY DEF ClassInv
    <2> QED BY <1>1, <1>2, <2>1, <2>3, <2>4, <2>5, <2>6 DEF ClassInv, ClassTypes, Listed
  <1>3. CASE cls[h] = "setMask" /\ capMask' = capMask \cup {Reg[h].class} /\ cls' = [cls EXCEPT ![h] = "on"]
    <2>1. cls'[h] = "on" /\ \A g \in Handle \ {h} : cls'[g] = cls[g]
      BY <1>1, <1>3
    <2>2. \A c \in capMask' : \E g \in Handle : Reg[g].responder /\ Reg[g].class = c /\ cls'[g] # "none"
      BY <1>3, <2>1 DEF ClassInv
    <2> QED BY <1>2, <1>3, <2>2 DEF ClassState
  <1>4. CASE cls[h] = "clearMask" /\ capMask' = capMask \ {Reg[h].class} /\ cls' = [cls EXCEPT ![h] = "none"]
    <2>1. \A g \in Handle \ {h} : cls'[g] = cls[g]
      BY <1>1, <1>4
    <2>2. \A c \in capMask' : \E g \in Handle : Reg[g].responder /\ Reg[g].class = c /\ cls'[g] # "none"
      BY <1>4, <2>1 DEF ClassInv
    <2> QED BY <1>2, <1>4, <2>2 DEF ClassState
  <1>5. CASE LookForClassMgr(h)
    <2>1. cls[h] = "looking" /\ capMask' = capMask
          /\ cls' = [cls EXCEPT ![h] = IF FindMatchingClassMgr(Reg[h].class) THEN "none" ELSE "clearMask"]
      BY <1>5 DEF LookForClassMgr
    <2>2. CASE FindMatchingClassMgr(Reg[h].class)
      <3>1. cls' = [cls EXCEPT ![h] = "none"] /\ \A g \in Handle \ {h} : cls'[g] = cls[g]
        BY <1>1, <2>1, <2>2
      <3>2. PICK i \in DOMAIN classList : Reg[classList[i]].responder /\ Reg[classList[i]].class = Reg[h].class
        BY <2>2 DEF FindMatchingClassMgr
      <3>3. PICK m \in Handle : m = classList[i]
        BY <1>1
      <3>4. cls[m] \in {"setMask", "on"}
        BY <3>3 DEF ClassInv, Listed
      <3>5. m # h /\ cls'[m] # "none"
        BY <2>1, <3>1, <3>4
      <3>6. \A c \in capMask' : \E g \in Handle : Reg[g].responder /\ Reg[g].class = c /\ cls'[g] # "none"
        BY <2>1, <3>1, <3>2, <3>3, <3>5 DEF ClassInv
      <3> QED BY <1>2, <2>1, <3>1, <3>6 DEF ClassState
    <2>3. CASE ~ FindMatchingClassMgr(Reg[h].class)
      <3>1. cls' = [cls EXCEPT ![h] = "clearMask"]
        BY <2>1, <2>3
      <3>2. cls'[h] = "clearMask" /\ \A g \in Handle \ {h} : cls'[g] = cls[g]
        BY <1>1, <3>1
      <3>3. \A c \in capMask' : \E g \in Handle : Reg[g].responder /\ Reg[g].class = c /\ cls'[g] # "none"
        BY <2>1, <3>2 DEF ClassInv
      <3>4. Reg[h].responder
        BY <2>1 DEF ClassInv
      <3> QED BY <1>2, <2>1, <3>1, <3>3, <3>4 DEF ClassState
    <2> QED BY <2>2, <2>3
  <1> QED BY <1>3, <1>4, <1>5 DEF SetPortCapabilityMask

LEMMA ClassKept == ASSUME ClassInv, UNCHANGED classVars PROVE ClassInv'
  BY DEF ClassInv, ClassTypes, Listed, classVars

LEMMA ClassesFromInv == ASSUME ClassInv PROVE ClassesKept
  <1>1. classList \in Seq(Handle) /\ \A i \in DOMAIN classList : classList[i] \in Handle
    BY DEF ClassInv, ClassTypes
  <1>2. ASSUME NEW i \in DOMAIN classList, NEW j \in DOMAIN classList, i # j PROVE cid[classList[i]] # cid[classList[j]]
    <2>1. PICK g \in Handle : g = classList[i]
      BY <1>1
    <2>2. PICK h \in Handle : h = classList[j]
      BY <1>1
    <2>3. g # h
      BY <1>2, <2>1, <2>2 DEF ClassInv
    <2>4. cls[g] \in {"setMask", "on"} /\ cls[h] \in {"setMask", "on"}
      BY <2>1, <2>2 DEF ClassInv, Listed
    <2> QED BY <2>1, <2>2, <2>3, <2>4 DEF ClassInv
  <1>3. NoStaleCapability
    <2> SUFFICES ASSUME \A h \in Handle : cls[h] \in {"none", "on"}, NEW c \in capMask
                 PROVE  \E i \in {j \in DOMAIN classList : Reg[classList[j]].responder} : Reg[classList[i]].class = c
      BY DEF NoStaleCapability
    <2>1. PICK h \in Handle : Reg[h].responder /\ Reg[h].class = c /\ cls[h] # "none"
      BY DEF ClassInv
    <2>2. PICK i \in DOMAIN classList : classList[i] = h
      BY <2>1 DEF ClassInv, Listed
    <2> QED BY <2>1, <2>2
  <1> QED BY <1>2, <1>3 DEF ClassesKept, ClientIdsDiffer

-----------------------------------------------------------------------------
(* What the invariants say of the properties *)

LEMMA AtMostOne ==
    ASSUME NEW X, \A x, y \in X : x = y PROVE Cardinality(X) = IF X = {} THEN 0 ELSE 1
  <1>1. CASE X = {}
    BY <1>1, FS_EmptySet
  <1>2. CASE X # {}
    <2>1. PICK x \in X : X = {x}
      BY <1>2
    <2> QED BY <1>2, <2>1, FS_Singleton
  <1> QED BY <1>1, <1>2

(* A datagram that was made has one owner, another none.                   *)
LEMMA OneHolder ==
    ASSUME QueueInv, NEW d \in Dgrm PROVE Holders(d) = IF d <= gpool.total THEN 1 ELSE 0
  <1>1. /\ Split(gpool.free, recvQ, Lists, sendQ, held, gpool.total) /\ \A w \in Thread : Lists[w] = gsa[w].list
    BY QueueFacts
  <1> DEFINE A == {d} \cap gpool.free
             B == {p \in Port : d \in recvQ[p]}
             C == {w \in Thread : d \in gsa[w].list}
             E == {x \in sendQ : x.d = d}
             G == {d} \cap held
  <1>2. C = {w \in Thread : d \in Lists[w]}
    BY <1>1
  <1>3. /\ \A x, y \in A : x = y
        /\ \A x, y \in G : x = y
    OBVIOUS
  <1>4. /\ \A x, y \in B : x = y
        /\ \A x, y \in C : x = y
        /\ \A x, y \in E : x = y
    BY <1>1, <1>2 DEF Split, Apart
  <1>5. /\ A # {} => B = {} /\ C = {} /\ E = {} /\ G = {}
        /\ B # {} => A = {} /\ C = {} /\ E = {} /\ G = {}
        /\ C # {} => A = {} /\ B = {} /\ E = {} /\ G = {}
        /\ E # {} => A = {} /\ B = {} /\ C = {} /\ G = {}
        /\ G # {} => A = {} /\ B = {} /\ C = {} /\ E = {}
    <2>1. /\ gpool.free \cap held = {}
          /\ \A p \in Port : recvQ[p] \cap gpool.free = {} /\ recvQ[p] \cap held = {}
          /\ \A w \in Thread : Lists[w] \cap gpool.free = {} /\ Lists[w] \cap held = {}
          /\ \A p \in Port, w \in Thread : recvQ[p] \cap Lists[w] = {}
      BY <1>1, Zenon DEF Split, Apart
    <2>2. \A x \in sendQ : /\ x.d \notin gpool.free /\ x.d \notin held
                           /\ \A p \in Port : x.d \notin recvQ[p]
                           /\ \A w \in Thread : x.d \notin Lists[w]
      BY <1>1, Zenon DEF Split, Apart
    <2>3. A # {} => B = {} /\ C = {} /\ G = {}
      BY <1>2, <2>1
    <2>4. B # {} => C = {} /\ G = {}
      BY <1>2, <2>1
    <2>5. C # {} => G = {}
      BY <1>2, <2>1
    <2>6. E # {} => A = {} /\ B = {} /\ C = {} /\ G = {}
      BY <1>2, <2>2
    <2> HIDE DEF A, B, C, E, G
    <2> QED BY <2>3, <2>4, <2>5, <2>6
  <1>6. (d <= gpool.total) <=> (A # {} \/ B # {} \/ C # {} \/ E # {} \/ G # {})
    BY <1>1, <1>2 DEF Split, Owns
  <1>7. Holders(d) = Cardinality(A) + Cardinality(B) + Cardinality(C) + Cardinality(E) + Cardinality(G)
    BY DEF Holders
  <1> HIDE DEF A, B, C, E, G
  <1>8. /\ Cardinality(A) = IF A = {} THEN 0 ELSE 1
        /\ Cardinality(B) = IF B = {} THEN 0 ELSE 1
        /\ Cardinality(C) = IF C = {} THEN 0 ELSE 1
        /\ Cardinality(E) = IF E = {} THEN 0 ELSE 1
        /\ Cardinality(G) = IF G = {} THEN 0 ELSE 1
    BY <1>3, <1>4, AtMostOne
  <1> QED BY <1>5, <1>6, <1>7, <1>8

LEMMA QueueFromInv == ASSUME QueueInv, ClassInv PROVE ReceiveQueueKept
  <1>1. PoolTypes /\ ClassTypes
    BY DEF QueueInv, ClassInv
  <1>2. /\ gpool.free \subseteq Dgrm /\ gpool.elements \in Nat /\ gpool.total \in 0..DgrmLimit /\ gpool.grow \in Nat
        /\ gpool.elements = Cardinality(gpool.free)
    BY PoolFacts
  <1>3. \A w \in Thread : gsa[w].list \subseteq Dgrm /\ gsa[w].at \in Handle \cup {NoClass}
    BY <1>1 DEF PoolTypes, GsaThread
  <1>4. GsaTypeOK
    BY <1>1, <1>2, <1>3 DEF GsaTypeOK, PoolTypes, ClassTypes, ClassState
  <1>5. Flagged(dgrm, gpool.free, recvQ, sendQ, gpool.total)
    BY QueueFacts
  <1>6. DgrmOwned
    BY <1>2, <1>5, OneHolder DEF DgrmOwned, Flagged
  <1>7. PortReplenished
    <2> SUFFICES ASSUME NEW w \in Thread \ Remover, qp1[Of[w]] = "NORMAL"
                 PROVE  /\ posted[Of[w]] + Uncounted(w) = Cardinality(recvQ[Of[w]])
                        /\ gsa[w].pc = "idle" => posted[Of[w]] + short[Of[w]] >= MinBuffers
      BY DEF PortReplenished
    <2>1. Filled(gsa[w], posted[Of[w]], recvQ[Of[w]], short[Of[w]]) /\ posted[Of[w]] \in Int
      BY QueueFacts, GsaAssumption DEF PortOK, PoolTypes
    <2> QED BY <2>1 DEF Filled, Uncounted
  <1> QED BY <1>4, <1>6, <1>7 DEF ReceiveQueueKept

-----------------------------------------------------------------------------
(* The theorems *)

LEMMA QueueInductive ==
    ASSUME QueueInv, ClassInv, [GsaNext]_gsaVars PROVE QueueInv'
  <1>1. classList \in Seq(Handle)
    BY DEF ClassInv, ClassTypes
  <1>2. CASE UNCHANGED gsaVars
    BY <1>2, QueueKept DEF gsaVars
  <1>3. CASE GrowPoolSysCallback \/ ClientPuts
    BY <1>3, GrowPoolInv, ClientPutsInv
  <1>4. ASSUME NEW h \in Handle, ClassStep(h) PROVE QueueInv'
    <2>1. UNCHANGED <<gpool, dgrm, qp1, posted, recvQ, short, sendQ, held, gsa>>
      BY <1>4 DEF ClassStep, iba_gsi_register_class, SetPortCapabilityMask, iba_gsi_deregister_class, LookForClassMgr, portVars
    <2> QED BY <2>1, QueueKept
  <1>5. ASSUME NEW th \in Thread, ThreadStep(th) PROVE QueueInv'
    <2>1. PICK p \in Port : p = Of[th]
      BY GsaAssumption
    <2>2. gsa[th].pc # "idle" \/ Polls(th) => Working(th)
      <3>1. PortOK(th, gsa[th], qp1[p], posted[p], recvQ[p], short[p]) /\ qp1[p] \in {"absent", "NORMAL", "DESTROY"}
        BY <2>1, PortFacts
      <3> QED BY <2>1, <3>1 DEF PortOK, Polls, Working
    <2>3. CASE GsaAddDevice(th)
      BY <2>1, <2>3, AddDeviceInv
    <2>4. CASE DgrmPoolAddToGlobalRecvQ(th) \/ PostRecvMsgToPort(th) \/ LookupQp(th)
      BY <2>1, <2>2, <2>4, AddToRecvQInv, PostRecvInv, LookupQpInv
         DEF DgrmPoolAddToGlobalRecvQ, PostRecvMsgToPort, LookupQp
    <2>5. CASE iba_post_recv(th) \/ CountPosted(th)
      BY <2>1, <2>2, <2>5, PostInv, CountInv DEF iba_post_recv, CountPosted
    <2>6. CASE GrowRecvQAsNeeded(th) \/ DgrmPoolGrowAsNeeded(th)
      BY <2>1, <2>2, <2>6, GrowAsNeededInv, GrowScheduleInv DEF GrowRecvQAsNeeded, DgrmPoolGrowAsNeeded
    <2>7. CASE DiscardCompletion(th) \/ SendInvalidCompletion(th)
      BY <2>1, <2>2, <2>7, DiscardInv, SentInv DEF DiscardCompletion, SendInvalidCompletion
    <2>8. ASSUME NEW m \in GsiMad, ReceiveCompletion(th, m) PROVE QueueInv'
      BY <1>1, <2>1, <2>2, <2>8, ReceiveInv DEF ReceiveCompletion
    <2>9. CASE GsaNotifyClients(th) \/ GsiSendInvalid(th) \/ ConcludeReceive(th)
      BY <1>1, <2>1, <2>2, <2>9, NotifyInv, SendInvalidInv, ConcludeInv DEF GsaNotifyClients, GsiSendInvalid, ConcludeReceive
    <2> QED BY <1>5, <2>3, <2>4, <2>5, <2>6, <2>7, <2>8, <2>9 DEF ThreadStep
  <1>6. ASSUME NEW p \in Port, PortStep(p) PROVE QueueInv'
    BY <1>6, QpInv DEF PortStep
  <1> QED BY <1>2, <1>3, <1>4, <1>5, <1>6 DEF GsaNext

LEMMA ClassInductive ==
    ASSUME ClassInv, [GsaNext]_gsaVars PROVE ClassInv'
  <1>1. CASE UNCHANGED gsaVars
    BY <1>1, ClassKept DEF gsaVars, classVars
  <1>2. CASE GrowPoolSysCallback \/ ClientPuts
    BY <1>2, ClassKept DEF GrowPoolSysCallback, ClientPuts
  <1>3. ASSUME NEW h \in Handle, ClassStep(h) PROVE ClassInv'
    BY <1>3, RegisterInv, DeregisterInv, MaskInv DEF ClassStep
  <1>4. ASSUME NEW th \in Thread, ThreadStep(th) PROVE ClassInv'
    <2>1. UNCHANGED classVars
      BY <1>4 DEF ThreadStep, GsaAddDevice, DgrmPoolAddToGlobalRecvQ, PostRecvMsgToPort, LookupQp, iba_post_recv, CountPosted,
         GrowRecvQAsNeeded, DgrmPoolGrowAsNeeded, DiscardCompletion, SendInvalidCompletion, ReceiveCompletion, GsaNotifyClients, GsiSendInvalid, ConcludeReceive
    <2> QED BY <2>1, ClassKept
  <1>5. ASSUME NEW p \in Port, PortStep(p) PROVE ClassInv'
    <2>1. UNCHANGED classVars
      BY <1>5 DEF PortStep, QpDestroy, QpGone
    <2> QED BY <2>1, ClassKept
  <1> QED BY <1>1, <1>2, <1>3, <1>4, <1>5 DEF GsaNext

(* Every datagram the pool was grown by has one owner and flags that say   *)
(* which, and a port that works has MinBuffers posted but for those that   *)
(* its last posting did not get and those discarded since: posting, growing, *)
(* refusals, callbacks, clients and the removal of devices in any order    *)
(* (gsastore.c, gsamgmt.c, gsacallb.c).                                    *)
THEOREM ReceiveQueueIsKept == GsaSpec => []ReceiveQueueKept
  <1>1. GsaInit => QueueInv /\ ClassInv
    BY QueueInit, ClassInit
  <1>2. QueueInv /\ ClassInv /\ [GsaNext]_gsaVars => QueueInv' /\ ClassInv'
    BY QueueInductive, ClassInductive
  <1>3. QueueInv /\ ClassInv => ReceiveQueueKept
    BY QueueFromInv
  <1> QED BY <1>1, <1>2, <1>3, PTL DEF GsaSpec

(* Registered clients have client ids of their own, and once registrations *)
(* are through no port advertises a class without a manager (gsaclass.c).  *)
THEOREM ClassesAreKept == GsaSpec => []ClassesKept
  <1>1. GsaInit => ClassInv
    BY ClassInit
  <1>2. ClassInv /\ [GsaNext]_gsaVars => ClassInv'
    BY ClassInductive
  <1>3. ClassInv => ClassesKept
    BY ClassesFromInv
  <1> QED BY <1>1, <1>2, <1>3, PTL DEF GsaSpec

-----------------------------------------------------------------------------
(* The walks over the classes *)

LEMMA FanoutWants == ASSUME NEW h, NEW m, Fanout(m) PROVE Interested(h, m) <=> Wants(h, m)
  <1>1. m.method = "REPORT" \/ m.method = "TRAP"
    BY DEF Fanout
  <1> QED BY <1>1 DEF Interested, Wants

(* The walk goes on below entry k, and the entries above have been told.   *)
LEMMA WalkOn ==
    ASSUME classList \in Seq(Handle), \A i, j \in DOMAIN classList : classList[i] = classList[j] => i = j,
           NEW s \in GsaThread, NEW k \in Nat, k <= Len(classList),
           Fanout(s.mad) => \A i \in DOMAIN classList : k < i /\ Wants(classList[i], s.mad) => classList[i] \in s.told,
           NEW w, w = Walk(s, k)
    PROVE  /\ WalkOK(w, classList) /\ w.mad = s.mad
           /\ w.pc = "conclude" /\ Fanout(w.mad) => \A i \in DOMAIN classList : Wants(classList[i], w.mad) => classList[i] \in w.told
  <1>1. /\ w \in GsaThread /\ w.mad = s.mad /\ w.pc \in {"callback", "conclude"}
        /\ w.pc = "conclude" => w.at = NoClass /\ w.told = s.told /\ \A i \in 1..k : ~ Interested(classList[i], s.mad)
        /\ w.pc = "callback" =>
             \E j \in 1..k : /\ w.at = classList[j] /\ w.told = s.told \cup {classList[j]}
                             /\ \A i \in 1..k : Interested(classList[i], s.mad) => i <= j
    BY WalkFacts
  <1>2. PICK n \in Nat : n = Len(classList) /\ DOMAIN classList = 1..n /\ k <= n
    OBVIOUS
  <1>3. \A i \in 1..n : i \in 1..k \/ k < i
    OBVIOUS
  <1>4. Fanout(s.mad) => \A i \in 1..n : Interested(classList[i], s.mad) <=> Wants(classList[i], s.mad)
    BY FanoutWants
  <1>5. CASE w.pc = "conclude"
    <2>1. ASSUME Fanout(w.mad), NEW i \in 1..n, Wants(classList[i], w.mad) PROVE classList[i] \in w.told
      <3>1. Interested(classList[i], s.mad) /\ Fanout(s.mad) /\ Wants(classList[i], s.mad)
        BY <1>1, <1>4, <2>1
      <3>2. k < i
        BY <1>1, <1>3, <1>5, <3>1
      <3> QED BY <1>1, <1>2, <1>5, <3>1, <3>2
    <2>2. w.pc # "callback" /\ w.at = NoClass
      BY <1>1, <1>5
    <2> QED BY <1>1, <1>2, <1>5, <2>1, <2>2 DEF WalkOK
  <1>6. CASE w.pc = "callback"
    <2>1. PICK j \in 1..k : /\ w.at = classList[j] /\ w.told = s.told \cup {classList[j]}
                            /\ \A i \in 1..k : Interested(classList[i], s.mad) => i <= j
      BY <1>1, <1>6
    <2>2. j \in 1..n
      BY <1>2
    <2>3. w.at \in Handle /\ \E i \in DOMAIN classList : classList[i] = w.at
      BY <1>2, <2>1, <2>2
    <2>4. ASSUME Fanout(w.mad), NEW i \in 1..n, NEW a \in 1..n, classList[a] = w.at, a <= i, Wants(classList[i], w.mad)
          PROVE  classList[i] \in w.told
      <3>1. a = j
        BY <1>2, <2>1, <2>2, <2>4
      <3>2. Interested(classList[i], s.mad) /\ Fanout(s.mad) /\ Wants(classList[i], s.mad)
        BY <1>1, <1>4, <2>4
      <3>3. CASE k < i
        BY <1>2, <2>1, <3>2, <3>3
      <3>4. CASE i \in 1..k
        <4>1. i <= j
          BY <2>1, <3>2, <3>4
        <4>2. i = j
          BY <2>4, <3>1, <4>1
        <4> QED BY <2>1, <4>2
      <3> QED BY <1>3, <3>3, <3>4
    <2>5. w.pc # "conclude"
      BY <1>6
    <2> QED BY <1>1, <1>2, <1>6, <2>3, <2>4, <2>5 DEF WalkOK
  <1> QED BY <1>1, <1>5, <1>6

LEMMA WalkInit == ASSUME GsaInit PROVE WalkInv
  <1>1. \A th \in Thread : gsa[th] = Resting
    BY DEF GsaInit
  <1> QED BY <1>1, RestingFields DEF WalkInv, WalkOK

(* A walk survives a class that is put in front of the list, and one that  *)
(* is taken from it if it is not the one called.                           *)
LEMMA WalkRegister ==
    ASSUME ClassInv, WalkInv, NEW h \in Handle, iba_gsi_register_class(h) PROVE WalkInv'
  <1>1. cls[h] = "none" /\ classList' = <<h>> \o classList /\ gsa' = gsa
    BY DEF iba_gsi_register_class
  <1>2. PICK q \in Seq(Handle) : q = classList
    BY DEF ClassInv, ClassTypes
  <1>3. PICK n \in Nat : n = Len(q) /\ DOMAIN q = 1..n
    OBVIOUS
  <1>4. PICK t : t = classList'
    OBVIOUS
  <1>5. /\ DOMAIN t = 1..(n + 1) /\ t[1] = h /\ \A j \in 1..n : t[j + 1] = q[j]
        /\ \A j \in 1..(n + 1) : j # 1 => j - 1 \in 1..n /\ t[j] = q[j - 1]
    <2>1. t = <<h>> \o q
      BY <1>1, <1>2, <1>4
    <2>2. /\ DOMAIN t = 1..(Len(q) + 1) /\ t[1] = h /\ \A i \in 1..Len(q) : t[i + 1] = q[i]
          /\ \A i \in DOMAIN t : i # 1 => i - 1 \in DOMAIN q /\ t[i] = q[i - 1]
      BY <2>1, InsertHead
    <2> QED BY <1>3, <2>2
  <1>6. \A i \in 1..n : q[i] # h
    BY <1>1, <1>2, <1>3 DEF ClassInv, Listed
  <1>7. ASSUME NEW th \in Thread PROVE WalkOK(gsa[th], t)
    <2>1. WalkOK(gsa[th], q)
      BY <1>2 DEF WalkInv
    <2>2. PICK u : u = gsa[th]
      OBVIOUS
    <2>3. CASE u.pc # "callback"
      BY <2>1, <2>2, <2>3 DEF WalkOK
    <2>4. CASE u.pc = "callback"
      <3>1. u.at \in Handle /\ \E i \in 1..n : q[i] = u.at
        BY <1>3, <2>1, <2>2, <2>4 DEF WalkOK
      <3>2. u.at # h
        BY <1>6, <3>1
      <3>3. \E i \in 1..(n + 1) : t[i] = u.at
        <4>1. PICK i \in 1..n : q[i] = u.at
          BY <3>1
        <4>2. i + 1 \in 1..(n + 1) /\ t[i + 1] = u.at
          BY <1>5, <4>1
        <4> QED BY <4>2
      <3>4. ASSUME Fanout(u.mad), NEW i \in 1..(n + 1), NEW j \in 1..(n + 1), t[j] = u.at, j <= i, Wants(t[i], u.mad)
            PROVE  t[i] \in u.told
        <4>1. j # 1
          BY <1>5, <3>2, <3>4
        <4>2. i # 1
          BY <3>4, <4>1
        <4>3. PICK x \in 1..n : x = i - 1 /\ t[i] = q[x]
          BY <1>5, <4>2
        <4>4. PICK y \in 1..n : y = j - 1 /\ t[j] = q[y]
          BY <1>5, <4>1
        <4>5. y <= x
          BY <3>4, <4>3, <4>4
        <4> QED BY <1>3, <2>1, <2>2, <2>4, <3>4, <4>3, <4>4, <4>5 DEF WalkOK
      <3> QED BY <1>5, <2>2, <2>4, <3>1, <3>3, <3>4 DEF WalkOK
    <2> QED BY <2>3, <2>4
  <1> QED BY <1>1, <1>4, <1>7 DEF WalkInv

LEMMA WalkDeregister ==
    ASSUME ~ DeregisterInCallback, ClassInv, WalkInv, NEW h \in Handle, iba_gsi_deregister_class(h) PROVE WalkInv'
  <1>1. PICK k \in DOMAIN classList : classList[k] = h /\ classList' = RemoveAt(classList, k)
    BY DEF iba_gsi_deregister_class
  <1>2. gsa' = gsa /\ \A th \in Thread : gsa[th].at # h
    BY DEF iba_gsi_deregister_class
  <1>3. PICK q \in Seq(Handle) : q = classList
    BY DEF ClassInv, ClassTypes
  <1>4. PICK n \in Nat : n = Len(q) /\ DOMAIN q = 1..n /\ k \in 1..n /\ q[k] = h
    BY <1>1, <1>3
  <1>5. PICK t : t = classList'
    OBVIOUS
  <1>6. DOMAIN t = 1..(n - 1) /\ \A i \in 1..(n - 1) : t[i] = IF i < k THEN q[i] ELSE q[i + 1]
    <2>1. t = RemoveAt(q, k) /\ k \in DOMAIN q
      BY <1>1, <1>3, <1>5
    <2>2. Removed(t, q, k, Handle)
      BY <2>1, RemoveItem
    <2> QED BY <1>4, <2>2 DEF Removed
  <1>7. ASSUME NEW th \in Thread PROVE WalkOK(gsa[th], t)
    <2>1. WalkOK(gsa[th], q)
      BY <1>3 DEF WalkInv
    <2>2. PICK u : u = gsa[th]
      OBVIOUS
    <2>3. CASE u.pc # "callback"
      BY <2>1, <2>2, <2>3 DEF WalkOK
    <2>4. CASE u.pc = "callback"
      <3>1. PICK j \in 1..n : q[j] = u.at /\ u.at \in Handle
        BY <1>4, <2>1, <2>2, <2>4 DEF WalkOK
      <3>2. j # k
        BY <1>2, <1>4, <2>2, <3>1
      <3>3. \E i \in 1..(n - 1) : t[i] = u.at
        <4>1. CASE j < k
          <5>1. j \in 1..(n - 1) /\ t[j] = u.at
            BY <1>4, <1>6, <3>1, <4>1
          <5> QED BY <5>1
        <4>2. CASE ~ (j < k)
          <5>1. PICK i \in 1..(n - 1) : i = j - 1 /\ ~ (i < k) /\ i + 1 = j
            BY <1>4, <3>2, <4>2
          <5>2. t[i] = u.at
            BY <1>6, <3>1, <5>1
          <5> QED BY <5>2
        <4> QED BY <4>1, <4>2
      <3>4. ASSUME Fanout(u.mad), NEW i \in 1..(n - 1), NEW a \in 1..(n - 1), t[a] = u.at, a <= i, Wants(t[i], u.mad)
            PROVE  t[i] \in u.told
        <4>1. PICK x \in 1..n : x = (IF i < k THEN i ELSE i + 1) /\ t[i] = q[x]
          BY <1>4, <1>6
        <4>2. PICK y \in 1..n : y = (IF a < k THEN a ELSE a + 1) /\ t[a] = q[y]
          BY <1>4, <1>6
        <4>3. y <= x
          BY <1>4, <3>4, <4>1, <4>2
        <4> QED BY <1>4, <2>1, <2>2, <2>4, <3>4, <4>1, <4>2, <4>3 DEF WalkOK
      <3> QED BY <1>6, <2>2, <2>4, <3>1, <3>3, <3>4 DEF WalkOK
    <2> QED BY <2>3, <2>4
  <1> QED BY <1>2, <1>5, <1>7 DEF WalkInv

(* What a step may do to the thread of p: begin or go on with a walk, or   *)
(* nothing that concerns one.                                              *)
Told(t) == \A i \in DOMAIN classList : Wants(classList[i], t.mad) => classList[i] \in t.told
WalkStep(th) ==
    LET u == gsa[th]
        w == gsa'[th]
    IN  /\ WalkOK(w, classList)
        /\ (u.pc \in {"idle", "callback"} /\ w.pc = "conclude" /\ Fanout(w.mad) /\ w.status # "FPENDING"
            /\ ~ IsSarClient(w.mad)) => Told(w)

LEMMA WalkElsewhere ==
    ASSUME WalkInv, NEW th \in Thread, gsa[th].pc # "callback", gsa'[th].pc # "callback", gsa'[th].at \in {gsa[th].at, NoClass},
           gsa'[th].pc = "conclude" => gsa[th].pc = "conclude"
    PROVE  WalkStep(th)
  BY DEF WalkInv, WalkOK, WalkStep

LEMMA WalkSame == ASSUME WalkInv, NEW th \in Thread, gsa'[th] = gsa[th] PROVE WalkStep(th)
  BY DEF WalkInv, WalkOK, WalkStep

LEMMA NotifyWalk ==
    ASSUME QueueInv, ClassInv, WalkInv, NEW th \in Thread, GsaNotifyClients(th) PROVE WalkStep(th)
  <1>1. PICK u \in GsaThread : u = gsa[th]
    BY QueueFacts
  <1>2. PICK ret \in {"FCOMPLETED", "FPENDING", "FREJECT"} : gsa' = [gsa EXCEPT ![th] = AfterCallback(th, ret)]
    BY DEF GsaNotifyClients
  <1>3. u.pc = "callback" /\ u.status # "FPENDING" /\ WalkOK(u, classList)
    BY <1>1, QueueFacts DEF GsaNotifyClients, PortOK, WalkInv
  <1>4. classList \in Seq(Handle) /\ \A i, j \in DOMAIN classList : classList[i] = classList[j] => i = j
    BY DEF ClassInv, ClassTypes
  <1> DEFINE w == AfterCallback(th, ret)
  <1>5. gsa'[th] = w
    BY <1>2, QueueFacts DEF PoolTypes
  <1>6. /\ w \in GsaThread /\ w.mad = u.mad /\ w.pc \in {"callback", "conclude", "lost"}
        /\ ret = "FPENDING" => w.pc = "conclude" /\ w.status = "FPENDING" /\ w.at = NoClass
        /\ ret # "FPENDING" /\ (Fanout(u.mad) \/ w.pc # "conclude") =>
              \/ w.pc = "lost" /\ ~ Listed(u.at)
              \/ \E j \in DOMAIN classList : classList[j] = u.at
                   /\ \E s \in GsaThread : s.mad = u.mad /\ s.told = u.told /\ w = Walk(s, j - 1)
        /\ w.pc = "conclude" => w.at = NoClass
    BY <1>1, <1>3, <1>4, AfterFacts
  <1> HIDE DEF w
  <1>7. Listed(u.at)
    BY <1>3 DEF WalkOK, Listed
  <1>8. CASE ret = "FPENDING" \/ ~ (Fanout(u.mad) \/ w.pc # "conclude")
    BY <1>5, <1>6, <1>8 DEF WalkStep, WalkOK
  <1>9. CASE ret # "FPENDING" /\ (Fanout(u.mad) \/ w.pc # "conclude")
    <2>1. PICK j \in DOMAIN classList : classList[j] = u.at
            /\ \E s \in GsaThread : s.mad = u.mad /\ s.told = u.told /\ w = Walk(s, j - 1)
      BY <1>6, <1>7, <1>9
    <2>2. PICK s \in GsaThread : s.mad = u.mad /\ s.told = u.told /\ w = Walk(s, j - 1)
      BY <2>1
    <2>3. PICK k \in Nat : k = j - 1 /\ k <= Len(classList)
      BY <1>4
    <2>4. PICK n \in Nat : DOMAIN classList = 1..n /\ j \in 1..n
      BY <1>4
    <2>5. ASSUME Fanout(s.mad), NEW i \in DOMAIN classList, k < i, Wants(classList[i], s.mad) PROVE classList[i] \in s.told
      <3>1. j <= i
        BY <2>3, <2>4, <2>5
      <3> QED BY <1>3, <2>1, <2>2, <2>5, <3>1 DEF WalkOK
    <2>6. w = Walk(s, k)
      BY <2>2, <2>3
    <2>7. /\ WalkOK(w, classList)
          /\ w.pc = "conclude" /\ Fanout(w.mad) => \A i \in DOMAIN classList : Wants(classList[i], w.mad) => classList[i] \in w.told
      BY <1>4, <2>3, <2>5, <2>6, WalkOn
    <2> QED BY <1>5, <2>7 DEF WalkStep, Told
  <1> QED BY <1>8, <1>9

LEMMA ReceiveWalk ==
    ASSUME QueueInv, ClassInv, WalkInv, NEW th \in Thread, NEW m \in GsiMad, ReceiveCompletion(th, m) PROVE WalkStep(th)
  <1>1. PICK k : k = PostCount(Of[th])
    OBVIOUS
  <1>2. PICK e \in recvQ[Of[th]] :
          LET t == [Resting EXCEPT !.list = {e}, !.n = k, !.mad = m] IN
             \/ gsa' = [gsa EXCEPT ![th] = Walk(t, Len(classList))]
             \/ gsa' = [gsa EXCEPT ![th] = [t EXCEPT !.pc = "conclude", !.status = "FPENDING", !.list = {}]]
             \/ IsSarClient(m) /\ gsa' = [gsa EXCEPT ![th] = [t EXCEPT !.pc = "conclude", !.status = "FREJECT"]]
    BY <1>1 DEF ReceiveCompletion
  <1>3. PICK n \in Nat : n = k
    <2>1. PICK c \in Int : c = posted[Of[th]]
      BY QueueFacts, GsaAssumption DEF PoolTypes
    <2>2. k = IF c - 1 \in 0..(MinBuffers - 1) THEN MinBuffers - (c - 1) ELSE 1
      BY <1>1, <2>1 DEF PostCount
    <2> QED BY <2>2, PostCountFacts
  <1>4. PICK l \in SUBSET Dgrm : l = {e}
    <2>1. recvQ[Of[th]] \in SUBSET Dgrm
      BY QueueFacts, GsaAssumption
    <2>2. {e} \in SUBSET Dgrm
      BY <2>1
    <2> QED BY <2>2
  <1>5. PICK z \in GsaThread : z = Resting /\ z.status = "FNOT_FOUND" /\ z.at = NoClass /\ z.pc = "idle"
    BY RestingFields
  <1>6. PICK t : t = [z EXCEPT !.list = l, !.n = n, !.mad = m]
    OBVIOUS
  <1>7. t \in GsaThread /\ t.mad = m /\ t.at = NoClass
    BY <1>5, <1>6 DEF GsaThread
  <1>8. \/ gsa' = [gsa EXCEPT ![th] = Walk(t, Len(classList))]
        \/ gsa' = [gsa EXCEPT ![th] = [t EXCEPT !.pc = "conclude", !.status = "FPENDING", !.list = {}]]
        \/ IsSarClient(m) /\ gsa' = [gsa EXCEPT ![th] = [t EXCEPT !.pc = "conclude", !.status = "FREJECT"]]
    BY <1>2, <1>3, <1>4, <1>5, <1>6
  <1>9. classList \in Seq(Handle) /\ \A i, j \in DOMAIN classList : classList[i] = classList[j] => i = j
    BY DEF ClassInv, ClassTypes
  <1>10. gsa \in [Thread -> GsaThread]
    BY QueueFacts DEF PoolTypes
  <1>11. CASE gsa' = [gsa EXCEPT ![th] = Walk(t, Len(classList))]
    <2>1. PICK c \in Nat : c = Len(classList) /\ c <= Len(classList) /\ DOMAIN classList = 1..c
      BY <1>9
    <2>2. PICK w : w = Walk(t, c)
      OBVIOUS
    <2>3. \A i \in DOMAIN classList : ~ (c < i)
      BY <2>1
    <2>4. /\ WalkOK(w, classList)
          /\ w.pc = "conclude" /\ Fanout(w.mad) => \A i \in DOMAIN classList : Wants(classList[i], w.mad) => classList[i] \in w.told
      BY <1>7, <1>9, <2>1, <2>2, <2>3, WalkOn
    <2>5. gsa'[th] = w
      BY <1>10, <1>11, <2>1, <2>2
    <2> QED BY <2>4, <2>5 DEF WalkStep, Told
  <1>12. CASE gsa' = [gsa EXCEPT ![th] = [t EXCEPT !.pc = "conclude", !.status = "FPENDING", !.list = {}]]
    <2>1. PICK w : w = [t EXCEPT !.pc = "conclude", !.status = "FPENDING", !.list = {}]
      OBVIOUS
    <2>2. w.pc = "conclude" /\ w.status = "FPENDING" /\ w.at = NoClass
      BY <1>7, <2>1 DEF GsaThread
    <2>3. gsa'[th] = w
      BY <1>10, <1>12, <2>1
    <2> QED BY <2>2, <2>3 DEF WalkStep, WalkOK
  <1>13. CASE IsSarClient(m) /\ gsa' = [gsa EXCEPT ![th] = [t EXCEPT !.pc = "conclude", !.status = "FREJECT"]]
    <2>1. PICK w : w = [t EXCEPT !.pc = "conclude", !.status = "FREJECT"]
      OBVIOUS
    <2>2. w.pc = "conclude" /\ w.mad = m /\ w.at = NoClass
      BY <1>7, <2>1 DEF GsaThread
    <2>3. gsa'[th] = w
      BY <1>10, <1>13, <2>1
    <2> QED BY <1>13, <2>2, <2>3 DEF WalkStep, WalkOK
  <1> QED BY <1>8, <1>11, <1>12, <1>13

(* The steps of a thread that is not in a walk.                            *)
LEMMA OtherWalk ==
    ASSUME QueueInv, WalkInv, NEW th \in Thread,
           \/ DgrmPoolAddToGlobalRecvQ(th) \/ PostRecvMsgToPort(th) \/ LookupQp(th) \/ iba_post_recv(th) \/ GrowRecvQAsNeeded(th)
           \/ DgrmPoolGrowAsNeeded(th) \/ GsiSendInvalid(th) \/ ConcludeReceive(th) \/ GsaAddDevice(th) \/ CountPosted(th)
    PROVE  WalkStep(th)
  <1>1. PICK u \in GsaThread : u = gsa[th]
    BY QueueFacts
  <1>2. gsa \in [Thread -> GsaThread]
    BY QueueFacts DEF PoolTypes
  <1>3. PICK z \in GsaThread : z = Resting /\ z.at = NoClass /\ z.pc = "idle"
    BY RestingFields
  <1>4. ASSUME NEW t, gsa' = [gsa EXCEPT ![th] = t], u.pc # "callback", t.pc # "callback", t.at \in {u.at, NoClass},
               t.pc = "conclude" => u.pc = "conclude"
        PROVE  WalkStep(th)
    <2>1. gsa'[th] = t
      BY <1>2, <1>4
    <2> QED BY <1>1, <1>4, <2>1, WalkElsewhere
  <1>6. CASE DgrmPoolAddToGlobalRecvQ(th)
    <2>1. u.pc = "addToRecvQ"
      BY <1>1, <1>6 DEF DgrmPoolAddToGlobalRecvQ
    <2>2. (gsa' = [gsa EXCEPT ![th] = [u EXCEPT !.pc = "get"]] \/ gsa' = [gsa EXCEPT ![th] = z])
      BY <1>1, <1>3, <1>6 DEF DgrmPoolAddToGlobalRecvQ
    <2>3. CASE gsa' = [gsa EXCEPT ![th] = [u EXCEPT !.pc = "get"]]
      <3>1. PICK t : t = [u EXCEPT !.pc = "get"]
        OBVIOUS
      <3>2. t.pc = "get" /\ t.at = u.at
        BY <3>1 DEF GsaThread
      <3> QED BY <1>3, <1>4, <2>1, <2>3, <3>1, <3>2
    <2>4. CASE gsa' = [gsa EXCEPT ![th] = z]
      BY <1>3, <1>4, <2>1, <2>4
    <2> QED BY <2>2, <2>3, <2>4
  <1>7. CASE PostRecvMsgToPort(th)
    <2>1. PICK l, a : l = DgrmPoolGet(u.n) /\ a = (IF l = {} THEN "grow" ELSE "lookup") /\ a \in {"grow", "lookup"}
      OBVIOUS
    <2>2. u.pc = "get"
      BY <1>1, <1>7 DEF PostRecvMsgToPort
    <2>3. gsa' = [gsa EXCEPT ![th] = [u EXCEPT !.list = l, !.n = 0, !.pc = a]]
      BY <1>1, <1>3, <1>7, <2>1 DEF PostRecvMsgToPort
    <2>4. CASE gsa' = [gsa EXCEPT ![th] = [u EXCEPT !.list = l, !.n = 0, !.pc = a]]
      <3>1. PICK t : t = [u EXCEPT !.list = l, !.n = 0, !.pc = a]
        OBVIOUS
      <3>2. t.pc = a /\ t.at = u.at
        BY <3>1 DEF GsaThread
      <3> QED BY <1>3, <1>4, <2>1, <2>2, <2>4, <3>1, <3>2
    <2> QED BY <2>3, <2>4
  <1>8. CASE LookupQp(th)
    <2>1. u.pc = "lookup"
      BY <1>1, <1>8 DEF LookupQp
    <2>2. (gsa' = [gsa EXCEPT ![th] = [u EXCEPT !.list = {}, !.pc = "grow"]] \/ gsa' = [gsa EXCEPT ![th] = [u EXCEPT !.pc = "posting"]])
      BY <1>1, <1>3, <1>8 DEF LookupQp
    <2>3. CASE gsa' = [gsa EXCEPT ![th] = [u EXCEPT !.list = {}, !.pc = "grow"]]
      <3>1. PICK t : t = [u EXCEPT !.list = {}, !.pc = "grow"]
        OBVIOUS
      <3>2. t.pc = "grow" /\ t.at = u.at
        BY <3>1 DEF GsaThread
      <3> QED BY <1>3, <1>4, <2>1, <2>3, <3>1, <3>2
    <2>4. CASE gsa' = [gsa EXCEPT ![th] = [u EXCEPT !.pc = "posting"]]
      <3>1. PICK t : t = [u EXCEPT !.pc = "posting"]
        OBVIOUS
      <3>2. t.pc = "posting" /\ t.at = u.at
        BY <3>1 DEF GsaThread
      <3> QED BY <1>3, <1>4, <2>1, <2>4, <3>1, <3>2
    <2> QED BY <2>2, <2>3, <2>4
  <1>9. CASE iba_post_recv(th)
    <2>1. u.pc = "posting"
      BY <1>1, <1>9 DEF iba_post_recv
    <2>2. \/ gsa' = [gsa EXCEPT ![th] = [u EXCEPT !.list = {}, !.pc = "grow"]]
          \/ \E e : gsa' = [gsa EXCEPT ![th] = [u EXCEPT !.list = u.list \ {e}, !.seen = posted[Of[th]], !.pc = "counting"]]
      <3>1. \/ gsa' = [gsa EXCEPT ![th].list = {}, ![th].pc = "grow"]
            \/ \E e : gsa' = [gsa EXCEPT ![th].list = @ \ {e}, ![th].seen = posted[Of[th]], ![th].pc = "counting"]
        BY <1>9, Zenon DEF iba_post_recv
      <3>2. CASE gsa' = [gsa EXCEPT ![th].list = {}, ![th].pc = "grow"]
        BY <1>1, <1>2, <3>2
      <3>3. ASSUME NEW e, gsa' = [gsa EXCEPT ![th].list = @ \ {e}, ![th].seen = posted[Of[th]], ![th].pc = "counting"]
            PROVE  gsa' = [gsa EXCEPT ![th] = [u EXCEPT !.list = u.list \ {e}, !.seen = posted[Of[th]], !.pc = "counting"]]
        BY <1>1, <1>2, <3>3
      <3> QED BY <3>1, <3>2, <3>3
    <2>3. CASE gsa' = [gsa EXCEPT ![th] = [u EXCEPT !.list = {}, !.pc = "grow"]]
      <3>1. PICK t : t = [u EXCEPT !.list = {}, !.pc = "grow"]
        OBVIOUS
      <3>2. t.pc = "grow" /\ t.at = u.at
        BY <3>1 DEF GsaThread
      <3> QED BY <1>3, <1>4, <2>1, <2>3, <3>1, <3>2
    <2>4. ASSUME NEW e, gsa' = [gsa EXCEPT ![th] = [u EXCEPT !.list = u.list \ {e}, !.seen = posted[Of[th]], !.pc = "counting"]]
          PROVE  WalkStep(th)
      <3>1. PICK t : t = [u EXCEPT !.list = u.list \ {e}, !.seen = posted[Of[th]], !.pc = "counting"]
        OBVIOUS
      <3>2. t.pc = "counting" /\ t.at = u.at
        BY <3>1 DEF GsaThread
      <3> QED BY <1>3, <1>4, <2>1, <2>4, <3>1, <3>2
    <2> QED BY <2>2, <2>3, <2>4
  <1>15. CASE CountPosted(th)
    <2>1. PICK a \in {"grow", "posting"} : a = IF u.list = {} THEN "grow" ELSE "posting"
      OBVIOUS
    <2>2. u.pc = "counting" /\ gsa' = [gsa EXCEPT ![th] = [u EXCEPT !.seen = 0, !.pc = a]]
      BY <1>1, <1>15, <2>1 DEF CountPosted
    <2>3. PICK t : t = [u EXCEPT !.seen = 0, !.pc = a]
      OBVIOUS
    <2>4. t.pc = a /\ t.at = u.at
      BY <2>3 DEF GsaThread
    <2> QED BY <1>4, <2>1, <2>2, <2>3, <2>4
  <1>10. CASE GrowRecvQAsNeeded(th)
    <2>1. u.pc = "grow"
      BY <1>1, <1>10 DEF GrowRecvQAsNeeded
    <2>2. (gsa' = [gsa EXCEPT ![th] = [z EXCEPT !.pc = "schedule"]] \/ gsa' = [gsa EXCEPT ![th] = z])
      BY <1>1, <1>3, <1>10 DEF GrowRecvQAsNeeded
    <2>3. CASE gsa' = [gsa EXCEPT ![th] = [z EXCEPT !.pc = "schedule"]]
      <3>1. PICK t : t = [z EXCEPT !.pc = "schedule"]
        OBVIOUS
      <3>2. t.pc = "schedule" /\ t.at = z.at
        BY <3>1 DEF GsaThread
      <3> QED BY <1>3, <1>4, <2>1, <2>3, <3>1, <3>2
    <2>4. CASE gsa' = [gsa EXCEPT ![th] = z]
      BY <1>3, <1>4, <2>1, <2>4
    <2> QED BY <2>2, <2>3, <2>4
  <1>11. CASE DgrmPoolGrowAsNeeded(th)
    <2>1. u.pc = "schedule"
      BY <1>1, <1>11 DEF DgrmPoolGrowAsNeeded
    <2>2. gsa' = [gsa EXCEPT ![th] = z]
      BY <1>1, <1>3, <1>11 DEF DgrmPoolGrowAsNeeded
    <2>3. CASE gsa' = [gsa EXCEPT ![th] = z]
      BY <1>3, <1>4, <2>1, <2>3
    <2> QED BY <2>2, <2>3
  <1>12. CASE GsiSendInvalid(th)
    <2>1. u.pc = "conclude"
      BY <1>1, <1>12 DEF GsiSendInvalid
    <2>2. gsa' = [gsa EXCEPT ![th] = [u EXCEPT !.status = "FREJECT"]]
      BY <1>1, <1>3, <1>12 DEF GsiSendInvalid
    <2>3. CASE gsa' = [gsa EXCEPT ![th] = [u EXCEPT !.status = "FREJECT"]]
      <3>1. PICK t : t = [u EXCEPT !.status = "FREJECT"]
        OBVIOUS
      <3>2. t.pc = u.pc /\ t.at = u.at
        BY <3>1 DEF GsaThread
      <3> QED BY <1>3, <1>4, <2>1, <2>3, <3>1, <3>2
    <2> QED BY <2>2, <2>3
  <1>13. CASE ConcludeReceive(th)
    <2>1. u.pc = "conclude"
      BY <1>1, <1>13 DEF ConcludeReceive
    <2>2. gsa' = [gsa EXCEPT ![th] = [z EXCEPT !.pc = "get", !.n = u.n]]
      BY <1>1, <1>3, <1>13 DEF ConcludeReceive
    <2>3. CASE gsa' = [gsa EXCEPT ![th] = [z EXCEPT !.pc = "get", !.n = u.n]]
      <3>1. PICK t : t = [z EXCEPT !.pc = "get", !.n = u.n]
        OBVIOUS
      <3>2. t.pc = "get" /\ t.at = z.at
        BY <3>1 DEF GsaThread
      <3> QED BY <1>3, <1>4, <2>1, <2>3, <3>1, <3>2
    <2> QED BY <2>2, <2>3
  <1>14. CASE GsaAddDevice(th)
    <2>1. PICK a \in {"addToRecvQ", "get"} : a = IF DgrmPoolCount <= PreAlloc THEN "addToRecvQ" ELSE "get"
      OBVIOUS
    <2>2. u.pc = "idle"
      BY <1>1, <1>14 DEF GsaAddDevice
    <2>3. gsa' = [gsa EXCEPT ![th] = [z EXCEPT !.n = MinBuffers, !.pc = a]]
      BY <1>1, <1>3, <1>14, <2>1 DEF GsaAddDevice
    <2>4. CASE gsa' = [gsa EXCEPT ![th] = [z EXCEPT !.n = MinBuffers, !.pc = a]]
      <3>1. PICK t : t = [z EXCEPT !.n = MinBuffers, !.pc = a]
        OBVIOUS
      <3>2. t.pc = a /\ t.at = z.at
        BY <3>1 DEF GsaThread
      <3> QED BY <1>3, <1>4, <2>1, <2>2, <2>4, <3>1, <3>2
    <2> QED BY <2>3, <2>4
  <1> QED BY <1>6, <1>7, <1>8, <1>9, <1>10, <1>11, <1>12, <1>13, <1>14, <1>15

LEMMA WalkInductive ==
    ASSUME ~ DeregisterInCallback, QueueInv, ClassInv, WalkInv, [GsaNext]_gsaVars PROVE WalkInv' /\ \A th \in Thread : WalkStep(th)
  <1>1. ASSUME UNCHANGED <<gsa, classList>> PROVE WalkInv' /\ \A th \in Thread : WalkStep(th)
    BY <1>1, WalkSame DEF WalkInv
  <1>2. CASE UNCHANGED gsaVars
    BY <1>1, <1>2 DEF gsaVars
  <1>3. CASE GrowPoolSysCallback \/ ClientPuts
    BY <1>1, <1>3 DEF GrowPoolSysCallback, ClientPuts, classVars
  <1>4. ASSUME NEW h \in Handle, ClassStep(h) PROVE WalkInv' /\ \A th \in Thread : WalkStep(th)
    <2>1. gsa' = gsa
      BY <1>4 DEF ClassStep, iba_gsi_register_class, SetPortCapabilityMask, iba_gsi_deregister_class, LookForClassMgr
    <2>2. \A th \in Thread : WalkStep(th)
      BY <2>1, WalkSame
    <2>3. CASE SetPortCapabilityMask(h) \/ LookForClassMgr(h)
      BY <1>1, <2>1, <2>3 DEF SetPortCapabilityMask, LookForClassMgr
    <2>4. CASE iba_gsi_register_class(h) \/ iba_gsi_deregister_class(h)
      BY <2>2, <2>4, WalkRegister, WalkDeregister
    <2> QED BY <1>4, <2>3, <2>4 DEF ClassStep
  <1>5. ASSUME NEW th \in Thread, WalkStep(th), NEW t, gsa' = [gsa EXCEPT ![th] = t], UNCHANGED classList
        PROVE  WalkInv' /\ \A q \in Thread : WalkStep(q)
    <2>1. \A q \in Thread \ {th} : gsa'[q] = gsa[q]
      BY <1>5, QueueFacts DEF PoolTypes
    <2>2. \A q \in Thread : WalkStep(q)
      BY <1>5, <2>1, WalkSame
    <2> QED BY <1>5, <2>2 DEF WalkInv, WalkStep
  <1>6. ASSUME NEW th \in Thread, ThreadStep(th) PROVE WalkInv' /\ \A q \in Thread : WalkStep(q)
    <2>1. CASE DiscardCompletion(th) \/ SendInvalidCompletion(th)
      BY <1>1, <2>1 DEF DiscardCompletion, SendInvalidCompletion, classVars
    <2>2. ASSUME NEW m \in GsiMad, ReceiveCompletion(th, m) PROVE WalkInv' /\ \A q \in Thread : WalkStep(q)
      <3>1. WalkStep(th)
        BY <2>2, ReceiveWalk
      <3>2. (\E t : gsa' = [gsa EXCEPT ![th] = t]) /\ UNCHANGED classList
        BY <2>2 DEF ReceiveCompletion, classVars
      <3> QED BY <1>5, <3>1, <3>2
    <2>3. CASE GsaNotifyClients(th)
      <3>1. WalkStep(th)
        BY <2>3, NotifyWalk
      <3>2. (\E t : gsa' = [gsa EXCEPT ![th] = t]) /\ UNCHANGED classList
        BY <2>3 DEF GsaNotifyClients, classVars
      <3> QED BY <1>5, <3>1, <3>2
    <2>4. CASE \/ DgrmPoolAddToGlobalRecvQ(th) \/ PostRecvMsgToPort(th) \/ LookupQp(th) \/ iba_post_recv(th) \/ GrowRecvQAsNeeded(th)
               \/ DgrmPoolGrowAsNeeded(th) \/ GsiSendInvalid(th) \/ ConcludeReceive(th) \/ GsaAddDevice(th) \/ CountPosted(th)
      <3>1. WalkStep(th)
        BY <2>4, OtherWalk
      <3>2. (\E t : gsa' = [gsa EXCEPT ![th] = t]) /\ UNCHANGED classList
        <4>1. CASE DgrmPoolAddToGlobalRecvQ(th)
          BY <4>1 DEF DgrmPoolAddToGlobalRecvQ, classVars
        <4>2. CASE GsiSendInvalid(th) \/ ConcludeReceive(th) \/ GrowRecvQAsNeeded(th) \/ DgrmPoolGrowAsNeeded(th)
          BY <4>2 DEF GsiSendInvalid, ConcludeReceive, GrowRecvQAsNeeded, DgrmPoolGrowAsNeeded, classVars
        <4>3. CASE PostRecvMsgToPort(th) \/ LookupQp(th) \/ iba_post_recv(th)
          BY <4>3 DEF PostRecvMsgToPort, LookupQp, iba_post_recv, classVars
        <4>4. CASE GsaAddDevice(th) \/ CountPosted(th)
          BY <4>4 DEF GsaAddDevice, CountPosted, classVars
        <4> QED BY <2>4, <4>1, <4>2, <4>3, <4>4
      <3> QED BY <1>5, <3>1, <3>2
    <2> QED BY <1>6, <2>1, <2>2, <2>3, <2>4 DEF ThreadStep
  <1>7. ASSUME NEW p \in Port, PortStep(p) PROVE WalkInv' /\ \A q \in Thread : WalkStep(q)
    BY <1>1, <1>7 DEF PortStep, QpDestroy, QpGone, classVars
  <1> QED BY <1>2, <1>3, <1>4, <1>6, <1>7 DEF GsaNext

(* A report or trap is shown to every class in the list that wants it,     *)
(* although classes come and go between the callbacks (GsaNotifyClients);  *)
(* a class that is being called does not leave.                            *)
THEOREM FanoutIsComplete == ASSUME ~ DeregisterInCallback PROVE GsaSpec => FanoutComplete
  <1> DEFINE Step == \A w \in Thread :
        gsa[w].pc \in {"idle", "callback"} /\ gsa'[w].pc = "conclude" /\ Fanout(gsa'[w].mad)
        /\ gsa'[w].status \notin {"FPENDING"} /\ ~IsSarClient(gsa'[w].mad) =>
        \A i \in DOMAIN classList : Interested(classList[i], gsa'[w].mad) => classList[i] \in gsa'[w].told
  <1>1. GsaInit => QueueInv /\ ClassInv /\ WalkInv
    BY QueueInit, ClassInit, WalkInit
  <1>2. QueueInv /\ ClassInv /\ WalkInv /\ [GsaNext]_gsaVars => QueueInv' /\ ClassInv' /\ WalkInv'
    BY QueueInductive, ClassInductive, WalkInductive
  <1>3. QueueInv /\ ClassInv /\ WalkInv /\ [GsaNext]_gsaVars => Step
    <2> SUFFICES ASSUME QueueInv, ClassInv, WalkInv, [GsaNext]_gsaVars, NEW th \in Thread,
                        gsa[th].pc \in {"idle", "callback"}, gsa'[th].pc = "conclude", Fanout(gsa'[th].mad),
                        gsa'[th].status \notin {"FPENDING"}, ~IsSarClient(gsa'[th].mad),
                        NEW i \in DOMAIN classList, Interested(classList[i], gsa'[th].mad)
                 PROVE  classList[i] \in gsa'[th].told
      OBVIOUS
    <2>1. WalkStep(th)
      BY WalkInductive
    <2> QED BY <2>1, FanoutWants DEF WalkStep, Told
  <1> HIDE DEF Step
  <1>4. GsaSpec => [][Step]_gsaVars
    BY <1>1, <1>2, <1>3, PTL DEF GsaSpec
  <1> QED BY <1>4 DEF FanoutComplete, Step
=============================================================================
