--------------------------- MODULE DiscoveryProofs --------------------------
(***************************************************************************)
(* The result of a discovery is consistent while the operator changes the  *)
(* VFs under it, for any PFs and VFs and any host; and the VLANs it tells  *)
(* of an uplink are exactly those the uplink carries, for any set of them. *)
(***************************************************************************)
EXTENDS Discovery, FiniteSetTheorems, SequenceTheorems, WellFoundedInduction, TLAPS

\* The operator writes sriov_numvfs once at most: a VF that has gone does not
\* come back.  Otherwise a VF that is gone when it is scanned and back when the
\* VFs are listed is taken for a PF.
OneChange == MaxChanges <= 1

Addresses == {info.address : info \in pfList}

ListedAs(p) == {v \in VFs \cap DOMAIN resourceList : resourceList[v].parent = p}

\* Each function is a candidate once; a candidate that is no PF is a VF that
\* has gone for good.
CandidateInv ==
    pc \in {"scan", "list"} =>
        /\ \A info \in pfList :
              \/ info.address \in PFs
              \/ info.address \in VFs \ exists /\ changes >= MaxChanges
        /\ \A i, j \in pfList : i.address = j.address => i = j

\* No PF is lost, and what vanishes under the scan vanishes by the one change.
ScanInv ==
    pc = "scan" =>
        /\ PFs \subseteq todo \cup Addresses /\ todo \cap Addresses = {}
        /\ todo \subseteq NetFunctions
        /\ changes = 0 => todo \subseteq PFs \cup exists
        /\ DOMAIN resourceList = {}

\* The PFs that are no candidates any more are listed, with their VFs.
ListInv ==
    pc \in {"list", "done"} =>
        /\ DOMAIN resourceList \subseteq NetFunctions
        /\ \A p \in PFs : p \in DOMAIN resourceList <=> p \notin Addresses
        /\ \A p \in PFs \cap DOMAIN resourceList :
              /\ resourceList[p].deviceType = "pf"
              /\ resourceList[p].numVFs = Cardinality(ListedAs(p))
        /\ \A v \in VFs \cap DOMAIN resourceList :
              /\ resourceList[v].deviceType = "vf" /\ resourceList[v].parent = ParentPF[v]
              /\ ParentPF[v] \in DOMAIN resourceList

DiscoveryInv ==
    /\ exists \subseteq VFs /\ changes \in Nat
    /\ pc = "done" => pfList = {}
    /\ CandidateInv /\ ScanInv /\ ListInv

-----------------------------------------------------------------------------

\* A function that is no PF and no VF at the moment was one when the scan began.
LEMMA ScanFunctionKeeps ==
  ASSUME OneChange, DiscoveryInv, NEW f \in NetFunctions, ScanFunction(f)
  PROVE  DiscoveryInv'
<1> USE HostAssumption DEF ScanFunction
<1>1. /\ pc = "scan" /\ f \in todo /\ f \notin Addresses
      /\ UNCHANGED <<exists, changes, pc, resourceList>>
  BY DEF DiscoveryInv, ScanInv
<1>2. CASE f \in exists
  BY <1>1, <1>2
  DEF DiscoveryInv, CandidateInv, ScanInv, ListInv, IsSriovVF, Addresses, NetFunctions
<1>3. CASE f \notin exists
  <2>1. PICK x : pfList' = pfList \cup {x} /\ x.address = f
    <3>1. PFInfo(f).address = f
      BY DEF PFInfo
    <3> QED
      BY <1>3, <3>1 DEF IsSriovVF
  <2>2. f \in PFs \/ (f \in VFs \ exists /\ changes >= MaxChanges)
    BY <1>1, <1>3 DEF DiscoveryInv, ScanInv, OneChange, NetFunctions
  <2>3. CandidateInv'
    BY <1>1, <2>1, <2>2 DEF DiscoveryInv, CandidateInv, Addresses
  <2>4. Addresses' = Addresses \cup {f}
    BY <2>1 DEF Addresses
  <2>5. ScanInv'
    BY <1>1, <2>4 DEF DiscoveryInv, ScanInv
  <2> QED
    BY <1>1, <2>3, <2>5 DEF DiscoveryInv, ListInv
<1> QED
  BY <1>2, <1>3

\* The VFs of a PF are listed with it, and counted as they are listed.
LEMMA ListVFsKeeps ==
  ASSUME DiscoveryInv, NEW info \in pfList, ListVFs(info)
  PROVE  DiscoveryInv'
<1> DEFINE p == info.address
           vfList == GetVFList(p)
           found == [f \in {p} \cup vfList |->
                        IF f \in vfList THEN buildVFDevice(info, f)
                        ELSE buildPFDevice(info, Cardinality(vfList))]
<1>1. pc = "list" /\ UNCHANGED <<exists, changes>>
  BY DEF ListVFs
<1>2. CASE pc' = "failed"
  BY <1>1, <1>2 DEF DiscoveryInv, CandidateInv, ScanInv, ListInv
<1>3. CASE /\ p \in PFs \cup exists /\ pc' = pc /\ pfList' = pfList \ {info}
           /\ resourceList' = [f \in DOMAIN found \cup DOMAIN resourceList |->
                 IF f \in DOMAIN found THEN found[f] ELSE resourceList[f]]
  <2>1. p \in PFs /\ p \notin DOMAIN resourceList
    BY <1>1, <1>3 DEF DiscoveryInv, CandidateInv, ListInv, Addresses
  <2>2. vfList \subseteq VFs /\ p \notin vfList /\ \A v \in vfList : ParentPF[v] = p
    BY <2>1, HostAssumption DEF DiscoveryInv, GetVFList
  <2>3. /\ DOMAIN resourceList' = DOMAIN resourceList \cup {p} \cup vfList
        /\ resourceList'[p].deviceType = "pf" /\ resourceList'[p].numVFs = Cardinality(vfList)
        /\ \A v \in vfList : resourceList'[v].deviceType = "vf" /\ resourceList'[v].parent = p
        /\ \A f \in DOMAIN resourceList \ vfList : resourceList'[f] = resourceList[f]
    <3>1. \A v \in vfList : buildVFDevice(info, v).deviceType = "vf"
                            /\ buildVFDevice(info, v).parent = p
      BY DEF buildVFDevice, Device
    <3>2. /\ buildPFDevice(info, Cardinality(vfList)).deviceType = "pf"
          /\ buildPFDevice(info, Cardinality(vfList)).numVFs = Cardinality(vfList)
      BY DEF buildPFDevice, Device
    <3>3. \A f \in vfList : found[f] = buildVFDevice(info, f)
      OBVIOUS
    <3>4. found[p] = buildPFDevice(info, Cardinality(vfList))
      BY <2>2
    <3>5. DOMAIN found = {p} \cup vfList
      OBVIOUS
    <3> HIDE DEF found, vfList, p
    <3> QED
      BY <1>3, <2>1, <3>1, <3>2, <3>3, <3>4, <3>5
  <2> HIDE DEF vfList, found
  <2>4. Addresses' = Addresses \ {p}
    BY <1>1, <1>3 DEF DiscoveryInv, CandidateInv, Addresses
  <2>5. CandidateInv' /\ ScanInv'
    BY <1>1, <1>3 DEF DiscoveryInv, CandidateInv, ScanInv
  <2>6. \A v \in VFs \cap DOMAIN resourceList :
           resourceList[v].parent = ParentPF[v] /\ v \notin vfList
    BY <1>1, <2>1, <2>2 DEF DiscoveryInv, ListInv
  <2>7. ListedAs(p)' = vfList
    <3>1. \A v \in VFs \cap DOMAIN resourceList : resourceList[v].parent # p
      BY <1>1, <2>1 DEF DiscoveryInv, ListInv
    <3> QED
      BY <2>1, <2>2, <2>3, <2>6, <3>1, HostAssumption DEF ListedAs
  <2>8. ASSUME NEW q \in PFs \cap DOMAIN resourceList PROVE ListedAs(q)' = ListedAs(q)
    BY <2>1, <2>2, <2>3, <2>6, <2>8, HostAssumption DEF ListedAs
  <2>9. ListInv'
    <3>1. DOMAIN resourceList' \subseteq NetFunctions
      BY <1>1, <2>1, <2>2, <2>3 DEF DiscoveryInv, ListInv, NetFunctions
    <3>2. \A q \in PFs : q \in DOMAIN resourceList' <=> q \notin Addresses'
      BY <1>1, <2>2, <2>3, <2>4, HostAssumption DEF DiscoveryInv, ListInv
    <3>3. ASSUME NEW q \in PFs \cap DOMAIN resourceList'
          PROVE  /\ resourceList'[q].deviceType = "pf"
                 /\ resourceList'[q].numVFs = Cardinality(ListedAs(q)')
      <4>1. CASE q = p
        BY <2>3, <2>7, <4>1
      <4>2. CASE q # p
        <5>1. q \in DOMAIN resourceList /\ q \notin vfList
          BY <2>2, <2>3, <3>3, <4>2, HostAssumption
        <5> QED
          BY <1>1, <2>3, <2>8, <5>1 DEF DiscoveryInv, ListInv
      <4> QED
        BY <4>1, <4>2
    <3>4. ASSUME NEW v \in VFs \cap DOMAIN resourceList'
          PROVE  /\ resourceList'[v].deviceType = "vf" /\ resourceList'[v].parent = ParentPF[v]
                 /\ ParentPF[v] \in DOMAIN resourceList'
      <4>1. CASE v \in vfList
        BY <2>2, <2>3, <4>1
      <4>2. CASE v \notin vfList
        <5>1. v \in DOMAIN resourceList
          BY <2>1, <2>3, <3>4, <4>2, HostAssumption
        <5> QED
          BY <1>1, <2>3, <4>2, <5>1 DEF DiscoveryInv, ListInv
      <4> QED
        BY <4>1, <4>2
    <3> QED
      BY <3>1, <3>2, <3>3, <3>4 DEF ListInv
  <2> QED
    BY <1>1, <1>3, <2>5, <2>9 DEF DiscoveryInv
<1> QED
  BY <1>2, <1>3 DEF ListVFs

\* The one change makes VFs appear or vanish; a VF that had vanished before is
\* no candidate yet.
LEMMA ConfigureVFsKeeps ==
  ASSUME DiscoveryInv, OneChange, ConfigureVFs
  PROVE  DiscoveryInv'
<1>1. /\ exists' \subseteq VFs /\ changes' = changes + 1 /\ changes < MaxChanges
      /\ changes \in Nat /\ MaxChanges \in Nat
      /\ UNCHANGED <<pc, todo, pfList, resourceList>>
  BY HostAssumption DEF ConfigureVFs, DiscoveryInv
<1>2. CandidateInv'
  BY <1>1 DEF DiscoveryInv, CandidateInv
<1>3. ScanInv'
  BY <1>1 DEF DiscoveryInv, ScanInv, Addresses
<1>4. ListInv'
  BY <1>1 DEF DiscoveryInv, ListInv, Addresses, ListedAs
<1> QED
  BY <1>1, <1>2, <1>3, <1>4 DEF DiscoveryInv

\* Every step keeps the invariant.
LEMMA DiscoveryStep ==
  ASSUME OneChange, DiscoveryInv, [Next]_vars
  PROVE  DiscoveryInv'
<1> USE DEF DiscoveryInv, CandidateInv, ScanInv, ListInv
<1>1. CASE ListPCI
  <2>1. pfList' = {} /\ DOMAIN resourceList' = {} /\ UNCHANGED <<exists, changes>>
        /\ (pc' = "failed" \/ (pc' = "scan" /\ todo' = PFs \cup exists))
    BY <1>1 DEF ListPCI
  <2> QED
    BY <2>1 DEF NetFunctions, Addresses
<1>2. CASE ScanEnds
  BY <1>2 DEF ScanEnds, Addresses
<1>3. CASE ListEnds
  BY <1>3 DEF ListEnds, Addresses, ListedAs
<1>4. CASE Restart
  BY <1>4 DEF Restart
<1>5. CASE UNCHANGED vars
  BY <1>5 DEF vars, Addresses, ListedAs
<1> QED
  BY <1>1, <1>2, <1>3, <1>4, <1>5, ScanFunctionKeeps, ListVFsKeeps, ConfigureVFsKeeps DEF Next

\* However the operator's write of sriov_numvfs falls into a discovery, what is
\* found is consistent: each function is listed for what it is, and a PF counts
\* exactly the VFs that are listed with it.
THEOREM CountsAlwaysAgree == ASSUME OneChange PROVE Spec => []CountsAgree
<1>1. Init => DiscoveryInv
  BY HostAssumption DEF Init, DiscoveryInv, CandidateInv, ScanInv, ListInv
<1>2. DiscoveryInv /\ [Next]_vars => DiscoveryInv'
  BY DiscoveryStep
<1>3. DiscoveryInv => CountsAgree
  <2> SUFFICES ASSUME DiscoveryInv, pc = "done"
               PROVE  /\ \A f \in DOMAIN resourceList :
                            resourceList[f].deviceType = (IF f \in PFs THEN "pf" ELSE "vf")
                      /\ \A p \in PFs : /\ p \in DOMAIN resourceList
                                        /\ resourceList[p].numVFs = Cardinality(ListedAs(p))
    BY DEF CountsAgree, ListedAs
  <2>1. Addresses = {}
    BY DEF DiscoveryInv, Addresses
  <2> QED
    BY <2>1 DEF DiscoveryInv, ListInv, NetFunctions
<1> QED
  BY <1>1, <1>2, <1>3, PTL DEF Spec

-----------------------------------------------------------------------------
(* SumFunction adds up in any order *)

\* A set of natural numbers has a least element.
LEMMA LeastNumber ==
  ASSUME NEW T \in SUBSET Nat, T # {}
  PROVE  \E x \in T : \A y \in T : x <= y
<1> DEFINE R == {ss \in Nat \X Nat : ss[1] < ss[2]}
<1>1. IsWellFoundedOn(R, Nat)
  BY NatLessThanWellFounded DEF OpToRel
<1> HIDE DEF R
<1>2. PICK x \in T : \A y \in T : ~(<<y, x>> \in R)
  BY <1>1, WFMin
<1>3. \A m, n \in Nat : <<n, m>> \in R <=> n < m
  BY DEF R
<1>4. ASSUME NEW y \in T PROVE x <= y
  <2>1. x \in Nat /\ y \in Nat
    OBVIOUS
  <2>2. <<y, x>> \notin R
    BY <1>2
  <2>3. ~(y < x)
    BY <1>3, <2>1, <2>2
  <2> QED
    BY <2>1, <2>3
<1> QED
  BY <1>4

\* One step of SumFunction: an element is taken out and the sum of the others,
\* in h, added to its value in g.
Taken(s) == CHOOSE x \in s : TRUE
SumStep(g, h, s) == IF s = {} THEN 0 ELSE g[Taken(s)] + h[s \ {Taken(s)}]

\* What is taken out of a finite set makes it smaller.
LEMMA Smaller ==
  ASSUME NEW S, IsFiniteSet(S), NEW s \in SUBSET S, NEW x \in s
  PROVE  /\ IsFiniteSet(s) /\ Cardinality(s) \in Nat
         /\ s \ {x} \in SUBSET S /\ Cardinality(s \ {x}) = Cardinality(s) - 1
         /\ Cardinality(s) - 1 \in Nat
<1>1. IsFiniteSet(s)
  BY FS_Subset
<1>2. Cardinality(s \ {x}) = Cardinality(s) - 1 /\ IsFiniteSet(s \ {x})
  BY <1>1, FS_RemoveElement
<1>3. Cardinality(s) \in Nat /\ Cardinality(s \ {x}) \in Nat
  BY <1>1, <1>2, FS_CardinalityType
<1> QED
  BY <1>1, <1>2, <1>3

\* There is a function that the recursion defines.
LEMMA SumExists ==
  ASSUME NEW S, IsFiniteSet(S), NEW g
  PROVE  \E h : h = [s \in SUBSET S |-> SumStep(g, h, s)]
<1> DEFINE Upto(j) == {s \in SUBSET S : Cardinality(s) <= j}
           Has(j) == \E h : h = [s \in Upto(j) |-> SumStep(g, h, s)]
           T == {j \in Nat : ~Has(j)}
<1>1. T = {}
  <2> SUFFICES ASSUME T # {} PROVE FALSE
    OBVIOUS
  <2>1. PICK j \in T : \A i \in T : j <= i
    <3>1. T \in SUBSET Nat
      OBVIOUS
    <3> HIDE DEF T
    <3> QED
      BY <3>1, LeastNumber
  <2>2. PICK h : h = [s \in Upto(j - 1) |-> SumStep(g, h, s)]
    <3>1. CASE j = 0
      <4>1. Upto(j - 1) = {}
        <5>1. \A s \in SUBSET S : Cardinality(s) \in Nat
          BY FS_Subset, FS_CardinalityType
        <5> QED
          BY <3>1, <5>1
      <4> HIDE DEF Upto
      <4> QED
        BY <4>1
    <3>2. CASE j # 0
      <4>1. j - 1 \in Nat /\ ~(j <= j - 1)
        BY <2>1, <3>2
      <4>2. Has(j - 1)
        BY <2>1, <4>1
      <4> QED
        BY <4>2
    <3> QED
      BY <3>1, <3>2
  <2> DEFINE k == [s \in Upto(j) |-> IF s \in Upto(j - 1) THEN h[s] ELSE SumStep(g, h, s)]
  <2>3. ASSUME NEW s \in Upto(j) PROVE k[s] = SumStep(g, k, s)
    <3>1. k[s] = SumStep(g, h, s)
      <4>1. CASE s \in Upto(j - 1)
        <5> HIDE DEF Upto
        <5> QED
          BY <2>2, <4>1
      <4> QED
        BY <4>1
    <3>2. CASE s = {}
      BY <3>1, <3>2 DEF SumStep
    <3>3. CASE s # {}
      <4> DEFINE x == Taken(s)
      <4>1. x \in s
        BY <3>3 DEF Taken
      <4> HIDE DEF x
      <4>2. s \in SUBSET S /\ Cardinality(s) <= j /\ j \in Nat
        OBVIOUS
      <4>3. /\ s \ {x} \in SUBSET S /\ Cardinality(s \ {x}) = Cardinality(s) - 1
            /\ Cardinality(s) \in Nat
        BY <4>1, <4>2, Smaller
      <4>4. Cardinality(s \ {x}) <= j /\ Cardinality(s \ {x}) <= j - 1
        BY <4>2, <4>3
      <4>5. s \ {x} \in Upto(j) /\ s \ {x} \in Upto(j - 1)
        BY <4>3, <4>4
      <4>6. k[s \ {x}] = h[s \ {x}]
        <5> HIDE DEF Upto
        <5> QED
          BY <4>5
      <4> HIDE DEF k
      <4> QED
        BY <3>1, <3>3, <4>6 DEF SumStep, x
    <3> QED
      BY <3>2, <3>3
  <2>4. k = [s \in Upto(j) |-> SumStep(g, k, s)]
    <3>1. k = [s \in Upto(j) |-> k[s]]
      OBVIOUS
    <3> HIDE DEF k, Upto
    <3> QED
      BY <2>3, <3>1
  <2> HIDE DEF k
  <2>5. Has(j)
    BY <2>4
  <2> QED
    BY <2>5
<1>2. Cardinality(S) \in Nat /\ Upto(Cardinality(S)) = SUBSET S
  <2>1. \A s \in SUBSET S : Cardinality(s) <= Cardinality(S)
    BY FS_Subset
  <2> QED
    BY <2>1, FS_CardinalityType
<1>3. Has(Cardinality(S))
  BY <1>1, <1>2
<1> HIDE DEF Upto
<1> QED
  BY <1>2, <1>3

\* SumFunction adds up the values in any order: whichever element is taken out,
\* the sum is its value and the sum of the others.
LEMMA SumIs ==
  ASSUME NEW S, IsFiniteSet(S), NEW g \in [S -> Nat]
  PROVE  \E h \in [SUBSET S -> Nat] :
            /\ h[{}] = 0
            /\ \A s \in SUBSET S : \A x \in s : h[s] = g[x] + h[s \ {x}]
            /\ SumFunction(g) = h[S]
<1>0. \E k : k = [s \in SUBSET S |-> SumStep(g, k, s)]
  <2>1. IsFiniteSet(S)
    OBVIOUS
  <2>2. \A f : \E k : k = [s \in SUBSET S |-> SumStep(f, k, s)]
    BY <2>1, SumExists
  <2> QED
    BY <2>2, Zenon
<1> DEFINE h == CHOOSE h : h = [s \in SUBSET S |-> SumStep(g, h, s)]
<1>1. SumFunction(g) = h[S]
  <2>1. DOMAIN g = S
    OBVIOUS
  <2> QED
    BY <2>1, Zenon
    DEF SumFunction, SumFunctionOnSet, FoldFunctionOnSet, MapThenFoldSet, SumStep, Taken
<1>2. h = [s \in SUBSET S |-> SumStep(g, h, s)]
  BY <1>0, Zenon
<1> HIDE DEF h
<1>3. \A s \in SUBSET S : h[s] = SumStep(g, h, s)
  BY <1>2, Zenon
<1>4. h[{}] = 0
  BY <1>3 DEF SumStep
<1> DEFINE Ok(s) == h[s] \in Nat /\ \A x \in s : h[s] = g[x] + h[s \ {x}]
           T == {j \in Nat : \E s \in SUBSET S : Cardinality(s) = j /\ ~Ok(s)}
<1>5. T = {}
  <2> SUFFICES ASSUME T # {} PROVE FALSE
    OBVIOUS
  <2>1. PICK j \in T : \A i \in T : j <= i
    <3>1. T \in SUBSET Nat
      OBVIOUS
    <3> HIDE DEF T
    <3> QED
      BY <3>1, LeastNumber
  <2>2. PICK s \in SUBSET S : Cardinality(s) = j /\ ~Ok(s)
    OBVIOUS
  <2>3. \A t \in SUBSET S : Cardinality(t) = j - 1 /\ j - 1 \in Nat => Ok(t)
    <3>1. j \in Nat /\ ~(j <= j - 1)
      OBVIOUS
    <3> QED
      BY <2>1, <3>1
  <2> HIDE DEF T
  <2>4. s # {}
    BY <1>4, <2>2
  <2> DEFINE y == Taken(s)
  <2>5. y \in s /\ h[s] = g[y] + h[s \ {y}]
    BY <1>3, <2>4 DEF SumStep, Taken
  <2> HIDE DEF y
  <2>6. \A x \in s : g[x] \in Nat /\ s \ {x} \in SUBSET S /\ Ok(s \ {x})
    <3> SUFFICES ASSUME NEW x \in s PROVE g[x] \in Nat /\ s \ {x} \in SUBSET S /\ Ok(s \ {x})
      OBVIOUS
    <3>1. s \ {x} \in SUBSET S /\ Cardinality(s \ {x}) = j - 1 /\ j - 1 \in Nat
      BY <2>2, Smaller
    <3> HIDE DEF Ok
    <3> QED
      BY <2>3, <3>1
  <2>7. h[s] \in Nat
    BY <2>5, <2>6
  <2>8. ASSUME NEW x \in s, x # y PROVE h[s] = g[x] + h[s \ {x}]
    <3>1. /\ x \in s \ {y} /\ y \in s \ {x} /\ (s \ {y}) \ {x} = (s \ {x}) \ {y}
      BY <2>5, <2>8
    <3>2. h[s \ {y}] = g[x] + h[(s \ {y}) \ {x}] /\ h[s \ {x}] = g[y] + h[(s \ {y}) \ {x}]
      BY <2>5, <2>6, <3>1
    <3>3. /\ h[s \ {y}] \in Nat /\ h[s \ {x}] \in Nat /\ g[x] \in Nat /\ g[y] \in Nat
      BY <2>5, <2>6
    <3>4. h[(s \ {y}) \ {x}] \in Nat
      <4>1. s \ {y} \in SUBSET S /\ Cardinality(s \ {y}) = j - 1 /\ j - 1 \in Nat
        BY <2>2, <2>5, Smaller
      <4>2. (s \ {y}) \ {x} \in SUBSET S /\ Cardinality((s \ {y}) \ {x}) = j - 1 - 1
            /\ j - 1 - 1 \in Nat
        <5> DEFINE u == s \ {y}
        <5>1. x \in u /\ u \in SUBSET S
          BY <3>1, <4>1
        <5> HIDE DEF u
        <5>2. /\ u \ {x} \in SUBSET S /\ Cardinality(u \ {x}) = Cardinality(u) - 1
              /\ Cardinality(u) - 1 \in Nat
          BY <5>1, Smaller
        <5> QED
          BY <4>1, <5>2 DEF u
      <4>3. ~(j <= j - 1 - 1)
        <5>1. j \in Nat
          BY <2>1 DEF T
        <5> QED
          BY <5>1
      <4>4. j - 1 - 1 \notin T
        BY <2>1, <4>3
      <4> QED
        BY <4>2, <4>4 DEF T
    <3> QED
      BY <2>5, <3>2, <3>3, <3>4
  <2> QED
    BY <2>2, <2>5, <2>7, <2>8
<1>6. \A s \in SUBSET S : Ok(s)
  <2>1. \A s \in SUBSET S : Cardinality(s) \in Nat
    BY FS_Subset, FS_CardinalityType
  <2> QED
    BY <1>5, <2>1
<1>7. h \in [SUBSET S -> Nat]
  BY <1>2, <1>6
<1> QED
  BY <1>1, <1>4, <1>6, <1>7

-----------------------------------------------------------------------------
(* The VLANs of an uplink: sorting them and forming the ranges *)

\* sort.Ints, as the model has it: every ID once, in ascending order.
LEMMA AscendingSorts ==
  ASSUME NEW S \in SUBSET Nat, IsFiniteSet(S)
  PROVE  LET n == Cardinality(S)
             s == Ascending(S)
         IN  /\ n \in Nat /\ s \in [1 .. n -> S]
             /\ \A i, j \in 1 .. n : i < j => s[i] < s[j]
             /\ \A v \in S : \E i \in 1 .. n : s[i] = v
<1> DEFINE n == Cardinality(S)
           s == Ascending(S)
           Below(v) == {w \in S : w < v}
           rank == [v \in S |-> Cardinality(Below(v))]
<1>1. n \in Nat
  BY FS_CardinalityType
<1>2. ASSUME NEW v \in S PROVE rank[v] \in 0 .. n - 1 /\ IsFiniteSet(Below(v))
  <2>1. Below(v) \in SUBSET S /\ v \notin Below(v)
    OBVIOUS
  <2> HIDE DEF Below
  <2>2. IsFiniteSet(Below(v)) /\ Cardinality(Below(v)) <= n /\ n # Cardinality(Below(v))
    BY <2>1, FS_Subset
  <2>3. Cardinality(Below(v)) \in Nat
    BY <2>2, FS_CardinalityType
  <2> QED
    BY <1>1, <2>2, <2>3
<1>3. ASSUME NEW u \in S, NEW v \in S, u < v PROVE rank[u] < rank[v]
  <2>1. Below(u) \in SUBSET Below(v) /\ u \in Below(v) /\ u \notin Below(u)
    <3>1. ~(u < u) /\ \A w \in S : w < u => w < v
      BY <1>3
    <3>2. \A w \in Below(u) : w \in Below(v)
      BY <3>1
    <3>3. u \in Below(v) /\ u \notin Below(u)
      BY <1>3, <3>1
    <3> QED
      BY <3>2, <3>3
  <2>2. IsFiniteSet(Below(v)) /\ rank[u] \in Nat /\ rank[v] \in Nat
    BY <1>1, <1>2
  <2> HIDE DEF Below
  <2>3. /\ Cardinality(Below(u)) <= Cardinality(Below(v))
        /\ Cardinality(Below(v)) # Cardinality(Below(u))
    BY <2>1, <2>2, FS_Subset
  <2> QED
    BY <2>2, <2>3
<1>4. \A u, v \in S : rank[u] = rank[v] => u = v
  <2> SUFFICES ASSUME NEW u \in S, NEW v \in S, rank[u] = rank[v], u # v PROVE FALSE
    OBVIOUS
  <2>1. u < v \/ v < u
    OBVIOUS
  <2>2. rank[u] \in Nat /\ rank[v] \in Nat
    BY <1>1, <1>2
  <2> HIDE DEF rank
  <2> QED
    BY <1>3, <2>1, <2>2
<1>5. rank \in Injection(S, 0 .. n - 1)
  <2>1. rank \in [S -> 0 .. n - 1] /\ DOMAIN rank = S
    BY <1>2
  <2> HIDE DEF rank
  <2> QED
    BY <1>4, <2>1 DEF Injection, IsInjective
<1>6. IsFiniteSet(0 .. n - 1) /\ Cardinality(0 .. n - 1) = n
  <2>1. 0 \in Int /\ n - 1 \in Int /\ (0 > n - 1 => n = 0) /\ (n - 1) - 0 + 1 = n
    BY <1>1
  <2> QED
    BY <2>1, FS_Interval
<1>7. \A k \in 0 .. n - 1 : \E v \in S : rank[v] = k
  <2>1. rank \in Surjection(S, 0 .. n - 1)
    BY <1>5, <1>6, FS_Injection
  <2> HIDE DEF rank, n
  <2> QED
    BY <2>1 DEF Surjection
<1>8. ASSUME NEW i \in 1 .. n PROVE s[i] \in S /\ rank[s[i]] = i - 1
  <2>1. s[i] = CHOOSE v \in S : Cardinality(Below(v)) = i - 1
    BY DEF Ascending
  <2>2. i - 1 \in 0 .. n - 1
    BY <1>1
  <2>3. \E v \in S : Cardinality(Below(v)) = i - 1
    BY <1>7, <2>2
  <2>4. s[i] \in S /\ Cardinality(Below(s[i])) = i - 1
    <3> HIDE DEF Below, s
    <3> QED
      BY <2>1, <2>3
  <2> QED
    BY <2>4
<1>9. DOMAIN s = 1 .. n /\ s = [i \in 1 .. n |-> s[i]]
  <2> DEFINE At(i) == CHOOSE v \in S : Cardinality(Below(v)) = i - 1
  <2>1. s = [i \in 1 .. n |-> At(i)]
    BY Zenon DEF Ascending
  <2> HIDE DEF At, s
  <2> QED
    BY <2>1
<1>10. ASSUME NEW i \in 1 .. n, NEW j \in 1 .. n, i < j PROVE s[i] < s[j]
  <2>1. s[i] \in S /\ s[j] \in S /\ rank[s[i]] = i - 1 /\ rank[s[j]] = j - 1
    BY <1>8
  <2> HIDE DEF rank, s
  <2>2. i - 1 # j - 1 /\ ~(j - 1 < i - 1)
    BY <1>1, <1>10
  <2>3. s[i] \in Nat /\ s[j] \in Nat /\ s[i] # s[j]
    BY <2>1, <2>2
  <2>4. ~(s[j] < s[i])
    BY <1>3, <2>1, <2>2
  <2> QED
    BY <2>3, <2>4
<1>11. ASSUME NEW v \in S PROVE \E i \in 1 .. n : s[i] = v
  <2>1. rank[v] \in 0 .. n - 1
    BY <1>2
  <2> HIDE DEF rank, s
  <2>2. rank[v] + 1 \in 1 .. n /\ (rank[v] + 1) - 1 = rank[v]
    BY <1>1, <2>1
  <2>3. s[rank[v] + 1] \in S /\ rank[s[rank[v] + 1]] = rank[v]
    BY <1>8, <2>2
  <2> QED
    BY <1>4, <2>2, <2>3
<1> HIDE DEF n, s, rank
<1>12. s \in [1 .. n -> S]
  BY <1>8, <1>9
<1> QED
  BY <1>1, <1>10, <1>11, <1>12 DEF n, s

\* The range that begins at i ends at the first index that does not continue it.
LEMMA RangeEndIs ==
  ASSUME NEW s, Len(s) \in Nat, NEW i \in 1 .. Len(s)
  PROVE  /\ RangeEnd(s, i) \in i .. Len(s) /\ ~Continues(s, RangeEnd(s, i))
         /\ \A j \in i .. Len(s) : j < RangeEnd(s, i) => Continues(s, j)
<1> DEFINE T == {j \in i .. Len(s) : ~Continues(s, j)}
<1>1. Len(s) \in T
  BY DEF Continues
<1>2. T \in SUBSET Nat
  OBVIOUS
<1>3. RangeEnd(s, i) \in T /\ \A j \in T : RangeEnd(s, i) <= j
  <2>1. RangeEnd(s, i) = CHOOSE x \in T : \A y \in T : x <= y
    BY Zenon DEF RangeEnd, Min
  <2> HIDE DEF T
  <2>2. \E x \in T : \A y \in T : x <= y
    BY <1>1, <1>2, LeastNumber
  <2> QED
    BY <2>1, <2>2, Zenon
<1>4. ASSUME NEW j \in i .. Len(s), j < RangeEnd(s, i) PROVE Continues(s, j)
  <2>1. RangeEnd(s, i) \in Nat
    BY <1>2, <1>3
  <2>2. ~(RangeEnd(s, i) <= j)
    BY <1>4, <2>1
  <2> QED
    BY <1>3, <2>2
<1> QED
  BY <1>3, <1>4

\* One step of formatVlanRanges, with the ranges of the later IDs in h.
FromStep(s, h, i) ==
    IF i > Len(s) THEN <<>>
    ELSE <<<<s[i], s[RangeEnd(s, i)]>>>> \o h[RangeEnd(s, i) + 1]

\* There is a function that the recursion defines.
LEMMA FromExists ==
  ASSUME NEW s, Len(s) \in Nat
  PROVE  \E h : h = [i \in 1 .. Len(s) + 1 |-> FromStep(s, h, i)]
<1> DEFINE n == Len(s)
           After(j) == {i \in 1 .. n + 1 : n + 1 - j <= i}
           Has(j) == \E h : h = [i \in After(j) |-> FromStep(s, h, i)]
           T == {j \in Nat : ~Has(j)}
<1>1. T = {}
  <2> SUFFICES ASSUME T # {} PROVE FALSE
    OBVIOUS
  <2>1. PICK j \in T : \A i \in T : j <= i
    <3>1. T \in SUBSET Nat
      OBVIOUS
    <3> HIDE DEF T
    <3> QED
      BY <3>1, LeastNumber
  <2>2. PICK h : h = [i \in After(j - 1) |-> FromStep(s, h, i)]
    <3>1. CASE j = 0
      <4>1. After(j - 1) = {}
        BY <3>1
      <4> HIDE DEF After
      <4> QED
        BY <4>1
    <3>2. CASE j # 0
      <4>1. j - 1 \in Nat /\ ~(j <= j - 1)
        BY <2>1, <3>2
      <4>2. Has(j - 1)
        BY <2>1, <4>1
      <4> QED
        BY <4>2
    <3> QED
      BY <3>1, <3>2
  <2> DEFINE k == [i \in After(j) |-> IF i \in After(j - 1) THEN h[i] ELSE FromStep(s, h, i)]
  <2>3. ASSUME NEW i \in After(j) PROVE k[i] = FromStep(s, k, i)
    <3>1. k[i] = FromStep(s, h, i)
      <4>1. CASE i \in After(j - 1)
        <5> HIDE DEF After
        <5> QED
          BY <2>2, <4>1
      <4> QED
        BY <4>1
    <3>2. CASE i > n
      BY <3>1, <3>2 DEF FromStep
    <3>3. CASE ~(i > n)
      <4> DEFINE e == RangeEnd(s, i)
      <4>1. i \in 1 .. n /\ n + 1 - j <= i /\ j \in Nat /\ n \in Nat
        BY <3>3
      <4>2. e \in i .. n
        BY <4>1, RangeEndIs
      <4> HIDE DEF e
      <4>3. e + 1 \in 1 .. n + 1 /\ n + 1 - j <= e + 1 /\ n + 1 - (j - 1) <= e + 1
        BY <4>1, <4>2
      <4>4. e + 1 \in After(j) /\ e + 1 \in After(j - 1)
        BY <4>3
      <4>5. k[e + 1] = h[e + 1]
        <5> HIDE DEF After
        <5> QED
          BY <4>4
      <4> HIDE DEF k
      <4> QED
        BY <3>1, <3>3, <4>5 DEF FromStep, e
    <3> QED
      BY <3>2, <3>3
  <2>4. k = [i \in After(j) |-> FromStep(s, k, i)]
    <3>1. k = [i \in After(j) |-> k[i]]
      OBVIOUS
    <3> HIDE DEF k, After
    <3> QED
      BY <2>3, <3>1
  <2> HIDE DEF k
  <2>5. Has(j)
    BY <2>4
  <2> QED
    BY <2>5
<1>2. n + 1 \in Nat /\ After(n + 1) = 1 .. n + 1
  OBVIOUS
<1>3. Has(n + 1)
  BY <1>1, <1>2
<1> HIDE DEF After
<1> QED
  BY <1>2, <1>3

\* The ranges are those of the recursion from the first index on.
LEMMA RangesAre ==
  ASSUME NEW s, Len(s) \in Nat
  PROVE  \E h : /\ formatVlanRanges(s) = h[1]
                /\ \A i \in 1 .. Len(s) + 1 : h[i] = FromStep(s, h, i)
<1>1. \E k : k = [i \in 1 .. Len(s) + 1 |-> FromStep(s, k, i)]
  BY FromExists
<1> DEFINE g == CHOOSE k : k = [i \in 1 .. Len(s) + 1 |-> FromStep(s, k, i)]
<1>2. formatVlanRanges(s) = g[1]
  BY Zenon DEF formatVlanRanges, FromStep
<1>3. g = [i \in 1 .. Len(s) + 1 |-> FromStep(s, g, i)]
  BY <1>1, Zenon
<1> HIDE DEF g
<1>4. \A i \in 1 .. Len(s) + 1 : g[i] = FromStep(s, g, i)
  BY <1>3, Zenon
<1> QED
  BY <1>2, <1>4

\* A range put in front.
LEMMA InFront ==
  ASSUME NEW T, NEW x \in T, NEW r \in Seq(T)
  PROVE  LET q == <<x>> \o r
         IN  /\ q \in Seq(T) /\ Len(q) = Len(r) + 1 /\ q[1] = x
             /\ \A k \in 1 .. Len(q) : k # 1 => k - 1 \in 1 .. Len(r) /\ q[k] = r[k - 1]
             /\ \A k \in 1 .. Len(r) : k + 1 \in 1 .. Len(q) /\ q[k + 1] = r[k]
<1> DEFINE q == <<x>> \o r
<1>1. <<x>> \in Seq(T) /\ Len(<<x>>) = 1 /\ <<x>>[1] = x
  OBVIOUS
<1>2. /\ q \in Seq(T) /\ Len(q) = 1 + Len(r) /\ Len(r) \in Nat
      /\ \A k \in 1 .. 1 + Len(r) : q[k] = IF k <= 1 THEN <<x>>[k] ELSE r[k - 1]
  BY <1>1, ConcatProperties
<1> HIDE DEF q
<1> QED
  BY <1>1, <1>2 DEF q

\* Whether a range begins at index a of the IDs from i on.
Begins(s, i, a) == a = i \/ ~Continues(s, a - 1)

\* The ranges r of the ascending IDs s from index i on: each begins where no
\* range goes on and ends where it does not go on any more, none of them is
\* missing, and they are in order.
RangesFrom(s, i, r) ==
    /\ r \in Seq(Nat \X Nat)
    /\ \A k \in 1 .. Len(r) : \E a \in i .. Len(s) :
          r[k] = <<s[a], s[RangeEnd(s, a)]>> /\ Begins(s, i, a)
    /\ \A a \in i .. Len(s) : Begins(s, i, a) => \E k \in 1 .. Len(r) : r[k][1] = s[a]
                                               /\ r[k][2] = s[RangeEnd(s, a)]
    /\ \A k, l \in 1 .. Len(r) : k < l => r[k][2] < r[l][1]

\* A range that ends at e is put in front of the ranges from e + 1 on.
LEMMA OneMoreRange ==
  ASSUME NEW n \in Nat, NEW s \in [1 .. n -> Nat], Len(s) = n,
         \A i, j \in 1 .. n : i < j => s[i] < s[j],
         NEW i \in 1 .. n, NEW r, RangesFrom(s, RangeEnd(s, i) + 1, r)
  PROVE  RangesFrom(s, i, <<<<s[i], s[RangeEnd(s, i)]>>>> \o r)
<1> DEFINE e == RangeEnd(s, i)
           x == <<s[i], s[e]>>
           q == <<x>> \o r
<1>1. e \in i .. n /\ ~Continues(s, e) /\ \A j \in i .. n : j < e => Continues(s, j)
  BY RangeEndIs
<1>2. RangesFrom(s, e + 1, r)
  OBVIOUS
<1>3. x \in Nat \X Nat /\ x[1] = s[i] /\ x[2] = s[e]
  BY <1>1
<1>4. r \in Seq(Nat \X Nat)
  BY <1>2 DEF RangesFrom
<1> HIDE DEF x
<1>5. /\ q \in Seq(Nat \X Nat) /\ Len(q) = Len(r) + 1 /\ q[1] = x
      /\ \A k \in 1 .. Len(q) : k # 1 => k - 1 \in 1 .. Len(r) /\ q[k] = r[k - 1]
      /\ \A k \in 1 .. Len(r) : k + 1 \in 1 .. Len(q) /\ q[k + 1] = r[k]
  BY <1>3, <1>4, InFront
<1>6. Len(r) \in Nat /\ 1 \in 1 .. Len(q)
  <2>1. Len(r) \in Nat
    BY <1>4
  <2> QED
    BY <1>5, <2>1
<1> HIDE DEF q
<1>7. ASSUME NEW k \in 1 .. Len(q)
      PROVE  \E a \in i .. n : q[k] = <<s[a], s[RangeEnd(s, a)]>> /\ Begins(s, i, a)
  <2>1. CASE k = 1
    <3>1. q[k] = <<s[i], s[RangeEnd(s, i)]>> /\ Begins(s, i, i) /\ i \in i .. n
      BY <1>5, <2>1 DEF x, Begins
    <3> QED
      BY <3>1
  <2>2. CASE k # 1
    <3>1. k - 1 \in 1 .. Len(r) /\ q[k] = r[k - 1]
      BY <1>5, <2>2
    <3>2. PICK a \in e + 1 .. n :
             r[k - 1] = <<s[a], s[RangeEnd(s, a)]>> /\ Begins(s, e + 1, a)
      BY <1>2, <3>1 DEF RangesFrom
    <3>3. a \in i .. n /\ (a = e + 1 => a - 1 = e)
      BY <1>1
    <3>4. Begins(s, i, a)
      BY <1>1, <3>2, <3>3 DEF Begins
    <3> HIDE DEF e
    <3> QED
      BY <3>1, <3>2, <3>3, <3>4
  <2> QED
    BY <2>1, <2>2
<1>8. ASSUME NEW a \in i .. n, Begins(s, i, a)
      PROVE  \E k \in 1 .. Len(q) : q[k][1] = s[a] /\ q[k][2] = s[RangeEnd(s, a)]
  <2>1. CASE a = i
    <3>1. q[1][1] = s[a] /\ q[1][2] = s[RangeEnd(s, a)]
      BY <1>3, <1>5, <2>1
    <3> QED
      BY <1>6, <3>1
  <2>2. CASE a # i
    <3>1. ~Continues(s, a - 1) /\ a - 1 \in i .. n
      BY <1>8, <2>2 DEF Begins
    <3>2. ~(a - 1 < e)
      BY <1>1, <3>1
    <3>3. a \in e + 1 .. n
      BY <1>1, <3>2
    <3>4. Begins(s, e + 1, a)
      BY <3>1 DEF Begins
    <3>5. PICK k \in 1 .. Len(r) : r[k][1] = s[a] /\ r[k][2] = s[RangeEnd(s, a)]
      <4> HIDE DEF e
      <4> QED
        BY <1>2, <3>3, <3>4 DEF RangesFrom
    <3>6. k + 1 \in 1 .. Len(q) /\ q[k + 1] = r[k]
      BY <1>5
    <3>7. q[k + 1][1] = s[a] /\ q[k + 1][2] = s[RangeEnd(s, a)]
      BY <3>5, <3>6
    <3> QED
      BY <3>6, <3>7
  <2> QED
    BY <2>1, <2>2
<1>9. ASSUME NEW k \in 1 .. Len(q), NEW l \in 1 .. Len(q), k < l
      PROVE  q[k][2] < q[l][1]
  <2>1. l # 1 /\ l - 1 \in 1 .. Len(r) /\ q[l] = r[l - 1]
    <3>1. l # 1
      BY <1>5, <1>6, <1>9
    <3> QED
      BY <1>5, <3>1
  <2>2. CASE k = 1
    <3>1. PICK a \in e + 1 .. n : r[l - 1] = <<s[a], s[RangeEnd(s, a)]>>
      BY <1>2, <2>1 DEF RangesFrom
    <3>2. r[l - 1][1] = s[a]
      BY <3>1
    <3>3. e \in 1 .. n /\ a \in 1 .. n /\ e < a
      BY <1>1
    <3>4. s[e] < s[a]
      <4> HIDE DEF e
      <4> QED
        BY <3>3
    <3> QED
      BY <1>3, <1>5, <2>1, <2>2, <3>2, <3>4
  <2>3. CASE k # 1
    <3>1. k - 1 \in 1 .. Len(r) /\ q[k] = r[k - 1] /\ k - 1 < l - 1
      BY <1>5, <1>6, <1>9, <2>3
    <3> HIDE DEF e
    <3> QED
      BY <1>2, <2>1, <3>1 DEF RangesFrom
  <2> QED
    BY <2>2, <2>3
<1>10. RangesFrom(s, i, q)
  <2> HIDE DEF e
  <2> QED
    BY <1>5, <1>7, <1>8, <1>9 DEF RangesFrom
<1> QED
  BY <1>10 DEF q, x

\* What formatVlanRanges makes of ascending IDs.
LEMMA RangesOf ==
  ASSUME NEW n \in Nat, NEW s \in [1 .. n -> Nat], Len(s) = n,
         \A i, j \in 1 .. n : i < j => s[i] < s[j]
  PROVE  RangesFrom(s, 1, formatVlanRanges(s))
<1>1. PICK h : /\ formatVlanRanges(s) = h[1]
               /\ \A i \in 1 .. n + 1 : h[i] = FromStep(s, h, i)
  BY RangesAre
<1> DEFINE T == {j \in Nat : j <= n /\ ~RangesFrom(s, n + 1 - j, h[n + 1 - j])}
<1>2. T = {}
  <2> SUFFICES ASSUME T # {} PROVE FALSE
    OBVIOUS
  <2>1. PICK j \in T : \A i \in T : j <= i
    <3>1. T \in SUBSET Nat
      OBVIOUS
    <3> HIDE DEF T
    <3> QED
      BY <3>1, LeastNumber
  <2> DEFINE i == n + 1 - j
  <2>2. i \in 1 .. n + 1 /\ ~RangesFrom(s, i, h[i])
    OBVIOUS
  <2>3. CASE i = n + 1
    <3>1. h[i] = <<>>
      <4>1. h[i] = FromStep(s, h, i) /\ i > Len(s)
        <5>1. i > n
          BY <2>3
        <5> HIDE DEF i
        <5> QED
          BY <1>1, <2>2, <5>1
      <4> HIDE DEF i
      <4> QED
        BY <4>1, Zenon DEF FromStep
    <3>2. <<>> \in Seq(Nat \X Nat) /\ Len(<<>>) = 0 /\ i .. n = {} /\ 1 .. 0 = {}
      BY <2>3
    <3>3. RangesFrom(s, i, <<>>)
      BY <3>2 DEF RangesFrom
    <3> QED
      BY <2>2, <3>1, <3>3
  <2>4. CASE i # n + 1
    <3> DEFINE e == RangeEnd(s, i)
    <3>1. i \in 1 .. n
      BY <2>2, <2>4
    <3>2. e \in i .. n
      BY <3>1, RangeEndIs
    <3>3. h[i] = <<<<s[i], s[e]>>>> \o h[e + 1]
      <4>1. h[i] = FromStep(s, h, i) /\ ~(i > Len(s))
        <5>1. i \in 1 .. n + 1 /\ ~(i > n)
          BY <3>1
        <5> HIDE DEF i
        <5> QED
          BY <1>1, <5>1
      <4> HIDE DEF i
      <4> QED
        BY <4>1, Zenon DEF FromStep, e
    <3> HIDE DEF e
    <3>4. RangesFrom(s, e + 1, h[e + 1])
      <4>1. n - e \in Nat /\ n - e <= n /\ ~(j <= n - e) /\ n + 1 - (n - e) = e + 1
        BY <3>1, <3>2
      <4>2. n - e \notin T
        <5> HIDE DEF T
        <5> QED
          BY <2>1, <4>1
      <4> QED
        BY <4>1, <4>2
    <3>5. RangesFrom(s, i, h[i])
      BY <3>1, <3>3, <3>4, OneMoreRange DEF e
    <3> QED
      BY <2>2, <3>5
  <2> QED
    BY <2>3, <2>4
<1>3. n \in Nat /\ n <= n /\ n + 1 - n = 1
  OBVIOUS
<1>4. RangesFrom(s, 1, h[1])
  <2>1. n \notin T
    BY <1>2
  <2> QED
    BY <1>3, <2>1
<1> QED
  BY <1>1, <1>4

Starts(S) == {v \in S : v - 1 \notin S}
Ends(S) == {v \in S : v + 1 \notin S}

\* The ranges r stand for exactly the IDs in S, as few as there can be and in
\* ascending order.
StandFor(r, S) ==
    /\ r \in Seq(Nat \X Nat)
    /\ \A k \in 1 .. Len(r) : /\ r[k][1] \in Starts(S) /\ r[k][2] \in Ends(S)
                              /\ r[k][1] <= r[k][2]
                              /\ \A v \in r[k][1] .. r[k][2] : v \in S
    /\ \A v \in S : \E k \in 1 .. Len(r) : v \in r[k][1] .. r[k][2]
    /\ \A v \in Starts(S) : \E k \in 1 .. Len(r) : r[k][1] = v
    /\ \A v \in Ends(S) : \E k \in 1 .. Len(r) : r[k][2] = v
    /\ \A k, l \in 1 .. Len(r) : k < l => r[k][2] < r[l][1]

\* The sorted IDs between two ends of a range have no gap; a range begins and
\* ends where one of the IDs next to it is missing, and nowhere else.
LEMMA RangesStandFor ==
  ASSUME NEW S \in SUBSET Nat, IsFiniteSet(S)
  PROVE  StandFor(formatVlanRanges(Ascending(S)), S)
<1> DEFINE n == Cardinality(S)
           s == Ascending(S)
           r == formatVlanRanges(s)
<1>1. /\ n \in Nat /\ s \in [1 .. n -> S]
      /\ \A i, j \in 1 .. n : i < j => s[i] < s[j]
      /\ \A v \in S : \E i \in 1 .. n : s[i] = v
  BY AscendingSorts
<1> HIDE DEF n, s
<1>2. s \in [1 .. n -> Nat] /\ Len(s) = n /\ \A i \in 1 .. n : s[i] \in Nat /\ s[i] \in S
  <2>1. s \in Seq(S)
    BY <1>1, SeqDef
  <2>2. Len(s) \in Nat /\ DOMAIN s = 1 .. Len(s) /\ DOMAIN s = 1 .. n
    BY <1>1, <2>1, LenProperties
  <2>3. Len(s) = n
    BY <1>1, <2>2
  <2> QED
    BY <1>1, <2>3
<1>3. RangesFrom(s, 1, r)
  BY <1>1, <1>2, RangesOf
<1>4. /\ \A i, j \in 1 .. n : i <= j => s[i] <= s[j]
      /\ \A i, j \in 1 .. n : s[i] < s[j] => i < j
  <2> SUFFICES ASSUME NEW i \in 1 .. n, NEW j \in 1 .. n
               PROVE  (i <= j => s[i] <= s[j]) /\ (s[i] < s[j] => i < j)
    OBVIOUS
  <2>1. s[i] \in Nat /\ s[j] \in Nat
    BY <1>2
  <2>2. CASE i < j
    <3>1. s[i] < s[j]
      BY <1>1, <2>2
    <3> QED
      BY <2>1, <2>2, <3>1
  <2>3. CASE j < i
    <3>1. s[j] < s[i]
      BY <1>1, <2>3
    <3>2. ~(s[i] < s[j])
      BY <2>1, <3>1
    <3> QED
      BY <2>3, <3>2
  <2>4. CASE i = j
    BY <2>1, <2>4
  <2> QED
    BY <1>1, <2>2, <2>3, <2>4
<1> HIDE DEF r
<1>5. ASSUME NEW a \in 1 .. n, Begins(s, 1, a) PROVE s[a] \in Starts(S)
  <2> SUFFICES ASSUME s[a] - 1 \in S PROVE FALSE
    BY <1>2 DEF Starts
  <2>1. PICK b \in 1 .. n : s[b] = s[a] - 1
    BY <1>1
  <2>2. b < a /\ s[a] \in Nat /\ s[b] \in Nat
    <3>1. s[b] < s[a]
      BY <1>2, <2>1
    <3> QED
      BY <1>2, <1>4, <3>1
  <2>3. a # 1 /\ a - 1 \in 1 .. n /\ b <= a - 1 /\ a - 1 < a /\ (a - 1) + 1 = a
    BY <1>1, <2>2
  <2>4. s[b] <= s[a - 1] /\ s[a - 1] < s[a] /\ s[a - 1] \in Nat
    BY <1>1, <1>2, <1>4, <2>3
  <2>5. s[a] = s[a - 1] + 1
    BY <2>1, <2>2, <2>4
  <2>6. Continues(s, a - 1)
    BY <1>1, <1>2, <2>3, <2>5 DEF Continues
  <2> QED
    BY <1>5, <2>3, <2>6 DEF Begins
<1>6. ASSUME NEW a \in 1 .. n, s[a] \in Starts(S) PROVE Begins(s, 1, a)
  <2> SUFFICES ASSUME a # 1, Continues(s, a - 1) PROVE FALSE
    BY DEF Begins
  <2>1. a - 1 \in 1 .. n /\ (a - 1) + 1 = a
    BY <1>1
  <2>2. s[a] = s[a - 1] + 1 /\ s[a - 1] \in Nat /\ s[a - 1] \in S
    BY <1>2, <2>1 DEF Continues
  <2>3. s[a] - 1 = s[a - 1]
    BY <2>2
  <2> QED
    BY <1>6, <2>2, <2>3 DEF Starts
<1>7. ASSUME NEW e \in 1 .. n, ~Continues(s, e) PROVE s[e] \in Ends(S)
  <2> SUFFICES ASSUME s[e] + 1 \in S PROVE FALSE
    BY <1>2 DEF Ends
  <2>1. PICK b \in 1 .. n : s[b] = s[e] + 1
    BY <1>1
  <2>2. e < b /\ s[e] \in Nat /\ s[b] \in Nat
    <3>1. s[e] < s[b]
      BY <1>2, <2>1
    <3> QED
      BY <1>2, <1>4, <3>1
  <2>3. e < n /\ e + 1 \in 1 .. n /\ e + 1 <= b /\ e < e + 1
    BY <1>1, <2>2
  <2>4. s[e + 1] <= s[b] /\ s[e] < s[e + 1] /\ s[e + 1] \in Nat
    BY <1>1, <1>2, <1>4, <2>3
  <2>5. s[e + 1] = s[e] + 1
    BY <2>1, <2>2, <2>4
  <2> QED
    BY <1>2, <1>7, <2>3, <2>5 DEF Continues
<1>8. ASSUME NEW a \in 1 .. n
      PROVE  /\ RangeEnd(s, a) \in a .. n /\ RangeEnd(s, a) \in 1 .. n
             /\ ~Continues(s, RangeEnd(s, a))
             /\ \A j \in a .. n : j < RangeEnd(s, a) => Continues(s, j)
  <2>1. RangeEnd(s, a) \in a .. n /\ ~Continues(s, RangeEnd(s, a))
        /\ \A j \in a .. n : j < RangeEnd(s, a) => Continues(s, j)
    BY <1>1, <1>2, RangeEndIs
  <2> QED
    BY <1>1, <2>1
<1>9. ASSUME NEW a \in 1 .. n, NEW v \in s[a] .. s[RangeEnd(s, a)], v \notin S PROVE FALSE
  <2> DEFINE e == RangeEnd(s, a)
             T == {j \in a .. n : j <= e /\ v < s[j]}
  <2>1. e \in a .. n /\ e \in 1 .. n /\ \A j \in a .. n : j < e => Continues(s, j)
    BY <1>8
  <2>2. v \in Int /\ s[a] <= v /\ v <= s[e] /\ v # s[a] /\ v # s[e]
    BY <1>2, <1>9, <2>1
  <2> HIDE DEF e
  <2>3. e \in T /\ T \in SUBSET Nat
    BY <1>2, <2>1, <2>2
  <2>4. PICK j \in T : \A i \in T : j <= i
    <3> HIDE DEF T
    <3> QED
      BY <2>3, LeastNumber
  <2>5. j \in 1 .. n /\ j # a /\ s[a] \in Nat
    BY <1>2, <2>2
  <2>6. /\ j - 1 \in a .. n /\ j - 1 \in 1 .. n /\ (j - 1) + 1 = j
        /\ j - 1 < e /\ j - 1 <= e /\ ~(j <= j - 1)
    BY <1>1, <2>1, <2>5
  <2>7. j - 1 \notin T
    BY <2>4, <2>6
  <2>8. s[j - 1] \in Nat /\ s[j - 1] \in S /\ s[j] \in Nat /\ s[j] = s[j - 1] + 1
    <3>1. Continues(s, j - 1)
      BY <2>1, <2>6
    <3> QED
      BY <1>2, <2>5, <2>6, <3>1 DEF Continues
  <2>9. ~(v < s[j - 1]) /\ v < s[j]
    BY <2>6, <2>7
  <2>10. v = s[j - 1]
    BY <2>2, <2>8, <2>9
  <2> QED
    BY <1>9, <2>8, <2>10
<1>10. ASSUME NEW b \in 1 .. n
       PROVE  \E a \in 1 .. n : Begins(s, 1, a) /\ s[a] <= s[b] /\ s[b] <= s[RangeEnd(s, a)]
  <2> DEFINE T == {d \in Nat : d < b /\ Begins(s, 1, b - d)}
  <2>1. b - 1 \in T
    <3>1. b - 1 \in Nat /\ b - 1 < b /\ b - (b - 1) = 1
      BY <1>1
    <3> QED
      BY <3>1 DEF Begins
  <2>2. PICK d \in T : \A i \in T : d <= i
    <3>1. T \in SUBSET Nat
      OBVIOUS
    <3> HIDE DEF T
    <3> QED
      BY <2>1, <3>1, LeastNumber
  <2> DEFINE a == b - d
             e == RangeEnd(s, a)
  <2>3. a \in 1 .. n /\ Begins(s, 1, a) /\ a <= b
    BY <1>1
  <2> HIDE DEF a
  <2>4. e \in a .. n /\ e \in 1 .. n /\ ~Continues(s, e)
    BY <1>8, <2>3
  <2> HIDE DEF e
  <2>5. b <= e
    <3> SUFFICES ASSUME ~(b <= e) PROVE FALSE
      OBVIOUS
    <3>1. b - (e + 1) \in Nat /\ b - (e + 1) < b /\ b - (b - (e + 1)) = e + 1
          /\ (e + 1) - 1 = e /\ ~(d <= b - (e + 1))
      BY <1>1, <2>3, <2>4 DEF a
    <3>2. Begins(s, 1, e + 1)
      BY <2>4, <3>1 DEF Begins
    <3>3. b - (e + 1) \in T
      BY <3>1, <3>2
    <3> QED
      BY <2>2, <3>1, <3>3
  <2>6. s[a] <= s[b] /\ s[b] <= s[e]
    BY <1>4, <2>3, <2>4, <2>5
  <2> QED
    BY <2>3, <2>6 DEF e
<1>11. ASSUME NEW k \in 1 .. Len(r)
       PROVE  \E a \in 1 .. n : /\ Begins(s, 1, a)
                                /\ r[k][1] = s[a] /\ r[k][2] = s[RangeEnd(s, a)]
  <2>1. PICK a \in 1 .. n : r[k] = <<s[a], s[RangeEnd(s, a)]>> /\ Begins(s, 1, a)
    BY <1>2, <1>3 DEF RangesFrom
  <2>2. r[k][1] = s[a] /\ r[k][2] = s[RangeEnd(s, a)]
    BY <2>1
  <2> QED
    BY <2>1, <2>2
<1>12. ASSUME NEW a \in 1 .. n, Begins(s, 1, a)
       PROVE  \E k \in 1 .. Len(r) : r[k][1] = s[a] /\ r[k][2] = s[RangeEnd(s, a)]
  BY <1>2, <1>3, <1>12 DEF RangesFrom
<1>13. ASSUME NEW k \in 1 .. Len(r)
       PROVE  /\ r[k][1] \in Starts(S) /\ r[k][2] \in Ends(S) /\ r[k][1] <= r[k][2]
              /\ \A v \in r[k][1] .. r[k][2] : v \in S
  <2>1. PICK a \in 1 .. n : /\ Begins(s, 1, a)
                            /\ r[k][1] = s[a] /\ r[k][2] = s[RangeEnd(s, a)]
    BY <1>11
  <2>2. RangeEnd(s, a) \in 1 .. n /\ a <= RangeEnd(s, a) /\ ~Continues(s, RangeEnd(s, a))
    BY <1>8
  <2>3. s[a] <= s[RangeEnd(s, a)]
    BY <1>4, <2>2
  <2>4. \A v \in s[a] .. s[RangeEnd(s, a)] : v \in S
    BY <1>9
  <2> QED
    BY <1>5, <1>7, <2>1, <2>2, <2>3, <2>4
<1>14. ASSUME NEW v \in S PROVE \E k \in 1 .. Len(r) : v \in r[k][1] .. r[k][2]
  <2>1. PICK b \in 1 .. n : s[b] = v
    BY <1>1
  <2>2. PICK a \in 1 .. n : Begins(s, 1, a) /\ s[a] <= s[b] /\ s[b] <= s[RangeEnd(s, a)]
    BY <1>10
  <2>3. PICK k \in 1 .. Len(r) : r[k][1] = s[a] /\ r[k][2] = s[RangeEnd(s, a)]
    BY <1>12, <2>2
  <2>4. v \in r[k][1] .. r[k][2]
    <3>1. s[a] \in Nat /\ s[b] \in Nat /\ s[RangeEnd(s, a)] \in Nat
      BY <1>2, <1>8
    <3> QED
      BY <2>1, <2>2, <2>3, <3>1
  <2> QED
    BY <2>4
<1>15. ASSUME NEW v \in Starts(S) PROVE \E k \in 1 .. Len(r) : r[k][1] = v
  <2>1. PICK b \in 1 .. n : s[b] = v
    BY <1>1 DEF Starts
  <2> QED
    BY <1>6, <1>12, <2>1
<1>16. ASSUME NEW v \in Ends(S) PROVE \E k \in 1 .. Len(r) : r[k][2] = v
  <2>1. v \in S /\ v + 1 \notin S /\ v \in Nat
    BY DEF Ends
  <2>2. PICK k \in 1 .. Len(r) : v \in r[k][1] .. r[k][2]
    BY <1>14, <2>1
  <2>3. r[k][1] \in Nat /\ r[k][2] \in Nat
    BY <1>13 DEF Starts, Ends
  <2>4. v + 1 \notin r[k][1] .. r[k][2]
    BY <1>13, <2>1
  <2>5. r[k][2] = v
    BY <2>1, <2>2, <2>3, <2>4
  <2> QED
    BY <2>5
<1>17. r \in Seq(Nat \X Nat) /\ \A k, l \in 1 .. Len(r) : k < l => r[k][2] < r[l][1]
  BY <1>3 DEF RangesFrom
<1>18. StandFor(r, S)
  BY <1>13, <1>14, <1>15, <1>16, <1>17 DEF StandFor
<1> QED
  BY <1>18 DEF r, s

-----------------------------------------------------------------------------
(* The attribute and the VLANs the uplink carries *)

\* The text names the two ends of each range, once where they are the same.
LEMMA TextNamesEnds ==
  ASSUME NEW S \in SUBSET Nat, IsFiniteSet(S), NEW r, StandFor(r, S)
  PROVE  LET total == SumFunction([v \in Starts(S) \cup Ends(S) |-> Digits(v) + 1])
         IN  total \in Nat /\ TextLength(r) = total - 1
<1> DEFINE m == Len(r)
           E == Starts(S) \cup Ends(S)
           g1 == [i \in DOMAIN r |-> RangeLength(r[i]) + 1]
           g2 == [v \in E |-> Digits(v) + 1]
           Named(k) == {v \in E : \E i \in 1 .. m : i <= k /\ (v = r[i][1] \/ v = r[i][2])}
<1>1. m \in Nat /\ DOMAIN r = 1 .. m
  <2>1. r \in Seq(Nat \X Nat)
    BY DEF StandFor
  <2> QED
    BY <2>1, LenProperties
<1> HIDE DEF m
<1>2. /\ \A i \in 1 .. m : r[i][1] \in E /\ r[i][2] \in E /\ r[i][1] <= r[i][2]
      /\ \A v \in E : \E i \in 1 .. m : v = r[i][1] \/ v = r[i][2]
      /\ \A i, j \in 1 .. m : i < j => r[i][2] < r[j][1]
  BY DEF StandFor, m
<1>3. E \in SUBSET Nat /\ E \in SUBSET S
  BY DEF Starts, Ends
<1>4. IsFiniteSet(E) /\ IsFiniteSet(1 .. m)
  <2>1. IsFiniteSet(E)
    BY <1>3, FS_Subset
  <2> QED
    BY <1>1, <2>1, FS_Interval
<1> HIDE DEF E
<1>5. \A v : Digits(v) + 1 \in Nat /\ Digits(v) \in Nat
  BY DEF Digits
<1>6. /\ g1 \in [1 .. m -> Nat] /\ g2 \in [E -> Nat]
      /\ \A v \in E : g2[v] = Digits(v) + 1
      /\ \A i \in 1 .. m : g1[i] = RangeLength(r[i]) + 1
  <2>1. \A i : RangeLength(r[i]) + 1 \in Nat
    BY <1>5 DEF RangeLength
  <2> QED
    BY <1>1, <1>5, <2>1
<1> HIDE DEF g1, g2
<1>7. PICK h1 \in [SUBSET (1 .. m) -> Nat] :
            /\ h1[{}] = 0
            /\ \A s \in SUBSET (1 .. m) : \A x \in s : h1[s] = g1[x] + h1[s \ {x}]
            /\ SumFunction(g1) = h1[1 .. m]
  BY <1>4, <1>6, SumIs
<1>8. PICK h2 \in [SUBSET E -> Nat] :
            /\ h2[{}] = 0
            /\ \A s \in SUBSET E : \A x \in s : h2[s] = g2[x] + h2[s \ {x}]
            /\ SumFunction(g2) = h2[E]
  BY <1>4, <1>6, SumIs
<1> DEFINE T == {k \in Nat : k <= m /\ h1[1 .. k] # h2[Named(k)]}
<1>9. T = {}
  <2> SUFFICES ASSUME T # {} PROVE FALSE
    OBVIOUS
  <2>1. PICK k \in T : \A i \in T : k <= i
    <3>1. T \in SUBSET Nat
      OBVIOUS
    <3> HIDE DEF T
    <3> QED
      BY <3>1, LeastNumber
  <2>2. k # 0
    <3> SUFFICES ASSUME k = 0 PROVE FALSE
      OBVIOUS
    <3>1. 1 .. 0 = {} /\ Named(0) = {}
      OBVIOUS
    <3> HIDE DEF Named
    <3> QED
      BY <1>7, <1>8, <3>1
  <2>3. k \in 1 .. m /\ k - 1 \in Nat /\ k - 1 <= m /\ ~(k <= k - 1)
    BY <1>1, <2>2
  <2>4. h1[1 .. k - 1] = h2[Named(k - 1)]
    <3>1. k - 1 \notin T
      BY <2>1, <2>3
    <3> HIDE DEF Named
    <3> QED
      BY <2>3, <3>1
  <2>5. h1[1 .. k] # h2[Named(k)]
    OBVIOUS
  <2> HIDE DEF T
  <2>6. h1[1 .. k] = RangeLength(r[k]) + 1 + h1[1 .. k - 1] /\ h1[1 .. k - 1] \in Nat
    <3>1. 1 .. k \in SUBSET (1 .. m) /\ k \in 1 .. k /\ (1 .. k) \ {k} = 1 .. k - 1
          /\ 1 .. k - 1 \in SUBSET (1 .. m)
      BY <1>1, <2>3
    <3>2. h1[1 .. k] = g1[k] + h1[1 .. k - 1]
      <4> DEFINE s == 1 .. k
      <4>1. s \in SUBSET (1 .. m) /\ k \in s /\ s \ {k} = 1 .. k - 1
        BY <3>1
      <4> HIDE DEF s
      <4>2. h1[s] = g1[k] + h1[s \ {k}]
        BY <1>7, <4>1
      <4> QED
        BY <4>1, <4>2 DEF s
    <3> QED
      BY <1>6, <1>7, <2>3, <3>1, <3>2
  <2> DEFINE a == r[k][1]
             b == r[k][2]
             N == Named(k)
             O == Named(k - 1)
  <2>7. a \in E /\ b \in E /\ a \in Nat /\ b \in Nat /\ a <= b
    BY <1>2, <1>3, <2>3
  <2>8. a \in N /\ b \in N /\ N \in SUBSET E /\ O \in SUBSET E
    BY <2>3, <2>7
  <2>9. a \notin O /\ b \notin O
    <3>1. ASSUME NEW i \in 1 .. m, i <= k - 1
          PROVE  r[i][1] # a /\ r[i][2] # a /\ r[i][1] # b /\ r[i][2] # b
      <4>1. i < k /\ r[i][1] \in Nat /\ r[i][2] \in Nat /\ r[i][1] <= r[i][2]
        <5>1. i < k
          BY <2>3, <3>1
        <5>2. r[i][1] \in E /\ r[i][2] \in E /\ r[i][1] <= r[i][2]
          BY <1>2
        <5> QED
          BY <1>3, <5>1, <5>2
      <4>2. r[i][2] < a
        BY <1>2, <2>3, <4>1
      <4> HIDE DEF a, b
      <4> QED
        BY <2>7, <4>1, <4>2
    <3> HIDE DEF a, b
    <3> QED
      BY <3>1
  <2>10. N = O \cup {a, b}
    <3>1. \A i \in 1 .. m : i <= k <=> (i = k \/ i <= k - 1)
      BY <2>3
    <3> QED
      BY <2>3, <2>7, <3>1
  <2> HIDE DEF N, O
  <2>11. RangeLength(r[k]) = IF a = b THEN Digits(a) ELSE Digits(a) + 1 + Digits(b)
    BY DEF RangeLength
  <2> HIDE DEF a, b
  <2>12. h2[N] = RangeLength(r[k]) + 1 + h2[O]
    <3>1. h2[O] \in Nat /\ h2[N] = g2[a] + h2[N \ {a}]
      BY <1>8, <2>8
    <3>2. CASE a = b
      <4>1. N \ {a} = O
        BY <2>9, <2>10, <3>2
      <4> QED
        BY <1>5, <1>6, <2>7, <2>11, <3>1, <3>2, <4>1
    <3>3. CASE a # b
      <4>1. /\ N \ {a} \in SUBSET E /\ b \in N \ {a} /\ (N \ {a}) \ {b} = O
        BY <2>8, <2>9, <2>10, <3>3
      <4>2. h2[N \ {a}] = g2[b] + h2[O]
        BY <1>8, <4>1
      <4>3. /\ g2[a] = Digits(a) + 1 /\ g2[b] = Digits(b) + 1
            /\ Digits(a) \in Nat /\ Digits(b) \in Nat
            /\ RangeLength(r[k]) = Digits(a) + 1 + Digits(b)
        BY <1>5, <1>6, <2>7, <2>11, <3>3
      <4> QED
        BY <3>1, <4>2, <4>3
    <3> QED
      BY <3>2, <3>3
  <2> QED
    BY <2>4, <2>5, <2>6, <2>12 DEF N, O
<1>10. h1[1 .. m] = h2[E]
  <2>1. Named(m) = E
    BY <1>1, <1>2
  <2>2. m \notin T
    BY <1>9
  <2> HIDE DEF Named
  <2> QED
    BY <1>1, <2>1, <2>2
<1>11. SumFunction(g1) = SumFunction(g2) /\ SumFunction(g2) \in Nat
  <2>1. E \in SUBSET E
    OBVIOUS
  <2> QED
    BY <1>7, <1>8, <1>10, <2>1
<1>12. TextLength(r) = SumFunction(g1) - 1
  BY DEF TextLength, g1
<1> QED
  BY <1>11, <1>12 DEF g2, E

\* What VlansFaithful says of one device.
Faithful(text, filtering, carried) ==
    /\ text # <<>> =>
          /\ UNION {text[i][1] .. text[i][2] : i \in DOMAIN text} = carried
          /\ {text[i][1] : i \in DOMAIN text} = Starts(carried)
          /\ \A i \in 2 .. Len(text) : text[i - 1][2] < text[i][1]
    /\ text = <<>> /\ filtering /\ carried # {} =>
          SumFunction([v \in Starts(carried) \cup Ends(carried) |-> Digits(v) + 1]) - 1
              > MaxLength

\* A set of VLAN IDs is finite.
LEMMA FiniteIDs ==
  ASSUME NEW b \in Nat, NEW S \in SUBSET (1 .. b)
  PROVE  S \in SUBSET Nat /\ IsFiniteSet(S)
<1>1. IsFiniteSet(1 .. b)
  BY FS_Interval
<1>2. IsFiniteSet(S)
  BY <1>1, FS_Subset
<1> QED
  BY <1>2

\* The attribute of an uplink that carries the VLANs in S.
LEMMA UplinkFaithful ==
  ASSUME NEW S \in SUBSET Nat, IsFiniteSet(S), NEW uplink, uplink.filtering => uplink.vlans = S
  PROVE  Faithful(UplinkVlans(uplink), uplink.filtering, S)
<1> DEFINE r == formatVlanRanges(Ascending(S))
           total == SumFunction([v \in Starts(S) \cup Ends(S) |-> Digits(v) + 1])
<1>2. StandFor(r, S)
  BY RangesStandFor
<1> HIDE DEF r
<1>3. TextLength(r) = total - 1 /\ total \in Nat
  BY <1>2, TextNamesEnds
<1>4. UplinkVlans(uplink) = IF uplink.filtering /\ r # <<>> /\ total - 1 <= MaxLength
                           THEN r ELSE <<>>
  <2>1. CASE uplink.filtering
    <3>1. uplink.vlans = S
      BY <2>1
    <3> HIDE DEF total
    <3> QED
      BY <1>3, <2>1, <3>1 DEF UplinkVlans, r
  <2>2. CASE ~uplink.filtering
    BY <2>2 DEF UplinkVlans
  <2> QED
    BY <2>1, <2>2
<1> HIDE DEF total
<1>5. r \in Seq(Nat \X Nat) /\ Len(r) \in Nat /\ DOMAIN r = 1 .. Len(r)
  <2>1. r \in Seq(Nat \X Nat)
    BY <1>2 DEF StandFor
  <2> QED
    BY <2>1, LenProperties
<1>6. UNION {r[i][1] .. r[i][2] : i \in DOMAIN r} = S
  <2>1. \A i \in DOMAIN r : \A v \in r[i][1] .. r[i][2] : v \in S
    BY <1>2, <1>5 DEF StandFor
  <2>2. \A v \in S : \E i \in DOMAIN r : v \in r[i][1] .. r[i][2]
    BY <1>2, <1>5 DEF StandFor
  <2> QED
    BY <2>1, <2>2, Zenon
<1>7. {r[i][1] : i \in DOMAIN r} = Starts(S)
  <2>1. \A i \in DOMAIN r : r[i][1] \in Starts(S)
    BY <1>2, <1>5 DEF StandFor
  <2>2. \A v \in Starts(S) : \E i \in DOMAIN r : r[i][1] = v
    BY <1>2, <1>5 DEF StandFor
  <2> QED
    BY <2>1, <2>2, Zenon
<1>8. ASSUME NEW i \in 2 .. Len(r) PROVE r[i - 1][2] < r[i][1]
  <2>1. i - 1 \in 1 .. Len(r) /\ i \in 1 .. Len(r) /\ i - 1 < i
    BY <1>5
  <2> QED
    BY <1>2, <2>1 DEF StandFor
<1>9. S # {} => r # <<>>
  <2> SUFFICES ASSUME S # {}, r = <<>> PROVE FALSE
    OBVIOUS
  <2>1. PICK v \in S : TRUE
    OBVIOUS
  <2>2. PICK k \in 1 .. Len(r) : v \in r[k][1] .. r[k][2]
    BY <1>2 DEF StandFor
  <2>3. Len(r) = 0
    OBVIOUS
  <2> QED
    BY <2>2, <2>3
<1>10. MaxLength \in Int
  BY HostAssumption
<1> DEFINE text == UplinkVlans(uplink)
<1>11. text # <<>> => text = r
  BY <1>4
<1>12. text = <<>> /\ uplink.filtering /\ S # {} => total - 1 > MaxLength
  <2> SUFFICES ASSUME text = <<>>, uplink.filtering, S # {} PROVE total - 1 > MaxLength
    OBVIOUS
  <2>1. ~(total - 1 <= MaxLength)
    BY <1>4, <1>9
  <2> QED
    BY <1>3, <1>10, <2>1
<1> HIDE DEF text
<1> QED
  BY <1>6, <1>7, <1>8, <1>11, <1>12 DEF Faithful, total, text

\* The uplink of a candidate is that of the PF, and what is listed is faithful.
VlansInv ==
    /\ nic \in Hosts
    /\ \A info \in pfList :
          /\ info.address \in NetFunctions
          /\ info.uplink.filtering => info.uplink.vlans = nic[info.address].vlans
    /\ \A f \in DOMAIN resourceList :
          LET r == resourceList[f]
          IN  Faithful(r.uplinkVlans, r.uplinkVlanFiltering, nic[r.parent].vlans)

\* A candidate brings the VLANs of its own uplink, if it has one.
LEMMA CandidateUplink ==
  ASSUME NEW f \in NetFunctions
  PROVE  LET info == PFInfo(f)
         IN  /\ info.address = f
             /\ info.uplink.filtering => info.uplink.vlans = nic[f].vlans
<1>1. GetUplinkVlans(f).filtering => GetUplinkVlans(f).vlans = nic[f].vlans
  BY DEF GetUplinkVlans, NoUplink
<1>2. PFInfo(f).address = f /\ PFInfo(f).uplink = GetUplinkVlans(f)
  BY DEF PFInfo
<1> QED
  BY <1>1, <1>2

\* What a listed VF gets from its PF is faithful; a PF gets none.
LEMMA ListedFaithful ==
  ASSUME VlansInv, NEW info \in pfList, NEW v, NEW c
  PROVE  /\ LET r == buildVFDevice(info, v)
            IN  Faithful(r.uplinkVlans, r.uplinkVlanFiltering, nic[r.parent].vlans)
         /\ LET r == buildPFDevice(info, c)
            IN  Faithful(r.uplinkVlans, r.uplinkVlanFiltering, nic[r.parent].vlans)
<1> DEFINE S == nic[info.address].vlans
<1>1. /\ info.address \in NetFunctions /\ nic \in Hosts
      /\ info.uplink.filtering => info.uplink.vlans = S
  BY DEF VlansInv
<1>2. S \in SUBSET Nat /\ IsFiniteSet(S)
  <2> DEFINE b == 4094
  <2>1. b \in Nat /\ \A f \in NetFunctions : nic[f].vlans \subseteq 1 .. b
    BY <1>1, HostAssumption
  <2> HIDE DEF b
  <2>2. S \in SUBSET (1 .. b)
    BY <1>1, <2>1 DEF S
  <2> QED
    BY <2>1, <2>2, FiniteIDs
<1> HIDE DEF S
<1>3. Faithful(UplinkVlans(info.uplink), info.uplink.filtering, S)
  BY <1>1, <1>2, UplinkFaithful
<1>4. Faithful(UplinkVlans(NoUplink), NoUplink.filtering, S)
  <2>1. NoUplink.filtering = FALSE
    BY DEF NoUplink
  <2> QED
    BY <1>2, <2>1, UplinkFaithful
<1>5. /\ buildVFDevice(info, v).uplinkVlans = UplinkVlans(info.uplink)
      /\ buildVFDevice(info, v).uplinkVlanFiltering = info.uplink.filtering
      /\ buildVFDevice(info, v).parent = info.address
  BY DEF buildVFDevice, Device
<1>6. /\ buildPFDevice(info, c).uplinkVlans = UplinkVlans(NoUplink)
      /\ buildPFDevice(info, c).uplinkVlanFiltering = NoUplink.filtering
      /\ buildPFDevice(info, c).parent = info.address
  BY DEF buildPFDevice, Device
<1> QED
  BY <1>3, <1>4, <1>5, <1>6 DEF S

\* Every step keeps the invariant.
LEMMA VlansStep ==
  ASSUME VlansInv, [Next]_vars
  PROVE  VlansInv'
<1>1. nic' = nic
  BY DEF Next, vars, ListPCI, ScanFunction, ScanEnds, ListVFs, ListEnds, Restart, ConfigureVFs
<1>2. CASE ListPCI
  BY <1>1, <1>2 DEF ListPCI, VlansInv
<1>3. CASE UNCHANGED <<pfList, resourceList>>
  BY <1>1, <1>3 DEF VlansInv
<1>4. ASSUME NEW f \in NetFunctions, ScanFunction(f) PROVE VlansInv'
  <2>1. UNCHANGED resourceList /\ \A info \in pfList' : info \in pfList \/ info = PFInfo(f)
    BY <1>4 DEF ScanFunction
  <2> QED
    BY <1>1, <2>1, CandidateUplink DEF VlansInv
<1>5. ASSUME NEW info \in pfList, ListVFs(info) PROVE VlansInv'
  <2>1. CASE UNCHANGED <<pfList, resourceList>>
    BY <1>3, <2>1
  <2> DEFINE vfList == GetVFList(info.address)
             found == [f \in {info.address} \cup vfList |->
                          IF f \in vfList THEN buildVFDevice(info, f)
                          ELSE buildPFDevice(info, Cardinality(vfList))]
  <2>2. CASE /\ resourceList' = [f \in DOMAIN found \cup DOMAIN resourceList |->
                    IF f \in DOMAIN found THEN found[f] ELSE resourceList[f]]
             /\ pfList' = pfList \ {info}
    <3>1. ASSUME NEW f \in DOMAIN found
          PROVE  Faithful(found[f].uplinkVlans, found[f].uplinkVlanFiltering,
                          nic[found[f].parent].vlans)
      <4>1. \/ found[f] = buildVFDevice(info, f)
            \/ found[f] = buildPFDevice(info, Cardinality(vfList))
        OBVIOUS
      <4> HIDE DEF found, vfList
      <4> QED
        BY <4>1, ListedFaithful
    <3> HIDE DEF found
    <3> QED
      BY <1>1, <2>2, <3>1 DEF VlansInv
  <2> QED
    BY <1>5, <2>1, <2>2 DEF ListVFs
<1> QED
  BY <1>2, <1>3, <1>4, <1>5 DEF Next, vars, ScanEnds, ListEnds, Restart, ConfigureVFs

\* For any set of VLAN IDs an uplink may carry, what the driver advertises of it
\* stands for exactly these IDs, in the fewest ranges and in order, and is left
\* out only where there are none or its text exceeds the limit.
THEOREM VlansAlwaysFaithful == Spec => []VlansFaithful
<1>1. Init => VlansInv
  BY DEF Init, VlansInv
<1>2. VlansInv /\ [Next]_vars => VlansInv'
  BY VlansStep
<1>3. VlansInv => VlansFaithful
  BY DEF VlansInv, VlansFaithful, Faithful, Starts, Ends
<1> QED
  BY <1>1, <1>2, <1>3, PTL DEF Spec
=============================================================================
