------------------------ MODULE DashSimulationProofs ------------------------
(***************************************************************************)
(* Whatever the command line, the random intervals and the limits of the   *)
(* counters: identities are distinct, the script of main has every client  *)
(* complete when the simulator starts, and then the tables do what they    *)
(* are for: the clients of a group, and no others, load the cell while the *)
(* car rides through it, and the run is not cut short.                     *)
(*                                                                         *)
(* Two invariants carry the proofs: DashInv, what each step of the script  *)
(* has made of the network, and TimesInv, the times given to the clients   *)
(* and what the connections are at a time.                                 *)
(***************************************************************************)
EXTENDS DashSimulation, SequenceTheorems, FiniteSetTheorems, WellFoundedInduction, TLAPS

\* The devices as sequences of what the proofs below do not look into.
Enb == [cells : [1 .. m_noOfCcs -> 1 .. CellIdMax - 1], inEpc : BOOLEAN]
Ue == [imsi : 1 .. ImsiMax, inEpc : BOOLEAN, carriers : {0, m_noOfCcs},
       cell : 0 .. CellIdMax - 1, bearer : BOOLEAN]

\* The counters, and that every identity given out is below them.
CountersOK ==
  /\ m_useCa \in BOOLEAN
  /\ m_noOfCcs \in Nat \ {0}
  /\ m_epcHelper \in BOOLEAN
  /\ m_componentCarrierPhyParams \in {0, m_noOfCcs}
  /\ m_cellIdCounter \in 1 .. CellIdMax
  /\ m_imsiCounter \in 0 .. ImsiMax

CellsGivenOut ==
  /\ enbDevs \in Seq(Enb)
  /\ \A d \in 1 .. Len(enbDevs) : \A k \in 1 .. m_noOfCcs :
       enbDevs[d].cells[k] < m_cellIdCounter
  /\ \A d, e \in 1 .. Len(enbDevs) : \A j, k \in 1 .. m_noOfCcs :
       enbDevs[d].cells[j] = enbDevs[e].cells[k] => d = e /\ j = k

ImsisGivenOut ==
  /\ ueDevs \in Seq(Ue)
  /\ \A u \in 1 .. Len(ueDevs) : ueDevs[u].imsi <= m_imsiCounter
  /\ \A u, v \in 1 .. Len(ueDevs) : ueDevs[u].imsi = ueDevs[v].imsi => u = v

Identities == CountersOK /\ CellsGivenOut /\ ImsisGivenOut

LEMMA AppendedElement ==
  ASSUME NEW S, NEW s \in Seq(S), NEW x \in S
  PROVE  /\ Append(s, x) \in Seq(S)
         /\ Len(Append(s, x)) = Len(s) + 1
         /\ Len(s) \in Nat
         /\ \A i \in 1 .. Len(s) : Append(s, x)[i] = s[i]
         /\ Append(s, x)[Len(s) + 1] = x
OBVIOUS

LEMMA ElementType ==
  ASSUME NEW S, NEW s \in Seq(S), NEW i \in 1 .. Len(s)
  PROVE  s[i] \in S
OBVIOUS

\* What the elements of the two sequences are.
LEMMA EnbType ==
  ASSUME CountersOK, CellsGivenOut, NEW d \in 1 .. Len(enbDevs)
  PROVE  /\ enbDevs[d] \in Enb
         /\ \A k \in 1 .. m_noOfCcs : enbDevs[d].cells[k] \in 1 .. CellIdMax - 1
<1>1. enbDevs[d] \in Enb
  BY ElementType DEF CellsGivenOut
<1>2. enbDevs[d].cells \in [1 .. m_noOfCcs -> 1 .. CellIdMax - 1]
  BY <1>1 DEF Enb
<1> QED
  BY <1>1, <1>2

LEMMA UeType ==
  ASSUME ImsisGivenOut, NEW u \in 1 .. Len(ueDevs)
  PROVE  ueDevs[u] \in Ue /\ ueDevs[u].imsi \in 1 .. ImsiMax
<1>1. ueDevs[u] \in Ue
  BY ElementType DEF ImsisGivenOut
<1> QED
  BY <1>1 DEF Ue

LEMMA CarriersConfigured == CountersOK => Carriers = m_noOfCcs
BY DEF CountersOK, Carriers

LEMMA EnbKeeps ==
  ASSUME Identities, InstallSingleEnbDevice(TRUE)
  PROVE  CountersOK' /\ CellsGivenOut' /\ ImsisGivenOut'
<1> DEFINE new == [cells |-> Cells, inEpc |-> m_epcHelper]
<1>1. /\ m_noOfCcs \in Nat \ {0} /\ m_noOfCcs' = m_noOfCcs
      /\ Carriers = m_noOfCcs
      /\ m_cellIdCounter \in 1 .. CellIdMax /\ CellIdMax \in Nat
      /\ m_cellIdCounter' = m_cellIdCounter + m_noOfCcs
      /\ m_cellIdCounter + m_noOfCcs <= CellIdMax
      /\ enbDevs' = Append(enbDevs, new)
      /\ UNCHANGED <<m_imsiCounter, ueDevs>>
  <2>1. CountersOK /\ Carriers = m_noOfCcs
    BY CarriersConfigured DEF Identities
  <2>2. ~(m_cellIdCounter + Carriers > CellIdMax)
    BY DEF InstallSingleEnbDevice, EnbAborts
  <2> QED
    BY <2>1, <2>2, CounterAssumption
       DEF CountersOK, InstallSingleEnbDevice, NextCell, attributes
<1>2. CountersOK'
  <2>1. UNCHANGED m_useCa /\ UNCHANGED m_epcHelper
    BY DEF InstallSingleEnbDevice, attributes
  <2>2. m_componentCarrierPhyParams' = m_noOfCcs
    BY <1>1 DEF InstallSingleEnbDevice
  <2>3. m_useCa' \in BOOLEAN /\ m_epcHelper' \in BOOLEAN
    BY <2>1 DEF Identities, CountersOK
  <2> QED
    BY <1>1, <2>2, <2>3 DEF Identities, CountersOK
<1>3. /\ Cells \in [1 .. m_noOfCcs -> 1 .. CellIdMax - 1]
      /\ \A k \in 1 .. m_noOfCcs : Cells[k] = m_cellIdCounter + k - 1
  BY <1>1 DEF Cells
<1>4. new \in Enb
  BY <1>3 DEF Enb, Identities, CountersOK
<1>5. Enb' = Enb /\ Ue' = Ue
  BY <1>1 DEF Enb, Ue
<1>6. /\ enbDevs' \in Seq(Enb)
      /\ Len(enbDevs') = Len(enbDevs) + 1
      /\ Len(enbDevs) \in Nat
      /\ \A d \in 1 .. Len(enbDevs) : enbDevs'[d] = enbDevs[d]
      /\ enbDevs'[Len(enbDevs) + 1] = new
  BY <1>1, <1>4, AppendedElement DEF Identities, CellsGivenOut
<1>7. /\ \A d \in 1 .. Len(enbDevs) : \A k \in 1 .. m_noOfCcs :
           /\ enbDevs'[d].cells[k] = enbDevs[d].cells[k]
           /\ enbDevs'[d].cells[k] < m_cellIdCounter
           /\ enbDevs'[d].cells[k] \in Int
      /\ \A k \in 1 .. m_noOfCcs :
           enbDevs'[Len(enbDevs) + 1].cells[k] = m_cellIdCounter + k - 1
  <2>1. \A d \in 1 .. Len(enbDevs) : \A k \in 1 .. m_noOfCcs :
          enbDevs[d].cells[k] \in 1 .. CellIdMax - 1
    BY EnbType DEF Identities
  <2>2. \A d \in 1 .. Len(enbDevs) : \A k \in 1 .. m_noOfCcs : enbDevs[d].cells[k] \in Int
    BY <1>1, <2>1
  <2>3. new.cells = Cells
    OBVIOUS
  <2> HIDE DEF new
  <2> QED
    BY <1>3, <1>6, <2>2, <2>3 DEF Identities, CellsGivenOut
<1>8. CellsGivenOut'
  <2>1. \A d \in 1 .. Len(enbDevs') : \A k \in 1 .. m_noOfCcs :
          enbDevs'[d].cells[k] < m_cellIdCounter'
    BY <1>1, <1>6, <1>7
  <2>2. ASSUME NEW d \in 1 .. Len(enbDevs'), NEW e \in 1 .. Len(enbDevs'),
               NEW j \in 1 .. m_noOfCcs, NEW k \in 1 .. m_noOfCcs,
               enbDevs'[d].cells[j] = enbDevs'[e].cells[k]
        PROVE  d = e /\ j = k
    <3> DEFINE a == enbDevs'[d].cells[j]
               b == enbDevs'[e].cells[k]
    <3>0. j \in Int /\ k \in Int /\ j >= 1 /\ k >= 1 /\ m_cellIdCounter \in Int /\ a = b
      BY <1>1, <2>2
    <3>1. CASE d \in 1 .. Len(enbDevs) /\ e \in 1 .. Len(enbDevs)
      BY <1>6, <1>7, <2>2, <3>1 DEF Identities, CellsGivenOut
    <3>2. CASE d = Len(enbDevs) + 1 /\ e = Len(enbDevs) + 1
      <4>1. a = m_cellIdCounter + j - 1 /\ b = m_cellIdCounter + k - 1
        BY <1>7, <3>2
      <4> HIDE DEF a, b
      <4>2. m_cellIdCounter + j - 1 = m_cellIdCounter + k - 1
        BY <3>0, <4>1
      <4>3. j = k
        BY <3>0, <4>2
      <4> QED
        BY <3>2, <4>3
    <3>3. CASE d \in 1 .. Len(enbDevs) /\ e = Len(enbDevs) + 1
      <4>1. a < m_cellIdCounter /\ b = m_cellIdCounter + k - 1
        BY <1>7, <3>3
      <4> HIDE DEF a, b
      <4> QED
        BY <3>0, <4>1
    <3>4. CASE d = Len(enbDevs) + 1 /\ e \in 1 .. Len(enbDevs)
      <4>1. b < m_cellIdCounter /\ a = m_cellIdCounter + j - 1
        BY <1>7, <3>4
      <4> HIDE DEF a, b
      <4> QED
        BY <3>0, <4>1
    <3>5. /\ d \in 1 .. Len(enbDevs) \/ d = Len(enbDevs) + 1
          /\ e \in 1 .. Len(enbDevs) \/ e = Len(enbDevs) + 1
      BY <1>6
    <3> QED
      BY <3>1, <3>2, <3>3, <3>4, <3>5
  <2> QED
    BY <1>1, <1>5, <1>6, <2>1, <2>2 DEF CellsGivenOut
<1>9. ImsisGivenOut'
  BY <1>1, <1>5 DEF Identities, ImsisGivenOut
<1> QED
  BY <1>2, <1>8, <1>9

LEMMA UeKeeps ==
  ASSUME Identities, NEW mobility, InstallSingleUeDevice(mobility)
  PROVE  CountersOK' /\ CellsGivenOut' /\ ImsisGivenOut'
<1> DEFINE new == [imsi |-> m_imsiCounter + 1, inEpc |-> m_epcHelper,
                   carriers |-> m_componentCarrierPhyParams, cell |-> 0, bearer |-> FALSE]
<1>1. /\ m_noOfCcs' = m_noOfCcs
      /\ m_imsiCounter \in 0 .. ImsiMax /\ ImsiMax \in Nat
      /\ m_imsiCounter' = m_imsiCounter + 1
      /\ m_imsiCounter + 1 <= ImsiMax
      /\ ueDevs' = Append(ueDevs, new)
      /\ UNCHANGED <<m_componentCarrierPhyParams, m_cellIdCounter, enbDevs>>
  <2>1. ~(m_imsiCounter >= ImsiMax)
    BY DEF InstallSingleUeDevice, UeAborts
  <2> QED
    BY <2>1, CounterAssumption DEF Identities, CountersOK, InstallSingleUeDevice, attributes
<1>2. CountersOK'
  <2>1. UNCHANGED m_useCa /\ UNCHANGED m_epcHelper
    BY DEF InstallSingleUeDevice, attributes
  <2>2. m_useCa' \in BOOLEAN /\ m_epcHelper' \in BOOLEAN
    BY <2>1 DEF Identities, CountersOK
  <2> QED
    BY <1>1, <2>2 DEF Identities, CountersOK
<1>3. Enb' = Enb /\ Ue' = Ue
  BY <1>1 DEF Enb, Ue
<1>4. new \in Ue
  BY <1>1, CounterAssumption DEF Ue, Identities, CountersOK
<1>5. /\ ueDevs' \in Seq(Ue)
      /\ Len(ueDevs') = Len(ueDevs) + 1
      /\ Len(ueDevs) \in Nat
      /\ \A u \in 1 .. Len(ueDevs) : ueDevs'[u] = ueDevs[u]
      /\ ueDevs'[Len(ueDevs) + 1] = new
  BY <1>1, <1>4, AppendedElement DEF Identities, ImsisGivenOut
<1>6. /\ \A u \in 1 .. Len(ueDevs) : /\ ueDevs'[u].imsi = ueDevs[u].imsi
                                     /\ ueDevs'[u].imsi <= m_imsiCounter
                                     /\ ueDevs'[u].imsi \in Int
      /\ ueDevs'[Len(ueDevs) + 1].imsi = m_imsiCounter + 1
  <2>1. \A u \in 1 .. Len(ueDevs) : ueDevs[u].imsi \in 1 .. ImsiMax
    BY UeType DEF Identities
  <2>2. new.imsi = m_imsiCounter + 1
    OBVIOUS
  <2> HIDE DEF new
  <2> QED
    BY <1>1, <1>5, <2>1, <2>2 DEF Identities, ImsisGivenOut
<1>7. ImsisGivenOut'
  <2>1. \A u \in 1 .. Len(ueDevs') : ueDevs'[u].imsi <= m_imsiCounter'
    BY <1>1, <1>5, <1>6
  <2>2. \A u, v \in 1 .. Len(ueDevs') : ueDevs'[u].imsi = ueDevs'[v].imsi => u = v
    BY <1>1, <1>5, <1>6 DEF Identities, ImsisGivenOut
  <2> QED
    BY <1>3, <1>5, <2>1, <2>2 DEF ImsisGivenOut
<1>8. CellsGivenOut'
  BY <1>1, <1>3 DEF Identities, CellsGivenOut
<1> QED
  BY <1>2, <1>7, <1>8

\* All eNodeBs are equally far from a user equipment, so the first one is chosen.
LEMMA ClosestExists ==
  ASSUME NEW u \in 1 .. Len(ueDevs), enbDevs # <<>>, NEW S, enbDevs \in Seq(S)
  PROVE  Closest(Distances[u]) \in 1 .. Len(enbDevs)
<1> DEFINE far == Distances[u]
<1>1. Len(enbDevs) \in Nat /\ Len(enbDevs) > 0
  BY EmptySeq
<1>2. \A e, f \in 1 .. Len(enbDevs) : far[e] = far[f]
  BY DEF Distances
<1> HIDE DEF far
<1>3. \E e \in 1 .. Len(enbDevs) : \A f \in 1 .. Len(enbDevs) :
        far[e] < far[f] \/ (far[e] = far[f] /\ e <= f)
  <2>1. 1 \in 1 .. Len(enbDevs) /\ \A f \in 1 .. Len(enbDevs) : 1 <= f
    BY <1>1
  <2> QED
    BY <1>2, <2>1
<1>4. Closest(far) \in 1 .. Len(enbDevs)
  BY <1>3 DEF Closest
<1> QED
  BY <1>4 DEF far

LEMMA AttachKeeps ==
  ASSUME Identities, AttachToClosestEnb(Distances)
  PROVE  /\ CountersOK' /\ CellsGivenOut' /\ ImsisGivenOut'
         /\ Len(ueDevs') = Len(ueDevs)
         /\ \A u \in 1 .. Len(ueDevs) :
              /\ ueDevs'[u].inEpc = ueDevs[u].inEpc
              /\ ueDevs'[u].carriers = ueDevs[u].carriers
              /\ ueDevs'[u].bearer = m_epcHelper
              /\ \E e \in 1 .. Len(enbDevs) : ueDevs'[u].cell = enbDevs[e].cells[1]
<1> DEFINE cellOf(u) == enbDevs[Closest(Distances[u])].cells[1]
           moved(u) == [ueDevs[u] EXCEPT !.cell = cellOf(u), !.bearer = m_epcHelper]
<1>1. /\ enbDevs # <<>> \/ ueDevs = <<>>
      /\ ueDevs' = [u \in 1 .. Len(ueDevs) |-> moved(u)]
      /\ UNCHANGED <<m_useCa, m_noOfCcs, m_epcHelper, m_componentCarrierPhyParams,
                     m_cellIdCounter, m_imsiCounter, enbDevs>>
  BY DEF AttachToClosestEnb, attributes, counters
<1>2. Enb' = Enb /\ Ue' = Ue
  BY <1>1 DEF Enb, Ue
<1>3. CountersOK'
  <2>1. m_useCa' \in BOOLEAN /\ m_epcHelper' \in BOOLEAN
    BY <1>1 DEF Identities, CountersOK
  <2> QED
    BY <1>1, <2>1 DEF Identities, CountersOK
<1>4. CellsGivenOut'
  <2>1. CellsGivenOut
    BY DEF Identities
  <2>2. UNCHANGED <<m_noOfCcs, m_cellIdCounter, enbDevs>>
    BY <1>1
  <2> QED
    BY <1>2, <2>1, <2>2 DEF CellsGivenOut
<1>5. Len(ueDevs) \in Nat /\ ueDevs \in Seq(Ue) /\ m_epcHelper \in BOOLEAN /\ m_noOfCcs \in Nat \ {0}
  BY DEF Identities, ImsisGivenOut, CountersOK
<1>6. ASSUME NEW u \in 1 .. Len(ueDevs)
      PROVE  /\ \E e \in 1 .. Len(enbDevs) : cellOf(u) = enbDevs[e].cells[1]
             /\ cellOf(u) \in 0 .. CellIdMax - 1
  <2>1. Closest(Distances[u]) \in 1 .. Len(enbDevs)
    <3>1. ueDevs # <<>>
      BY EmptySeq
    <3> QED
      BY <1>1, <3>1, ClosestExists DEF Identities, CellsGivenOut
  <2>2. 1 \in 1 .. m_noOfCcs
    BY <1>5
  <2>3. cellOf(u) \in 1 .. CellIdMax - 1
    BY <2>1, <2>2, EnbType DEF Identities
  <2> QED
    BY <2>1, <2>3, CounterAssumption
<1> HIDE DEF cellOf
<1>7. ASSUME NEW u \in 1 .. Len(ueDevs)
      PROVE  /\ moved(u) \in Ue
             /\ moved(u).imsi = ueDevs[u].imsi
             /\ moved(u).inEpc = ueDevs[u].inEpc
             /\ moved(u).carriers = ueDevs[u].carriers
             /\ moved(u).bearer = m_epcHelper
             /\ moved(u).cell = cellOf(u)
  <2>1. ueDevs[u] \in Ue
    BY UeType DEF Identities
  <2> QED
    BY <1>5, <1>6, <2>1 DEF Ue
<1> HIDE DEF moved
<1>8. /\ ueDevs' \in Seq(Ue)
      /\ Len(ueDevs') = Len(ueDevs)
      /\ \A u \in 1 .. Len(ueDevs) : ueDevs'[u] = moved(u)
  BY <1>1, <1>5, <1>7
<1>9. ImsisGivenOut'
  BY <1>1, <1>2, <1>7, <1>8 DEF Identities, ImsisGivenOut
<1> QED
  BY <1>3, <1>4, <1>6, <1>7, <1>8, <1>9

-----------------------------------------------------------------------------
(* The stages of the script.  Each part says what the steps before have    *)
(* left, in the order in which ReadyForClients needs it.                   *)

AfterInstall == {"times", "run"}
AfterAttributes == {"clients"} \union AfterInstall
AfterTraces == {"attributes"} \union AfterAttributes
AfterAttach == {"traces"} \union AfterTraces
AfterInitialize == {"eNodeBs"} \union AfterAttach
AfterMobility == {"initialize"} \union AfterInitialize
AfterLte == {"mobility"} \union AfterMobility

Created ==
  /\ cl \in CommandLines
  /\ pc \in AfterLte => m_epcHelper = TRUE
  /\ pc \in AfterMobility => logDir = <<cl.adaptationAlgo, cl.numberOfClients>>
  /\ pc \in AfterInitialize => m_phyRxStats = "created"
  /\ pc \in {"lte", "mobility", "initialize"} => enbDevs = <<>> /\ ueDevs = <<>>

\* Carriers are configured before the first user equipment takes them over.
Equipped ==
  pc \in AfterInitialize =>
    /\ enbDevs # <<>> => m_componentCarrierPhyParams = m_noOfCcs
    /\ ueDevs # <<>> => Len(enbDevs) = cl.numberOfEnbs
    /\ \A u \in 1 .. Len(ueDevs) :
         ueDevs[u].inEpc = TRUE /\ ueDevs[u].carriers = m_componentCarrierPhyParams

Attached ==
  pc \in AfterAttach =>
    /\ Len(ueDevs) = cl.numberOfClients
    /\ enbDevs # <<>> \/ ueDevs = <<>>
    /\ \A u \in 1 .. Len(ueDevs) :
         /\ ueDevs[u].bearer = TRUE
         /\ \E e \in 1 .. Len(enbDevs) : ueDevs[u].cell = enbDevs[e].cells[1]

Traced ==
  pc \in AfterTraces =>
    \A u \in 1 .. Len(ueDevs) : [device |-> <<"ue", u>>, sink |-> "created"] \in traces

FactoryMade ==
  pc = "attributes" =>
    factory = [segmentDuration |-> 2000000, numberOfClients |-> 1, simulationId |-> 0,
               crossLayerInfo |-> "created"]

FactorySet ==
  pc = "clients" =>
    /\ factory.segmentDuration = cl.segmentDuration
    /\ factory.numberOfClients = cl.numberOfClients
    /\ factory.simulationId = cl.simulationId
    /\ factory.crossLayerInfo = "created"

Installed ==
  pc \in AfterInstall => \A c \in Clients :
    /\ clientApps[c].clientId = c
    /\ clientApps[c].segmentDuration = cl.segmentDuration
    /\ clientApps[c].cm_crossLayerInfo = "created"
    /\ clientApps[c].logs =
         [dir |-> <<cl.adaptationAlgo, cl.numberOfClients>>, sim |-> cl.simulationId, cl |-> c]

Stages == Created /\ Equipped /\ Attached /\ Traced /\ FactoryMade /\ FactorySet /\ Installed

DashInv == Identities /\ Stages

LEMMA StagesReady == DashInv => ReadyForClients
<1> SUFFICES ASSUME DashInv, pc = "run", NEW c \in Clients
             PROVE  LET ue == ueDevs[c + 1]
                        app == clientApps[c]
                    IN /\ ue.inEpc /\ ue.bearer
                       /\ ue.carriers = m_noOfCcs
                       /\ \E e \in 1 .. Len(enbDevs) : ue.cell = enbDevs[e].cells[1]
                       /\ [device |-> <<"ue", c + 1>>, sink |-> "created"] \in traces
                       /\ app.clientId = c
                       /\ app.segmentDuration = cl.segmentDuration
                       /\ app.cm_crossLayerInfo = "created"
                       /\ app.logs = [dir |-> logDir, sim |-> cl.simulationId, cl |-> c]
  BY DEF ReadyForClients
<1>1. /\ Created /\ Equipped /\ Attached /\ Traced /\ Installed
      /\ pc \in AfterInstall /\ pc \in AfterTraces /\ pc \in AfterAttach
      /\ pc \in AfterInitialize /\ pc \in AfterMobility
  BY DEF DashInv, Stages, AfterInstall, AfterAttributes, AfterTraces, AfterAttach,
         AfterInitialize, AfterMobility
<1>2. c + 1 \in 1 .. Len(ueDevs)
  <2>1. cl.numberOfClients \in Nat /\ Len(ueDevs) = cl.numberOfClients
    BY <1>1, CommandLineAssumption DEF Created, Attached
  <2> QED
    BY <2>1 DEF Clients
<1>3. /\ ueDevs[c + 1].inEpc = TRUE
      /\ ueDevs[c + 1].bearer = TRUE
      /\ ueDevs[c + 1].carriers = m_componentCarrierPhyParams
      /\ \E e \in 1 .. Len(enbDevs) : ueDevs[c + 1].cell = enbDevs[e].cells[1]
      /\ [device |-> <<"ue", c + 1>>, sink |-> "created"] \in traces
  BY <1>1, <1>2 DEF Equipped, Attached, Traced
<1>4. ueDevs[c + 1].carriers = m_noOfCcs
  <2>1. enbDevs # <<>>
    <3>1. ueDevs # <<>>
      BY <1>2
    <3> QED
      BY <1>1, <3>1 DEF Attached
  <2> QED
    BY <1>1, <1>3, <2>1 DEF Equipped
<1>5. ueDevs[c + 1].inEpc /\ ueDevs[c + 1].bearer
  BY <1>3
<1>6. /\ clientApps[c].clientId = c
      /\ clientApps[c].segmentDuration = cl.segmentDuration
      /\ clientApps[c].cm_crossLayerInfo = "created"
      /\ clientApps[c].logs = [dir |-> logDir, sim |-> cl.simulationId, cl |-> c]
  BY <1>1 DEF Installed, Created
<1> QED
  BY <1>3, <1>4, <1>5, <1>6

LEMMA DashBegins == DashInit => DashInv
<1> SUFFICES ASSUME DashInit PROVE DashInv
  OBVIOUS
<1>1. /\ cl \in CommandLines /\ m_useCa = cl.useCa /\ m_noOfCcs = cl.noOfCcs
      /\ m_epcHelper = FALSE
      /\ m_componentCarrierPhyParams = 0 /\ m_cellIdCounter = 1 /\ m_imsiCounter = 0
      /\ enbDevs = <<>> /\ ueDevs = <<>>
      /\ pc = "lte"
  BY DEF DashInit, LteInit
<1>2. CountersOK
  <2>1. m_useCa \in BOOLEAN /\ m_epcHelper \in BOOLEAN
    BY <1>1, CommandLineAssumption
  <2> QED
    BY <1>1, <2>1, CommandLineAssumption, CounterAssumption DEF CountersOK
<1>3. CellsGivenOut /\ ImsisGivenOut
  BY <1>1 DEF CellsGivenOut, ImsisGivenOut
<1>4. Stages
  BY <1>1 DEF Stages, Created, Equipped, Attached, Traced, FactoryMade, FactorySet, Installed,
      AfterLte, AfterMobility, AfterInitialize, AfterAttach, AfterTraces,
      AfterAttributes, AfterInstall
<1> QED
  BY <1>2, <1>3, <1>4 DEF DashInv, Identities

\* A call that installs and attaches nothing.
LEMMA IdentitiesKept ==
  ASSUME Identities, UNCHANGED <<m_useCa, m_noOfCcs, counters, enbDevs, ueDevs>>,
         m_epcHelper' \in BOOLEAN
  PROVE  Identities'
<1>1. CountersOK /\ CellsGivenOut /\ ImsisGivenOut
  BY DEF Identities
<1>2. Enb' = Enb /\ Ue' = Ue
  BY DEF Enb, Ue
<1>3. m_useCa' \in BOOLEAN
  BY <1>1 DEF CountersOK
<1>4. CountersOK'
  BY <1>1, <1>3 DEF CountersOK, counters
<1>5. CellsGivenOut'
  BY <1>1, <1>2 DEF CellsGivenOut, counters
<1>6. ImsisGivenOut'
  BY <1>1, <1>2 DEF ImsisGivenOut, counters
<1> QED
  BY <1>4, <1>5, <1>6 DEF Identities

LEMMA LteUntouched == Identities /\ UNCHANGED lteVars => Identities'
<1> SUFFICES ASSUME Identities, UNCHANGED lteVars PROVE Identities'
  OBVIOUS
<1>1. UNCHANGED <<m_useCa, m_noOfCcs, counters, enbDevs, ueDevs>> /\ UNCHANGED m_epcHelper
  BY DEF lteVars, attributes
<1>2. m_epcHelper' \in BOOLEAN
  BY <1>1 DEF Identities, CountersOK
<1> QED
  BY <1>1, <1>2, IdentitiesKept

\* Past the script, or out of it, nothing is asked of the stages.
LEMMA StagesOver ==
  ASSUME DashInv, cl' = cl, pc' \in {"running", "over", "aborted", "undefined"}
  PROVE  Stages'
BY DEF DashInv, Stages, Created, Equipped, Attached, Traced, FactoryMade, FactorySet, Installed,
       AfterLte, AfterMobility, AfterInitialize, AfterAttach, AfterTraces,
       AfterAttributes, AfterInstall

LEMMA ConfigureKeeps == DashInv /\ ConfigureLte => DashInv'
<1> SUFFICES ASSUME DashInv, ConfigureLte PROVE DashInv'
  OBVIOUS
<1>1. /\ pc = "lte" /\ pc' = "mobility" /\ m_epcHelper' = TRUE
      /\ UNCHANGED <<cl, m_useCa, m_noOfCcs, counters, enbDevs, ueDevs>>
  BY DEF ConfigureLte, Step, SetEpcHelper, attributes
<1>2. Identities'
  BY <1>1, IdentitiesKept DEF DashInv
<1>3. Stages'
  BY <1>1 DEF DashInv, Stages, Created, Equipped, Attached, Traced, FactoryMade, FactorySet, Installed,
      AfterLte, AfterMobility, AfterInitialize, AfterAttach, AfterTraces,
      AfterAttributes, AfterInstall
<1> QED
  BY <1>2, <1>3 DEF DashInv

LEMMA MobilityKeeps == DashInv /\ InstallMobility => DashInv'
<1> SUFFICES ASSUME DashInv, InstallMobility PROVE DashInv'
  OBVIOUS
<1>1. /\ pc = "mobility" /\ pc' \in {"aborted", "initialize"}
      /\ logDir' = <<cl.adaptationAlgo, cl.numberOfClients>>
      /\ UNCHANGED <<cl, lteVars>>
  BY DEF InstallMobility
<1>2. Identities'
  BY <1>1, LteUntouched DEF DashInv
<1>3. CASE pc' = "aborted"
  BY <1>1, <1>2, <1>3, StagesOver DEF DashInv
<1>4. CASE pc' = "initialize"
  <2>1. m_epcHelper' = TRUE
    <3>1. m_epcHelper = TRUE
      BY <1>1 DEF DashInv, Stages, Created, AfterLte
    <3>2. UNCHANGED m_epcHelper
      BY <1>1 DEF lteVars
    <3> QED
      BY <3>1, <3>2
  <2>2. enbDevs' = <<>> /\ ueDevs' = <<>>
    BY <1>1 DEF lteVars, DashInv, Stages, Created
  <2>3. Stages'
    BY <1>1, <1>4, <2>1, <2>2
       DEF DashInv, Stages, Created, Equipped, Attached, Traced, FactoryMade, FactorySet, Installed,
           AfterInitialize, AfterAttach, AfterTraces, AfterAttributes, AfterInstall
  <2> QED
    BY <1>2, <2>3 DEF DashInv
<1> QED
  BY <1>1, <1>3, <1>4

LEMMA InitializeKeeps == DashInv /\ InitializeLte => DashInv'
<1> SUFFICES ASSUME DashInv, InitializeLte PROVE DashInv'
  OBVIOUS
<1>1. /\ pc = "initialize" /\ pc' = "eNodeBs" /\ m_phyRxStats' = "created"
      /\ UNCHANGED <<cl, logDir, m_useCa, m_noOfCcs, counters, enbDevs, ueDevs>>
      /\ UNCHANGED m_epcHelper
  BY DEF InitializeLte, Step, Initialize, attributes
<1>2. Identities'
  <2>1. m_epcHelper' \in BOOLEAN
    BY <1>1 DEF DashInv, Identities, CountersOK
  <2> QED
    BY <1>1, <2>1, IdentitiesKept DEF DashInv
<1>3. enbDevs = <<>> /\ ueDevs = <<>> /\ m_epcHelper = TRUE
  BY <1>1 DEF DashInv, Stages, Created, AfterLte, AfterMobility
<1>4. m_epcHelper' = TRUE
  BY <1>1, <1>3
<1>5. Created'
  BY <1>1, <1>4 DEF DashInv, Stages, Created, AfterMobility
<1>6. Equipped' /\ Attached' /\ Traced' /\ FactoryMade' /\ FactorySet' /\ Installed'
  BY <1>1, <1>3 DEF Equipped, Attached, Traced, FactoryMade, FactorySet, Installed,
      AfterAttach, AfterTraces, AfterAttributes, AfterInstall
<1> QED
  BY <1>2, <1>5, <1>6 DEF DashInv, Stages

LEMMA InstallEnbKeeps == DashInv /\ InstallEnb => DashInv'
<1> SUFFICES ASSUME DashInv, InstallEnb PROVE DashInv'
  OBVIOUS
<1>1. CASE pc' = "aborted" /\ UNCHANGED lteVars
  BY <1>1, LteUntouched, StagesOver DEF DashInv, InstallEnb
<1>2. CASE InstallSingleEnbDevice(TRUE) /\ UNCHANGED pc
  <2>1. /\ pc = "eNodeBs" /\ pc' = "eNodeBs"
        /\ Len(enbDevs) < cl.numberOfEnbs
        /\ UNCHANGED <<cl, logDir, m_phyRxStats, ueDevs>>
        /\ UNCHANGED m_epcHelper
    BY <1>2 DEF InstallEnb, InstallSingleEnbDevice
  <2>2. Identities'
    BY <1>2, EnbKeeps DEF DashInv, Identities
  <2>3. ueDevs = <<>>
    <3>1. ueDevs # <<>> => Len(enbDevs) = cl.numberOfEnbs
      BY <2>1 DEF DashInv, Stages, Equipped, AfterInitialize
    <3>2. Len(enbDevs) \in Nat /\ cl.numberOfEnbs \in Nat
      BY CommandLineAssumption DEF DashInv, Identities, CellsGivenOut, Stages, Created
    <3> QED
      BY <2>1, <3>1, <3>2
  <2>4. m_componentCarrierPhyParams' = m_noOfCcs'
    BY <1>2, CarriersConfigured DEF DashInv, Identities, InstallSingleEnbDevice, attributes
  <2>5. m_epcHelper' = TRUE
    BY <2>1 DEF DashInv, Stages, Created, AfterLte, AfterMobility, AfterInitialize
  <2>6. Created'
    BY <2>1, <2>5 DEF DashInv, Stages, Created, AfterMobility, AfterInitialize
  <2>7. Equipped'
    BY <2>1, <2>3, <2>4 DEF Equipped
  <2>8. Attached' /\ Traced' /\ FactoryMade' /\ FactorySet' /\ Installed'
    BY <2>1 DEF Attached, Traced, FactoryMade, FactorySet, Installed, AfterAttach, AfterTraces,
        AfterAttributes, AfterInstall
  <2> QED
    BY <2>2, <2>6, <2>7, <2>8 DEF DashInv, Stages
<1> QED
  BY <1>1, <1>2 DEF InstallEnb

LEMMA InstallUeKeeps == DashInv /\ InstallUe => DashInv'
<1> SUFFICES ASSUME DashInv, InstallUe PROVE DashInv'
  OBVIOUS
<1>1. CASE pc' = "aborted" /\ UNCHANGED lteVars
  BY <1>1, LteUntouched, StagesOver DEF DashInv, InstallUe
<1>2. CASE InstallSingleUeDevice(HasMobility) /\ UNCHANGED pc
  <2>1. /\ pc = "eNodeBs" /\ pc' = "eNodeBs"
        /\ Len(enbDevs) = cl.numberOfEnbs
        /\ UNCHANGED <<cl, logDir, m_phyRxStats, enbDevs, m_noOfCcs,
                       m_componentCarrierPhyParams>>
        /\ UNCHANGED m_epcHelper
    BY <1>2 DEF InstallUe, InstallSingleUeDevice, attributes
  <2>2. Identities'
    BY <1>2, UeKeeps DEF DashInv, Identities
  <2>3. m_epcHelper = TRUE
    BY <2>1 DEF DashInv, Stages, Created, AfterLte, AfterMobility, AfterInitialize
  <2>4. m_epcHelper' = TRUE
    BY <2>1, <2>3
  <2>5. Created'
    BY <2>1, <2>4 DEF DashInv, Stages, Created, AfterMobility, AfterInitialize
  <2>6. ASSUME NEW u \in 1 .. Len(ueDevs')
        PROVE  ueDevs'[u].inEpc = TRUE /\ ueDevs'[u].carriers = m_componentCarrierPhyParams
    <3> DEFINE new == [imsi |-> m_imsiCounter + 1, inEpc |-> m_epcHelper,
                       carriers |-> m_componentCarrierPhyParams, cell |-> 0,
                       bearer |-> FALSE]
    <3>1. ueDevs' = Append(ueDevs, new)
      BY <1>2 DEF InstallSingleUeDevice
    <3>2. new \in Ue
      <4>1. m_imsiCounter + 1 \in 1 .. ImsiMax
        BY <1>2, CounterAssumption
           DEF DashInv, Identities, CountersOK, InstallSingleUeDevice, UeAborts
      <4> QED
        BY <4>1, CounterAssumption DEF Ue, DashInv, Identities, CountersOK
    <3>3. new.inEpc = TRUE /\ new.carriers = m_componentCarrierPhyParams
      BY <2>3
    <3> HIDE DEF new
    <3>4. /\ Len(ueDevs) \in Nat /\ Len(ueDevs') = Len(ueDevs) + 1
          /\ \A v \in 1 .. Len(ueDevs) : ueDevs'[v] = ueDevs[v]
          /\ ueDevs'[Len(ueDevs) + 1] = new
      BY <3>1, <3>2, AppendedElement DEF DashInv, Identities, ImsisGivenOut
    <3>5. CASE u = Len(ueDevs) + 1
      BY <3>3, <3>4, <3>5
    <3>6. CASE u \in 1 .. Len(ueDevs)
      BY <2>1, <3>4, <3>6 DEF DashInv, Stages, Equipped, AfterInitialize
    <3>7. u = Len(ueDevs) + 1 \/ u \in 1 .. Len(ueDevs)
      BY <3>4
    <3> QED
      BY <3>5, <3>6, <3>7, Zenon
  <2>7. Equipped'
    BY <2>1, <2>6 DEF DashInv, Stages, Equipped, AfterInitialize
  <2>8. Attached' /\ Traced' /\ FactoryMade' /\ FactorySet' /\ Installed'
    BY <2>1 DEF Attached, Traced, FactoryMade, FactorySet, Installed, AfterAttach, AfterTraces,
        AfterAttributes, AfterInstall
  <2> QED
    BY <2>2, <2>5, <2>7, <2>8 DEF DashInv, Stages
<1> QED
  BY <1>1, <1>2 DEF InstallUe

LEMMA AttachStageKeeps == DashInv /\ Attach => DashInv'
<1> SUFFICES ASSUME DashInv, Attach PROVE DashInv'
  OBVIOUS
<1>1. CASE pc' = "aborted" /\ UNCHANGED lteVars
  BY <1>1, LteUntouched, StagesOver DEF DashInv, Attach
<1>2. CASE pc' = "traces" /\ AttachToClosestEnb(Distances)
  <2>1. /\ pc = "eNodeBs"
        /\ enbDevs # <<>> \/ ueDevs = <<>>
        /\ Len(ueDevs) = cl.numberOfClients
        /\ UNCHANGED <<cl, logDir, m_phyRxStats, enbDevs, m_noOfCcs,
                       m_componentCarrierPhyParams>>
        /\ UNCHANGED m_epcHelper
    BY <1>2 DEF Attach, AttachToClosestEnb, attributes, counters
  <2>2. /\ CountersOK' /\ CellsGivenOut' /\ ImsisGivenOut'
        /\ Len(ueDevs') = Len(ueDevs)
        /\ \A u \in 1 .. Len(ueDevs) :
             /\ ueDevs'[u].inEpc = ueDevs[u].inEpc
             /\ ueDevs'[u].carriers = ueDevs[u].carriers
             /\ ueDevs'[u].bearer = m_epcHelper
             /\ \E e \in 1 .. Len(enbDevs) : ueDevs'[u].cell = enbDevs[e].cells[1]
    BY <1>2, AttachKeeps DEF DashInv
  <2>3. m_epcHelper = TRUE
    BY <2>1 DEF DashInv, Stages, Created, AfterLte, AfterMobility, AfterInitialize
  <2>4. m_epcHelper' = TRUE
    BY <2>1, <2>3
  <2>5. Created'
    BY <1>2, <2>1, <2>4 DEF DashInv, Stages, Created, AfterLte, AfterMobility, AfterInitialize,
        AfterAttach, AfterTraces, AfterAttributes, AfterInstall
  <2>6. Equipped'
    <3>1. /\ enbDevs # <<>> => m_componentCarrierPhyParams = m_noOfCcs
          /\ ueDevs # <<>> => Len(enbDevs) = cl.numberOfEnbs
      BY <2>1 DEF DashInv, Stages, Equipped, AfterInitialize
    <3>2. \A u \in 1 .. Len(ueDevs) :
            ueDevs[u].inEpc = TRUE /\ ueDevs[u].carriers = m_componentCarrierPhyParams
      BY <2>1 DEF DashInv, Stages, Equipped, AfterInitialize
    <3>3. \A u \in 1 .. Len(ueDevs') :
            ueDevs'[u].inEpc = TRUE /\ ueDevs'[u].carriers = m_componentCarrierPhyParams'
      BY <2>1, <2>2, <3>2
    <3>4. ueDevs' # <<>> => Len(enbDevs') = cl'.numberOfEnbs
      <4>1. ueDevs = <<>> => ueDevs' = <<>>
        <5>1. ueDevs \in Seq(Ue) /\ ueDevs' \in Seq(Ue')
          BY <2>2 DEF DashInv, Identities, ImsisGivenOut
        <5> QED
          BY <2>2, <5>1, EmptySeq
      <4> QED
        BY <2>1, <3>1, <4>1
    <3> QED
      BY <2>1, <3>1, <3>3, <3>4 DEF Equipped
  <2>7. Attached'
    <3>1. \A u \in 1 .. Len(ueDevs') : ueDevs'[u].bearer = TRUE
      BY <2>2, <2>3
    <3>2. \A u \in 1 .. Len(ueDevs') :
            \E e \in 1 .. Len(enbDevs') : ueDevs'[u].cell = enbDevs'[e].cells[1]
      BY <2>1, <2>2
    <3> QED
      BY <2>1, <2>2, <3>1, <3>2 DEF Attached
  <2>8. Traced' /\ FactoryMade' /\ FactorySet' /\ Installed'
    BY <1>2 DEF Traced, FactoryMade, FactorySet, Installed, AfterTraces, AfterAttributes, AfterInstall
  <2> QED
    BY <2>2, <2>5, <2>6, <2>7, <2>8 DEF DashInv, Stages, Identities
<1> QED
  BY <1>1, <1>2 DEF Attach

\* The steps from the traces on leave the devices as they are.
LEMMA DevicesKept ==
  ASSUME DashInv, pc \in AfterAttach, pc' \in AfterTraces,
         UNCHANGED <<cl, logDir, m_phyRxStats, m_useCa, m_noOfCcs, counters, enbDevs, ueDevs>>,
         UNCHANGED m_epcHelper
  PROVE  Identities' /\ Created' /\ Equipped' /\ Attached'
<1>1. m_epcHelper' \in BOOLEAN
  BY DEF DashInv, Identities, CountersOK
<1>2. Identities'
  BY <1>1, IdentitiesKept DEF DashInv
<1>3. m_epcHelper' = TRUE
  BY DEF DashInv, Stages, Created, AfterLte, AfterMobility, AfterInitialize
<1>4. Created'
  BY <1>3 DEF DashInv, Stages, Created, AfterLte, AfterMobility, AfterInitialize,
      AfterAttach, AfterTraces, AfterAttributes, AfterInstall
<1>5. Equipped'
  BY DEF DashInv, Stages, Equipped, AfterInitialize, counters
<1>6. Attached'
  BY DEF DashInv, Stages, Attached, AfterAttach
<1> QED
  BY <1>2, <1>4, <1>5, <1>6

LEMMA TracesKeep == DashInv /\ ConnectTraces => DashInv'
<1> SUFFICES ASSUME DashInv, ConnectTraces PROVE DashInv'
  OBVIOUS
<1>1. /\ pc = "traces" /\ pc' = "attributes"
      /\ UNCHANGED <<cl, logDir, m_phyRxStats, m_useCa, m_noOfCcs, counters, enbDevs, ueDevs>>
      /\ UNCHANGED m_epcHelper
      /\ EnableTraces
      /\ factory' = [segmentDuration |-> 2000000, numberOfClients |-> 1,
                     simulationId |-> 0, crossLayerInfo |-> m_phyRxStats]
  BY DEF ConnectTraces, Step, EnableTraces, attributes, GetPhyRxStats
<1>2. Identities' /\ Created' /\ Equipped' /\ Attached'
  BY <1>1, DevicesKept DEF AfterAttach, AfterTraces
<1>3. m_phyRxStats = "created"
  BY <1>1 DEF DashInv, Stages, Created, AfterInitialize, AfterAttach
<1>4. Traced'
  BY <1>1, <1>3 DEF Traced, EnableTraces
<1>5. FactoryMade' /\ FactorySet' /\ Installed'
  BY <1>1, <1>3 DEF FactoryMade, FactorySet, Installed, AfterInstall
<1> QED
  BY <1>2, <1>4, <1>5 DEF DashInv, Stages

LEMMA AttributesKeep == DashInv /\ SetAttributes => DashInv'
<1> SUFFICES ASSUME DashInv, SetAttributes PROVE DashInv'
  OBVIOUS
<1>1. /\ pc = "attributes" /\ pc' = "clients"
      /\ UNCHANGED <<cl, logDir, m_phyRxStats, m_useCa, m_noOfCcs, counters, enbDevs, ueDevs,
                     traces>>
      /\ UNCHANGED m_epcHelper
  BY DEF SetAttributes, Step, lteVars, attributes
<1>2. Identities' /\ Created' /\ Equipped' /\ Attached'
  BY <1>1, DevicesKept DEF AfterAttach, AfterTraces, AfterAttributes
<1>3. Traced'
  BY <1>1 DEF DashInv, Stages, Traced, AfterTraces, AfterAttributes, AfterInstall
<1>4. /\ factory'.segmentDuration = cl.segmentDuration
      /\ factory'.numberOfClients = cl.numberOfClients
      /\ factory'.simulationId = cl.simulationId
      /\ factory'.crossLayerInfo = "created"
  <2>1. factory = [segmentDuration |-> 2000000, numberOfClients |-> 1, simulationId |-> 0,
                   crossLayerInfo |-> "created"]
    BY <1>1 DEF DashInv, Stages, FactoryMade
  <2> QED
    BY <2>1 DEF SetAttributes
<1>5. FactoryMade' /\ FactorySet' /\ Installed'
  BY <1>1, <1>4 DEF FactoryMade, FactorySet, Installed, AfterInstall
<1> QED
  BY <1>2, <1>3, <1>5 DEF DashInv, Stages

LEMMA ClientsKeep == DashInv /\ InstallClients => DashInv'
<1> SUFFICES ASSUME DashInv, InstallClients PROVE DashInv'
  OBVIOUS
<1>1. /\ pc = "clients" /\ pc' = "times"
      /\ UNCHANGED <<cl, logDir, m_phyRxStats, m_useCa, m_noOfCcs, counters, enbDevs, ueDevs,
                     traces>>
      /\ UNCHANGED m_epcHelper
      /\ clientApps' = [c \in Clients |-> Initialise(c)]
  BY DEF InstallClients, Step, lteVars, attributes
<1>2. Identities' /\ Created' /\ Equipped' /\ Attached'
  BY <1>1, DevicesKept DEF AfterAttach, AfterTraces, AfterAttributes, AfterInstall
<1>3. Traced' /\ FactoryMade' /\ FactorySet'
  BY <1>1 DEF DashInv, Stages, Traced, FactoryMade, FactorySet, AfterTraces, AfterAttributes
<1>4. /\ factory.segmentDuration = cl.segmentDuration
      /\ factory.numberOfClients = cl.numberOfClients
      /\ factory.simulationId = cl.simulationId
      /\ factory.crossLayerInfo = "created"
  BY <1>1 DEF DashInv, Stages, FactorySet
<1>5. Installed'
  BY <1>1, <1>4 DEF Installed, Initialise, Clients
<1> QED
  BY <1>2, <1>3, <1>5 DEF DashInv, Stages

LEMMA TimesKeep == DashInv /\ SetTimes => DashInv'
<1> SUFFICES ASSUME DashInv, SetTimes PROVE DashInv'
  OBVIOUS
<1>1. /\ pc = "times" /\ pc' \in {"run", "undefined"}
      /\ UNCHANGED <<cl, logDir, m_phyRxStats, m_useCa, m_noOfCcs, counters, enbDevs, ueDevs,
                     traces, clientApps>>
      /\ UNCHANGED <<lteVars, cl>>
      /\ UNCHANGED m_epcHelper
  BY DEF SetTimes, lteVars, attributes
<1>2. CASE pc' = "undefined"
  BY <1>1, <1>2, LteUntouched, StagesOver DEF DashInv
<1>3. CASE pc' = "run"
  <2>1. Identities' /\ Created' /\ Equipped' /\ Attached'
    BY <1>1, <1>3, DevicesKept DEF AfterAttach, AfterTraces, AfterAttributes, AfterInstall
  <2>2. Traced' /\ FactoryMade' /\ FactorySet'
    BY <1>1, <1>3 DEF DashInv, Stages, Traced, FactoryMade, FactorySet, AfterTraces, AfterAttributes, AfterInstall
  <2>3. Installed'
    BY <1>1 DEF DashInv, Stages, Installed, AfterInstall, Clients
  <2> QED
    BY <2>1, <2>2, <2>3 DEF DashInv, Stages
<1> QED
  BY <1>1, <1>2, <1>3

LEMMA DashStep == DashInv /\ [DashNext]_dashVars => DashInv'
<1> SUFFICES ASSUME DashInv, [DashNext]_dashVars PROVE DashInv'
  OBVIOUS
<1>1. CASE UNCHANGED dashVars
  <2>1. Identities'
    BY <1>1, LteUntouched DEF DashInv, dashVars
  <2>2. UNCHANGED m_epcHelper /\ UNCHANGED <<cl, pc, logDir, m_phyRxStats, m_noOfCcs, counters,
                                            enbDevs, ueDevs, traces, factory, clientApps>>
    BY <1>1 DEF dashVars, lteVars, script, attributes
  <2>3. Created'
    <3>1. pc \in AfterLte => m_epcHelper' = TRUE
      BY <2>2 DEF DashInv, Stages, Created
    <3> QED
      BY <2>2, <3>1 DEF DashInv, Stages, Created
  <2>4. Equipped' /\ Attached' /\ Traced' /\ FactoryMade' /\ FactorySet' /\ Installed'
    BY <2>2 DEF DashInv, Stages, Equipped, Attached, Traced, FactoryMade, FactorySet, Installed, Clients,
        counters
  <2> QED
    BY <2>1, <2>3, <2>4 DEF DashInv, Stages
<1>2. CASE \/ ConfigureLte \/ InstallMobility \/ InitializeLte \/ InstallEnb \/ InstallUe
           \/ Attach \/ ConnectTraces \/ SetAttributes \/ InstallClients \/ SetTimes
  BY <1>2, ConfigureKeeps, MobilityKeeps, InitializeKeeps, InstallEnbKeeps, InstallUeKeeps,
     AttachStageKeeps, TracesKeep, AttributesKeep, ClientsKeep, TimesKeep
<1>3. CASE Run \/ Elapse \/ \E c \in Clients : Connects(c) \/ Finishes(c) \/ PeerClose(c)
  <2>1. UNCHANGED <<lteVars, cl>> /\ pc' \in {"running", "over"}
    <3>1. CASE Run
      BY <3>1 DEF Run, Step
    <3>2. CASE Elapse
      <4>1. UNCHANGED <<lteVars, cl>> /\ pc = "running"
        BY <3>2 DEF Elapse
      <4>2. pc' = "over" \/ pc' = pc
        BY <3>2 DEF Elapse
      <4> QED
        BY <4>1, <4>2
    <3>3. ASSUME NEW c \in Clients, Connects(c) \/ Finishes(c) \/ PeerClose(c)
          PROVE  UNCHANGED <<lteVars, cl>> /\ pc' \in {"running", "over"}
      BY <3>3 DEF Connects, Finishes, PeerClose, Link
    <3> QED
      BY <1>3, <3>1, <3>2, <3>3
  <2> QED
    BY <2>1, LteUntouched, StagesOver DEF DashInv
<1> QED
  BY <1>1, <1>2, <1>3 DEF DashNext, Ended

\* The invariant that carries the two properties.
THEOREM DashInvariance == DashSpec => []DashInv
<1> QED
  BY DashBegins, DashStep, PTL DEF DashSpec

\* No two carriers are one cell and no two user equipments have one IMSI, for any
\* network and any limits of the two counters.
THEOREM IdentitiesStayDistinct == DashSpec => []IdentitiesDistinct
<1>1. DashInv => IdentitiesDistinct
  BY DEF DashInv, Identities, CellsGivenOut, ImsisGivenOut, IdentitiesDistinct
<1> QED
  BY <1>1, DashInvariance, PTL

\* The order of main's calls leaves every client complete when the simulator starts.
THEOREM ClientsAreReady == DashSpec => []ReadyForClients
<1> QED
  BY StagesReady, DashInvariance, PTL

-----------------------------------------------------------------------------
(* The tables: the groups and when they begin.                             *)

\* A set of naturals has a least element.
LEMMA LeastNatural ==
  ASSUME NEW S \in SUBSET Nat, S # {}
  PROVE  \E x \in S : \A y \in S : x <= y
<1>1. PICK x \in S : \A y \in S : ~ (<<y, x>> \in OpToRel(<, Nat))
  BY NatLessThanWellFounded, WFMin
<1>2. \A y \in S : ~ (y < x)
  BY <1>1 DEF OpToRel
<1> QED
  BY <1>2

\* The tables of the scenarios.
LEMMA Tables ==
  /\ Len(clientsNum) \in 1 .. 9
  /\ \A i \in 1 .. Len(clientsNum) : clientsNum[i] \in 1 .. 9
  /\ ~Numbered => Len(clientsNum) = 7
<1>1. CASE cl.scenarioId = 6
  BY <1>1 DEF clientsNum, Numbered
<1>2. CASE cl.scenarioId = 12
  BY <1>2 DEF clientsNum, Numbered
<1>3. CASE cl.scenarioId = 18
  BY <1>3 DEF clientsNum, Numbered
<1>4. CASE cl.scenarioId \notin {6, 12, 18}
  BY <1>4 DEF clientsNum, Numbered
<1> QED
  BY <1>1, <1>2, <1>3, <1>4

\* Induction along an interval: what holds at 1 and goes on holds everywhere.
LEMMA AlongInterval ==
  ASSUME NEW n \in Nat, NEW Good \in SUBSET Int, 1 \in Good,
         \A i \in 1 .. n : i \in Good => i + 1 \in Good
  PROVE  1 .. n + 1 \subseteq Good
<1> DEFINE Bad == {i \in 1 .. n + 1 : i \notin Good}
<1>1. SUFFICES ASSUME Bad # {} PROVE FALSE
  OBVIOUS
<1>2. PICK k \in Bad : \A j \in Bad : k <= j
  <2>1. Bad \in SUBSET Nat
    OBVIOUS
  <2> HIDE DEF Bad
  <2> QED
    BY <1>1, <2>1, LeastNatural
<1>3. k # 1 /\ k \in 1 .. n + 1 /\ k \notin Good
  OBVIOUS
<1>4. k - 1 \in 1 .. n /\ ~(k <= k - 1) /\ (k - 1) + 1 = k
  BY <1>3
<1>5. k - 1 \in Good
  BY <1>2, <1>4
<1> QED
  BY <1>3, <1>4, <1>5

\* A function that starts at a number and adds another for each step exists.
LEMMA SumsExist ==
  ASSUME NEW n \in Nat, NEW s \in Int, NEW d \in [1 .. n -> Int]
  PROVE  \E f \in [1 .. n + 1 -> Int] : f[1] = s /\ \A i \in 1 .. n : f[i + 1] = f[i] + d[i]
<1> DEFINE Sum(k, f) == f[1] = s /\ \A i \in 1 .. k - 1 : f[i + 1] = f[i] + d[i]
           Good == {k \in 1 .. n + 1 : \E f \in [1 .. k -> Int] : Sum(k, f)}
<1>1. 1 \in Good
  <2>1. [i \in 1 .. 1 |-> s] \in [1 .. 1 -> Int] /\ Sum(1, [i \in 1 .. 1 |-> s])
    OBVIOUS
  <2> HIDE DEF Sum
  <2> QED
    BY <2>1
<1>2. ASSUME NEW k \in 1 .. n, k \in Good PROVE k + 1 \in Good
  <2>1. PICK f \in [1 .. k -> Int] : Sum(k, f)
    BY <1>2
  <2> DEFINE g == [i \in 1 .. k + 1 |-> IF i <= k THEN f[i] ELSE f[k] + d[k]]
  <2>2. g \in [1 .. k + 1 -> Int] /\ g[1] = s
    BY <2>1
  <2>3. \A i \in 1 .. k : g[i + 1] = g[i] + d[i]
    <3> TAKE i \in 1 .. k
    <3>1. CASE i = k
      BY <3>1
    <3>2. CASE i # k
      <4>1. i \in 1 .. k - 1 /\ i + 1 \in 1 .. k
        BY <3>2
      <4> QED
        BY <2>1, <4>1
    <3> QED
      BY <3>1, <3>2
  <2>4. (k + 1) - 1 = k /\ k + 1 \in 1 .. n + 1
    OBVIOUS
  <2>5. Sum(k + 1, g)
    <3> HIDE DEF g
    <3> QED
      BY <2>2, <2>3, <2>4
  <2> HIDE DEF g, Sum
  <2> QED
    BY <2>2, <2>4, <2>5
<1>3. n + 1 \in Good
  <2>1. Good \in SUBSET Int /\ n + 1 \in 1 .. n + 1
    OBVIOUS
  <2> HIDE DEF Good
  <2>2. 1 .. n + 1 \subseteq Good
    BY <1>1, <1>2, <2>1, AlongInterval
  <2> QED
    BY <2>1, <2>2
<1>4. PICK f \in [1 .. n + 1 -> Int] : Sum(n + 1, f)
  BY <1>3
<1>5. (n + 1) - 1 = n
  OBVIOUS
<1> QED
  BY <1>4, <1>5

\* A function that never goes down from one place to the next is ordered.
LEMMA Ordered ==
  ASSUME NEW n \in Nat, NEW F \in [1 .. n + 1 -> Int],
         \A i \in 1 .. n : F[i] <= F[i + 1]
  PROVE  \A i, j \in 1 .. n + 1 : i <= j => F[i] <= F[j]
<1> TAKE i \in 1 .. n + 1
<1> DEFINE Good == {j \in 1 .. n + 1 : i <= j => F[i] <= F[j]}
<1>1. Good \in SUBSET Int /\ 1 \in Good
  OBVIOUS
<1>2. ASSUME NEW j \in 1 .. n, j \in Good PROVE j + 1 \in Good
  <2>1. j + 1 \in 1 .. n + 1 /\ F[j] \in Int /\ F[j + 1] \in Int /\ F[i] \in Int /\ F[j] <= F[j + 1]
    OBVIOUS
  <2>2. CASE i = j + 1
    BY <2>1, <2>2
  <2>3. CASE i # j + 1
    <3>1. i <= j + 1 => i <= j
      BY <2>3
    <3> QED
      BY <1>2, <2>1, <3>1
  <2> QED
    BY <2>2, <2>3
<1>3. 1 .. n + 1 \subseteq Good
  <2> HIDE DEF Good
  <2> QED
    BY <1>1, <1>2, AlongInterval
<1> QED
  BY <1>3

\* FirstOf is what its definition says.
LEMMA FirstOfIs ==
  /\ FirstOf \in [1 .. Len(clientsNum) + 1 -> Int]
  /\ FirstOf[1] = 1
  /\ \A i \in 1 .. Len(clientsNum) : FirstOf[i + 1] = FirstOf[i] + (clientsNum[i] - 1)
<1> DEFINE n == Len(clientsNum)
           num == clientsNum
           R(f) == [i \in 1 .. n + 1 |-> IF i = 1 THEN 1 ELSE f[i - 1] + num[i - 1] - 1]
           d == [i \in 1 .. n |-> num[i] - 1]
<1>1. n \in Nat /\ \A i \in 1 .. n : num[i] \in Int
  BY Tables
<1>0. FirstOf = CHOOSE f : f = R(f)
  BY DEF FirstOf
<1> HIDE DEF n, num
<1>d. d \in [1 .. n -> Int]
  BY <1>1
<1>2. PICK f \in [1 .. n + 1 -> Int] : f[1] = 1 /\ \A i \in 1 .. n : f[i + 1] = f[i] + d[i]
  <2> HIDE DEF d
  <2>1. 1 \in Int
    OBVIOUS
  <2> QED
    BY <1>1, <1>d, <2>1, SumsExist
<1>3. \A i \in 1 .. n : f[i + 1] = f[i] + num[i] - 1
  BY <1>1, <1>2
<1>4. f = R(f)
  <2>1. \A i \in 1 .. n + 1 : f[i] = IF i = 1 THEN 1 ELSE f[i - 1] + num[i - 1] - 1
    <3> TAKE i \in 1 .. n + 1
    <3>1. CASE i = 1
      BY <1>2, <3>1
    <3>2. CASE i # 1
      <4>1. i - 1 \in 1 .. n /\ (i - 1) + 1 = i
        BY <1>1, <3>2
      <4> QED
        BY <1>3, <3>2, <4>1
    <3> QED
      BY <3>1, <3>2
  <2> QED
    BY <2>1
<1>5. FirstOf = R(FirstOf)
  <2> HIDE DEF R
  <2> QED
    BY <1>0, <1>4
<1> DEFINE F == FirstOf
           Good == {i \in 1 .. n + 1 : F[i] \in Int}
<1>6. F = R(F)
  BY <1>5
<1> HIDE DEF F
<1>7. F[1] = 1
  BY <1>1, <1>6, 1 \in 1 .. n + 1
<1>8. ASSUME NEW i \in 1 .. n PROVE F[i + 1] = F[i] + num[i] - 1
  <2>1. i + 1 \in 1 .. n + 1 /\ i + 1 # 1 /\ (i + 1) - 1 = i
    BY <1>1
  <2>2. F[i + 1] = IF i + 1 = 1 THEN 1 ELSE F[(i + 1) - 1] + num[(i + 1) - 1] - 1
    BY <1>6, <2>1
  <2> QED
    BY <2>1, <2>2
<1>9. 1 .. n + 1 \subseteq Good
  <2>1. Good \in SUBSET Int /\ 1 \in Good
    BY <1>1, <1>7
  <2>2. ASSUME NEW i \in 1 .. n, i \in Good PROVE i + 1 \in Good
    <3>1. i + 1 \in 1 .. n + 1 /\ F[i] \in Int /\ num[i] \in Int
      BY <1>1, <2>2
    <3> QED
      BY <1>8, <3>1
  <2> HIDE DEF Good
  <2> QED
    BY <1>1, <2>1, <2>2, AlongInterval
<1>10. F \in [1 .. n + 1 -> Int]
  BY <1>6, <1>9
<1>11. \A i \in 1 .. n : F[i + 1] = F[i] + (num[i] - 1)
  <2> TAKE i \in 1 .. n
  <2>1. F[i] \in Int /\ num[i] \in Int
    BY <1>1, <1>10
  <2> QED
    BY <1>8, <2>1
<1> QED
  BY <1>7, <1>10, <1>11 DEF F, n, num

\* Begin is what its definition says.
LEMMA BeginIs ==
  ASSUME cl \in CommandLines
  PROVE  /\ Begin \in [1 .. Len(clientsNum) + 1 -> Int]
         /\ Begin[1] = 2
         /\ Numbered => \A i \in 1 .. Len(clientsNum) : Begin[i + 1] = i * intervaleNb
         /\ ~Numbered => \A i \in 1 .. Len(clientsNum) : Begin[i + 1] = Begin[i] + cl.intervals[i]
<1> DEFINE n == Len(clientsNum)
           nb == intervaleNb
           d == cl.intervals
           R(f) == [i \in 1 .. n + 1 |->
                      IF i = 1 THEN 2 ELSE IF Numbered THEN (i - 1) * nb ELSE f[i - 1] + d[i - 1]]
           F == Begin
           Good == {i \in 1 .. n + 1 : F[i] \in Int}
<1>1. n \in Nat /\ 1 \in 1 .. n + 1 /\ (~Numbered => n = 7)
  BY Tables
<1>2. Numbered => nb \in Nat
  <2>1. CASE cl.scenarioId = 6
    BY <2>1 DEF intervaleNb, Numbered
  <2>2. CASE cl.scenarioId = 12
    BY <2>2 DEF intervaleNb, Numbered
  <2>3. CASE cl.scenarioId = 18
    BY <2>3 DEF intervaleNb, Numbered
  <2> QED
    BY <2>1, <2>2, <2>3 DEF Numbered
<1>3. d \in [1 .. 7 -> 5 .. 19]
  BY CommandLineAssumption
<1>4. F = CHOOSE f : f = R(f)
  BY DEF Begin
<1> HIDE DEF n, nb, d, F
<1>5. \E f : f = R(f)
  <2>1. CASE Numbered
    <3> DEFINE g == [i \in 1 .. n + 1 |-> IF i = 1 THEN 2 ELSE (i - 1) * nb]
    <3>1. g = R(g)
      BY <2>1
    <3> HIDE DEF g, R
    <3> QED
      BY <3>1
  <2>2. CASE ~Numbered
    <3>1. PICK f \in [1 .. n + 1 -> Int] : f[1] = 2 /\ \A i \in 1 .. n : f[i + 1] = f[i] + d[i]
      <4>1. 2 \in Int /\ d \in [1 .. n -> Int]
        BY <1>1, <1>3, <2>2
      <4> QED
        BY <1>1, <4>1, SumsExist
    <3>2. \A i \in 1 .. n + 1 : f[i] = IF i = 1 THEN 2 ELSE f[i - 1] + d[i - 1]
      <4> TAKE i \in 1 .. n + 1
      <4>1. CASE i = 1
        BY <3>1, <4>1
      <4>2. CASE i # 1
        <5>1. i - 1 \in 1 .. n /\ (i - 1) + 1 = i
          BY <1>1, <4>2
        <5> QED
          BY <3>1, <4>2, <5>1
      <4> QED
        BY <4>1, <4>2
    <3>3. f = R(f)
      BY <2>2, <3>2
    <3> HIDE DEF R
    <3> QED
      BY <3>3
  <2> QED
    BY <2>1, <2>2
<1>6. F = R(F)
  <2> HIDE DEF R
  <2> QED
    BY <1>4, <1>5
<1>7. F[1] = 2
  BY <1>1, <1>6
<1>8. ASSUME NEW i \in 1 .. n
      PROVE  F[i + 1] = IF Numbered THEN i * nb ELSE F[i] + d[i]
  <2>1. i + 1 \in 1 .. n + 1 /\ i + 1 # 1 /\ (i + 1) - 1 = i
    BY <1>1
  <2>2. F[i + 1] = IF i + 1 = 1 THEN 2
                   ELSE IF Numbered THEN ((i + 1) - 1) * nb ELSE F[(i + 1) - 1] + d[(i + 1) - 1]
    BY <1>6, <2>1
  <2> QED
    BY <2>1, <2>2
<1>9. 1 .. n + 1 \subseteq Good
  <2>1. Good \in SUBSET Int /\ 1 \in Good
    BY <1>1, <1>7
  <2>2. ASSUME NEW i \in 1 .. n, i \in Good PROVE i + 1 \in Good
    <3>1. i + 1 \in 1 .. n + 1 /\ F[i] \in Int /\ i \in Int
      BY <1>1, <2>2
    <3>2. CASE Numbered
      <4>1. i * nb \in Int
        BY <1>2, <3>1, <3>2
      <4> QED
        BY <1>8, <3>1, <3>2, <4>1
    <3>3. CASE ~Numbered
      <4>1. d[i] \in Int
        BY <1>1, <1>3, <3>3
      <4> QED
        BY <1>8, <3>1, <3>3, <4>1
    <3> QED
      BY <3>2, <3>3
  <2> HIDE DEF Good
  <2> QED
    BY <1>1, <2>1, <2>2, AlongInterval
<1>10. F \in [1 .. n + 1 -> Int]
  BY <1>6, <1>9
<1> QED
  BY <1>7, <1>8, <1>10 DEF F, n, nb, d

\* The groups follow each other, each for at most 30 seconds, and the last leaves
\* before the last stop.
LEMMA GroupsFollow ==
  ASSUME cl \in CommandLines
  PROVE  /\ \A i \in Groups : /\ Begin[i] \in 2 .. 302 /\ Begin[i + 1] \in 2 .. 302
                              /\ Begin[i] < Begin[i + 1]
                              /\ Begin[i + 1] - Begin[i] <= 30
         /\ \A i, j \in Groups : i < j => Begin[i + 1] <= Begin[j]
         /\ ~Numbered => Begin[Len(clientsNum) + 1] <= 135
         /\ Numbered => Begin[Len(clientsNum) + 1] = 90
<1> DEFINE n == Len(clientsNum)
           nb == intervaleNb
           d == cl.intervals
           F == Begin
<1>1. n \in Nat /\ (~Numbered => n = 7)
  BY Tables
<1>2. Numbered => nb \in {10, 15, 30} /\ n \in {3, 6, 9} /\ n * nb = 90
  <2>1. CASE cl.scenarioId = 6
    BY <2>1 DEF intervaleNb, clientsNum, Numbered
  <2>2. CASE cl.scenarioId = 12
    BY <2>2 DEF intervaleNb, clientsNum, Numbered
  <2>3. CASE cl.scenarioId = 18
    BY <2>3 DEF intervaleNb, clientsNum, Numbered
  <2> QED
    BY <2>1, <2>2, <2>3 DEF Numbered
<1>3. d \in [1 .. 7 -> 5 .. 19]
  BY CommandLineAssumption
<1>4. /\ F \in [1 .. n + 1 -> Int] /\ F[1] = 2
      /\ Numbered => \A i \in 1 .. n : F[i + 1] = i * nb
      /\ ~Numbered => \A i \in 1 .. n : F[i + 1] = F[i] + d[i]
  BY BeginIs
<1>5. Groups = 1 .. n
  BY DEF Groups
<1> HIDE DEF n, nb, d, F
<1>6. \A i \in 1 .. n : F[i] < F[i + 1] /\ F[i + 1] - F[i] <= 30
  <2>1. CASE ~Numbered
    BY <1>1, <1>3, <1>4, <2>1
  <2>2. CASE Numbered
    <3> TAKE i \in 1 .. n
    <3>1. CASE i = 1
      BY <1>2, <1>4, <2>2, <3>1
    <3>2. CASE i # 1
      <4>1. i - 1 \in 1 .. n /\ (i - 1) + 1 = i
        BY <1>1, <3>2
      <4>2. F[i] = (i - 1) * nb /\ F[i + 1] = i * nb
        BY <1>4, <2>2, <4>1
      <4> QED
        BY <1>1, <1>2, <2>2, <4>2
    <3> QED
      BY <3>1, <3>2
  <2> QED
    BY <2>1, <2>2
<1>7. \A i, j \in 1 .. n + 1 : i <= j => F[i] <= F[j]
  <2>1. \A i \in 1 .. n : F[i] <= F[i + 1]
    <3> TAKE i \in 1 .. n
    <3>1. F[i] \in Int /\ F[i + 1] \in Int
      BY <1>1, <1>4
    <3> QED
      BY <1>6, <3>1
  <2> QED
    BY <1>1, <1>4, <2>1, Ordered
<1>8. (~Numbered => F[n + 1] <= 135) /\ (Numbered => F[n + 1] = 90)
  <2>1. CASE Numbered
    BY <1>1, <1>2, <1>4, <2>1
  <2>2. CASE ~Numbered
    <3>1. n = 7 /\ \A i \in 1 .. 7 : F[i + 1] <= F[i] + 19 /\ F[i] \in Int /\ F[i + 1] \in Int
      BY <1>1, <1>3, <1>4, <2>2
    <3>2. /\ F[2] <= F[1] + 19 /\ F[3] <= F[2] + 19 /\ F[4] <= F[3] + 19 /\ F[5] <= F[4] + 19
          /\ F[6] <= F[5] + 19 /\ F[7] <= F[6] + 19 /\ F[8] <= F[7] + 19
      BY <3>1
    <3>3. F[8] <= F[1] + 133
      BY <3>1, <3>2
    <3> QED
      BY <1>4, <2>2, <3>1, <3>3
  <2> QED
    BY <2>1, <2>2
<1>9. \A i \in 1 .. n + 1 : F[i] \in 2 .. 302
  <2> TAKE i \in 1 .. n + 1
  <2>1. F[1] <= F[i] /\ F[i] <= F[n + 1] /\ F[i] \in Int /\ F[n + 1] \in Int
    BY <1>1, <1>4, <1>7
  <2>2. F[1] = 2 /\ F[n + 1] <= 302
    BY <1>4, <1>8, <2>1
  <2> QED
    BY <2>1, <2>2
<1>10. \A i, j \in 1 .. n : i < j => F[i + 1] <= F[j]
  BY <1>1, <1>7
<1> QED
  BY <1>1, <1>5, <1>6, <1>8, <1>9, <1>10 DEF F, n

\* The groups share out the clients that get times, client 0 apart.
LEMMA GroupsShareOut ==
  /\ 0 \in Required
  /\ \A i \in Groups :
       /\ Members(i) \subseteq Required \ {0}
       /\ IsFiniteSet(Members(i)) /\ Cardinality(Members(i)) = clientsNum[i] - 1
  /\ \A c \in Required \ {0} : \E i \in Groups : c \in Members(i)
  /\ \A i, j \in Groups : \A c : c \in Members(i) /\ c \in Members(j) => i = j
<1> DEFINE n == Len(clientsNum)
           num == clientsNum
           F == FirstOf
<1>1. n \in 1 .. 9 /\ \A i \in 1 .. n : num[i] \in 1 .. 9
  BY Tables
<1>2. /\ F \in [1 .. n + 1 -> Int] /\ F[1] = 1
      /\ \A i \in 1 .. n : F[i + 1] = F[i] + (num[i] - 1)
  BY FirstOfIs
<1>3. /\ Groups = 1 .. n /\ Required = 0 .. F[n + 1] - 1
      /\ \A i : Members(i) = F[i] .. F[i + 1] - 1
  BY DEF Groups, Required, Members
<1> HIDE DEF n, num, F
<1>4. \A i, j \in 1 .. n + 1 : i <= j => F[i] <= F[j]
  <2>1. \A i \in 1 .. n : F[i] <= F[i + 1]
    <3> TAKE i \in 1 .. n
    <3>1. F[i] \in Int /\ num[i] \in 1 .. 9 /\ F[i + 1] = F[i] + (num[i] - 1)
      BY <1>1, <1>2
    <3> QED
      BY <3>1
  <2>2. n \in Nat /\ F \in [1 .. n + 1 -> Int]
    BY <1>1, <1>2
  <2> QED
    BY <2>1, <2>2, Ordered
<1>5. F[n + 1] >= 1 /\ F[n + 1] \in Int
  BY <1>1, <1>2, <1>4
<1>6. ASSUME NEW i \in 1 .. n
      PROVE  /\ Members(i) \subseteq Required \ {0}
             /\ IsFiniteSet(Members(i)) /\ Cardinality(Members(i)) = num[i] - 1
  <2>1. /\ F[i] \in Int /\ F[i + 1] \in Int /\ num[i] \in 1 .. 9
        /\ F[i + 1] = F[i] + (num[i] - 1) /\ F[i] >= 1 /\ F[i + 1] <= F[n + 1]
    BY <1>1, <1>2, <1>4
  <2>2. Members(i) \subseteq Required \ {0}
    BY <1>3, <1>5, <2>1
  <2>3. /\ IsFiniteSet(F[i] .. F[i + 1] - 1)
        /\ Cardinality(F[i] .. F[i + 1] - 1)
             = IF F[i] > F[i + 1] - 1 THEN 0 ELSE (F[i + 1] - 1) - F[i] + 1
    <3>1. F[i] \in Int /\ F[i + 1] - 1 \in Int
      BY <2>1
    <3> QED
      BY <3>1, FS_Interval
  <2>4. (IF F[i] > F[i + 1] - 1 THEN 0 ELSE (F[i + 1] - 1) - F[i] + 1) = num[i] - 1
    BY <2>1
  <2> QED
    BY <1>3, <2>2, <2>3, <2>4
<1>7. ASSUME NEW c \in Required \ {0} PROVE \E i \in 1 .. n : c \in Members(i)
  <2> DEFINE Good == {j \in 1 .. n + 1 : c < F[j] => \E i \in 1 .. n : c \in Members(i)}
  <2>1. c \in Int /\ c >= 1 /\ c < F[n + 1]
    BY <1>3, <1>5
  <2>2. Good \in SUBSET Int /\ 1 \in Good
    BY <1>1, <1>2, <2>1
  <2>3. ASSUME NEW j \in 1 .. n, j \in Good PROVE j + 1 \in Good
    <3>1. j + 1 \in 1 .. n + 1 /\ F[j] \in Int /\ F[j + 1] \in Int
      BY <1>1, <1>2
    <3>2. CASE c < F[j]
      BY <2>3, <3>1, <3>2
    <3>3. CASE c >= F[j]
      <4>1. c < F[j + 1] => c \in Members(j)
        BY <1>3, <2>1, <3>1, <3>3
      <4> QED
        BY <3>1, <4>1
    <3> QED
      BY <2>1, <3>1, <3>2, <3>3
  <2>4. 1 .. n + 1 \subseteq Good
    <3> HIDE DEF Good
    <3> QED
      BY <1>1, <2>2, <2>3, AlongInterval
  <2> QED
    BY <1>1, <2>1, <2>4
<1>8. ASSUME NEW i \in 1 .. n, NEW j \in 1 .. n, NEW c, c \in Members(i), c \in Members(j)
      PROVE  i = j
  <2>1. /\ F[i] \in Int /\ F[i + 1] \in Int /\ F[j] \in Int /\ F[j + 1] \in Int
        /\ i < j => F[i + 1] <= F[j]
        /\ j < i => F[j + 1] <= F[i]
    BY <1>1, <1>2, <1>4
  <2>2. c \in F[i] .. F[i + 1] - 1 /\ c \in F[j] .. F[j + 1] - 1
    BY <1>3, <1>8, Zenon
  <2>3. ~(i < j) /\ ~(j < i)
    BY <2>1, <2>2
  <2> QED
    BY <2>3
<1> QED
  BY <1>3, <1>5, <1>6, <1>7, <1>8 DEF num

-----------------------------------------------------------------------------
(* The types of the driver, its clock and its timetable.                   *)

\* After the mobility models; main goes on only when it knows the scenario.
AfterScenario == AfterInitialize \union {"initialize", "running", "over", "undefined"}

Clock ==
  /\ cl \in CommandLines
  /\ pc \in {"lte", "mobility", "aborted"} \union AfterScenario
  /\ listening \in BOOLEAN
  /\ pc \notin {"running", "over"} => now = 0 /\ listening = FALSE
  /\ pc = "running" => now \in 0 .. EndOfRun - 1 /\ (listening <=> now >= 1)
  /\ pc = "over" => now \in 0 .. EndOfRun
  /\ pc \in AfterScenario /\ cl.simulationId = 4 => KnownScenario

Placed == place.x \in Int /\ place.velocity \in Int

Timetable ==
  pc \in {"run", "running", "over"} =>
    /\ Required \subseteq Clients
    /\ start \in [Clients -> 0 .. LastStop]
    /\ stop \in [Clients -> 0 .. LastStop]
    /\ start[0] = 2 /\ stop[0] = LastStop
    /\ \A i \in Groups : \A c \in Members(i) : start[c] = Begin[i] /\ stop[c] = Begin[i + 1]
    /\ \A c \in Clients \ Required : start[c] = 0 /\ stop[c] = 0

\* What the connection of a client may be, by the times it was given.
Timely(c) ==
  /\ start[c] # 0 =>
       /\ link[c] = "installed" <=> now < start[c]
       /\ link[c] # "refused"
       /\ now < stop[c] => link[c] \notin {"stopping", "stopped"}
       /\ now >= stop[c] => link[c] \in {"stopping", "stopped", "finished"}
  /\ start[c] = 0 => link[c] \notin {"installed", "stopping", "stopped"}
  /\ link[c] \in {"finishing", "finished"} =>
       /\ now - start[c] >= VideoSeconds
       /\ start[c] # 0 => start[c] + VideoSeconds < stop[c]

Sessions ==
  /\ pc \in {"running", "over"} => link \in [Clients -> Links]
  /\ pc = "running" => \A c \in Clients : Timely(c)

TimesInv == Clock /\ Placed /\ Timetable /\ Sessions

\* The tables depend on the command line alone.
LEMMA TablesStay ==
  ASSUME cl' = cl
  PROVE  /\ Clients' = Clients /\ Groups' = Groups /\ Required' = Required
         /\ Begin' = Begin /\ \A i : Members(i)' = Members(i)
         /\ (KnownScenario <=> KnownScenario')
<1>1. clientsNum' = clientsNum
  BY DEF clientsNum
<1>2. FirstOf' = FirstOf
  BY <1>1 DEF FirstOf
<1>3. Begin' = Begin
  BY <1>1 DEF Begin, Numbered, intervaleNb
<1>4. Groups' = Groups /\ Required' = Required /\ \A i : Members(i)' = Members(i)
  BY <1>1, <1>2 DEF Groups, Required, Members
<1>5. Clients' = Clients /\ (KnownScenario <=> KnownScenario')
  BY DEF Clients, KnownScenario
<1> QED
  BY <1>3, <1>4, <1>5

\* The velocities of the car are integers, whatever its scenario.
LEMMA VelocityType ==
  ASSUME cl.simulationId = 4 => KnownScenario
  PROVE  \A t \in Nat : Velocity(t) \in Int
<1> TAKE t \in Nat
<1>1. CASE cl.simulationId = 3
  BY <1>1 DEF Velocity
<1>2. CASE cl.simulationId = 4
  <2> DEFINE k == Cardinality({s \in Turns(cl.scenarioId) : s <= t})
  <2>1. Velocity(t) = CarVelocity(cl.scenarioId, k)
    BY <1>2 DEF Velocity
  <2> HIDE DEF k
  <2>2. Speed(cl.scenarioId) \in Int /\ -Speed(cl.scenarioId) \in Int
    BY <1>2 DEF KnownScenario, Speed
  <2> QED
    BY <2>1, <2>2 DEF CarVelocity
<1>3. CASE cl.simulationId \notin {3, 4}
  BY <1>3 DEF Velocity
<1> QED
  BY <1>1, <1>2, <1>3

LEMMA StartPlaceType == StartPlace \in Int
<1>1. CASE cl.simulationId = 1
  BY <1>1 DEF StartPlace
<1>2. CASE cl.simulationId \in {3, 4}
  BY <1>2 DEF StartPlace
<1>3. CASE cl.simulationId \notin {1, 3, 4}
  BY <1>3 DEF StartPlace
<1> QED
  BY <1>1, <1>2, <1>3

\* Time goes on, to the end of the run at most, and passes no time that a client
\* was given, nor the time at which the server begins to listen.
LEMMA NextTimeIs ==
  ASSUME Clock, Timetable, pc = "running"
  PROVE  /\ NextTime \in now + 1 .. EndOfRun
         /\ now = 0 => NextTime = 1
         /\ \A c \in Clients : /\ start[c] > now => NextTime <= start[c]
                               /\ stop[c] > now => NextTime <= stop[c]
         /\ cl.simulationId = 4 => \A t \in Turns(cl.scenarioId) : t > now => NextTime <= t
<1> DEFINE All == {1, EndOfRun} \union {start[c] : c \in Clients} \union {stop[c] : c \in Clients}
                    \union (IF cl.simulationId = 4 THEN Turns(cl.scenarioId) ELSE {})
           S == {t \in All : t > now}
<1>1. now \in 0 .. 120 /\ EndOfRun = 121
  BY DEF Clock, EndOfRun
<1>2. All \subseteq Nat
  <2>1. start \in [Clients -> 0 .. LastStop] /\ stop \in [Clients -> 0 .. LastStop] /\ LastStop \in Nat
    BY DEF Timetable, LastStop
  <2>2. cl.simulationId = 4 => Turns(cl.scenarioId) \subseteq Nat
    <3> SUFFICES ASSUME KnownScenario PROVE Turns(cl.scenarioId) \subseteq Nat
      BY DEF Clock, AfterScenario
    <3>1. CASE cl.scenarioId = 0
      BY <3>1 DEF Turns
    <3>2. CASE cl.scenarioId \in {6, 12, 18}
      <4>1. TurnAfter(cl.scenarioId) \in Nat /\ cl.scenarioId # 0
        BY <3>2 DEF TurnAfter
      <4>2. Turns(cl.scenarioId)
              = {k * TurnAfter(cl.scenarioId) : k \in 1 .. 300 \div TurnAfter(cl.scenarioId)}
        BY <4>1 DEF Turns
      <4>3. \A k \in Nat : k * TurnAfter(cl.scenarioId) \in Nat
        BY <4>1
      <4>4. 1 .. 300 \div TurnAfter(cl.scenarioId) \subseteq Nat
        OBVIOUS
      <4> QED
        BY <4>2, <4>3, <4>4
    <3> QED
      BY <3>1, <3>2 DEF KnownScenario
  <2> QED
    BY <1>1, <2>1, <2>2
<1>3. NextTime = Min(S)
  BY DEF NextTime
<1>4. 121 \in S
  BY <1>1
<1>5. S \in SUBSET Nat
  BY <1>2
<1>6. \A c \in Clients : start[c] \in All /\ stop[c] \in All
  OBVIOUS
<1>7. 1 \in All /\ (cl.simulationId = 4 => Turns(cl.scenarioId) \subseteq All)
  OBVIOUS
<1>8. \A t \in S : t > now
  OBVIOUS
<1>9. \A t \in All : t > now => t \in S
  OBVIOUS
<1> HIDE DEF S, All
<1>10. NextTime \in S /\ \A t \in S : NextTime <= t
  <2>1. \E x \in S : \A y \in S : x <= y
    BY <1>4, <1>5, LeastNatural
  <2> QED
    BY <1>3, <2>1 DEF Min
<1>11. NextTime \in Nat /\ NextTime > now /\ NextTime <= 121
  BY <1>4, <1>5, <1>8, <1>10
<1>12. now = 0 => NextTime = 1
  BY <1>1, <1>7, <1>9, <1>10, <1>11
<1>13. NextTime \in now + 1 .. EndOfRun
  BY <1>1, <1>11
<1>14. \A c \in Clients : /\ start[c] > now => NextTime <= start[c]
                          /\ stop[c] > now => NextTime <= stop[c]
  BY <1>6, <1>9, <1>10
<1>15. cl.simulationId = 4 => \A t \in Turns(cl.scenarioId) : t > now => NextTime <= t
  BY <1>7, <1>9, <1>10
<1> QED
  BY <1>12, <1>13, <1>14, <1>15

LEMMA ScriptSteps ==
  ASSUME DashNext, pc \notin {"run", "running"}
  PROVE  /\ cl' = cl
         /\ \/ UNCHANGED <<pc, now, listening, place, link>>
            \/ /\ UNCHANGED <<now, listening, link>>
               /\ pc = "mobility"
               /\ pc' = IF cl.simulationId = 4 /\ ~KnownScenario THEN "aborted" ELSE "initialize"
               /\ place' = [x |-> StartPlace,
                            velocity |-> IF pc' = "aborted" THEN 0 ELSE Velocity(0)]
            \/ /\ UNCHANGED <<now, listening, place, link>>
               /\ \/ pc = "lte" /\ pc' = "mobility"
                  \/ pc = "initialize" /\ pc' = "eNodeBs"
                  \/ pc = "eNodeBs" /\ pc' \in {"eNodeBs", "aborted", "traces"}
                  \/ pc = "traces" /\ pc' = "attributes"
                  \/ pc = "attributes" /\ pc' = "clients"
                  \/ pc = "clients" /\ pc' = "times"
                  \/ pc = "times" /\ pc' \in {"run", "undefined"}
<1>1. CASE InstallMobility
  BY <1>1 DEF InstallMobility
<1>2. CASE InstallEnb \/ InstallUe \/ Attach
  BY <1>2 DEF InstallEnb, InstallUe, Attach, run
<1>3. CASE ConfigureLte \/ InitializeLte \/ ConnectTraces \/ SetAttributes \/ InstallClients
  BY <1>3 DEF ConfigureLte, InitializeLte, ConnectTraces, SetAttributes, InstallClients, Step, run
<1>4. CASE SetTimes
  BY <1>4 DEF SetTimes, run
<1>5. CASE Ended
  BY <1>5 DEF Ended, dashVars, script, run
<1>6. CASE Run \/ Elapse \/ \E c \in Clients : Connects(c) \/ Finishes(c) \/ PeerClose(c)
  BY <1>6 DEF Run, Step, Elapse, Connects, Finishes, PeerClose
<1> QED
  BY <1>1, <1>2, <1>3, <1>4, <1>5, <1>6 DEF DashNext

LEMMA RunSteps ==
  ASSUME DashNext, pc \in {"run", "running"}
  PROVE  Run \/ Elapse \/ \E c \in Clients : Connects(c) \/ Finishes(c) \/ PeerClose(c)
<1>1. CASE InstallEnb \/ InstallUe \/ Attach \/ InstallMobility \/ SetTimes \/ Ended
  BY <1>1 DEF InstallEnb, InstallUe, Attach, InstallMobility, SetTimes, Ended
<1>2. CASE ConfigureLte \/ InitializeLte \/ ConnectTraces \/ SetAttributes \/ InstallClients
  BY <1>2 DEF ConfigureLte, InitializeLte, ConnectTraces, SetAttributes, InstallClients, Step
<1> QED
  BY <1>1, <1>2 DEF DashNext

LEMMA ClockKeeps ==
  ASSUME Clock, Timetable, [DashNext]_dashVars
  PROVE  Clock'
<1> USE DEF EndOfRun
<1>0. \A p : p \in AfterScenario <=> p \in {"initialize", "eNodeBs", "traces", "attributes",
                "clients", "times", "run", "running", "over", "undefined"}
  BY DEF AfterScenario, AfterInitialize, AfterAttach, AfterTraces, AfterAttributes, AfterInstall
<1>1. CASE UNCHANGED dashVars
  <2>1. UNCHANGED <<cl, pc, now>> /\ UNCHANGED listening
    BY <1>1 DEF dashVars, script, run
  <2>2. listening' \in BOOLEAN /\ (pc \notin {"running", "over"} => listening' = FALSE)
        /\ (pc = "running" => (listening' <=> now >= 1))
    BY <2>1, Zenon DEF Clock
  <2> QED
    BY <2>1, <2>2, TablesStay DEF Clock, AfterScenario
<1>2. CASE DashNext /\ pc \notin {"run", "running"}
  <2>1. cl' = cl /\ now' = now /\ UNCHANGED listening
    BY <1>2, ScriptSteps
  <2>2. (KnownScenario <=> KnownScenario') /\ cl' \in CommandLines
    BY <2>1, TablesStay DEF Clock
  <2>3. \/ pc' = pc
        \/ pc = "mobility" /\ pc' = (IF cl.simulationId = 4 /\ ~KnownScenario THEN "aborted"
                                     ELSE "initialize")
        \/ /\ pc \in AfterScenario \ {"running", "over"} \/ (pc = "lte" /\ pc' = "mobility")
           /\ pc' \in {"mobility", "eNodeBs", "aborted", "traces", "attributes", "clients", "times",
                       "run", "undefined"}
    BY <1>0, <1>2, ScriptSteps
  <2>4. /\ pc' \in {"lte", "mobility", "aborted"} \union AfterScenario
        /\ pc' = "over" => pc = "over"
        /\ pc' # "running"
    BY <1>0, <1>2, <2>3 DEF Clock
  <2>5. pc' \in AfterScenario /\ cl.simulationId = 4 => KnownScenario
    BY <1>0, <2>3 DEF Clock
  <2>6. listening' \in BOOLEAN /\ (pc # "over" => now' = 0 /\ listening' = FALSE)
    <3>1. pc # "over" => now = 0 /\ listening = FALSE
      BY <1>2 DEF Clock
    <3>2. listening \in BOOLEAN
      BY DEF Clock
    <3> QED
      BY <2>1, <3>1, <3>2, Zenon
  <2>7. pc = "over" => now' \in 0 .. EndOfRun
    BY <2>1 DEF Clock
  <2>8. pc' \notin {"running", "over"} => now' = 0 /\ listening' = FALSE
    <3>1. pc = "over" => pc' = "over"
      BY <1>0, <2>3
    <3> QED
      BY <2>6, <3>1
  <2> QED
    BY <2>1, <2>2, <2>4, <2>5, <2>6, <2>7, <2>8 DEF Clock, AfterScenario
<1>3. CASE Run
  <2>1. UNCHANGED <<cl, now>> /\ UNCHANGED listening /\ pc = "run" /\ pc' = "running"
    BY <1>3 DEF Run, Step
  <2>2. listening' = FALSE /\ now' = 0
    <3>1. listening = FALSE /\ now = 0
      BY <2>1 DEF Clock
    <3> QED
      BY <2>1, <3>1
  <2>3. /\ listening' \in BOOLEAN /\ (listening' <=> now' >= 1) /\ now' \in 0 .. 120
    <3>1. ~(now' >= 1) /\ now' \in 0 .. 120
      BY <2>2
    <3> QED
      BY <2>2, <3>1, Zenon
  <2>4. cl' \in CommandLines /\ (cl.simulationId = 4 => KnownScenario')
    BY <1>0, <2>1, TablesStay DEF Clock
  <2> QED
    BY <1>0, <2>1, <2>3, <2>4 DEF Clock, AfterScenario
<1>4. CASE Elapse
  <2>1. /\ pc = "running" /\ now' = NextTime /\ pc' = IF now' = EndOfRun THEN "over" ELSE pc
        /\ listening' = Listens(now') /\ cl' = cl
    BY <1>4 DEF Elapse
  <2>2. now' \in now + 1 .. 121 /\ now \in 0 .. 120
    BY <2>1, NextTimeIs DEF Clock
  <2>3. now' \in 0 .. 121 /\ (listening' <=> now' >= 1) /\ listening' \in BOOLEAN
    <3>1. now' >= 1 /\ now' \in 0 .. 121
      BY <2>2
    <3>2. listening' = TRUE
      BY <2>1, <3>1, Zenon DEF Listens
    <3> QED
      BY <3>1, <3>2, Zenon
  <2>4. pc' \in {"running", "over"} /\ (pc' = "running" => now' \in 0 .. 120)
    BY <2>1, <2>3
  <2>5. cl' \in CommandLines /\ (cl.simulationId = 4 => KnownScenario')
    BY <1>0, <2>1, TablesStay DEF Clock
  <2> QED
    BY <1>0, <2>1, <2>3, <2>4, <2>5 DEF Clock, AfterScenario
<1>5. ASSUME NEW c \in Clients, Connects(c) \/ Finishes(c) \/ PeerClose(c) PROVE Clock'
  <2>1. UNCHANGED <<cl, now>> /\ UNCHANGED listening /\ pc = "running" /\ pc' \in {"running", "over"}
    BY <1>5 DEF Connects, Finishes, PeerClose, Link
  <2>2. /\ listening' \in BOOLEAN /\ (listening' <=> now' >= 1) /\ now' \in 0 .. 120
    <3>1. listening \in BOOLEAN /\ (listening <=> now >= 1) /\ now \in 0 .. 120
      BY <2>1 DEF Clock
    <3>2. now' = now /\ listening' = listening
      BY <2>1
    <3> QED
      BY <3>1, <3>2, Zenon
  <2>3. cl' \in CommandLines /\ (cl.simulationId = 4 => KnownScenario')
    BY <1>0, <2>1, TablesStay DEF Clock
  <2>4. now' \in 0 .. 121
    BY <2>2
  <2> QED
    BY <1>0, <2>1, <2>2, <2>3, <2>4 DEF Clock, AfterScenario
<1>6. CASE DashNext /\ pc \in {"run", "running"}
  BY <1>3, <1>4, <1>5, <1>6, RunSteps
<1> QED
  BY <1>1, <1>2, <1>6

LEMMA PlacedKeeps ==
  ASSUME Clock, Timetable, Placed, [DashNext]_dashVars
  PROVE  Placed'
<1>1. CASE place' = place
  BY <1>1 DEF Placed
<1>2. CASE DashNext /\ pc \notin {"run", "running"} /\ place' # place
  <2>1. /\ pc' = IF cl.simulationId = 4 /\ ~KnownScenario THEN "aborted" ELSE "initialize"
        /\ place' = [x |-> StartPlace, velocity |-> IF pc' = "aborted" THEN 0 ELSE Velocity(0)]
    BY <1>2, ScriptSteps
  <2>2. (IF pc' = "aborted" THEN 0 ELSE Velocity(0)) \in Int
    <3>1. CASE cl.simulationId = 4 => KnownScenario
      <4>1. Velocity(0) \in Int
        BY <3>1, VelocityType
      <4> QED
        BY <4>1
    <3>2. CASE ~(cl.simulationId = 4 => KnownScenario)
      BY <2>1, <3>2
    <3> QED
      BY <3>1, <3>2
  <2> QED
    BY <2>1, <2>2, StartPlaceType DEF Placed
<1>3. CASE Elapse
  <2>1. /\ pc = "running" /\ now' = NextTime
        /\ place' = [x |-> place.x + place.velocity * (now' - now), velocity |-> Velocity(now')]
    BY <1>3 DEF Elapse
  <2>2. now \in Nat /\ now' \in Nat
    BY <2>1, NextTimeIs DEF Clock, EndOfRun
  <2>3. Velocity(now') \in Int
    BY <2>1, <2>2, VelocityType DEF Clock, AfterScenario
  <2>4. place.x + place.velocity * (now' - now) \in Int
    <3>1. place.velocity * (now' - now) \in Int
      BY <2>2 DEF Placed
    <3> QED
      BY <3>1 DEF Placed
  <2> QED
    BY <2>1, <2>3, <2>4 DEF Placed
<1>4. CASE Run \/ (\E c \in Clients : Connects(c) \/ Finishes(c) \/ PeerClose(c)) \/ UNCHANGED dashVars
  BY <1>1, <1>4 DEF Run, Connects, Finishes, PeerClose, Link, dashVars, run
<1> QED
  BY <1>1, <1>2, <1>3, <1>4, RunSteps

\* SetTimes gives every client the times of its group.
LEMMA TimesAreSet ==
  ASSUME Clock, SetTimes, pc' = "run"
  PROVE  Timetable'
<1>1. /\ Required \subseteq Clients /\ cl' = cl
      /\ start' = [c \in Clients |->
                         IF c = 0 THEN 2
                         ELSE IF c \in Required
                              THEN Begin[CHOOSE i \in Groups : c \in Members(i)] ELSE 0]
      /\ stop' = [c \in Clients |->
                        IF c = 0 THEN LastStop
                        ELSE IF c \in Required
                             THEN Begin[1 + CHOOSE i \in Groups : c \in Members(i)] ELSE 0]
  BY DEF SetTimes
<1>2. /\ 0 \in Required /\ 0 \in Clients
      /\ \A i \in Groups : Members(i) \subseteq Required \ {0}
      /\ \A c \in Required \ {0} : \E i \in Groups : c \in Members(i)
      /\ \A i, j \in Groups : \A c : c \in Members(i) /\ c \in Members(j) => i = j
  BY <1>1, GroupsShareOut
<1>3. \A i \in Groups : /\ Begin[i] \in 2 .. 302 /\ Begin[i + 1] \in 2 .. 302 /\ 1 + i = i + 1
  BY GroupsFollow, Tables DEF Clock, Groups
<1>4. ASSUME NEW i \in Groups, NEW c \in Members(i)
      PROVE  start'[c] = Begin[i] /\ stop'[c] = Begin[i + 1]
  <2>1. (CHOOSE j \in Groups : c \in Members(j)) = i
    BY <1>2
  <2>2. c \in Clients /\ c # 0 /\ c \in Required
    BY <1>1, <1>2
  <2> HIDE DEF Members
  <2> QED
    BY <1>1, <1>3, <2>1, <2>2
<1>5. start'[0] = 2 /\ stop'[0] = LastStop
  BY <1>1, <1>2
<1>6. ASSUME NEW c \in Clients \ Required PROVE start'[c] = 0 /\ stop'[c] = 0
  BY <1>1, <1>2
<1>7. ASSUME NEW c \in Clients PROVE start'[c] \in 0 .. LastStop /\ stop'[c] \in 0 .. LastStop
  <2>1. CASE c = 0
    BY <1>5, <2>1 DEF LastStop
  <2>2. CASE c \in Required \ {0}
    BY <1>2, <1>3, <1>4, <2>2 DEF LastStop
  <2>3. CASE c \notin Required
    BY <1>6, <2>3 DEF LastStop
  <2> QED
    BY <2>1, <2>2, <2>3
<1>8. start' \in [Clients -> 0 .. LastStop] /\ stop' \in [Clients -> 0 .. LastStop]
  BY <1>1, <1>7
<1>9. /\ Clients' = Clients /\ Groups' = Groups /\ Required' = Required
      /\ Begin' = Begin /\ \A i : Members(i)' = Members(i)
  BY <1>1, TablesStay
<1>10. \A i \in Groups' : \A c \in Members(i)' : start'[c] = Begin'[i] /\ stop'[c] = Begin'[i + 1]
  BY <1>4, <1>9
<1>11. Required' \subseteq Clients' /\ \A c \in Clients' \ Required' : start'[c] = 0 /\ stop'[c] = 0
  BY <1>1, <1>6, <1>9
<1>12. start' \in [Clients' -> 0 .. LastStop] /\ stop' \in [Clients' -> 0 .. LastStop]
  BY <1>8, <1>9
<1> QED
  BY <1>5, <1>10, <1>11, <1>12 DEF Timetable, LastStop

LEMMA TimetableKept ==
  ASSUME Timetable, UNCHANGED <<cl, start, stop>>, pc \in {"run", "running", "over"}
  PROVE  Timetable'
<1>1. /\ Clients' = Clients /\ Groups' = Groups /\ Required' = Required
      /\ Begin' = Begin /\ \A i : Members(i)' = Members(i)
  BY TablesStay
<1> QED
  BY <1>1 DEF Timetable, LastStop

LEMMA TimetableKeeps ==
  ASSUME Clock, Timetable, [DashNext]_dashVars
  PROVE  Timetable'
<1>1. CASE pc' \notin {"run", "running", "over"}
  BY <1>1 DEF Timetable
<1>2. CASE SetTimes /\ pc' \in {"run", "running", "over"}
  <2>1. pc' = "run"
    BY <1>2 DEF SetTimes
  <2> QED
    BY <1>2, <2>1, TimesAreSet
<1>3. CASE pc \in {"run", "running", "over"} /\ UNCHANGED <<cl, start, stop>>
  BY <1>3, TimetableKept
<1>4. CASE UNCHANGED dashVars
  BY <1>1, <1>3, <1>4 DEF dashVars, script
<1>5. CASE Run \/ Elapse \/ \E c \in Clients : Connects(c) \/ Finishes(c) \/ PeerClose(c)
  BY <1>3, <1>5 DEF Run, Step, Elapse, Connects, Finishes, PeerClose, Link
<1>6. CASE InstallEnb \/ InstallUe \/ Attach \/ InstallMobility \/ Ended
  BY <1>1, <1>3, <1>6 DEF InstallEnb, InstallUe, Attach, InstallMobility, Ended, dashVars, script
<1>7. CASE ConfigureLte \/ InitializeLte \/ ConnectTraces \/ SetAttributes \/ InstallClients
  BY <1>1, <1>7 DEF ConfigureLte, InitializeLte, ConnectTraces, SetAttributes, InstallClients, Step
<1> QED
  BY <1>1, <1>2, <1>4, <1>5, <1>6, <1>7 DEF DashNext

\* What the timetable says of one client.
LEMMA TimesOfClient ==
  ASSUME Clock, Timetable, pc \in {"run", "running", "over"}
  PROVE  /\ 0 \in Clients
         /\ \A c \in Clients :
              /\ start[c] \in Nat /\ stop[c] \in Nat
              /\ start[c] = 0 => stop[c] = 0
              /\ start[c] # 0 => start[c] >= 2 /\ start[c] < stop[c]
              /\ start[c] # 0 /\ c # 0 => stop[c] <= start[c] + 30
<1>1. 0 \in Clients
  BY GroupsShareOut DEF Timetable
<1>2. ASSUME NEW c \in Clients
      PROVE  /\ start[c] \in Nat /\ stop[c] \in Nat
             /\ start[c] = 0 => stop[c] = 0
             /\ start[c] # 0 => start[c] >= 2 /\ start[c] < stop[c]
             /\ start[c] # 0 /\ c # 0 => stop[c] <= start[c] + 30
  <2>1. CASE c = 0
    BY <2>1 DEF Timetable, LastStop
  <2>2. CASE c \in Required \ {0}
    <3>1. PICK i \in Groups : c \in Members(i)
      BY <2>2, GroupsShareOut
    <3>2. start[c] = Begin[i] /\ stop[c] = Begin[i + 1]
      BY <3>1 DEF Timetable
    <3>3. /\ Begin[i] \in 2 .. 302 /\ Begin[i + 1] \in 2 .. 302 /\ Begin[i] < Begin[i + 1]
          /\ Begin[i + 1] - Begin[i] <= 30
      BY GroupsFollow DEF Clock
    <3>4. /\ start[c] \in 2 .. 302 /\ stop[c] \in 2 .. 302 /\ start[c] < stop[c]
          /\ stop[c] - start[c] <= 30
      BY <3>2, <3>3, Zenon
    <3> DEFINE from == start[c]
               to == stop[c]
    <3>5. from \in 2 .. 302 /\ to \in 2 .. 302 /\ from < to /\ to - from <= 30
      BY <3>4
    <3> HIDE DEF from, to
    <3>6. /\ from \in Nat /\ to \in Nat /\ from # 0 /\ from >= 2 /\ from < to /\ to <= from + 30
      BY <3>5
    <3> QED
      BY <3>6, Zenon DEF from, to
  <2>3. CASE c \notin Required
    BY <2>3 DEF Timetable
  <2> QED
    BY <2>1, <2>2, <2>3
<1> QED
  BY <1>1, <1>2

LEMMA SessionsBegin ==
  ASSUME Clock, Timetable, Run
  PROVE  Sessions'
<1>1. /\ pc = "run" /\ pc' = "running" /\ UNCHANGED <<cl, start, stop, now>>
      /\ link' = [c \in Clients |-> IF start[c] = 0 THEN "connecting" ELSE "installed"]
  BY DEF Run, Step
<1>2. Clients' = Clients /\ now' = 0
  BY <1>1, TablesStay DEF Clock
<1>3. ASSUME NEW c \in Clients PROVE Timely(c)'
  <2>1. /\ start'[c] = start[c] /\ stop'[c] = stop[c] /\ now' = 0
        /\ link'[c] = IF start[c] = 0 THEN "connecting" ELSE "installed"
    BY <1>1, <1>2
  <2>2. start[c] \in Nat /\ stop[c] \in Nat /\ (start[c] # 0 => start[c] < stop[c])
    BY <1>1, TimesOfClient
  <2>3. CASE start[c] = 0
    BY <2>1, <2>3 DEF Timely
  <2>4. CASE start[c] # 0
    BY <2>1, <2>2, <2>4 DEF Timely
  <2> QED
    BY <2>3, <2>4
<1>4. link' \in [Clients -> Links]
  BY <1>1 DEF Links
<1> QED
  BY <1>1, <1>2, <1>3, <1>4 DEF Sessions

LEMMA SessionsElapse ==
  ASSUME Clock, Timetable, Sessions, Elapse
  PROVE  Sessions'
<1>1. /\ pc = "running" /\ now' = NextTime /\ UNCHANGED <<cl, start, stop>>
      /\ \A c \in Clients : link[c] \notin {"stopping", "finishing"}
      /\ link' = IF now' = EndOfRun THEN link ELSE [c \in Clients |-> Scheduled(c, now')]
      /\ pc' = IF now' = EndOfRun THEN "over" ELSE pc
  BY DEF Elapse
<1>2. Clients' = Clients /\ now \in Nat /\ now' \in Nat /\ now < now'
  BY <1>1, TablesStay, NextTimeIs DEF Clock, EndOfRun
<1>3. \A c \in Clients : /\ start[c] > now => now' <= start[c]
                         /\ stop[c] > now => now' <= stop[c]
  BY <1>1, NextTimeIs
<1>4. link \in [Clients -> Links] /\ \A c \in Clients : Timely(c)
  BY <1>1 DEF Sessions
<1>5. \A c \in Clients : Scheduled(c, now') \in Links
  <2> TAKE c \in Clients
  <2>1. link[c] \in Links
    BY <1>4
  <2>2. Stopped(link[c]) \in Links
    BY <2>1 DEF Stopped, Links
  <2> QED
    BY <2>1, <2>2 DEF Scheduled, Links
<1>6. link' \in [Clients -> Links]
  BY <1>1, <1>4, <1>5
<1>7. ASSUME now' # EndOfRun, NEW c \in Clients PROVE Timely(c)'
  <2>1. link'[c] = Scheduled(c, now') /\ start'[c] = start[c] /\ stop'[c] = stop[c]
    BY <1>1, <1>7
  <2>2. /\ start[c] \in Nat /\ stop[c] \in Nat
        /\ start[c] = 0 => stop[c] = 0
        /\ start[c] # 0 => start[c] < stop[c]
    BY <1>1, TimesOfClient
  <2>3. Timely(c) /\ link[c] \notin {"stopping", "finishing"} /\ VideoSeconds \in Nat
        /\ link[c] \in Links
    BY <1>1, <1>4, VideoAssumption
  <2>4. CASE start[c] = 0
    <3>1. Scheduled(c, now') = link[c]
      BY <1>2, <2>2, <2>4 DEF Scheduled
    <3>2. link'[c] = link[c]
      BY <2>1, <3>1
    <3>3. link[c] \in {"finishing", "finished"} => now' - start[c] >= VideoSeconds
      BY <1>2, <2>2, <2>3 DEF Timely
    <3> QED
      BY <2>1, <2>3, <2>4, <3>2, <3>3 DEF Timely
  <2>5. CASE start[c] # 0 /\ now' = start[c]
    <3>1. Scheduled(c, now') = "connecting"
      BY <2>2, <2>5 DEF Scheduled
    <3> QED
      BY <1>2, <2>1, <2>2, <2>5, <3>1 DEF Timely
  <2>6. CASE start[c] # 0 /\ now' = stop[c]
    <3>1. Scheduled(c, now') = Stopped(link[c])
      BY <2>2, <2>6 DEF Scheduled
    <3>2. link[c] # "installed"
      BY <1>2, <1>3, <2>2, <2>3, <2>6 DEF Timely
    <3>3. CASE link[c] = "finished"
      <4>1. link'[c] = "finished"
        BY <2>1, <3>1, <3>3 DEF Stopped
      <4>2. now' - start[c] >= VideoSeconds /\ start[c] + VideoSeconds < stop[c]
        BY <1>2, <2>2, <2>3, <2>6, <3>3 DEF Timely
      <4> QED
        BY <1>2, <2>1, <2>2, <2>6, <4>1, <4>2 DEF Timely
    <3>4. CASE link[c] # "finished"
      <4>1. link'[c] \in {"stopping", "stopped"}
        BY <2>1, <3>1, <3>4 DEF Stopped
      <4> QED
        BY <1>2, <2>1, <2>2, <2>6, <4>1 DEF Timely
    <3> QED
      BY <3>3, <3>4
  <2>7. CASE start[c] # 0 /\ now' # start[c] /\ now' # stop[c]
    <3>1. Scheduled(c, now') = link[c]
      BY <2>7 DEF Scheduled
    <3>2. /\ now < start[c] <=> now' < start[c]
          /\ now < stop[c] <=> now' < stop[c]
      BY <1>2, <1>3, <2>2, <2>7
    <3>3. link'[c] = link[c]
      BY <2>1, <3>1
    <3>4. link[c] \in {"finishing", "finished"} => now' - start[c] >= VideoSeconds
      BY <1>2, <2>2, <2>3 DEF Timely
    <3>5. now' >= stop[c] <=> now >= stop[c]
      BY <1>2, <2>2, <3>2
    <3> QED
      BY <2>1, <2>3, <2>7, <3>2, <3>3, <3>4, <3>5 DEF Timely
  <2> QED
    BY <2>4, <2>5, <2>6, <2>7
<1> QED
  BY <1>1, <1>2, <1>6, <1>7 DEF Sessions

LEMMA SessionsAct ==
  ASSUME Clock, Timetable, Sessions, NEW c \in Clients,
         Connects(c) \/ Finishes(c) \/ PeerClose(c)
  PROVE  Sessions'
<1>1. pc = "running" /\ UNCHANGED <<cl, start, stop, now>>
  BY DEF Connects, Finishes, PeerClose, Link
<1>2. Clients' = Clients
  BY <1>1, TablesStay
<1>3. link \in [Clients -> Links] /\ \A d \in Clients : Timely(d)
  BY <1>1 DEF Sessions
<1>4. /\ start[c] \in Nat /\ stop[c] \in Nat /\ now \in Nat /\ VideoSeconds \in Nat
      /\ start[c] = 0 => stop[c] = 0
      /\ start[c] # 0 => start[c] >= 2 /\ start[c] < stop[c]
  BY <1>1, TimesOfClient, VideoAssumption DEF Clock, EndOfRun
<1>5. ASSUME NEW to \in Links, link' = [link EXCEPT ![c] = to], Timely(c)'
      PROVE  Sessions'
  <2>1. link' \in [Clients -> Links]
    BY <1>3, <1>5
  <2>2. ASSUME NEW d \in Clients, d # c PROVE Timely(d)'
    <3>1. link'[d] = link[d] /\ start'[d] = start[d] /\ stop'[d] = stop[d] /\ now' = now
      BY <1>1, <1>3, <1>5, <2>2
    <3> QED
      BY <1>3, <3>1 DEF Timely
  <2> QED
    BY <1>2, <1>5, <2>1, <2>2 DEF Sessions
<1>6. CASE Connects(c)
  <2>1. /\ link[c] = "connecting"
        /\ link' = [link EXCEPT ![c] = IF listening THEN "open" ELSE "refused"]
    BY <1>6 DEF Connects, LowestIn, Link
  <2>2. start[c] # 0 => now >= start[c] /\ now < stop[c]
    BY <1>3, <1>4, <2>1 DEF Timely
  <2>3. start[c] # 0 => listening
    <3>1. start[c] # 0 => now >= 1
      BY <1>4, <2>2
    <3> QED
      BY <1>1, <3>1, Zenon DEF Clock
  <2> DEFINE to == IF listening THEN "open" ELSE "refused"
  <2>4. to \in {"open", "refused"} /\ (start[c] # 0 => to = "open")
    <3>1. CASE listening
      BY <3>1, Zenon
    <3>2. CASE ~listening
      BY <2>3, <3>2, Zenon
    <3> QED
      BY <3>1, <3>2
  <2>5. link' = [link EXCEPT ![c] = to]
    BY <2>1
  <2> HIDE DEF to
  <2>6. link'[c] = to /\ start'[c] = start[c] /\ stop'[c] = stop[c] /\ now' = now
    BY <1>1, <1>3, <2>5
  <2>7. Timely(c)'
    BY <1>4, <2>2, <2>4, <2>6 DEF Timely
  <2>8. to \in Links
    BY <2>4 DEF Links
  <2> QED
    BY <1>5, <2>5, <2>7, <2>8
<1>7. CASE Finishes(c)
  <2>1. /\ link[c] = "open" /\ now - start[c] >= VideoSeconds
        /\ link' = [link EXCEPT ![c] = "finishing"]
    BY <1>7 DEF Finishes, LowestIn, Link
  <2>2. start[c] # 0 => now >= start[c] /\ now < stop[c]
    BY <1>3, <1>4, <2>1 DEF Timely
  <2>3. link'[c] = "finishing" /\ start'[c] = start[c] /\ stop'[c] = stop[c] /\ now' = now
    BY <1>1, <1>3, <2>1
  <2>4. Timely(c)'
    BY <1>4, <2>1, <2>2, <2>3 DEF Timely
  <2> QED
    BY <1>5, <2>1, <2>4 DEF Links
<1>8. CASE PeerClose(c)
  <2>1. PICK to \in {"stopped", "finished"} :
          /\ link[c] = IF to = "stopped" THEN "stopping" ELSE "finishing"
          /\ link' = [link EXCEPT ![c] = to]
    BY <1>8 DEF PeerClose, LowestIn, Link
  <2>2. link'[c] = to /\ start'[c] = start[c] /\ stop'[c] = stop[c] /\ now' = now
    BY <1>1, <1>3, <2>1
  <2>3. Timely(c)
    BY <1>3
  <2>4. CASE to = "stopped"
    <3>1. Timely(c)'
      BY <1>4, <2>1, <2>2, <2>3, <2>4 DEF Timely
    <3> QED
      BY <1>5, <2>1, <2>4, <3>1 DEF Links
  <2>5. CASE to = "finished"
    <3>1. Timely(c)'
      BY <1>4, <2>1, <2>2, <2>3, <2>5 DEF Timely
    <3> QED
      BY <1>5, <2>1, <2>5, <3>1 DEF Links
  <2> QED
    BY <2>4, <2>5
<1> QED
  BY <1>6, <1>7, <1>8

LEMMA SessionsKeep ==
  ASSUME Clock, Timetable, Sessions, [DashNext]_dashVars
  PROVE  Sessions'
<1>1. CASE pc' \notin {"running", "over"}
  BY <1>1 DEF Sessions
<1>2. CASE Run \/ Elapse \/ \E c \in Clients : Connects(c) \/ Finishes(c) \/ PeerClose(c)
  BY <1>2, SessionsBegin, SessionsElapse, SessionsAct
<1>3. CASE UNCHANGED <<cl, pc, start, stop, now, link>> /\ pc \in {"running", "over"}
  <2>1. Clients' = Clients
    BY <1>3, TablesStay
  <2>2. \A c : Timely(c) => Timely(c)'
    BY <1>3 DEF Timely
  <2> QED
    BY <1>3, <2>1, <2>2 DEF Sessions, Links
<1>4. CASE UNCHANGED dashVars
  BY <1>1, <1>3, <1>4 DEF dashVars, script, run
<1>5. CASE InstallEnb \/ InstallUe \/ Attach \/ InstallMobility \/ SetTimes \/ Ended
  BY <1>1, <1>4, <1>5 DEF InstallEnb, InstallUe, Attach, InstallMobility, SetTimes, Ended
<1>6. CASE ConfigureLte \/ InitializeLte \/ ConnectTraces \/ SetAttributes \/ InstallClients
  BY <1>1, <1>6 DEF ConfigureLte, InitializeLte, ConnectTraces, SetAttributes, InstallClients, Step
<1> QED
  BY <1>2, <1>4, <1>5, <1>6 DEF DashNext

\* The invariant of the timetable: the clock, the times given to the clients, and
\* what their connections are at a time.
THEOREM TimesInvariance == DashSpec => []TimesInv
<1>1. DashInit => TimesInv
  <2> SUFFICES ASSUME DashInit PROVE TimesInv
    OBVIOUS
  <2>1. pc = "lte" /\ now = 0 /\ cl \in CommandLines /\ listening = FALSE /\ place = [x |-> 0, velocity |-> 0]
    BY DEF DashInit
  <2>2. Clock
    BY <2>1 DEF Clock, AfterScenario, AfterInitialize, AfterAttach, AfterTraces, AfterAttributes,
                AfterInstall
  <2>3. Placed /\ Timetable /\ Sessions
    BY <2>1 DEF Placed, Timetable, Sessions
  <2> QED
    BY <2>2, <2>3 DEF TimesInv
<1>2. TimesInv /\ [DashNext]_dashVars => TimesInv'
  BY ClockKeeps, PlacedKeeps, TimetableKeeps, SessionsKeep DEF TimesInv
<1> QED
  BY <1>1, <1>2, PTL DEF DashSpec

-----------------------------------------------------------------------------
(* What follows from it.                                                   *)

LEMMA ViewerStays ==
  ASSUME VideoSeconds >= 2, TimesInv, OnlyViewerEndsEarly, [DashNext]_dashVars
  PROVE  OnlyViewerEndsEarly'
<1>1. CASE UNCHANGED <<pc, now, link>>
  BY <1>1 DEF OnlyViewerEndsEarly, EndOfRun
<1>2. CASE pc' # "over"
  BY <1>2 DEF OnlyViewerEndsEarly
<1>3. CASE Run \/ Elapse
  <2>1. pc' = "over" => now' = EndOfRun
    BY <1>3 DEF Run, Step, Elapse
  <2> QED
    BY <2>1 DEF OnlyViewerEndsEarly, EndOfRun
<1>4. ASSUME NEW c \in Clients, Connects(c) \/ Finishes(c) PROVE OnlyViewerEndsEarly'
  BY <1>2, <1>4 DEF Connects, Finishes
<1>5. ASSUME NEW c \in Clients, PeerClose(c), pc' = "over" PROVE OnlyViewerEndsEarly'
  <2>1. /\ pc = "running" /\ UNCHANGED <<cl, start, stop, now>>
        /\ \A d \in Clients \ {c} : link[d] \notin {"open", "stopping", "finishing"}
    BY <1>5 DEF PeerClose, Link
  <2>2. PICK to \in {"stopped", "finished"} :
          /\ link[c] = IF to = "stopped" THEN "stopping" ELSE "finishing"
          /\ link' = [link EXCEPT ![c] = to]
    BY <1>5 DEF PeerClose, LowestIn, Link
  <2>3. /\ link \in [Clients -> Links] /\ Timely(0) /\ Timely(c) /\ 0 \in Clients
        /\ start[0] = 2 /\ stop[0] = 302 /\ now \in 0 .. 120 /\ VideoSeconds \in Nat
    BY <2>1, TimesOfClient, VideoAssumption
       DEF TimesInv, Sessions, Clock, Timetable, LastStop, EndOfRun
  <2>4. link[0] \in Links /\ link[0] \notin {"refused", "stopping", "stopped"}
    BY <2>3 DEF Timely
  <2>5. CASE c = 0
    <3>1. link'[0] = "finished"
      BY <2>2, <2>3, <2>4, <2>5
    <3> QED
      BY <3>1 DEF OnlyViewerEndsEarly
  <2>6. CASE c # 0
    <3>1. link'[0] = link[0] /\ link[0] \notin {"open", "stopping", "finishing"}
      BY <2>1, <2>2, <2>3, <2>6
    <3>2. /\ start[c] \in Nat /\ stop[c] \in Nat
          /\ start[c] = 0 => stop[c] = 0
          /\ start[c] # 0 => start[c] >= 2 /\ start[c] < stop[c]
      BY <2>1, TimesOfClient DEF TimesInv
    <3>3. now >= 2
      <4>1. CASE link[c] = "stopping"
        <5>1. start[c] # 0 /\ ~(now < stop[c])
          BY <2>3, <4>1 DEF Timely
        <5> QED
          BY <2>3, <3>2, <5>1
      <4>2. CASE link[c] = "finishing"
        <5>1. now - start[c] >= VideoSeconds
          BY <2>3, <4>2 DEF Timely
        <5> QED
          BY <2>3, <3>2, <5>1
      <4> QED
        BY <2>2, <4>1, <4>2
    <3>4. link[0] # "installed"
      BY <2>3, <3>3 DEF Timely
    <3>5. link[0] \in {"finished", "connecting"}
      BY <2>4, <3>1, <3>4 DEF Links
    <3> QED
      BY <3>1, <3>5 DEF OnlyViewerEndsEarly
  <2> QED
    BY <2>5, <2>6
<1>6. CASE InstallEnb \/ InstallUe \/ Attach \/ InstallMobility \/ SetTimes \/ Ended
  BY <1>1, <1>2, <1>6 DEF InstallEnb, InstallUe, Attach, InstallMobility, SetTimes, Ended, dashVars,
     script, run
<1>7. CASE ConfigureLte \/ InitializeLte \/ ConnectTraces \/ SetAttributes \/ InstallClients
  BY <1>2, <1>7 DEF ConfigureLte, InitializeLte, ConnectTraces, SetAttributes, InstallClients, Step
<1>8. CASE UNCHANGED dashVars
  BY <1>1, <1>8 DEF dashVars, script, run
<1> QED
  BY <1>2, <1>3, <1>4, <1>5, <1>6, <1>7, <1>8 DEF DashNext

\* Groups that leave do not end the simulation while client 0 watches, for any
\* scenario and any random intervals, if no video is shorter than two seconds.
THEOREM ViewerOutlastsGroups ==
  ASSUME VideoSeconds >= 2
  PROVE  DashSpec => []OnlyViewerEndsEarly
<1>1. DashInit => OnlyViewerEndsEarly
  BY DEF DashInit, OnlyViewerEndsEarly
<1>2. TimesInv /\ OnlyViewerEndsEarly /\ [DashNext]_dashVars => OnlyViewerEndsEarly'
  BY ViewerStays
<1> QED
  BY <1>1, <1>2, TimesInvariance, PTL DEF DashSpec

\* When a group is on the air, its clients are those counted: all of it, with
\* client 0, and none of another.
LEMMA LoadOfGroup ==
  ASSUME VideoSeconds >= 30, TimesInv
  PROVE  CellLoad
<1> SUFFICES ASSUME pc = "running", NEW i \in Groups, During(i)
             PROVE  Cardinality({c \in Required :
                       link[c] \notin {"installed", "refused", "stopping", "stopped"}})
                      = clientsNum[i]
  BY DEF CellLoad
<1> DEFINE On(c) == link[c] \notin {"installed", "refused", "stopping", "stopped"}
           from(c) == start[c]
           to(c) == stop[c]
           begin(j) == Begin[j]
           end(j) == Begin[j + 1]
<1>1. Clock /\ Timetable /\ Sessions /\ Required \subseteq Clients
  BY DEF TimesInv, Timetable
<1>2. /\ 0 \in Required /\ Members(i) \subseteq Required \ {0}
      /\ IsFiniteSet(Members(i)) /\ Cardinality(Members(i)) = clientsNum[i] - 1
      /\ \A c \in Required \ {0} : \E j \in Groups : c \in Members(j)
  BY GroupsShareOut
<1>3. /\ \A j \in Groups : begin(j) \in 2 .. 302 /\ end(j) \in 2 .. 302
      /\ \A j, k \in Groups : j < k => end(j) <= begin(k)
  BY <1>1, GroupsFollow DEF Clock
<1>4. now \in 0 .. 120 /\ begin(i) <= now /\ now < end(i)
  BY <1>1 DEF Clock, During, EndOfRun
<1>5. ASSUME NEW c \in Required
      PROVE  /\ from(c) # 0 => /\ link[c] = "installed" <=> now < from(c)
                               /\ link[c] # "refused"
                               /\ now < to(c) => link[c] \notin {"stopping", "stopped"}
                               /\ now >= to(c) => link[c] \in {"stopping", "stopped", "finished"}
                               /\ link[c] = "finished" => from(c) + VideoSeconds < to(c)
             /\ from(c) # 0 /\ c # 0 => to(c) <= from(c) + 30
  BY <1>1, TimesOfClient DEF Sessions, Timely
<1>6. from(0) = 2 /\ to(0) = 302
  BY <1>1 DEF Timetable, LastStop
<1>7. \A j \in Groups : \A c \in Members(j) : from(c) = begin(j) /\ to(c) = end(j)
  BY <1>1 DEF Timetable
<1> HIDE DEF from, to, begin, end
<1>8. On(0)
  <2>1. from(0) # 0 /\ now < to(0) /\ ~(now < from(0))
    BY <1>3, <1>4, <1>6
  <2> QED
    BY <1>2, <1>5, <2>1
<1>9. ASSUME NEW c \in Required \ {0} PROVE On(c) <=> c \in Members(i)
  <2>1. PICK j \in Groups : c \in Members(j)
    BY <1>2
  <2>2. from(c) = begin(j) /\ to(c) = end(j)
    BY <1>7, <2>1
  <2>3. from(c) \in 2 .. 302 /\ to(c) \in 2 .. 302 /\ from(c) # 0
    BY <1>3, <2>2
  <2>4. CASE j = i
    <3>1. ~(now < from(c)) /\ now < to(c)
      BY <1>3, <1>4, <2>2, <2>4
    <3>2. link[c] \notin {"installed", "refused", "stopping", "stopped"}
      BY <1>5, <2>3, <3>1
    <3> QED
      BY <2>1, <2>4, <3>2
  <2>5. CASE j < i
    <3>1. now >= to(c)
      <4>1. end(j) <= begin(i)
        BY <1>3, <2>5
      <4> QED
        BY <1>3, <1>4, <2>2, <4>1
    <3>2. link[c] # "finished"
      <4>1. ~(from(c) + VideoSeconds < to(c))
        <5>1. to(c) <= from(c) + 30
          BY <1>5, <2>3
        <5>2. from(c) \in Int /\ to(c) \in Int
          BY <2>3
        <5>3. \A a, b, v \in Int : b <= a + 30 /\ v >= 30 => ~(a + v < b)
          OBVIOUS
        <5>4. VideoSeconds \in Int /\ VideoSeconds >= 30
          BY VideoAssumption
        <5> QED
          BY <5>1, <5>2, <5>3, <5>4, Zenon
      <4> QED
        BY <1>5, <2>3, <4>1
    <3>3. link[c] \in {"stopping", "stopped"}
      BY <1>5, <2>3, <3>1, <3>2
    <3>4. c \notin Members(i)
      BY <2>1, <2>5, GroupsShareOut, Tables DEF Groups
    <3> QED
      BY <3>3, <3>4
  <2>6. CASE i < j
    <3>1. now < from(c)
      <4>1. end(i) <= begin(j)
        BY <1>3, <2>6
      <4>2. begin(j) \in Int /\ end(i) \in Int /\ now \in Int
        BY <1>3, <1>4
      <4>3. \A a, b, d \in Int : a < b /\ b <= d => a < d
        OBVIOUS
      <4>4. now < begin(j)
        BY <1>4, <4>1, <4>2, <4>3, Zenon
      <4> QED
        BY <2>2, <4>4, Zenon
    <3>2. link[c] = "installed"
      BY <1>5, <2>3, <3>1
    <3>3. c \notin Members(i)
      BY <2>1, <2>6, GroupsShareOut, Tables DEF Groups
    <3> QED
      BY <3>2, <3>3
  <2>7. j = i \/ j < i \/ i < j
    BY Tables DEF Groups
  <2> QED
    BY <2>4, <2>5, <2>6, <2>7
<1>10. {c \in Required : On(c)} = Members(i) \cup {0}
  <2> HIDE DEF On
  <2> QED
    BY <1>2, <1>8, <1>9
<1>11. Cardinality(Members(i) \cup {0}) = Cardinality(Members(i)) + 1
  BY <1>2, FS_AddElement
<1>12. (clientsNum[i] - 1) + 1 = clientsNum[i]
  BY Tables DEF Groups
<1> QED
  BY <1>2, <1>10, <1>11, <1>12

\* The load of a cell is what the tables promise, for any number of clients and any
\* random intervals, if no video is shorter than the longest interval.
THEOREM LoadIsAsPromised ==
  ASSUME VideoSeconds >= 30
  PROVE  DashSpec => []CellLoad
<1>1. TimesInv => CellLoad
  BY LoadOfGroup
<1> QED
  BY <1>1, TimesInvariance, PTL

-----------------------------------------------------------------------------
(* The types of the driver and of the helper.                              *)

\* What the two invariants leave out of the helper's types.
LteTyped ==
  /\ m_phyRxStats \in {"null", "created"}
  /\ traces \subseteq [device : {"enb", "ue"} \X (Nat \ {0}), sink : {"null", "created"}]

LEMMA TracesTyped ==
  ASSUME Identities, LteTyped, EnableTraces
  PROVE  LteTyped'
<1>1. Len(enbDevs) \in Nat /\ Len(ueDevs) \in Nat
  BY DEF Identities, CellsGivenOut, ImsisGivenOut
<1> DEFINE pairs == ({"enb"} \X (1 .. Len(enbDevs))) \union ({"ue"} \X (1 .. Len(ueDevs)))
<1>2. m_phyRxStats' = m_phyRxStats /\ traces' = [device : pairs, sink : {m_phyRxStats}]
  BY DEF EnableTraces
<1>3. pairs \subseteq {"enb", "ue"} \X (Nat \ {0})
  BY <1>1
<1> HIDE DEF pairs
<1>4. [device : pairs, sink : {m_phyRxStats}]
        \subseteq [device : {"enb", "ue"} \X (Nat \ {0}), sink : {"null", "created"}]
  BY <1>3 DEF LteTyped
<1> QED
  BY <1>2, <1>4 DEF LteTyped

LEMMA LteTypedKeeps ==
  ASSUME Identities, LteTyped, [DashNext]_dashVars
  PROVE  LteTyped'
<1>1. CASE UNCHANGED <<m_phyRxStats, traces>>
  BY <1>1 DEF LteTyped
<1>2. CASE InitializeLte
  <2>1. m_phyRxStats' = "created" /\ traces' = traces
    BY <1>2 DEF InitializeLte, Initialize
  <2> QED
    BY <2>1 DEF LteTyped
<1>3. CASE ConnectTraces
  BY <1>3, TracesTyped DEF ConnectTraces
<1>4. CASE ConfigureLte \/ InstallEnb \/ InstallUe \/ Attach
  BY <1>1, <1>4 DEF ConfigureLte, SetEpcHelper, InstallEnb, InstallSingleEnbDevice, InstallUe,
     InstallSingleUeDevice, Attach, AttachToClosestEnb, lteVars
<1>5. CASE InstallMobility \/ SetAttributes \/ InstallClients \/ SetTimes \/ Ended
  BY <1>1, <1>5 DEF InstallMobility, SetAttributes, InstallClients, SetTimes, Ended, dashVars, lteVars
<1>6. CASE Run \/ Elapse \/ \E c \in Clients : Connects(c) \/ Finishes(c) \/ PeerClose(c)
  BY <1>1, <1>6 DEF Run, Elapse, Connects, Finishes, PeerClose, Link, lteVars
<1>7. CASE UNCHANGED dashVars
  BY <1>1, <1>7 DEF dashVars, lteVars
<1> QED
  BY <1>2, <1>3, <1>4, <1>5, <1>6, <1>7 DEF DashNext

LEMMA TypesFollow ==
  ASSUME DashInv, TimesInv, LteTyped
  PROVE  DashTypeOK
<1>1. LteTypeOK
  <2>1. CountersOK /\ enbDevs \in Seq(Enb) /\ ueDevs \in Seq(Ue)
    BY DEF DashInv, Identities, CellsGivenOut, ImsisGivenOut
  <2>2. m_useCa \in BOOLEAN /\ m_epcHelper \in BOOLEAN
    BY <2>1 DEF CountersOK
  <2>3. /\ m_noOfCcs \in Nat \ {0}
        /\ m_componentCarrierPhyParams \in {0, m_noOfCcs}
        /\ m_cellIdCounter \in 1 .. CellIdMax
        /\ m_imsiCounter \in 0 .. ImsiMax
    BY <2>1 DEF CountersOK
  <2> QED
    BY <2>1, <2>2, <2>3, Zenon DEF LteTypeOK, LteTyped, Enb, Ue
<1>2. cl \in CommandLines /\ listening \in BOOLEAN
  BY DEF TimesInv, Clock
<1>3. pc \in {"lte", "mobility", "initialize", "eNodeBs", "traces", "attributes",
             "clients", "times", "run", "running", "over", "aborted", "undefined"}
  BY DEF TimesInv, Clock, AfterScenario, AfterInitialize, AfterAttach, AfterTraces, AfterAttributes,
         AfterInstall
<1>4. now \in 0 .. EndOfRun
  BY <1>3 DEF TimesInv, Clock, EndOfRun
<1>5. place.x \in Int /\ place.velocity \in Int
  BY DEF TimesInv, Placed
<1>6. pc \in {"running", "over"} =>
       /\ link \in [Clients -> Links]
       /\ start \in [Clients -> 0 .. LastStop]
       /\ stop \in [Clients -> 0 .. LastStop]
  BY DEF TimesInv, Sessions, Timetable
<1> QED
  BY <1>1, <1>2, <1>3, <1>4, <1>5, <1>6, Zenon DEF DashTypeOK

\* The types of the driver and of its network hold for all command lines.
THEOREM DriverTypesHold == DashSpec => []DashTypeOK
<1>1. DashInit => LteTyped
  BY DEF DashInit, LteInit, LteTyped
<1>2. DashInv /\ LteTyped /\ [DashNext]_dashVars => LteTyped'
  BY LteTypedKeeps DEF DashInv
<1>3. DashInv /\ TimesInv /\ LteTyped => DashTypeOK
  BY TypesFollow
<1> QED
  BY <1>1, <1>2, <1>3, DashInvariance, TimesInvariance, PTL DEF DashSpec

-----------------------------------------------------------------------------
(* The car.                                                                *)

\* Speed and time between turns of a scenario: the way of 180 metres.
Rides(S, T) == \/ S = 6000 /\ T = 30
               \/ S = 12000 /\ T = 15
               \/ S = 18000 /\ T = 10

\* Where the car is on its k-th way, so long after the turn, and how fast.
PlaceOnWay(S, k, since) == IF k % 2 = 0 THEN -90000 + S * since ELSE 90000 - S * since
VelocityOnWay(S, k) == IF k % 2 = 0 THEN S ELSE -S

\* The first nine ways; the tables repeat a sign only later.
Ways == 0 .. 8

OnItsWay ==
  IF cl.scenarioId = 0
  THEN /\ now < 2 => place.x = -90000 + 45000 * now /\ place.velocity = 45000
       /\ now >= 2 => place.x = 0 /\ place.velocity = 0
  ELSE \E S, T \in Nat :
         /\ Rides(S, T)
         /\ S = Speed(cl.scenarioId) /\ T = TurnAfter(cl.scenarioId)
         /\ \A k \in Ways : k * T <= now /\ now < (k + 1) * T =>
              /\ place.x = PlaceOnWay(S, k, now - k * T)
              /\ place.velocity = VelocityOnWay(S, k)

Riding == pc \in AfterScenario \ {"over", "undefined"} /\ cl.simulationId = 4 => OnItsWay

LEMMA CarTable ==
  ASSUME KnownScenario, cl.scenarioId # 0
  PROVE  /\ Rides(Speed(cl.scenarioId), TurnAfter(cl.scenarioId))
         /\ Speed(cl.scenarioId) \in Nat /\ TurnAfter(cl.scenarioId) \in Nat
         /\ TurnAfter(cl.scenarioId) = intervaleNb /\ Numbered
<1>1. CASE cl.scenarioId = 6
  BY <1>1 DEF Rides, Speed, TurnAfter, intervaleNb, Numbered
<1>2. CASE cl.scenarioId = 12
  BY <1>2 DEF Rides, Speed, TurnAfter, intervaleNb, Numbered
<1>3. CASE cl.scenarioId = 18
  BY <1>3 DEF Rides, Speed, TurnAfter, intervaleNb, Numbered
<1> QED
  BY <1>1, <1>2, <1>3 DEF KnownScenario

\* The multiples of a time, counted.
LEMMA Multiples ==
  ASSUME NEW T \in {10, 15, 30}, NEW n \in Nat
  PROVE  IsFiniteSet({j * T : j \in 1 .. n}) /\ Cardinality({j * T : j \in 1 .. n}) = n
<1> DEFINE M(k) == {j * T : j \in 1 .. k}
           Good == {i \in 1 .. n + 1 : IsFiniteSet(M(i - 1)) /\ Cardinality(M(i - 1)) = i - 1}
<1>1. 1 \in Good
  <2>1. M(1 - 1) = {}
    OBVIOUS
  <2> HIDE DEF M
  <2> QED
    BY <2>1, FS_EmptySet
<1>2. ASSUME NEW i \in 1 .. n, i \in Good PROVE i + 1 \in Good
  <2>1. IsFiniteSet(M(i - 1)) /\ Cardinality(M(i - 1)) = i - 1
    BY <1>2
  <2>2. (i + 1) - 1 = i /\ i + 1 \in 1 .. n + 1 /\ (i - 1) + 1 = i
    OBVIOUS
  <2>3. M(i) = M(i - 1) \cup {i * T}
    <3>1. \A j : j \in 1 .. i <=> j \in 1 .. i - 1 \/ j = i
      OBVIOUS
    <3> QED
      BY <3>1, Zenon
  <2>4. i * T \notin M(i - 1)
    <3>1. CASE T = 10
      BY <3>1
    <3>2. CASE T = 15
      BY <3>2
    <3>3. CASE T = 30
      BY <3>3
    <3> QED
      BY <3>1, <3>2, <3>3
  <2>5. IsFiniteSet(M(i)) /\ Cardinality(M(i)) = i
    <3> HIDE DEF M
    <3> QED
      BY <2>1, <2>2, <2>3, <2>4, FS_AddElement
  <2> HIDE DEF M
  <2> QED
    BY <2>2, <2>5
<1>3. Good \in SUBSET Int
  OBVIOUS
<1>4. 1 .. n + 1 \subseteq Good
  <2> HIDE DEF Good
  <2> QED
    BY <1>1, <1>2, <1>3, AlongInterval
<1>5. n + 1 \in 1 .. n + 1 /\ (n + 1) - 1 = n
  OBVIOUS
<1>6. n + 1 \in Good
  BY <1>4, <1>5
<1> HIDE DEF M
<1>7. IsFiniteSet(M(n)) /\ Cardinality(M(n)) = n
  BY <1>5, <1>6
<1> QED
  BY <1>7 DEF M

\* The velocity that the table gives for the time of a way.
LEMMA VelocityOfWay ==
  ASSUME cl.simulationId = 4, KnownScenario, cl.scenarioId # 0,
         NEW k \in Ways, NEW t \in Nat,
         k * TurnAfter(cl.scenarioId) <= t, t < (k + 1) * TurnAfter(cl.scenarioId)
  PROVE  Velocity(t) = VelocityOnWay(Speed(cl.scenarioId), k)
<1> DEFINE T == TurnAfter(cl.scenarioId)
           n == 300 \div T
<1>1. T \in {10, 15, 30}
  BY CarTable DEF Rides
<1>2. Turns(cl.scenarioId) = {j * T : j \in 1 .. n}
  BY DEF Turns
<1>3. k * T <= t /\ t < (k + 1) * T
  OBVIOUS
<1> HIDE DEF T
<1>4. n \in Nat /\ n >= 10
  BY <1>1
<1> HIDE DEF n
<1>5. \A j \in Nat : j * T <= t <=> j <= k
  <2> TAKE j \in Nat
  <2>1. CASE T = 10
    BY <1>3, <2>1 DEF Ways
  <2>2. CASE T = 15
    BY <1>3, <2>2 DEF Ways
  <2>3. CASE T = 30
    BY <1>3, <2>3 DEF Ways
  <2> QED
    BY <1>1, <2>1, <2>2, <2>3
<1>6. {s \in Turns(cl.scenarioId) : s <= t} = {j * T : j \in 1 .. k}
  <2>1. \A j : j \in 1 .. n /\ j <= k <=> j \in 1 .. k
    BY <1>4 DEF Ways
  <2>2. \A j : j \in 1 .. n => j \in Nat
    BY <1>4
  <2> QED
    BY <1>2, <1>5, <2>1, <2>2, Zenon
<1>7. Cardinality({s \in Turns(cl.scenarioId) : s <= t}) = k
  <2>1. k \in Nat
    BY DEF Ways
  <2> QED
    BY <1>1, <1>6, <2>1, Multiples
<1>8. Velocity(t) = CarVelocity(cl.scenarioId, k)
  BY <1>7 DEF Velocity
<1>9. {r \in Repeats(cl.scenarioId) : r <= k} = {}
  BY DEF Ways, Repeats
<1>10. k - Cardinality({r \in Repeats(cl.scenarioId) : r <= k}) = k
  <2>1. Cardinality({r \in Repeats(cl.scenarioId) : r <= k}) = 0
    BY <1>9, FS_EmptySet
  <2>2. k \in Int
    BY DEF Ways
  <2> QED
    BY <2>1, <2>2
<1> QED
  BY <1>8, <1>10 DEF CarVelocity, VelocityOnWay

\* From one event to the next, the car goes on its way, to its end at most.
LEMMA WayGoesOn ==
  ASSUME NEW S \in Nat, NEW T \in Nat, Rides(S, T), NEW k \in Ways, NEW m \in Ways,
         NEW t \in Nat, NEW u \in Nat, k * T <= t, t < (k + 1) * T,
         t < u, u <= (k + 1) * T, m * T <= u, u < (m + 1) * T
  PROVE  PlaceOnWay(S, k, t - k * T) + VelocityOnWay(S, k) * (u - t) = PlaceOnWay(S, m, u - m * T)
<1>1. CASE S = 6000 /\ T = 30
  <2>1. m = k \/ (m = k + 1 /\ u = (k + 1) * 30)
    BY <1>1 DEF Ways
  <2> QED
    BY <1>1, <2>1 DEF Ways, PlaceOnWay, VelocityOnWay
<1>2. CASE S = 12000 /\ T = 15
  <2>1. m = k \/ (m = k + 1 /\ u = (k + 1) * 15)
    BY <1>2 DEF Ways
  <2> QED
    BY <1>2, <2>1 DEF Ways, PlaceOnWay, VelocityOnWay
<1>3. CASE S = 18000 /\ T = 10
  <2>1. m = k \/ (m = k + 1 /\ u = (k + 1) * 10)
    BY <1>3 DEF Ways
  <2> QED
    BY <1>3, <2>1 DEF Ways, PlaceOnWay, VelocityOnWay
<1> QED
  BY <1>1, <1>2, <1>3 DEF Rides

\* In scenario 0 the car stops after two seconds.
LEMMA VelocityOfStop ==
  ASSUME cl.simulationId = 4, cl.scenarioId = 0, NEW t \in Nat
  PROVE  Velocity(t) = IF t < 2 THEN 45000 ELSE 0
<1>1. Turns(cl.scenarioId) = {2}
  BY DEF Turns
<1>2. Velocity(t) = CarVelocity(0, Cardinality({s \in Turns(cl.scenarioId) : s <= t}))
  BY DEF Velocity
<1>3. CASE t < 2
  <2>1. {s \in Turns(cl.scenarioId) : s <= t} = {}
    BY <1>1, <1>3
  <2> QED
    BY <1>2, <1>3, <2>1, FS_EmptySet DEF CarVelocity, Speed
<1>4. CASE ~(t < 2)
  <2>1. {s \in Turns(cl.scenarioId) : s <= t} = {2}
    BY <1>1, <1>4
  <2>2. Cardinality({2}) = 1
    BY FS_Singleton
  <2> QED
    BY <1>2, <1>4, <2>1, <2>2 DEF CarVelocity
<1> QED
  BY <1>3, <1>4

LEMMA RidingBegins ==
  ASSUME Clock, InstallMobility
  PROVE  Riding'
<1>1. /\ pc = "mobility" /\ cl' = cl /\ now' = now
      /\ pc' = IF cl.simulationId = 4 /\ ~KnownScenario THEN "aborted" ELSE "initialize"
      /\ place' = [x |-> StartPlace, velocity |-> IF pc' = "aborted" THEN 0 ELSE Velocity(0)]
  BY DEF InstallMobility
<1>2. SUFFICES ASSUME cl.simulationId = 4, KnownScenario PROVE OnItsWay'
  <2>1. "aborted" \notin AfterScenario
    BY DEF AfterScenario, AfterInitialize, AfterAttach, AfterTraces, AfterAttributes, AfterInstall
  <2>2. AfterScenario' = AfterScenario
    BY DEF AfterScenario
  <2> QED
    BY <1>1, <2>1, <2>2 DEF Riding
<1>3. now' = 0 /\ place'.x = -90000 /\ place'.velocity = Velocity(0)
  BY <1>1, <1>2 DEF Clock, StartPlace
<1>4. CASE cl.scenarioId = 0
  <2>1. Velocity(0) = 45000
    BY <1>2, <1>4, VelocityOfStop
  <2> QED
    BY <1>1, <1>3, <1>4, <2>1 DEF OnItsWay
<1>5. CASE cl.scenarioId # 0
  <2> DEFINE S == Speed(cl.scenarioId)
             T == TurnAfter(cl.scenarioId)
  <2>1. Rides(S, T) /\ S \in Nat /\ T \in Nat
    BY <1>2, <1>5, CarTable
  <2>2. 0 * T <= 0 /\ 0 < (0 + 1) * T /\ 0 \in Ways
    BY <2>1 DEF Rides, Ways
  <2>3. Velocity(0) = VelocityOnWay(S, 0)
    BY <1>2, <1>5, <2>2, VelocityOfWay
  <2>4. S = Speed(cl'.scenarioId) /\ T = TurnAfter(cl'.scenarioId) /\ cl'.scenarioId # 0
    BY <1>1, <1>5
  <2> HIDE DEF S, T
  <2>5. ASSUME NEW k \in Ways, k * T <= 0 PROVE k = 0
    BY <2>1, <2>5 DEF Rides, Ways
  <2>6. PlaceOnWay(S, 0, 0 - 0 * T) = -90000
    BY <2>1 DEF PlaceOnWay
  <2>7. \A k \in Ways : k * T <= now' /\ now' < (k + 1) * T =>
          /\ place'.x = PlaceOnWay(S, k, now' - k * T)
          /\ place'.velocity = VelocityOnWay(S, k)
    BY <1>3, <2>3, <2>5, <2>6
  <2> QED
    BY <2>1, <2>4, <2>7 DEF OnItsWay
<1> QED
  BY <1>4, <1>5

LEMMA RidingGoesOn ==
  ASSUME Clock, Timetable, Riding, Elapse
  PROVE  Riding'
<1>1. /\ pc = "running" /\ cl' = cl /\ now' = NextTime
      /\ place' = [x |-> place.x + place.velocity * (now' - now), velocity |-> Velocity(now')]
  BY DEF Elapse
<1>2. now \in Nat /\ now' \in Nat /\ now < now'
  BY <1>1, NextTimeIs DEF Clock, EndOfRun
<1>3. SUFFICES ASSUME cl.simulationId = 4 PROVE OnItsWay'
  BY <1>1 DEF Riding
<1>4. OnItsWay /\ KnownScenario
  BY <1>1, <1>3 DEF Riding, Clock, AfterScenario
<1>5. \A t \in Turns(cl.scenarioId) : t > now => now' <= t
  BY <1>1, <1>3, NextTimeIs
<1>6. place'.x = place.x + place.velocity * (now' - now) /\ place'.velocity = Velocity(now')
  BY <1>1
<1>7. CASE cl.scenarioId = 0
  <2>1. place'.velocity = IF now' < 2 THEN 45000 ELSE 0
    BY <1>2, <1>3, <1>6, <1>7, VelocityOfStop
  <2>2. now < 2 => now' <= 2
    <3>1. 2 \in Turns(cl.scenarioId)
      BY <1>7 DEF Turns
    <3> QED
      BY <1>2, <1>5, <3>1
  <2>3. CASE now < 2
    <3>1. place'.x = -90000 + 45000 * now + 45000 * (now' - now)
      BY <1>4, <1>6, <1>7, <2>3 DEF OnItsWay
    <3>2. place'.x = -90000 + 45000 * now'
      BY <1>2, <3>1
    <3> QED
      BY <1>1, <1>2, <1>7, <2>1, <2>2, <2>3, <3>2 DEF OnItsWay
  <2>4. CASE now >= 2
    <3>1. place'.x = 0 + 0 * (now' - now)
      BY <1>4, <1>6, <1>7, <2>4 DEF OnItsWay
    <3>2. \A d \in Int : 0 + 0 * d = 0
      OBVIOUS
    <3>3. place'.x = 0
      <4>1. now' - now \in Int
        BY <1>2
      <4> QED
        BY <3>1, <3>2, <4>1, Zenon
    <3>4. now' >= 2
      BY <1>2, <2>4
    <3> QED
      BY <1>1, <1>2, <1>7, <2>1, <3>3, <3>4 DEF OnItsWay
  <2> QED
    BY <1>2, <2>3, <2>4
<1>8. CASE cl.scenarioId # 0
  <2>1. PICK S \in Nat, T \in Nat :
         /\ Rides(S, T)
         /\ S = Speed(cl.scenarioId) /\ T = TurnAfter(cl.scenarioId)
         /\ \A k \in Ways : k * T <= now /\ now < (k + 1) * T =>
              /\ place.x = PlaceOnWay(S, k, now - k * T)
              /\ place.velocity = VelocityOnWay(S, k)
    BY <1>4, <1>8 DEF OnItsWay
  <2>2. ASSUME NEW m \in Ways, m * T <= now', now' < (m + 1) * T
        PROVE  /\ place'.x = PlaceOnWay(S, m, now' - m * T)
               /\ place'.velocity = VelocityOnWay(S, m)
    <3>1. place'.velocity = VelocityOnWay(S, m)
      BY <1>2, <1>3, <1>4, <1>6, <1>8, <2>1, <2>2, VelocityOfWay
    <3>2. PICK k \in Ways : k * T <= now /\ now < (k + 1) * T
      <4>1. CASE T = 30
        <5>1. now \div 30 \in Ways /\ (now \div 30) * 30 <= now /\ now < (now \div 30 + 1) * 30
          BY <1>2, <2>2, <4>1 DEF Ways
        <5> QED
          BY <4>1, <5>1
      <4>2. CASE T = 15
        <5>1. now \div 15 \in Ways /\ (now \div 15) * 15 <= now /\ now < (now \div 15 + 1) * 15
          BY <1>2, <2>2, <4>2 DEF Ways
        <5> QED
          BY <4>2, <5>1
      <4>3. CASE T = 10
        <5>1. now \div 10 \in Ways /\ (now \div 10) * 10 <= now /\ now < (now \div 10 + 1) * 10
          BY <1>2, <2>2, <4>3 DEF Ways
        <5> QED
          BY <4>3, <5>1
      <4> QED
        BY <2>1, <4>1, <4>2, <4>3 DEF Rides
    <3>3. (k + 1) * T \in Turns(cl.scenarioId)
      <4>1. Turns(cl.scenarioId) = {j * T : j \in 1 .. 300 \div T}
        BY <1>8, <2>1 DEF Turns
      <4>2. k + 1 \in 1 .. 300 \div T
        BY <2>1 DEF Rides, Ways
      <4> QED
        BY <4>1, <4>2
    <3>4. now' <= (k + 1) * T
      <4> DEFINE end == (k + 1) * T
      <4>1. end > now /\ end \in Turns(cl.scenarioId)
        BY <1>2, <3>2, <3>3 DEF Ways
      <4> HIDE DEF end
      <4>2. now' <= end
        BY <1>5, <4>1
      <4> QED
        BY <4>2 DEF end
    <3>5. place.x = PlaceOnWay(S, k, now - k * T) /\ place.velocity = VelocityOnWay(S, k)
      BY <2>1, <3>2
    <3>6. place'.x = PlaceOnWay(S, k, now - k * T) + VelocityOnWay(S, k) * (now' - now)
      BY <1>6, <3>5
    <3>7. PlaceOnWay(S, k, now - k * T) + VelocityOnWay(S, k) * (now' - now)
            = PlaceOnWay(S, m, now' - m * T)
      BY <1>2, <2>1, <2>2, <3>2, <3>4, WayGoesOn
    <3> QED
      BY <3>1, <3>6, <3>7
  <2>3. S = Speed(cl'.scenarioId) /\ T = TurnAfter(cl'.scenarioId) /\ cl'.scenarioId # 0
    BY <1>1, <1>8, <2>1
  <2> QED
    BY <2>1, <2>2, <2>3 DEF OnItsWay
<1> QED
  BY <1>7, <1>8

LEMMA RidingKeeps ==
  ASSUME Clock, Timetable, Riding, [DashNext]_dashVars
  PROVE  Riding'
<1>0. \A p : p \in AfterScenario <=> p \in {"initialize", "eNodeBs", "traces", "attributes",
                "clients", "times", "run", "running", "over", "undefined"}
  BY DEF AfterScenario, AfterInitialize, AfterAttach, AfterTraces, AfterAttributes, AfterInstall
<1>1. CASE /\ UNCHANGED <<cl, place, now>>
           /\ pc' \in AfterScenario \ {"over", "undefined"}
                => pc \in AfterScenario \ {"over", "undefined"}
  <2>1. OnItsWay => OnItsWay'
    BY <1>1 DEF OnItsWay
  <2> QED
    BY <1>1, <2>1 DEF Riding, AfterScenario
<1>2. CASE UNCHANGED dashVars
  BY <1>1, <1>2 DEF dashVars, script, run
<1>3. CASE DashNext /\ pc \notin {"run", "running"} /\ ~InstallMobility
  <2>1. \/ UNCHANGED <<cl, place, now, pc>>
        \/ /\ UNCHANGED <<cl, place, now>>
           /\ \/ pc = "lte" /\ pc' = "mobility"
              \/ pc \in AfterScenario \ {"over", "undefined"}
        \/ pc = "mobility" /\ pc' \in {"aborted", "initialize"}
    BY <1>0, <1>3, ScriptSteps
  <2>2. pc = "mobility" /\ pc' \in {"aborted", "initialize"} => InstallMobility
    <3>1. CASE InstallEnb \/ InstallUe \/ Attach \/ SetTimes \/ Ended
      BY <3>1 DEF InstallEnb, InstallUe, Attach, SetTimes, Ended
    <3>2. CASE ConfigureLte \/ InitializeLte \/ ConnectTraces \/ SetAttributes \/ InstallClients
      BY <3>2 DEF ConfigureLte, InitializeLte, ConnectTraces, SetAttributes, InstallClients, Step
    <3>3. CASE Run \/ Elapse \/ \E c \in Clients : Connects(c) \/ Finishes(c) \/ PeerClose(c)
      BY <3>3 DEF Run, Step, Elapse, Connects, Finishes, PeerClose
    <3> QED
      BY <1>3, <3>1, <3>2, <3>3 DEF DashNext
  <2> QED
    BY <1>0, <1>1, <1>3, <2>1, <2>2
<1>4. CASE InstallMobility
  BY <1>4, RidingBegins
<1>5. CASE Elapse
  BY <1>5, RidingGoesOn
<1>6. CASE Run \/ \E c \in Clients : Connects(c) \/ Finishes(c) \/ PeerClose(c)
  <2>1. UNCHANGED <<cl, place, now>> /\ pc \in {"run", "running"}
    BY <1>6 DEF Run, Step, Connects, Finishes, PeerClose, Link
  <2> QED
    BY <1>0, <1>1, <2>1
<1> QED
  BY <1>2, <1>3, <1>4, <1>5, <1>6, RunSteps

LEMMA GroupTimes ==
  ASSUME cl \in CommandLines, NEW j \in Groups
  PROVE  Begin[j] \in Int /\ Begin[j + 1] \in Int /\ 2 <= Begin[j] /\ Begin[j] < Begin[j + 1]
<1>1. \A b \in 2 .. 302 : b \in Int /\ 2 <= b
  OBVIOUS
<1> QED
  BY <1>1, GroupsFollow, Zenon

\* Where the car is while a group is on the air.
LEMMA GroupOnWay ==
  ASSUME TimesInv, Riding
  PROVE  GroupRidesTheCar
<1> SUFFICES ASSUME pc = "running", cl.simulationId = 4, NEW i \in Groups, During(i)
             PROVE  IF cl.scenarioId = 0 THEN place.x = 0 /\ place.velocity = 0
                    ELSE /\ -90000 <= place.x /\ place.x <= 90000
                         /\ place.velocity # 0
                         /\ (i > 1 /\ now = Begin[i]) => place.x \in {-90000, 90000}
  BY DEF GroupRidesTheCar
<1>1. OnItsWay /\ KnownScenario /\ cl \in CommandLines
  BY DEF Riding, TimesInv, Clock, AfterScenario
<1> DEFINE begin == Begin[i]
           end == Begin[i + 1]
<1>2. begin \in Int /\ end \in Int /\ 2 <= begin /\ begin < end
  BY <1>1, GroupTimes
<1>3. now \in Nat /\ begin <= now /\ now < end
  BY DEF TimesInv, Clock, During, EndOfRun
<1> HIDE DEF begin, end
<1>4. CASE cl.scenarioId = 0
  <2>1. now >= 2
    BY <1>2, <1>3
  <2> QED
    BY <1>1, <1>4, <2>1 DEF OnItsWay
<1>5. CASE cl.scenarioId # 0
  <2>1. Numbered /\ intervaleNb = TurnAfter(cl.scenarioId)
    BY <1>1, <1>5, CarTable
  <2>2. PICK S \in Nat, T \in Nat :
         /\ Rides(S, T)
         /\ S = Speed(cl.scenarioId) /\ T = TurnAfter(cl.scenarioId)
         /\ \A k \in Ways : k * T <= now /\ now < (k + 1) * T =>
              /\ place.x = PlaceOnWay(S, k, now - k * T)
              /\ place.velocity = VelocityOnWay(S, k)
    BY <1>1, <1>5 DEF OnItsWay
  <2>3. now < 90
    <3> DEFINE n == Len(clientsNum)
               last == Begin[n]
    <3>1. n \in Groups /\ (i = n \/ i < n)
      BY Tables DEF Groups
    <3>2. Begin[n + 1] = 90
      BY <1>1, <2>1, GroupsFollow
    <3>3. CASE i = n
      <4>1. end = 90
        BY <3>2, <3>3 DEF end
      <4> QED
        BY <1>3, <4>1
    <3>4. CASE i < n
      <4>1. end <= last
        BY <1>1, <3>1, <3>4, GroupsFollow DEF end
      <4>2. last \in Int /\ last < 90
        BY <1>1, <3>1, <3>2, GroupTimes
      <4> HIDE DEF last
      <4> QED
        BY <1>2, <1>3, <4>1, <4>2
    <3> QED
      BY <3>1, <3>3, <3>4
  <2>4. PICK k \in Ways : k * T <= now /\ now < (k + 1) * T
    <3>1. CASE T = 30
      <4>1. now \div 30 \in Ways /\ (now \div 30) * 30 <= now /\ now < (now \div 30 + 1) * 30
        BY <1>3, <2>3, <3>1 DEF Ways
      <4> QED
        BY <3>1, <4>1
    <3>2. CASE T = 15
      <4>1. now \div 15 \in Ways /\ (now \div 15) * 15 <= now /\ now < (now \div 15 + 1) * 15
        BY <1>3, <2>3, <3>2 DEF Ways
      <4> QED
        BY <3>2, <4>1
    <3>3. CASE T = 10
      <4>1. now \div 10 \in Ways /\ (now \div 10) * 10 <= now /\ now < (now \div 10 + 1) * 10
        BY <1>3, <2>3, <3>3 DEF Ways
      <4> QED
        BY <3>3, <4>1
    <3> QED
      BY <2>2, <3>1, <3>2, <3>3 DEF Rides
  <2>5. place.x = PlaceOnWay(S, k, now - k * T) /\ place.velocity = VelocityOnWay(S, k)
    BY <2>2, <2>4
  <2>6. -90000 <= place.x /\ place.x <= 90000 /\ place.velocity # 0
    <3>1. /\ -90000 <= PlaceOnWay(S, k, now - k * T) /\ PlaceOnWay(S, k, now - k * T) <= 90000
          /\ VelocityOnWay(S, k) # 0
      <4>1. CASE S = 6000 /\ T = 30
        BY <1>3, <2>4, <4>1 DEF PlaceOnWay, VelocityOnWay, Ways
      <4>2. CASE S = 12000 /\ T = 15
        BY <1>3, <2>4, <4>2 DEF PlaceOnWay, VelocityOnWay, Ways
      <4>3. CASE S = 18000 /\ T = 10
        BY <1>3, <2>4, <4>3 DEF PlaceOnWay, VelocityOnWay, Ways
      <4> QED
        BY <2>2, <4>1, <4>2, <4>3 DEF Rides
    <3> QED
      BY <2>5, <3>1, SMT
  <2>7. ASSUME i > 1, now = Begin[i] PROVE place.x \in {-90000, 90000}
    <3>1. i - 1 \in 1 .. Len(clientsNum) /\ (i - 1) + 1 = i /\ i - 1 \in Nat
      BY <2>7, Tables DEF Groups
    <3>2. Begin[i] = (i - 1) * intervaleNb
      <4>1. Begin[(i - 1) + 1] = (i - 1) * intervaleNb
        BY <1>1, <2>1, <3>1, BeginIs
      <4> QED
        BY <3>1, <4>1
    <3>3. now = (i - 1) * T
      BY <2>1, <2>2, <2>7, <3>2
    <3>4. now - k * T = 0
      <4> DEFINE n == i - 1
      <4>1. n \in Nat /\ now = n * T
        BY <3>1, <3>3
      <4> HIDE DEF n
      <4>2. CASE T = 30
        BY <2>4, <4>1, <4>2 DEF Ways
      <4>3. CASE T = 15
        BY <2>4, <4>1, <4>3 DEF Ways
      <4>4. CASE T = 10
        BY <2>4, <4>1, <4>4 DEF Ways
      <4> QED
        BY <2>2, <4>2, <4>3, <4>4 DEF Rides
    <3>5. PlaceOnWay(S, k, 0) \in {-90000, 90000}
      BY DEF PlaceOnWay
    <3> QED
      BY <2>5, <3>4, <3>5
  <2> QED
    BY <1>5, <2>6, <2>7
<1> QED
  BY <1>4, <1>5

\* The tables of the car and of the groups fit together in every scenario that
\* main knows, for any number of clients and any random intervals.
THEOREM GroupsRide == DashSpec => []GroupRidesTheCar
<1>1. DashInit => Riding
  BY DEF DashInit, Riding, AfterScenario, AfterInitialize, AfterAttach, AfterTraces, AfterAttributes,
         AfterInstall
<1>2. TimesInv /\ Riding /\ [DashNext]_dashVars => Riding'
  BY RidingKeeps DEF TimesInv
<1>3. TimesInv /\ Riding => GroupRidesTheCar
  BY GroupOnWay
<1> QED
  BY <1>1, <1>2, <1>3, TimesInvariance, PTL DEF DashSpec

=============================================================================
