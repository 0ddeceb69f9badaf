----------------------------- MODULE LteHelper -----------------------------
(***************************************************************************)
(* The LTE helper of lte-helper.cc, as far as the driver uses it: it turns *)
(* nodes into eNodeBs and user equipments, attaches the latter and         *)
(* connects the statistics.  Its results depend on the order of the calls  *)
(* and on attributes that the command line may set: the carriers are made  *)
(* by the first eNodeB, the statistics objects by the call that installs   *)
(* eNodeBs, and a trace is connected to the devices that exist at that     *)
(* moment.                                                                 *)
(*                                                                         *)
(* Of a device the model keeps its identity, its carriers and what it was  *)
(* connected to; the wiring of its layers always succeeds.  The actions    *)
(* say what a call does when it returns; when it aborts is said apart.     *)
(***************************************************************************)
EXTENDS Integers, Sequences

CONSTANTS
  CellIdMax,  \* 65535: this cell is not given out any more
  ImsiMax     \* 0xFFFFFFFF

ASSUME CounterAssumption == CellIdMax \in Nat \ {0} /\ ImsiMax \in Nat \ {0}

VARIABLES
  m_useCa,                      \* attribute UseCa
  m_noOfCcs,                    \* attribute NumberOfComponentCarriers
  m_epcHelper,                  \* an EPC helper was set
  m_phyRxStats,                 \* the statistics objects: "null" or "created"
  m_componentCarrierPhyParams,  \* number of carriers configured
  m_cellIdCounter,
  m_imsiCounter,
  enbDevs,                      \* the eNodeBs: [cells, inEpc]
  ueDevs,                       \* the user equipments: [imsi, carriers, cell, bearer]
  traces                        \* what sends its events to the statistics objects

attributes == <<m_useCa, m_noOfCcs>>
counters == <<m_componentCarrierPhyParams, m_cellIdCounter, m_imsiCounter>>
lteVars == <<attributes, m_epcHelper, m_phyRxStats, counters, enbDevs, ueDevs, traces>>

LteInit ==
  /\ m_epcHelper = FALSE
  /\ m_phyRxStats = "null"
  /\ m_componentCarrierPhyParams = 0
  /\ m_cellIdCounter = 1
  /\ m_imsiCounter = 0
  /\ enbDevs = <<>>
  /\ ueDevs = <<>>
  /\ traces = {}

SetEpcHelper ==
  /\ m_epcHelper' = TRUE
  /\ UNCHANGED <<attributes, m_phyRxStats, counters, enbDevs, ueDevs, traces>>

\* DoInitialize, which runs once: the channels and the statistics objects.
Initialize ==
  /\ m_phyRxStats' = "created"
  /\ UNCHANGED <<attributes, m_epcHelper, counters, enbDevs, ueDevs, traces>>

-----------------------------------------------------------------------------
(* Installing devices.                                                     *)

\* The carriers an eNodeB is built with; the first one configures them for all.
Carriers ==
  IF m_componentCarrierPhyParams = 0 THEN m_noOfCcs ELSE m_componentCarrierPhyParams

\* Every carrier is a cell of its own; the first is the cell of the device.
Cells == [k \in 1 .. Carriers |-> m_cellIdCounter + k - 1]

\* Mutant: the cells are not counted.
EnbAbortsUncounted(mobility) ==
  \/ m_useCa /\ Carriers < 2
  \/ Carriers # m_noOfCcs
  \/ ~mobility

EnbAborts(mobility) ==
  \/ m_cellIdCounter + Carriers > CellIdMax
  \/ m_useCa /\ Carriers < 2
  \/ Carriers # m_noOfCcs
  \/ ~mobility

\* Mutant: the counter is not advanced.
NextCellSame == m_cellIdCounter

NextCell == m_cellIdCounter + Carriers

InstallSingleEnbDevice(mobility) ==
  /\ ~EnbAborts(mobility)
  /\ m_componentCarrierPhyParams' = Carriers
  /\ m_cellIdCounter' = NextCell
  /\ enbDevs' = Append(enbDevs, [cells |-> Cells, inEpc |-> m_epcHelper])
  /\ UNCHANGED <<attributes, m_epcHelper, m_phyRxStats, m_imsiCounter, ueDevs, traces>>

\* Without an eNodeB there are no carriers, which is noticed only when carriers
\* are to be aggregated.
UeAborts(mobility) ==
  \/ m_componentCarrierPhyParams = 0 /\ m_useCa
  \/ m_componentCarrierPhyParams > 0 /\ ~mobility
  \/ m_imsiCounter >= ImsiMax

InstallSingleUeDevice(mobility) ==
  /\ ~UeAborts(mobility)
  /\ m_imsiCounter' = m_imsiCounter + 1
  /\ ueDevs' = Append(ueDevs, [imsi |-> m_imsiCounter + 1, inEpc |-> m_epcHelper,
                               carriers |-> m_componentCarrierPhyParams,
                               cell |-> 0, bearer |-> FALSE])
  /\ UNCHANGED <<attributes, m_epcHelper, m_phyRxStats, m_componentCarrierPhyParams,
                 m_cellIdCounter, enbDevs, traces>>

-----------------------------------------------------------------------------
(* Attaching, and connecting the statistics.                               *)

\* The first of the nearest eNodeBs.
Closest(distance) ==
  CHOOSE e \in 1 .. Len(enbDevs) :
    \A f \in 1 .. Len(enbDevs) : distance[e] < distance[f] \/ (distance[e] = distance[f] /\ e <= f)

\* Every user equipment connects to the cell of the nearest eNodeB, where the EPC
\* has a default bearer for it. distance[u][e] is the way from u to e.
AttachToClosestEnb(distance) ==
  /\ enbDevs # <<>> \/ ueDevs = <<>>
  /\ ueDevs' = [u \in 1 .. Len(ueDevs) |->
                 [ueDevs[u] EXCEPT !.cell = enbDevs[Closest(distance[u])].cells[1],
                                   !.bearer = m_epcHelper]]
  /\ UNCHANGED <<attributes, m_epcHelper, m_phyRxStats, counters, enbDevs, traces>>

\* All six PHY traces and the MAC, RLC and PDCP ones: Config::Connect binds the
\* devices there are to the statistics objects there are.
EnableTraces ==
  /\ traces' = [device : ({"enb"} \X (1 .. Len(enbDevs))) \union ({"ue"} \X (1 .. Len(ueDevs))),
                sink : {m_phyRxStats}]
  /\ UNCHANGED <<attributes, m_epcHelper, m_phyRxStats, counters, enbDevs, ueDevs>>

GetPhyRxStats == m_phyRxStats

-----------------------------------------------------------------------------
(* Properties.                                                             *)

LteTypeOK ==
  /\ m_useCa \in BOOLEAN
  /\ m_noOfCcs \in Nat \ {0}
  /\ m_epcHelper \in BOOLEAN
  /\ m_phyRxStats \in {"null", "created"}
  /\ m_componentCarrierPhyParams \in {0, m_noOfCcs}
  /\ m_cellIdCounter \in 1 .. CellIdMax
  /\ m_imsiCounter \in 0 .. ImsiMax
  /\ enbDevs \in Seq([cells : [1 .. m_noOfCcs -> 1 .. CellIdMax - 1], inEpc : BOOLEAN])
  /\ ueDevs \in Seq([imsi : 1 .. ImsiMax, inEpc : BOOLEAN, carriers : {0, m_noOfCcs},
                     cell : 0 .. CellIdMax - 1, bearer : BOOLEAN])
  /\ traces \subseteq [device : {"enb", "ue"} \X (Nat \ {0}), sink : {"null", "created"}]

\* No two carriers, of one eNodeB or of two, are the same cell, and no two user
\* equipments have the same IMSI: the statistics are told apart by them.
IdentitiesDistinct ==
  /\ \A d, e \in 1 .. Len(enbDevs) : \A j, k \in 1 .. m_noOfCcs :
       enbDevs[d].cells[j] = enbDevs[e].cells[k] => d = e /\ j = k
  /\ \A u, v \in 1 .. Len(ueDevs) : ueDevs[u].imsi = ueDevs[v].imsi => u = v

=============================================================================
