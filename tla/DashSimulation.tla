--------------------------- MODULE DashSimulation --------------------------
(***************************************************************************)
(* The simulation driver, main of dash.cc: it sets up one LTE network with *)
(* LteHelper, installs a server and numberOfClients clients, gives them    *)
(* start and stop times from tables, and runs the simulator.               *)
(*                                                                         *)
(* The clients come in groups: client 0 stays for the whole simulation,    *)
(* the others ride with it for one interval, as the load of one cell after *)
(* the other.  Set-up is a script, one action per step; then time goes     *)
(* from one scheduled event to the next.  What a session does is left to   *)
(* TcpStreamSystem: here a client connects, may reach the end of its       *)
(* video, and is stopped.                                                  *)
(*                                                                         *)
(* Times are in seconds, positions in millimetres.                         *)
(***************************************************************************)
EXTENDS LteHelper, FiniteSetsExt

CONSTANTS
  CommandLines,  \* the parameters the program may be started with
  VideoSeconds   \* no session ends by itself before this many seconds

ASSUME VideoAssumption == VideoSeconds \in Nat
ASSUME CommandLineAssumption ==
  \A line \in CommandLines :
    /\ line.numberOfClients \in Nat
    /\ line.numberOfEnbs \in Nat
    /\ line.noOfCcs \in Nat \ {0}
    /\ line.useCa \in BOOLEAN
    /\ line.intervals \in [1 .. 7 -> 5 .. 19]  \* rand() % 15 + 5

VARIABLES
  cl,         \* the command line
  pc,         \* the step of main, or "over", "aborted", "undefined"
  logDir,     \* the directory main has made for the logs, or "none"
  factory,    \* the attributes of clientHelper
  clientApps, \* the clients installed, by index
  start, stop,  \* the times given to them; 0 for none
  now,
  place,      \* [x, velocity] of every client
  listening,  \* the server listens
  link        \* the connection of each client, as far as the driver sees it

script == <<cl, pc, logDir, factory, clientApps, start, stop>>
run == <<now, place, listening, link>>
dashVars == <<lteVars, script, run>>

Clients == 0 .. cl.numberOfClients - 1

\* The script is at step a and goes on to step b.
Step(a, b) == pc = a /\ pc' = b

-----------------------------------------------------------------------------
(* Where the clients are (the switch over simulationId).                   *)

HasMobility == cl.simulationId \in 1 .. 4

Speed(scenarioId) == IF scenarioId = 0 THEN 45000 ELSE 1000 * scenarioId

\* Seconds between the turns of the car.
TurnAfter(scenarioId) ==
  CASE scenarioId = 0 -> 2 [] scenarioId = 6 -> 30 [] scenarioId = 12 -> 15
    [] scenarioId = 18 -> 10

\* Mutant: one entry of a table has the wrong sign.
RepeatsOnce(scenarioId) == IF scenarioId = 18 THEN {4} ELSE {}

\* The turns after which the car goes on in the direction it had: entries of the
\* tables that repeat the sign of the one before.
Repeats(scenarioId) ==
  CASE scenarioId = 12 -> {12} [] scenarioId = 18 -> {12, 23} [] OTHER -> {}

\* The velocity of the car after its k-th turn.
CarVelocity(scenarioId, k) ==
  IF scenarioId = 0 THEN IF k = 0 THEN Speed(0) ELSE 0
  ELSE LET turned == k - Cardinality({r \in Repeats(scenarioId) : r <= k})
       IN IF turned % 2 = 0 THEN Speed(scenarioId) ELSE -Speed(scenarioId)

Turns(scenarioId) ==
  IF scenarioId = 0 THEN {2}
  ELSE {k * TurnAfter(scenarioId) : k \in 1 .. 300 \div TurnAfter(scenarioId)}

\* The velocity from time t on.
Velocity(t) ==
  CASE cl.simulationId = 3 -> IF t < 180 THEN 833 ELSE -833
    [] cl.simulationId = 4 ->
         CarVelocity(cl.scenarioId,
                     Cardinality({s \in Turns(cl.scenarioId) : s <= t}))
    [] OTHER -> 0

StartPlace == CASE cl.simulationId = 1 -> 30000
                [] cl.simulationId \in {3, 4} -> -90000
                [] OTHER -> 0

KnownScenario == cl.scenarioId \in {0, 6, 12, 18}

-----------------------------------------------------------------------------
(* The script of main.                                                     *)

ConfigureLte ==
  /\ Step("lte", "mobility")
  /\ SetEpcHelper
  /\ UNCHANGED <<cl, logDir, factory, clientApps, start, stop, run>>

\* Nodes, the directory of the logs, and a mobility model for the clients.
InstallMobility ==
  /\ pc = "mobility"
  /\ pc' = IF cl.simulationId = 4 /\ ~KnownScenario THEN "aborted" ELSE "initialize"
  /\ logDir' = <<cl.adaptationAlgo, cl.numberOfClients>>
  /\ place' = [x |-> StartPlace, velocity |-> IF pc' = "aborted" THEN 0 ELSE Velocity(0)]
  /\ UNCHANGED <<lteVars, cl, factory, clientApps, start, stop, now, listening, link>>

InitializeLte ==
  /\ Step("initialize", "eNodeBs")
  /\ Initialize
  /\ UNCHANGED <<cl, logDir, factory, clientApps, start, stop, run>>

InstallEnb ==
  /\ pc = "eNodeBs"
  /\ Len(enbDevs) < cl.numberOfEnbs
  /\ IF EnbAborts(TRUE)
     THEN pc' = "aborted" /\ UNCHANGED lteVars
     ELSE InstallSingleEnbDevice(TRUE) /\ UNCHANGED pc
  /\ UNCHANGED <<cl, logDir, factory, clientApps, start, stop, run>>

InstallUe ==
  /\ pc = "eNodeBs"
  /\ Len(enbDevs) = cl.numberOfEnbs
  /\ Len(ueDevs) < cl.numberOfClients
  /\ IF UeAborts(HasMobility)
     THEN pc' = "aborted" /\ UNCHANGED lteVars
     ELSE InstallSingleUeDevice(HasMobility) /\ UNCHANGED pc
  /\ UNCHANGED <<cl, logDir, factory, clientApps, start, stop, run>>

\* The list of positions has one entry, so all eNodeBs stand at the origin.
Distances ==
  [u \in 1 .. Len(ueDevs) |->
    [e \in 1 .. Len(enbDevs) |-> IF place.x < 0 THEN -place.x ELSE place.x]]

Attach ==
  /\ pc = "eNodeBs"
  /\ Len(enbDevs) = cl.numberOfEnbs
  /\ Len(ueDevs) = cl.numberOfClients
  /\ IF enbDevs = <<>> /\ ueDevs # <<>>
     THEN pc' = "aborted" /\ UNCHANGED lteVars
     ELSE pc' = "traces" /\ AttachToClosestEnb(Distances)
  /\ UNCHANGED <<cl, logDir, factory, clientApps, start, stop, run>>

\* EnableTraces; then the helpers of the server and of the clients, with the
\* attributes' defaults.
ConnectTraces ==
  /\ Step("traces", "attributes")
  /\ EnableTraces
  /\ factory' = [segmentDuration |-> 2000000, numberOfClients |-> 1, simulationId |-> 0,
                 crossLayerInfo |-> GetPhyRxStats]
  /\ UNCHANGED <<cl, logDir, clientApps, start, stop, run>>

\* Mutant: the number of clients is not passed on.
SetAttributesButNumber ==
  /\ Step("attributes", "clients")
  /\ factory' = [factory EXCEPT !.segmentDuration = cl.segmentDuration,
                                !.simulationId = cl.simulationId]
  /\ UNCHANGED <<lteVars, cl, logDir, clientApps, start, stop, run>>

SetAttributes ==
  /\ Step("attributes", "clients")
  /\ factory' = [segmentDuration |-> cl.segmentDuration,
                 numberOfClients |-> cl.numberOfClients,
                 simulationId |-> cl.simulationId,
                 crossLayerInfo |-> factory.crossLayerInfo]
  /\ UNCHANGED <<lteVars, cl, logDir, clientApps, start, stop, run>>

\* Initialise, which reads the attributes as they are when the client is created:
\* the files it opens are those of its index in the directory of its attributes.
Initialise(clientId) ==
  [clientId |-> clientId,
   segmentDuration |-> factory.segmentDuration,
   cm_crossLayerInfo |-> factory.crossLayerInfo,
   logs |-> [dir |-> <<cl.adaptationAlgo, factory.numberOfClients>>,
             sim |-> factory.simulationId, cl |-> clientId]]

InstallClients ==
  /\ Step("clients", "times")
  /\ clientApps' = [c \in Clients |-> Initialise(c)]
  /\ UNCHANGED <<lteVars, cl, logDir, factory, start, stop, run>>

-----------------------------------------------------------------------------
(* The times of the clients.                                               *)

Numbered == cl.scenarioId \in {6, 12, 18}

\* How many clients load each cell, client 0 among them.
clientsNum ==
  CASE cl.scenarioId = 6 -> <<1, 6, 3>>
    [] cl.scenarioId = 12 -> <<2, 4, 1, 6, 8, 3>>
    [] cl.scenarioId = 18 -> <<2, 1, 3, 7, 9, 3, 5, 1, 7>>
    [] OTHER -> <<2, 4, 1, 7, 6, 2, 9>>

intervaleNb ==
  CASE cl.scenarioId = 6 -> 30 [] cl.scenarioId = 12 -> 15 [] cl.scenarioId = 18 -> 10

Groups == 1 .. Len(clientsNum)

\* The index of the first client of group i.
FirstOf == LET first[i \in 1 .. Len(clientsNum) + 1] ==
                 IF i = 1 THEN 1 ELSE first[i - 1] + clientsNum[i - 1] - 1
           IN first

\* Mutant: a client more in each group.
MembersAll(i) == FirstOf[i] .. FirstOf[i] + clientsNum[i] - 1

Members(i) == FirstOf[i] .. FirstOf[i + 1] - 1

\* The clients that get times.
Required == 0 .. FirstOf[Len(clientsNum) + 1] - 1

\* When group i begins: the sum of the random intervals before, or a multiple.
Begin == LET begin[i \in 1 .. Len(clientsNum) + 1] ==
               IF i = 1 THEN 2
               ELSE IF Numbered THEN (i - 1) * intervaleNb
               ELSE begin[i - 1] + cl.intervals[i - 1]
         IN begin

\* Mutant: client 0 leaves with the last group.
LeavesWithGroup == Begin[Len(clientsNum) + 1]

LastStop == 302

\* Start and stop times; the container does not check the index it is asked for.
SetTimes ==
  /\ pc = "times"
  /\ IF Required \subseteq Clients
     THEN /\ pc' = "run"
          /\ start' = [c \in Clients |->
                         IF c = 0 THEN 2
                         ELSE IF c \in Required
                              THEN Begin[CHOOSE i \in Groups : c \in Members(i)] ELSE 0]
          /\ stop' = [c \in Clients |->
                        IF c = 0 THEN LastStop
                        ELSE IF c \in Required
                             THEN Begin[1 + CHOOSE i \in Groups : c \in Members(i)] ELSE 0]
     ELSE pc' = "undefined" /\ UNCHANGED <<start, stop>>
  /\ UNCHANGED <<lteVars, cl, logDir, factory, clientApps, run>>

-----------------------------------------------------------------------------
(* The simulation.                                                         *)

EndOfRun == 121

\* The events of time 0: clients that were given no times start at once.
Run ==
  /\ Step("run", "running")
  /\ link' = [c \in Clients |-> IF start[c] = 0 THEN "connecting" ELSE "installed"]
  /\ UNCHANGED <<lteVars, cl, logDir, factory, clientApps, start, stop,
                 now, place, listening>>

Stopped(l) == IF l = "open" THEN "stopping" ELSE IF l = "finished" THEN l ELSE "stopped"

\* What is scheduled for client c at time t.
Scheduled(c, t) ==
  CASE start[c] = t -> "connecting"
    [] stop[c] = t -> Stopped(link[c])
    [] OTHER -> link[c]

\* The next time for which something is scheduled.
NextTime ==
  Min({t \in {1, EndOfRun} \union {start[c] : c \in Clients} \union {stop[c] : c \in Clients}
                 \union (IF cl.simulationId = 4 THEN Turns(cl.scenarioId) ELSE {}) :
         t > now})

\* StartApplication of the server.
Listens(t) == t >= 1

\* Its events; the end of the run was scheduled before all others of its time.
\* Closing takes less than the second there is between two events.
Elapse ==
  /\ pc = "running"
  /\ \A c \in Clients : link[c] \notin {"stopping", "finishing"}
  /\ now' = NextTime
  /\ pc' = IF now' = EndOfRun THEN "over" ELSE pc
  /\ place' = [x |-> place.x + place.velocity * (now' - now), velocity |-> Velocity(now')]
  /\ listening' = Listens(now')
  /\ link' = IF now' = EndOfRun THEN link
             ELSE [c \in Clients |-> Scheduled(c, now')]
  /\ UNCHANGED <<lteVars, cl, logDir, factory, clientApps, start, stop>>

\* The clients of one group are alike, client 0 apart: the lowest index takes its
\* step first.
LowestIn(c, state) ==
  /\ link[c] = state
  /\ c = 0 \/ \A d \in Clients \ {0} : (link[d] = state /\ start[d] = start[c]) => d >= c

Link(c, to) ==
  /\ link' = [link EXCEPT ![c] = to]
  /\ UNCHANGED <<lteVars, cl, logDir, factory, clientApps, start, stop,
                 now, place, listening>>

\* The handshake ends; one that is lost is repeated, and may come too late.
Connects(c) ==
  /\ pc = "running"
  /\ LowestIn(c, "connecting")
  /\ Link(c, IF listening THEN "open" ELSE "refused")
  /\ UNCHANGED pc

\* The client has played its last segment.
Finishes(c) ==
  /\ pc = "running"
  /\ LowestIn(c, "open")
  /\ now - start[c] >= VideoSeconds
  /\ Link(c, "finishing")
  /\ UNCHANGED pc

\* The server hears that the client has closed. When its list is empty, it stops
\* the simulator.
PeerClose(c) ==
  /\ pc = "running"
  /\ \/ LowestIn(c, "stopping") /\ Link(c, "stopped")
     \/ LowestIn(c, "finishing") /\ Link(c, "finished")
  /\ pc' = IF \E d \in Clients \ {c} : link[d] \in {"open", "stopping", "finishing"}
           THEN pc ELSE "over"

\* Destroy and the end of main, or of the process.
Ended ==
  /\ pc \in {"over", "aborted", "undefined"}
  /\ UNCHANGED dashVars

DashInit ==
  /\ cl \in CommandLines
  /\ m_useCa = cl.useCa
  /\ m_noOfCcs = cl.noOfCcs
  /\ LteInit
  /\ pc = "lte"
  /\ logDir = "none"
  /\ factory = <<>>
  /\ clientApps = <<>>
  /\ start = <<>>
  /\ stop = <<>>
  /\ now = 0
  /\ place = [x |-> 0, velocity |-> 0]
  /\ listening = FALSE
  /\ link = <<>>

DashNext ==
  \/ ConfigureLte \/ InstallMobility \/ InitializeLte \/ InstallEnb \/ InstallUe
  \/ Attach \/ ConnectTraces \/ SetAttributes \/ InstallClients \/ SetTimes
  \/ Run \/ Elapse
  \/ \E c \in Clients : Connects(c) \/ Finishes(c) \/ PeerClose(c)
  \/ Ended

DashSpec == DashInit /\ [][DashNext]_dashVars

-----------------------------------------------------------------------------
(* Properties.                                                             *)

Links == {"installed", "connecting", "refused", "open", "stopping", "stopped",
          "finishing", "finished"}

\* The types of the driver's variables, and of the helper's.
DashTypeOK ==
  /\ LteTypeOK
  /\ cl \in CommandLines
  /\ pc \in {"lte", "mobility", "initialize", "eNodeBs", "traces", "attributes",
             "clients", "times", "run", "running", "over", "aborted", "undefined"}
  /\ now \in 0 .. EndOfRun
  /\ listening \in BOOLEAN
  /\ place.x \in Int /\ place.velocity \in Int
  /\ pc \in {"running", "over"} =>
       /\ link \in [Clients -> Links]
       /\ start \in [Clients -> 0 .. LastStop]
       /\ stop \in [Clients -> 0 .. LastStop]

\* When the simulator starts, every client is complete, whatever the order of
\* the calls and attributes of main: its user equipment has all carriers, the cell
\* of an eNodeB, a bearer and a trace to statistics that exist; its application
\* has its own index, the segment duration of the command line, the statistics,
\* and logs in the directory that main has made.
ReadyForClients ==
  pc = "run" => \A c \in Clients :
    LET ue == ueDevs[c + 1]
        app == clientApps[c]
    IN /\ ue.inEpc /\ ue.bearer
       /\ ue.carriers = m_noOfCcs
       /\ \E e \in 1 .. Len(enbDevs) : ue.cell = enbDevs[e].cells[1]
       /\ [device |-> <<"ue", c + 1>>, sink |-> "created"] \in traces
       /\ app.clientId = c
       /\ app.segmentDuration = cl.segmentDuration
       /\ app.cm_crossLayerInfo = "created"
       /\ app.logs = [dir |-> logDir, sim |-> cl.simulationId, cl |-> c]

\* Group i is on the air.
During(i) == Begin[i] <= now /\ now < Begin[i + 1]

\* The load that the tables promise for a cell is what the simulation runs: as many
\* of the scheduled clients are started and not stopped as the table says, those
\* of the group before are told to stop when those of this one are started, and
\* none of them comes before the server listens.
CellLoad ==
  pc = "running" => \A i \in Groups : During(i) =>
    Cardinality({c \in Required : link[c] \notin {"installed", "refused", "stopping", "stopped"}})
      = clientsNum[i]

\* The tables of the car and of the clients fit together: while a group is on the
\* air the car drives inside its cells, at every change of groups it is at an end
\* of its way, and in scenario 0 it stands at the eNodeB.
GroupRidesTheCar ==
  (pc = "running" /\ cl.simulationId = 4) =>
    \A i \in Groups : During(i) =>
      IF cl.scenarioId = 0 THEN place.x = 0 /\ place.velocity = 0
      ELSE /\ -90000 <= place.x /\ place.x <= 90000
           /\ place.velocity # 0
           /\ (i > 1 /\ now = Begin[i]) => place.x \in {-90000, 90000}

\* The server ends the simulation when nobody is connected. Groups that leave do
\* not bring that about while client 0 watches: the run is cut short only when it
\* has seen the end of its video, or never got its connection.
OnlyViewerEndsEarly ==
  (pc = "over" /\ now < EndOfRun) => link[0] \in {"finished", "connecting"}

\* Main asks the container only for clients that it holds. dash.cc has 20 clients
\* by default, "limit by 40", and its default scenario needs 25.
GetsExistingClient == pc # "undefined"

=============================================================================
