-------------------------- MODULE MCDashSimulation --------------------------
EXTENDS DashSimulation

Line(simulation, scenario, clients, enbs, ccs, ca, spans) ==
  [simulationId |-> simulation, scenarioId |-> scenario, numberOfClients |-> clients,
   numberOfEnbs |-> enbs, noOfCcs |-> ccs, useCa |-> ca, intervals |-> spans,
   segmentDuration |-> 2000000, adaptationAlgo |-> "tobasco"]

Shortest == [i \in 1 .. 7 |-> 5]
Longest == [i \in 1 .. 7 |-> 19]
Mixed == <<18, 6, 12, 5, 19, 7, 10>>

\* All scenarios, with as many clients as they need, and with one more.
Scenarios ==
  {Line(4, 6, n, 1, 1, FALSE, Mixed) : n \in {8, 9}}
    \union {Line(4, 12, n, 1, 1, FALSE, Mixed) : n \in {19, 20}}
    \union {Line(4, 18, n, 1, 1, FALSE, Mixed) : n \in {30, 31}}
    \union {Line(4, 0, n, 1, 1, FALSE, spans) : n \in {25}, spans \in {Shortest, Longest, Mixed}}
    \union {Line(s, 6, 8, 1, 1, FALSE, Mixed) : s \in 1 .. 3}
    \union {Line(1, 7, 25, 1, 1, FALSE, Mixed)}

\* Other networks, networks that abort, one without clients, and scenarios that abort.
Networks ==
  {Line(s, 6, 8, enbs, ccs, ca, Mixed) :
     s \in {4, 5}, enbs \in 0 .. 3, ccs \in {1, 2}, ca \in BOOLEAN}
    \union {Line(4, 6, 0, 0, 1, FALSE, Mixed), Line(4, 7, 8, 1, 1, FALSE, Mixed)}

AllLines == Scenarios \union Networks

\* What main runs when it is started without arguments, with any intervals.
Defaults == {Line(4, 0, 20, 1, 1, FALSE, spans) : spans \in {Shortest, Longest, Mixed}}

=============================================================================
