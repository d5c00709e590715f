---------------------------- MODULE MCCpuOffload ----------------------------
EXTENDS CpuOffload, TLC
CONSTANTS a1, a2, a3, r1, r2, r3

\* Run "turns": two turns of a1 and one of a2, on one prefix.
TwoTurns == r1 :> a1 @@ r2 :> a1 @@ r3 :> a2
OnePrefix == [r \in Requests |-> {1, 2}]

\* Run "pressure": every request is its own agent's; two share a head and have
\* a tail each, the third has a prefix of its own.
OneTurnEach == r1 :> a1 @@ r2 :> a2 @@ r3 :> a3
SharedHead == r1 :> {1, 2} @@ r2 :> {1, 3} @@ r3 :> {4}

\* Run "windows": two agents on one prefix, whose second key is a window chunk
\* of two units; every other key of every run is one unit.
TwoAgents == r1 :> a1 @@ r2 :> a2
WindowContent == [k \in Keys |-> IF k = 2 THEN {1, 2} ELSE {2}]
PlainContent == [k \in Keys |-> {2}]
=============================================================================
