------------------------ MODULE MCParkingController ------------------------
(***************************************************************************)
(* Two lots: the first has one area with two spaces, so that a reservation *)
(* of another vehicle can be there to release, the second one space.       *)
(***************************************************************************)
EXTENDS ParkingController, TLC

CONSTANTS v1, v2, north, south, n1, s1, gateN, gateS

MCVehicles == {v1, v2}
MCLots == {north, south}
MCAreas == {n1, s1}
MCEdges == {gateN, gateS}
MCLotOf == n1 :> north @@ s1 :> south
MCAccessTo == gateN :> {north} @@ gateS :> {south}
MCInsideOf == gateN :> {north} @@ gateS :> {south}
MCAisleOf == n1 :> gateN @@ s1 :> gateS
MCCapacity == n1 :> 2 @@ s1 :> 1
MCCandidates == [v \in MCVehicles |-> <<north, south>>]
MCInitialLot == [v \in MCVehicles |-> north]
MCSymmetry == Permutations(MCVehicles)

=============================================================================
