------------------------- MODULE MCFlowRateField -------------------------
(* A form with an aspirate and a dispense flow rate field, two pipettes  *)
(* with different defaults and volumes, and flow rates 0, 1 and 2: 0 is   *)
(* the falsy number, 1 and 2 are the pipettes' defaults.                  *)
EXTENDS FlowRateField

CONSTANTS p1, p2

MCPipettes == {p1, p2}

MCPipetteSpec ==
    (p1 :> [displayName |-> "P20", defaultAspirateFlowRate |-> 1,
            defaultDispenseFlowRate |-> 2, maxVolume |-> 2])
    @@ (p2 :> [displayName |-> "P300", defaultAspirateFlowRate |-> 2,
               defaultDispenseFlowRate |-> 2, maxVolume |-> 3])

MCFlowRateType == ("aspirate_flowRate" :> "aspirate") @@ ("dispense_flowRate" :> "dispense")

MCFlowRates == {0, 1, 2}
=============================================================================
