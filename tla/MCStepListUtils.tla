--------------------------- MODULE MCStepListUtils ---------------------------
(* Step lists of up to four distinct ids and well lists of up to three      *)
(* wells: enough for a deletion at either end, in the middle, of a gap and *)
(* of every step, and for each of the ratio's guards.                      *)
EXTENDS StepListUtils, TLC

CONSTANTS s1, s2, s3, s4

MCStepIds == {s1, s2, s3, s4}

\* Two of the four steps are transfers, so a type can be counted twice; a
\* pause has no warning getter and manualIntervention no table entry.
MCStepTypeOf ==
    (s1 :> "moveLiquid") @@ (s2 :> "manualIntervention") @@ (s3 :> "moveLiquid")
    @@ (s4 :> "pause")

\* "manualIntervention" < "moveLiquid" < "pause" in JavaScript's string order.
MCStepTypeRank == ("manualIntervention" :> 1) @@ ("moveLiquid" :> 2) @@ ("pause" :> 3)

\* Checks of a transfer's errors and warnings and of a pause.
MCFormChecks ==
    {"wellRatioMoveLiquid", "belowPipetteMinimumVolume", "minDisposalVolume",
     "pauseForTimeOrUntilTold"}
=============================================================================
