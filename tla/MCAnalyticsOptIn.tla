--------------------------- MODULE MCAnalyticsOptIn ---------------------------
(* Two components calling the hook: the opt-in modal and the settings toggle. *)
EXTENDS AnalyticsOptIn, TLC

CONSTANTS modal, toggle

MCInstances == {modal, toggle}

MCSymmetry == Permutations(MCInstances)
=============================================================================
