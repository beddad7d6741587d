CONSTANTS
    modal = modal
    toggle = toggle
    NULL = NULL
    Instances <- MCInstances

SYMMETRY MCSymmetry

SPECIFICATION Spec

INVARIANT ShownStateIsPersisted
