------------------------- MODULE WellSelectionModal -------------------------
(***************************************************************************)
(* The well selection modal of the protocol designer's step form          *)
(* (StepEditForm/fields/WellSelectionField/WellSelectionModal.js).         *)
(*                                                                         *)
(* The component stays mounted while its parent renders it and returns   *)
(* null while isOpen is false, so its React state outlives a close. The    *)
(* state is the form's well field (the Redux unsaved form), the props the  *)
(* parent passes (isOpen, whether the labware has a definition) and the    *)
(* component's two useState hooks. A WellGroup is an object whose key     *)
(* order is insertion order, so it is kept as a sequence of distinct       *)
(* wells.                                                                  *)
(***************************************************************************)
EXTENDS Integers, Sequences, SequencesExt, TLC

CONSTANTS
    Wells,      \* the wells of the labware
    WellRank,   \* sortWells: the plate order of the wells, column by column
    NULL        \* an unset form field

ASSUME WellRank \in [Wells -> Nat]

\* The WellGroups a gesture on the labware can produce.
WellGroups == SetToAllKPermutations(Wells) \ {<<>>}

VARIABLES
    formField,              \* formData[name]: the saved wells, or NULL
    mounted,                \* the parent renders the component
    isOpen,                 \* prop
    hasLabwareDef,          \* labwareEntities[labwareId]?.def is set
    selectedPrimaryWells,   \* useState
    highlightedWells        \* useState

vars == <<formField, mounted, isOpen, hasLabwareDef,
          selectedPrimaryWells, highlightedWells>>

-----------------------------------------------------------------------------
(* The object operations of the handlers.                                  *)

\* Mutant: the selection merged as arrays, [...prev, ...wells].
Spread_arrayConcat(prev, wells) == prev \o wells

\* { ...prev, ...wells }: existing keys keep their place, new ones go last.
Spread(prev, wells) == prev \o SelectSeq(wells, LAMBDA w : ~Contains(prev, w))

\* omit(prev, Object.keys(deselected))
OmitWells(prev, deselected) == SelectSeq(prev, LAMBDA w : ~Contains(deselected, w))

\* arrayToWellGroup(wellFieldData) when the field is set, else {}.
initialSelectedPrimaryWells ==
    IF formField # NULL THEN formField ELSE <<>>

\* Object.keys(wells).sort(sortWells)
SortedWellKeys(wells) == SortSeq(wells, LAMBDA a, b : WellRank[a] < WellRank[b])

-----------------------------------------------------------------------------
Init ==
    /\ formField \in {NULL} \cup {SortedWellKeys(g) : g \in WellGroups \cup {<<>>}}
    /\ mounted = FALSE
    /\ isOpen = FALSE
    /\ hasLabwareDef \in BOOLEAN
    /\ selectedPrimaryWells = <<>>
    /\ highlightedWells = <<>>

\* The parent renders the component: the hooks take their initial values.
Mount ==
    /\ ~mounted
    /\ mounted' = TRUE
    /\ isOpen' \in BOOLEAN
    /\ selectedPrimaryWells' = initialSelectedPrimaryWells
    /\ highlightedWells' = <<>>
    /\ UNCHANGED <<formField, hasLabwareDef>>

\* The parent stops rendering the component; its state is dropped.
Unmount ==
    /\ mounted
    /\ mounted' = FALSE
    /\ isOpen' = FALSE
    /\ selectedPrimaryWells' = <<>>
    /\ highlightedWells' = <<>>
    /\ UNCHANGED <<formField, hasLabwareDef>>

\* The parent opens the modal (the well field was clicked).
Open ==
    /\ mounted /\ ~isOpen
    /\ isOpen' = TRUE
    /\ UNCHANGED <<formField, mounted, hasLabwareDef,
                   selectedPrimaryWells, highlightedWells>>

\* onCloseClick from the Modal: the parent closes it; nothing is saved.
CloseClick ==
    /\ mounted /\ isOpen
    /\ isOpen' = FALSE
    /\ UNCHANGED <<formField, mounted, hasLabwareDef,
                   selectedPrimaryWells, highlightedWells>>

\* SelectableLabware is rendered only when the labware has a definition.
LabwareShown == mounted /\ isOpen /\ hasLabwareDef

selectWells(wells) ==
    /\ LabwareShown
    /\ selectedPrimaryWells' = Spread(selectedPrimaryWells, wells)
    /\ highlightedWells' = <<>>
    /\ UNCHANGED <<formField, mounted, isOpen, hasLabwareDef>>

deselectWells(deselected) ==
    /\ LabwareShown
    /\ selectedPrimaryWells' = OmitWells(selectedPrimaryWells, deselected)
    /\ highlightedWells' = <<>>
    /\ UNCHANGED <<formField, mounted, isOpen, hasLabwareDef>>

\* updateHighlightedWells is setHighlightedWells itself.
updateHighlightedWells(wells) ==
    /\ LabwareShown
    /\ highlightedWells' = wells
    /\ UNCHANGED <<formField, mounted, isOpen, hasLabwareDef, selectedPrimaryWells>>

\* SAVE SELECTION: saveWellSelection(selectedPrimaryWells) dispatches
\* changeFormInput with the sorted keys, then onCloseClick closes the modal.
handleSave ==
    /\ mounted /\ isOpen
    /\ formField' = SortedWellKeys(selectedPrimaryWells)
    /\ isOpen' = FALSE
    /\ UNCHANGED <<mounted, hasLabwareDef, selectedPrimaryWells, highlightedWells>>

\* Another field of the form changes this one: a new labware clears the
\* wells, and its definition may be missing.
FormFieldChanged ==
    /\ formField' = <<>>
    /\ hasLabwareDef' \in BOOLEAN
    /\ UNCHANGED <<mounted, isOpen, selectedPrimaryWells, highlightedWells>>

Next ==
    \/ Mount \/ Unmount \/ Open \/ CloseClick \/ handleSave \/ FormFieldChanged
    \/ \E g \in WellGroups : selectWells(g) \/ deselectWells(g)
                             \/ updateHighlightedWells(g)

Spec == Init /\ [][Next]_vars

-----------------------------------------------------------------------------
\* Type invariant. The selection and the highlight are duplicate-free lists
\* of wells, as the object keys of the code are: selectWells' spread merges
\* keys, it does not append them twice.
TypeOK ==
    /\ formField = NULL \/ formField \in SetToAllKPermutations(Wells)
    /\ mounted \in BOOLEAN /\ isOpen \in BOOLEAN /\ hasLabwareDef \in BOOLEAN
    /\ selectedPrimaryWells \in SetToAllKPermutations(Wells)
    /\ highlightedWells \in SetToAllKPermutations(Wells)

\* The selection the modal shows when it opens is the form's well field.
\* The hooks read that field only at mount, so this is about a reopen
\* after a close without saving, or after the form changed the field.
ReopenShowsFormWells ==
    [][~isOpen /\ isOpen' => ToSet(selectedPrimaryWells') =
                              ToSet(initialSelectedPrimaryWells')]_vars

=============================================================================
