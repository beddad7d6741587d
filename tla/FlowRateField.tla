---------------------------- MODULE FlowRateField ----------------------------
(***************************************************************************)
(* The flow rate field of the protocol designer's step form               *)
(* (StepEditForm/fields/FlowRateField/index.js). mapStateToProps derives   *)
(* the FlowRateInput's props from the unsaved form and the pipette         *)
(* entities, and FlowRateInputWithKey keys the input by                    *)
(* `${name}:${formFlowRate || 0}` so that React builds a new input         *)
(* instance, with fresh internal state, when the value changes. The state  *)
(* is the form's two fields this component reads and the props the        *)
(* mounted input instance was constructed with. A form has one field per *)
(* flow rate (aspirate and dispense), each a FlowRateField of its own     *)
(* flowRateType reading the same form. The form's pipette is chosen with a *)
(* StepFormDropdown (fields/StepFormDropdownField.js), which blanks itself *)
(* when the form names a pipette that is no longer among its options; a   *)
(* pipette can be deleted from the protocol while a form still names it.  *)
(***************************************************************************)
EXTENDS Integers, TLC

CONSTANTS
    Pipettes,       \* the pipette entities of the protocol
    PipetteSpec,    \* pipette id -> its spec: displayName, default rates, maxVolume
    FlowRates,      \* the numbers updateValue can write
    Fields,         \* the flow rate field names of the form (prop name)
    flowRateType,   \* field name -> "aspirate" or "dispense" (a prop)
    Infinity,       \* maxFlowRate without a pipette
    NULL            \* null or undefined

ASSUME flowRateType \in [Fields -> {"aspirate", "dispense"}]

VARIABLES
    formData,        \* the unsaved form: [pipette, flowRate per field], or NULL
    pipetteEntities, \* the ids of getPipetteEntities(state), the dropdown's options
    instanceProps    \* field -> the props its mounted FlowRateInput was built with

vars == <<formData, pipetteEntities, instanceProps>>

Forms == [pipette : Pipettes \cup {NULL}, flowRate : [Fields -> FlowRates \cup {NULL}]]

-----------------------------------------------------------------------------
\* Mutant: the key without the value, `${name}`, so the input never remounts.
KeyValue_nameOnly(formFlowRate) == 0

\* `${formFlowRate || 0}`: every falsy value prints as 0; a number prints
\* as itself.
KeyValue(formFlowRate) == IF formFlowRate \in {NULL, 0} THEN 0 ELSE formFlowRate

mapStateToProps(name) ==
    LET pipetteId    == IF formData # NULL THEN formData.pipette ELSE NULL
        pipette      == IF pipetteId # NULL /\ pipetteId \in pipetteEntities
                        THEN PipetteSpec[pipetteId] ELSE NULL
        formFlowRate == IF formData # NULL THEN formData.flowRate[name] ELSE NULL
    IN  [innerKey           |-> KeyValue(formFlowRate),
         defaultFlowRate    |-> IF pipette = NULL THEN NULL
                                ELSE IF flowRateType[name] = "aspirate"
                                     THEN pipette.defaultAspirateFlowRate
                                     ELSE pipette.defaultDispenseFlowRate,
         formFlowRate       |-> formFlowRate,
         minFlowRate        |-> 0,
         maxFlowRate        |-> IF pipette # NULL THEN pipette.maxVolume ELSE Infinity,
         pipetteDisplayName |-> IF pipette # NULL THEN pipette.displayName
                                ELSE "pipette"]

\* A re-render with new state: React keeps the instance when the key is the
\* same and builds a new one when it differs. Every field re-renders.
Render ==
    instanceProps' =
        [name \in Fields |->
            IF mapStateToProps(name)'.innerKey = instanceProps[name].innerKey
            THEN instanceProps[name]
            ELSE mapStateToProps(name)']

\* StepFormDropdown's render: "blank out the dropdown if labware id does not
\* exist" among the option values. Ids are strings, so String(value) is value.
StepFormDropdown(value, options) == IF value \in options THEN value ELSE NULL

\* The pipette dropdown's value.
PipetteDropdownValue ==
    StepFormDropdown(IF formData # NULL THEN formData.pipette ELSE NULL,
                     pipetteEntities)

-----------------------------------------------------------------------------
Init ==
    /\ formData \in Forms \cup {NULL}
    /\ pipetteEntities = Pipettes
    /\ instanceProps = [name \in Fields |-> mapStateToProps(name)]

\* updateValue: changeFormInput({update: {[name]: flowRate}}).
updateValue(name, flowRate) ==
    /\ formData # NULL
    /\ formData' = [formData EXCEPT !.flowRate[name] = flowRate]
    /\ UNCHANGED pipetteEntities
    /\ Render

\* Another field of the form changes: the pipette is swapped, and the form
\* may reset the flow rate with it; or another step's form is opened.
FormChanged(form) ==
    /\ formData' = form
    /\ UNCHANGED pipetteEntities
    /\ Render

\* The pipette dropdown's onChange: updateValue(e.currentTarget.value) with
\* one of its options; the form's dependent fields (the flow rates) are
\* updated with it by the form change handler.
SelectPipette(pipette, flowRates) ==
    /\ formData # NULL
    /\ pipette \in pipetteEntities
    /\ formData' = [pipette |-> pipette, flowRate |-> flowRates]
    /\ UNCHANGED pipetteEntities
    /\ Render

\* The pipette is deleted from the protocol; the open form keeps its id.
DeletePipette(pipette) ==
    /\ pipette \in pipetteEntities
    /\ pipetteEntities' = pipetteEntities \ {pipette}
    /\ UNCHANGED formData
    /\ Render

Next ==
    \/ \E name \in Fields, v \in FlowRates \cup {NULL} : updateValue(name, v)
    \/ \E f \in Forms \cup {NULL} : FormChanged(f)
    \/ \E p \in Pipettes, r \in [Fields -> FlowRates \cup {NULL}] : SelectPipette(p, r)
    \/ \E p \in Pipettes : DeletePipette(p)

Spec == Init /\ [][Next]_vars

-----------------------------------------------------------------------------
TypeOK ==
    /\ formData \in Forms \cup {NULL}
    /\ \A name \in Fields :
        /\ instanceProps[name].innerKey \in FlowRates \cup {0}
        /\ instanceProps[name].formFlowRate \in FlowRates \cup {NULL}

Falsy(v) == v \in {NULL, 0}

\* The input instance on screen was built from the form's current flow
\* rate, or both are falsy: the key remounts the input on every change of
\* the value except between null and 0, which print the same key.
InstanceMatchesFormUpToFalsy ==
    \A name \in Fields :
        LET built   == instanceProps[name].formFlowRate
            current == mapStateToProps(name).formFlowRate
        IN  built = current \/ (Falsy(built) /\ Falsy(current))

\* The comment at the key: "force each field to have a new instance created
\* when value is changed". The mounted instance was built from the value
\* the form holds now.
NewInstanceOnValueChange ==
    \A name \in Fields :
        instanceProps[name].formFlowRate = mapStateToProps(name).formFlowRate

=============================================================================
