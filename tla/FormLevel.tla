------------------------------ MODULE FormLevel ------------------------------
(***************************************************************************)
(* The form-level validation table of the protocol designer              *)
(* (protocol-designer/src/steplist/formLevel/index.js): stepFormHelperMap *)
(* gives each step type its composed error and warning getters, and       *)
(* getFormErrors / getFormWarnings look a step type up, falling back to   *)
(* no issues when the type has no entry or the entry no getter.           *)
(*                                                                         *)
(* The check functions live in ./errors and ./warnings, which are not in  *)
(* the repository. A check is kept as its name, and a form as the set of  *)
(* checks it fails; composeErrors / composeWarnings run their checks in   *)
(* order and keep the ones that fire.                                     *)
(***************************************************************************)
EXTENDS Sequences

\* The checks imported from ./errors.
ErrorChecks ==
    {"blockTemperatureHoldRequired", "blockTemperatureRequired",
     "engageHeightRangeExceeded", "engageHeightRequired",
     "incompatibleAspirateLabware", "incompatibleDispenseLabware",
     "incompatibleLabware", "lidTemperatureHoldRequired",
     "lidTemperatureRequired", "magnetActionRequired", "moduleIdRequired",
     "pauseForTimeOrUntilTold", "profileTargetLidTempRequired",
     "profileVolumeRequired", "targetTemperatureRequired",
     "wellRatioMoveLiquid"}

\* The checks imported from ./warnings.
WarningChecks ==
    {"belowPipetteMinimumVolume", "maxDispenseWellVolume", "minDisposalVolume"}

\* composeErrors(...checks) / composeWarnings(...checks) applied to a form.
Compose(checks, failing) == SelectSeq(checks, LAMBDA c : c \in failing)

\* stepFormHelperMap: an entry is a record with the getters it defines.
stepFormHelperMap ==
    [mix          |-> [getErrors   |-> <<"incompatibleLabware">>,
                       getWarnings |-> <<"belowPipetteMinimumVolume">>],
     pause        |-> [getErrors   |-> <<"pauseForTimeOrUntilTold">>],
     moveLiquid   |-> [getErrors   |-> <<"incompatibleAspirateLabware",
                                         "incompatibleDispenseLabware",
                                         "wellRatioMoveLiquid">>,
                       getWarnings |-> <<"belowPipetteMinimumVolume",
                                         "maxDispenseWellVolume",
                                         "minDisposalVolume">>],
     magnet       |-> [getErrors   |-> <<"magnetActionRequired",
                                         "engageHeightRequired",
                                         "moduleIdRequired",
                                         "engageHeightRangeExceeded">>],
     temperature  |-> [getErrors   |-> <<"targetTemperatureRequired",
                                         "moduleIdRequired">>],
     thermocycler |-> [getErrors   |-> <<"blockTemperatureRequired",
                                         "lidTemperatureRequired",
                                         "profileVolumeRequired",
                                         "profileTargetLidTempRequired",
                                         "blockTemperatureHoldRequired",
                                         "lidTemperatureHoldRequired">>]]

\* stepFormHelperMap[stepType] && stepFormHelperMap[stepType][getter],
\* applied to the form, or [] without one.
Lookup(stepType, getter, failing) ==
    IF stepType \in DOMAIN stepFormHelperMap
       /\ getter \in DOMAIN stepFormHelperMap[stepType]
    THEN Compose(stepFormHelperMap[stepType][getter], failing)
    ELSE <<>>

getFormErrors(stepType, failing) == Lookup(stepType, "getErrors", failing)

getFormWarnings(stepType, failing) == Lookup(stepType, "getWarnings", failing)

=============================================================================
