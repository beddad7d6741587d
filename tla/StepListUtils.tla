---------------------------- MODULE StepListUtils ----------------------------
(***************************************************************************)
(* The two pure helpers of protocol-designer/src/steplist/utils/index.js:  *)
(* getWellRatio and getNextNonTerminalItemId, and the pills the batch-edit *)
(* StepSelectionBanner derives from the selected steps. They are TLA+      *)
(* operators that keep JavaScript's semantics: 0-based indices, indexOf    *)
(* of -1, an out-of-range read giving undefined, and the loop as a         *)
(* RECURSIVE operator. A tiny state machine picks one input, computes the  *)
(* result in one step, and the invariants compare the result with a        *)
(* reference definition.                                                   *)
(***************************************************************************)
EXTENDS Integers, Sequences, FiniteSets, SequencesExt, FormLevel

CONSTANTS
    StepIds,     \* the step ids that can occur
    MaxSteps,    \* the longest step list enumerated
    MaxWells,    \* the longest well list enumerated
    NotArray,    \* a well field whose value is not an array
    NULL,        \* JavaScript null and undefined
    StepTypeOf,  \* step id -> the stepType of its form
    StepTypeRank,\* stepType -> its place in the string order of the names
    FormChecks   \* the checks a form may fail, of ./errors and ./warnings

ASSUME MaxSteps \in Nat /\ MaxWells \in Nat
ASSUME StepTypeRank \in [Range(StepTypeOf) -> Nat]

-----------------------------------------------------------------------------
(* getWellRatio. A well list is abstracted to its length, or NotArray.     *)

WellLists == {NotArray} \cup (0 .. MaxWells)

IsNonEmptyArray(w) == w # NotArray /\ w > 0

\* Mutant: the many:1 branch copied from the 1:many one.
getWellRatio_manyToOneCopied(sourceWells, destWells) ==
    IF ~IsNonEmptyArray(sourceWells) \/ ~IsNonEmptyArray(destWells) THEN NULL
    ELSE IF sourceWells = destWells THEN "n:n"
    ELSE IF sourceWells = 1 /\ destWells > 1 THEN "1:many"
    ELSE IF sourceWells > 1 /\ destWells = 1 THEN "1:many"
    ELSE NULL

getWellRatio(sourceWells, destWells) ==
    IF ~IsNonEmptyArray(sourceWells) \/ ~IsNonEmptyArray(destWells) THEN NULL
    ELSE IF sourceWells = destWells THEN "n:n"
    ELSE IF sourceWells = 1 /\ destWells > 1 THEN "1:many"
    ELSE IF sourceWells > 1 /\ destWells = 1 THEN "many:1"
    ELSE NULL

-----------------------------------------------------------------------------
(* getNextNonTerminalItemId. orderedStepIds is a sequence of distinct ids; *)
(* stepsToDelete is kept as the set of its ids: both uses of it (the max   *)
(* in the reduce and includes) ignore its order and repetitions.           *)

\* Array.prototype.indexOf: the 0-based index of v in s, or -1.
indexOf(s, v) ==
    IF \E i \in 1 .. Len(s) : s[i] = v
    THEN (CHOOSE i \in 1 .. Len(s) : s[i] = v) - 1
    ELSE -1

\* s[i] for a 0-based i: undefined outside the array.
At(s, i) == IF i \in 0 .. Len(s) - 1 THEN s[i + 1] ELSE NULL

\* stepsToDelete.reduce((highest, val) => Math.max(indexOf(val), highest), 0)
highestDeletedIndex(orderedStepIds, stepsToDelete) ==
    FoldSet(LAMBDA val, highest : IF indexOf(orderedStepIds, val) > highest
                                  THEN indexOf(orderedStepIds, val)
                                  ELSE highest,
            0, stepsToDelete)

\* Mutant: the loop without its stepsToDelete.includes check.
RECURSIVE StepBack_deletedCounts(_, _, _, _)
StepBack_deletedCounts(orderedStepIds, stepsToDelete, index, attemptsLeft) ==
    IF attemptsLeft = 0 THEN NULL
    ELSE LET potentialNextStepId == At(orderedStepIds, index - 1)
         IN  IF potentialNextStepId = NULL
             THEN StepBack_deletedCounts(orderedStepIds, stepsToDelete,
                                         index - 1, attemptsLeft - 1)
             ELSE potentialNextStepId

\* The while loop: step back from the highest deleted index, skipping
\* deleted ids; an undefined read leaves nextStepId falsy and goes on.
RECURSIVE StepBack(_, _, _, _)
StepBack(orderedStepIds, stepsToDelete, index, attemptsLeft) ==
    IF attemptsLeft = 0 THEN NULL
    ELSE LET potentialNextStepId == At(orderedStepIds, index - 1)
         IN  IF potentialNextStepId \in stepsToDelete \cup {NULL}
             THEN StepBack(orderedStepIds, stepsToDelete, index - 1,
                           attemptsLeft - 1)
             ELSE potentialNextStepId

getNextNonTerminalItemId(orderedStepIds, stepsToDelete) ==
    LET h == highestDeletedIndex(orderedStepIds, stepsToDelete)
        nextStepId == At(orderedStepIds, h + 1)
    IN  IF nextStepId # NULL THEN nextStepId
        ELSE StepBack(orderedStepIds, stepsToDelete, h, Len(orderedStepIds))

-----------------------------------------------------------------------------
(* StepSelectionBannerComponent. A selected step's FormData is kept as its *)
(* stepType, the only field the banner reads.                               *)

\* Mutant: every occurrence of a type overwrites its count with 1.
countPerType_noIncrement(selectedSteps) ==
    FoldLeft(LAMBDA acc, stepType : (stepType :> 1) @@ acc,
             [t \in {} |-> 0], selectedSteps)

\* selectedSteps.reduce: acc[stepType] ? acc[stepType] + 1 : 1
countPerType(selectedSteps) ==
    FoldLeft(LAMBDA acc, stepType :
                 IF stepType \in DOMAIN acc
                 THEN [acc EXCEPT ![stepType] = @ + 1]
                 ELSE (stepType :> 1) @@ acc,
             [t \in {} |-> 0], selectedSteps)

\* StepPill: the label `${startCase(stepType)} (${count})`, kept as its parts.
StepPill(stepType, count) == [stepType |-> stepType, count |-> count]

\* The banner: the "n steps selected" count and one StepPill per key of
\* countPerType, in Object.keys(...).sort() order.
Banner(selectedSteps) ==
    LET counts    == countPerType(selectedSteps)
        stepTypes == SetToSortSeq(DOMAIN counts,
                                  LAMBDA a, b : StepTypeRank[a] < StepTypeRank[b])
    IN  [numSteps |-> Len(selectedSteps),
         pills    |-> [i \in 1 .. Len(stepTypes) |->
                          StepPill(stepTypes[i], counts[stepTypes[i]])]]

-----------------------------------------------------------------------------
(* Inputs: step lists of distinct ids, up to MaxSteps long, and a          *)
(* non-empty set of their steps to delete (the selection being deleted).   *)

StepLists ==
    UNION { {s \in [1 .. n -> StepIds] : \A i, j \in 1 .. n : s[i] = s[j] => i = j}
            : n \in 0 .. MaxSteps }

DeletionsOf(s) == {D \in SUBSET {s[i] : i \in 1 .. Len(s)} : D # {}}

VARIABLES orderedStepIds, stepsToDelete, nextItem,
          sourceWells, destWells, wellRatio, banner, formIssues, computed

vars == <<orderedStepIds, stepsToDelete, nextItem,
          sourceWells, destWells, wellRatio, banner, formIssues, computed>>

\* The selected steps' forms, in step list order.
SelectedForms ==
    [i \in 1 .. Len(SelectSeq(orderedStepIds, LAMBDA id : id \in stepsToDelete)) |->
        StepTypeOf[SelectSeq(orderedStepIds, LAMBDA id : id \in stepsToDelete)[i]]]

Init ==
    /\ orderedStepIds \in StepLists
    /\ stepsToDelete \in DeletionsOf(orderedStepIds)
    /\ sourceWells \in WellLists
    /\ destWells \in WellLists
    /\ nextItem = NULL
    /\ wellRatio = NULL
    /\ banner = NULL
    /\ formIssues = NULL
    /\ computed = {}

\* The step list deletes stepsToDelete and asks which step to select next.
ComputeNextItem ==
    /\ "next" \notin computed
    /\ nextItem' = getNextNonTerminalItemId(orderedStepIds, stepsToDelete)
    /\ computed' = computed \cup {"next"}
    /\ UNCHANGED <<orderedStepIds, stepsToDelete, sourceWells, destWells, wellRatio,
                   banner, formIssues>>

\* A transfer form asks for the ratio of its source and destination wells.
ComputeWellRatio ==
    /\ "ratio" \notin computed
    /\ wellRatio' = getWellRatio(sourceWells, destWells)
    /\ computed' = computed \cup {"ratio"}
    /\ UNCHANGED <<orderedStepIds, stepsToDelete, sourceWells, destWells, nextItem,
                   banner, formIssues>>

\* In batch edit, the banner renders the steps selected for deletion.
RenderBanner ==
    /\ "banner" \notin computed
    /\ banner' = Banner(SelectedForms)
    /\ computed' = computed \cup {"banner"}
    /\ UNCHANGED <<orderedStepIds, stepsToDelete, sourceWells, destWells, nextItem,
                   wellRatio, formIssues>>

\* The step selected after the deletion opens its form, which is validated
\* with getFormErrors and getFormWarnings of its step type.
ValidateNextForm ==
    /\ "next" \in computed /\ "form" \notin computed
    /\ nextItem # NULL
    /\ \E failing \in SUBSET FormChecks :
          formIssues' = [stepType |-> StepTypeOf[nextItem], failing |-> failing,
                         errors   |-> getFormErrors(StepTypeOf[nextItem], failing),
                         warnings |-> getFormWarnings(StepTypeOf[nextItem], failing)]
    /\ computed' = computed \cup {"form"}
    /\ UNCHANGED <<orderedStepIds, stepsToDelete, sourceWells, destWells, nextItem,
                   wellRatio, banner>>

Next == ComputeNextItem \/ ComputeWellRatio \/ RenderBanner \/ ValidateNextForm

Spec == Init /\ [][Next]_vars

-----------------------------------------------------------------------------
\* Reference: after deleting D from s, the step to select is the nearest
\* surviving step after the last deleted one, else the nearest surviving
\* step before it, else none.
NextSurvivorRef(s, D) ==
    LET last   == Max({i \in 1 .. Len(s) : s[i] \in D})
        after  == {i \in last + 1 .. Len(s) : s[i] \notin D}
        before == {i \in 1 .. last - 1 : s[i] \notin D}
    IN  IF after # {} THEN s[Min(after)]
        ELSE IF before # {} THEN s[Max(before)]
        ELSE NULL

\* getNextNonTerminalItemId never selects a step being deleted, returns
\* null only when every step is deleted, and otherwise picks the nearest
\* survivor after the last deleted step, else before it. This is about the
\* reduce seeded with index 0, the walk back past index 0 and the
\* attemptsLeft bound of the loop.
NextItemIsNearestSurvivor ==
    "next" \in computed =>
        nextItem = NextSurvivorRef(orderedStepIds, stepsToDelete)

\* A ratio read from the destination's side is the mirror of the one read
\* from the source's side: swapping the two well lists turns 1:many into
\* many:1 and keeps n:n and null. The four guards of getWellRatio must
\* treat source and destination alike for this to hold.
Mirror(r) == CASE r = "1:many" -> "many:1"
               [] r = "many:1" -> "1:many"
               [] OTHER        -> r

WellRatioIsSymmetric ==
    "ratio" \in computed =>
        getWellRatio(destWells, sourceWells) = Mirror(wellRatio)

\* The banner's pills are a faithful summary of the selection: one pill per
\* selected step type, in name order, each counting exactly the selected
\* steps of that type, so the counts add up to the "n steps selected"
\* figure. This is about the reduce's first-occurrence case and the sort.
BannerSummarisesSelection ==
    "banner" \in computed =>
        LET s == SelectedForms
            n == Len(banner.pills)
        IN  /\ {banner.pills[i].stepType : i \in 1 .. n} = Range(s)
            /\ \A i \in 1 .. n - 1 :
                  StepTypeRank[banner.pills[i].stepType]
                    < StepTypeRank[banner.pills[i + 1].stepType]
            /\ \A i \in 1 .. n :
                  banner.pills[i].count
                    = Cardinality({k \in 1 .. Len(s) : s[k] = banner.pills[i].stepType})
            /\ banner.numSteps = Cardinality(stepsToDelete)

=============================================================================
