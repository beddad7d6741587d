CONSTANTS
    s1 = s1
    s2 = s2
    s3 = s3
    s4 = s4
    NotArray = NotArray
    NULL = NULL
    StepIds <- MCStepIds
    MaxSteps = 4
    MaxWells = 3
    StepTypeOf <- MCStepTypeOf
    StepTypeRank <- MCStepTypeRank
    FormChecks <- MCFormChecks
SPECIFICATION Spec
INVARIANT NextItemIsNearestSurvivor WellRatioIsSymmetric BannerSummarisesSelection
\* The helpers return: once every result are computed nothing is left to do.
CHECK_DEADLOCK FALSE
