CONSTANTS
    p1 = p1
    p2 = p2
    Infinity = Infinity
    NULL = NULL
    Pipettes <- MCPipettes
    PipetteSpec <- MCPipetteSpec
    FlowRates <- MCFlowRates
    Fields = {"aspirate_flowRate", "dispense_flowRate"}
    flowRateType <- MCFlowRateType
SPECIFICATION Spec
INVARIANT NewInstanceOnValueChange
