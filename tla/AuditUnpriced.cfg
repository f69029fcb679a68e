CONSTANTS
    Components = {"ws", "src", "old", "a", "f"}
    Names <- MCNames
    Directories <- MCDirectories
    Layouts <- MCLayouts
    MaxFile = 2
    Policies <- MCPolicies
    Kernels <- MCKernels
    Rules <- MCRules
    Destinations = {"in", "out"}
    MaxCost = 2
    Currencies = {"USD", "EUR"}
    Unnamed = {"none"}
    MaxSteps = 2
SPECIFICATION Spec
CHECK_DEADLOCK FALSE
INVARIANTS
    UnpricedIsDoubted
