SPECIFICATION AgentWorkflowSpec
CONSTANTS
    MaxWorkers = 2
    MaxEvents = 1
    HardwareInputs = {"svd"}
    Monorepo = FALSE
INVARIANT OwnershipEnforced
CHECK_DEADLOCK FALSE
