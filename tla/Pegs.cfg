CONSTANTS
    Chains = {"a", "b", "c"}
    Symbol <- OwnSymbols
    Scale <- Scales
    Amounts = {1}
    Deployments <- RealAndTested
SPECIFICATION Spec
INVARIANTS Solvent PaidOnce
PROPERTY LockedPaid
CHECK_DEADLOCK FALSE
