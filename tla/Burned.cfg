CONSTANTS
    Chains = {"a", "b"}
    Symbol <- OwnSymbols
    Scale <- Scales
    Amounts = {1}
    Deployments <- RealAlone
SPECIFICATION Spec
PROPERTY BurnedUnlocked
CHECK_DEADLOCK FALSE
