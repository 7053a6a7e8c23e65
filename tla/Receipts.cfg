CONSTANTS
    Tries <- Contents
    Receipts <- TwoReceipts
    Paths <- AskedPaths
    ForeignNodes <- OtherBlock
    MaxSiblings = 5
SPECIFICATION Spec
INVARIANTS OnlyHeldProved HeldIsProved NodeOfPrefix
CHECK_DEADLOCK FALSE
