CONSTANTS
    Line = {l1, l2}
    Recon <- ReconThree
    Window = {w1, w2}
    Day <- TwoDays
    Net <- Deposits
    Ending <- SmallBalances
    NoRecon = NoRecon
SPECIFICATION Spec
SYMMETRY Sym
INVARIANTS TypeOK StatementsChain
PROPERTIES SignedOffTicks TickedStays
