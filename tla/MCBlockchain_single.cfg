SPECIFICATION FairSpec
CONSTANTS
    Callers = {rpc}
    Hash <- MCHash
    Key <- MCKey
    Blocks <- MCBlocks
    Genesis <- MCGenesis
INVARIANTS TypeOK ChainWellFormed
PROPERTIES CallReturns ImplementsLedger
