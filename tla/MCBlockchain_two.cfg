SPECIFICATION Spec
CONSTANTS
    Callers = {rpc, validator}
    Hash <- MCHash
    Key <- MCKey
    Blocks <- MCBlocks
    Genesis <- MCGenesis
INVARIANTS OnChainVerified IndexAgrees BlockReadable TxReadable EffectsApplied
    AddedIsReadable
