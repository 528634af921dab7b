SPECIFICATION Spec
CONSTANTS
    Callers = {rpc}
    Hash <- MCHash
    Key <- MCKey
    Blocks <- MCBlocks
    Genesis <- MCGenesis
INVARIANT ContractStateIsReplay
