SPECIFICATION Spec
CONSTANTS
    Paths = {p, q}
    Data = {x}
    Zeros = zeros
    MaxBlocks = 2
    Unset = unset
    SizeT = 8
    CInt = 4
    MaxSize = 1
    MaxEntries = 2
    Operations = {"read", "write", "truncate", "unlink", "rename"}
CONSTRAINT FewEntries
SYMMETRY Symmetry
INVARIANT TypeOK
INVARIANT CachedBlocksAreTheFiles
PROPERTY ServesAllButStaleFiles
