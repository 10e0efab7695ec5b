SPECIFICATION Spec
CONSTANTS
    Paths = {p}
    Data = {x}
    Zeros = zeros
    MaxBlocks = 1
    Unset = unset
    SizeT = 16
    CInt = 8
    MaxSize = 1
    MaxEntries = 3
    Operations = {"read", "truncate"}
PROPERTY ServesTheFiles
