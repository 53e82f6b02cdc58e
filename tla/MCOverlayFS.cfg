SPECIFICATION Spec
CONSTANTS
    Names <- MCNames
    Base <- MCBase
    Dir = "dir"
    Empty = "empty"
    Values = {"new"}
    MaxDepth = 2
    MaxOps = 3
    MaxSessions = 2
CONSTRAINT Untorn
INVARIANTS TypeOK KernelAgrees LookupAgrees
PROPERTY Implements
