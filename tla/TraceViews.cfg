CONSTANTS
    Scenes <- MCScenes
    BufferSize = 4
    WordBits = 8
SPECIFICATION Spec
INVARIANTS
    UserCodeIsComplete
    RegistersCarriedOver
    CopyReadsTheSame
    BranchesAreTrue
    ViewsAgree
CHECK_DEADLOCK FALSE
