SPECIFICATION RunSpec
CONSTANTS
    Scripts <- MCScripts
    ShellRetries = 2
    MaxParts = 1
    Files <- MCFiles
    Base <- MCBase
INVARIANTS AllClosed SuccessHasFile GoodAnswerKept JumpHostRespected
INVARIANT RemovedIsCopied
PROPERTIES RunEnds NoFileAfterExpiry
CHECK_DEADLOCK FALSE
