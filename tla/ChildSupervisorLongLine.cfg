CONSTANTS
    Lines <- MCLinesLong
    ExitStatuses <- MCExitStatuses
    MaxChan = 3
    PipeCap = 2
SPECIFICATION Spec
INVARIANT ResultFaithful
