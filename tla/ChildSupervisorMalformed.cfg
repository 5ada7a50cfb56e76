CONSTANTS
    Lines <- MCLinesMalformed
    ExitStatuses <- MCExitStatuses
    MaxChan = 3
    PipeCap = 2
SPECIFICATION Spec
PROPERTY Termination
