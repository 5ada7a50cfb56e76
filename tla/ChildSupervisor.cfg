CONSTANTS
    Lines <- MCLinesMalformed
    ExitStatuses <- MCExitStatuses
    MaxChan = 3
    PipeCap = 2
SPECIFICATION Spec
INVARIANT TypeOK
INVARIANT ResultFaithful
INVARIANT SideEffectsFaithful
INVARIANT PipeReleased
