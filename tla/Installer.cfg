CONSTANTS
    Lines <- MCLines
    ExitStatuses <- MCExitStatuses
    MaxChan = 2
    PipeCap = 2
    MetaValues <- MCMetaValues
    NumText <- MCNumText
    TsMin <- MCTsMin
    TsMax <- MCTsMax
    Packages <- MCPackages
    DeviceProps <- MCDeviceProps
SPECIFICATION Spec
INVARIANT ResourcesReleased
INVARIANT NoUnverifiedApply
INVARIANT LogSuccessFaithful
PROPERTY Termination
PROPERTY Refinement
