CONSTANTS
    Address <- Addresses
    Config <- Configs
    MaxGenerations = 3
SPECIFICATION Spec
CHECK_DEADLOCK FALSE
INVARIANTS
    GracefulRestartTypeOK
    ListensWhereConfigured
    HoldsNothingElse
    
PROPERTIES
    NobodyReset
