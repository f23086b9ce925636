SPECIFICATION Spec
CONSTANTS
    StringAtoms <- MCStringAtoms
    PrefixAtoms <- MCPrefixAtoms
    Trailing <- MCTrailing
    Modules <- MCModules
    Configs <- MCConfigs
INVARIANTS
    TypeOK
    LoadedAsWritten
    DamageRefused
    SeedRestores
    RangesAsRead
    ProfileAddsUp
