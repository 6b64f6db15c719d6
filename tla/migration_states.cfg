SPECIFICATION UpgradeSpec
CONSTANTS
    None = None
    Some = Some
    Seeds <- MCSeeds
INVARIANT StatesAreMapped
CHECK_DEADLOCK FALSE
