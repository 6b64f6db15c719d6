SPECIFICATION BothSpec
CONSTANTS
    None = None
    Some = Some
    Seeds <- MCSeeds
INVARIANTS UpgradeTypeOK UpgradeStopsOnlyOn ClearedWayIsOpen SchemaIsTheModels LiveSetsKeepTheirReference NewestImageSurvives TokensStayValid
INVARIANTS EveryOperationFits TheWayIsClear EvolvesToTheModels
PROPERTY EvolvesAsItsSchema
CHECK_DEADLOCK FALSE
