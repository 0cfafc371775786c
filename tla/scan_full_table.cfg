SPECIFICATION FairSpec
CONSTANTS
    Routes = {"eis", "ic", "gs", "obd", "slot", "ext"}
    Route <- MCRoute
    Plan <- FullTablePlan
    Saved <- OneSaved
    Scopes = {"FULL"}
    Transmission = "no route"
    FamilyRoutes = {}
    GatewayAnswers = {}
    RepliesElsewhere = {}
    MaxModules = 1
    MaxRecoveries = 0
    LateProbe = FALSE
    NoRoute = "no route"
PROPERTIES
    ComesToRest
