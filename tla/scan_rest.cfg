SPECIFICATION FairSpec
CONSTANTS
    Routes = {"eis", "ic", "gs", "obd", "slot", "ext"}
    Route <- MCRoute
    Plan <- RestPlan
    Saved <- OneSaved
    Scopes = {"QUICK", "GATEWAY", "CENSUS"}
    Transmission = "no route"
    FamilyRoutes = {"obd"}
    GatewayAnswers = {"slot"}
    RepliesElsewhere = {}
    MaxModules = 2
    MaxRecoveries = 1
    LateProbe = FALSE
    NoRoute = "no route"
PROPERTIES
    ComesToRest
    TowardsRest
