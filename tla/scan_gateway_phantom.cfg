SPECIFICATION Spec
CONSTANTS
    Routes = {"eis", "ic", "gs", "obd", "slot", "ext"}
    Route <- MCRoute
    Plan <- MCPlan
    Saved <- OneSaved
    Scopes = {"CENSUS"}
    Transmission = "no route"
    FamilyRoutes = {}
    GatewayAnswers = {"eis"}
    RepliesElsewhere = {}
    MaxModules = 2
    MaxRecoveries = 0
    LateProbe = FALSE
    NoRoute = "no route"
INVARIANTS
    NoPhantomModule
