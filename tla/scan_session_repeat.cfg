SPECIFICATION Spec
CONSTANTS
    Routes = {"eis", "ic", "gs", "obd", "slot", "ext"}
    Route <- MCRoute
    Plan <- MCPlan
    Saved <- OneSaved
    Scopes = {"CENSUS"}
    Transmission = "no route"
    FamilyRoutes = {}
    GatewayAnswers = {}
    RepliesElsewhere = {}
    MaxModules = 2
    MaxRecoveries = 1
    LateProbe = FALSE
    NoRoute = "no route"
INVARIANTS
    SessionRequestedOnce
