SPECIFICATION Spec
CONSTANTS
    Routes = {"eis", "ic", "gs", "obd", "slot", "ext"}
    Route <- MCRoute
    Plan <- MCPlan
    Saved <- MCSaved
    Scopes = {"FULL"}
    Transmission = "no route"
    FamilyRoutes = {}
    GatewayAnswers = {}
    RepliesElsewhere = {"slot"}
    MaxModules = 3
    MaxRecoveries = 0
    LateProbe = FALSE
    NoRoute = "no route"
INVARIANTS
    ReplyIdentifierLearned
