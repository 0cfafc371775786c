SPECIFICATION Spec
CONSTANTS
    Routes = {"eis", "ic", "gs", "obd", "slot", "ext"}
    Route <- MCRoute
    Plan <- LatePlan
    Saved <- MCSaved
    Scopes = {"CENSUS", "CACHED"}
    Transmission = "gs"
    FamilyRoutes = {"gs"}
    GatewayAnswers = {"ic"}
    RepliesElsewhere = {}
    MaxModules = 3
    MaxRecoveries = 2
    LateProbe = TRUE
    NoRoute = "no route"
INVARIANTS
    ScanInvariant
    ReplyAttribution
PROPERTIES
    SavedIdentityRetained
    LateProbeIsLocal
