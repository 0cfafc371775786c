SPECIFICATION Spec
CONSTANTS
    Routes = {"eis", "ic", "gs", "obd", "slot", "ext"}
    Route <- MCRoute
    Plan <- MCPlan
    Saved <- OneSaved
    Scopes = {"QUICK", "GATEWAY", "CENSUS", "FULL"}
    Transmission = "no route"
    FamilyRoutes = {"obd"}
    GatewayAnswers = {"slot", "obd"}
    RepliesElsewhere = {"slot"}
    MaxModules = 2
    MaxRecoveries = 2
    LateProbe = FALSE
    NoRoute = "no route"
INVARIANTS
    AdapterAgreement
    ModuleTable
    AbsenceReported
    NoResponderLost
    IdentityBeforeFaults
    RouteCoverage
PROPERTIES
    SurveyKept
