SPECIFICATION GatewayFairSpec
CONSTANTS
    DnsChoices = { {}, {"v4"} }
    MaxFailures = 1
    MaxCrashes = 1
    MaxReloads = 1
INVARIANTS
    ExitRestoresNetwork
    RulesMatchConfig
    NoSelfLoop
    RedirectIsServed
PROPERTIES
    ShutdownEnds
