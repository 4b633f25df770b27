CONSTANTS
    Plugins <- MCPlugins
    Core <- MCCore
    Installations <- MCInstallations
    MaxFailures = 2
SPECIFICATION Spec
INVARIANTS
    QueueIsTopological
    RequiredDependenciesFirst
    FailurePropagates
    DisabledNeverLoaded
PROPERTIES
    ContractSpec
    ShutdownCompletes
