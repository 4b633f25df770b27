CONSTANTS
    app = app
    lib = lib
    compile = compile
    deploy = deploy
    custom = custom
    make = make
    NoStep = NoStep
    NoProject = NoProject
    Steps <- MCSteps
    Projects <- MCProjects
    BuildSteps <- MCBuildSteps
    DeploySteps <- MCDeploySteps
    ProjectOrder <- MCProjectOrder
    GuiSteps = {deploy}
    DisabledSteps = {custom}
    RemovableProjects = {app}
    MaxBuilds = 4
    MaxCancels = 3
SPECIFICATION Spec
INVARIANTS
    CountersMatch
    NoStaleFinish
    OneStepAtATime
    OnlyRequestedCancels
PROPERTIES
    ContractSpec
    CancelReturns
    BuildEnds
CHECK_DEADLOCK FALSE
