SPECIFICATION Spec
CONSTANTS
    Lock = {"rt", "k230"}
    RtThread = {"rt"}
    MaxEdits = 1
    MaxReplans = 1
    Offers <- SolverOffers
    RoleQueries <- FsRoles
    Compatible <- FsCompatible
    Classed <- FsClassed
    Hosted <- FsHosted
    Matches <- FsMatches
    Repo <- LockRepos
    Worlds <- MCWorlds
    Pinned <- SpPinned
    Exporter = {"t1"}
    MaxInputs = 2
    MaxDrift = 3
    MaxWorkers = 2
    MaxEvents = 1
    Monorepo = TRUE
    HardwareInputs <- WfHardware
    Ids <- HwIds
    Kind <- HwKind
    MaterialSets <- MCMaterials
    Inputs <- HiInputs
    Cell = 4
    Needs <- WsNeeds
    MaxAttempts = 2
    MaxUpgrades = 1
    Targets <- DaTargets
    Corpus <- DaCorpus
    MaxCommands = 2
    MaxDriverEdits = 1
    Word = 4
    Address <- GdAddress
    Alignment = 2
    TimeoutTicks = 2
    MaxCalls = 2
    Units = {"r1", "r2", "r3"}
    Requests <- SeRequests
    MaxJobs = 2
    MaxSegments = 5
    LastArrival = 1
    Capability = {"a", "b", "c"}
    Requested = {"a"}
    ActivatesOn <- PgActivates
    Selects <- PgSelects
    LastPhase = 1
    MaxCommits = 1
    MaxResets = 1
    Process = {"p", "q"}
    File = {"soc.svd", "board.dts"}
    KindOf <- RiKinds
    MaxFileEdits = 1
    ProjectSource = {"rt_ai", "compiler_runtime"}
    MaxChanges = 2
    Models <- RsModels
    Contracts <- RsContracts
    MaxSessions = 2
    MaxReservations = 2
    PoolSize = 5
    SessionAlign = 2
    MaxOpens = 3
    MaxServiceJobs = 2
    MaxElapsed = 2
    Scenarios <- RvScenarios
INVARIANTS
    EvidenceSound SourcePlanSound SourceLockSound AgentsSound HardwareSound
    WorkspaceSound DriversSound SimulationSound SequenceSound RvaicSound
CHECK_DEADLOCK FALSE
