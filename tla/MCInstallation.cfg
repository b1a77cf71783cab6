SPECIFICATION InstallationSpec
CONSTANTS
    Calls = {k1, k2}
    Syncer = sy
    Places <- MCPlaces
    Root = ""
    AutoName = "auto"
    Texts = {"v1", "v2", "v3"}
    Below <- MCBelow
    GlobalSkills <- MCGlobalSkills
    Entries <- MCEntries
    BasePrompts <- MCBasePrompts
    MaxCalls = 2
    WorkspaceConfigs <- MCWorkspaceConfigs
    AgentConfigs <- MCAgentConfigs
    SpaceDir <- MCSpaceDir
    HomeDir <- MCHomeDir
    TempDir <- MCTempDir
    Arguments <- MCArguments
    CommandDirs <- MCCommandDirs
    MaxFiles = 2
    Names = {"default", "w"}
    CustomPaths = {"p"}
    ExternalNames = {"x"}
    Commands = {cmd1, cmd2}
    MaxStarts = 2
    MaxFailures = 1
    Setups = {"s1", "s2"}
    ChannelNames = {"Team", "team"}
    SanitizeId <- MCSanitizeId
    HandWritten <- MCHandWritten
    MaxPolls = 2
    Chans = {g1, g2, t}
    GwChans = {g1, g2}
    HTTPChans = {g1}
    Guests = {t}
    NoChan = NoChan
    Ids = {x}
    SessionIds = {x, t}
    IdOf <- MCIdOf
    Timeout = 0
    Callbacks = {d1}
    Messages = {m1}
    PruneEvery = 0
    DedupTTL = 1
SYMMETRY CallSymmetry
INVARIANTS
    InstallationTypeOK
    UserPromptKept CreatedOnce
    PathsLeadBack
    FallbackResolves
    SavedChannelsServed
    EntryIffHeartbeat GuestAliveIffManaged
PROPERTIES HealthCheckSparesGateway ReplaysDropped
CHECK_DEADLOCK FALSE
