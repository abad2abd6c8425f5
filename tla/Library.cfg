CONSTANTS
    MaxDepth = 4
    MaxNum = 12
    MaxGen = 9
    MaxOutput = 12
    MaxFieldWidth = 2
    BudgetFactor = 8
    BudgetFloor = 20
    CommentLookback = 8
    MaxPadding = 4
    MaxOffset = 300
    RowByte = 20
    PermissionSpan = 32
    Styles = {"table", "stream"}
    HeaderWindow = 12
    TailWindow = 12
    RelocationWindow = 6
    DictWindow = 12
    Sources <- MCSources
    Jobs <- MCJobs
    AngleLimit = 488
    Spelled <- MCSpelled
    Folders <- MCFolders
    Orders <- MCOrders
    Cuts <- MCCuts
    Merges <- MCMerges
    Rotations <- MCRotations
    MaxRewrites = 2
    Stem = "doc"
    MaxMeddling = 1
    MaxCommands = 3
    Base = 16
    IntBytes = 2
    LongBytes = 2
    ProtocolVersion = 1
    MinWidth = 1
    MaxWidth = 3
    MaxHeight = 4
    MaxPixels = 4
    MaxText = 3
    MaxHello = 12
    Scripts <- MCScripts
    Details <- MCDetails
    Lies <- MCLies
    SourcePages = {1, 2}
    FileOrder <- MCFileOrder
    Arrangements <- MCArrangements
    Concurrency = 2
    KeepAround = 1
    Rooms = {2, 3}
    Zooms = {1, 2}
    Gestures <- MCGestures
    ByteBits = 4
    Radix = 9
    GroupBytes = 3
    MaxDecoded = 10
    MaxColors = 2
    CodeJobs <- MCCodeJobs
    MaxNumber = 15
    ExactDigits = 1
    FilePages <- MCFilePages
    Typed <- MCTyped
    TypedEvery <- MCTypedEvery
    Filled <- MCFilled
    MaxMerged = 3
    BannerGestures <- MCBannerGestures
    FilePageCount = 2
    ByteValues = 4
    WordBytes = 2
    DrawBytes = 4
    MaxIovs = 3
    StderrLimit = 3
    AnswerLimit = 5
    Guests <- MCGuests
    Vectors <- MCVectors
    MaxCalls = 2
    OctetValues = 4
    CountOctets = 2
    MaxMessage = 3
    Directories <- MCDirectories
    Offers <- MCOffers
    Shelves <- MCShelves
    CliCommands <- MCCliCommands
    MaxGiven = 2
SPECIFICATION LibrarySpec
INVARIANTS
    ChainFollowsTheNorm
    ReadsWhatIsStored
    WrittenReadsBack
    OutputStands
    OutputSaysWhatWasAsked
    FilesStandAsTold
    FramesCarryWhatWasSaid
    ImagesAreCurrent
    NothingWaitsForNobody
    CodesReadBack
    BannersSayWhatIsSo
    CallsStand
    ContractStands
    CommandsEndAsTold
PROPERTY OpeningAdvances
CHECK_DEADLOCK FALSE
