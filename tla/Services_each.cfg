\* Each of the services around ingestion, alone.
SPECIFICATION Spec
CONSTANTS
    Docs = {1, 2}
    RowSets <- MCRowSets
    NoRows <- MCNoRows
    Workspaces = {a, b}
    Nowhere = Nowhere
    Texts <- MCTexts
    Queries <- MCQueries
    NoDoc = NoDoc
    Limit = 1
    Forgeries <- MCForgeries
    NoReference = NoReference
    MaxSets = 2
    Uploaders = {u1, u2}
    Ids = {1, 2, 3, 4}
    MaxLost = 1
    Files <- MCFiles
    MaxBytes = 3
    MaxDocuments = 2
    MaxStorage = 3
    Threads = {t1, t2}
    Attempts = 2
    Window = 2
    AuthAttempts = 1
    AuthWindow = 3
    Undeclared = Undeclared
    Malformed = Malformed
    Lengths <- MCLengths
    MaxBody = 2
    MaxNow = 4
    MaxChars = 5
    Overlap = 3
    Paragraphs <- MCParagraphs
    Tables <- MCTables
    Headings <- MCHeadings
    Blanks = {0, 2, 3}
    Levels = {1, 2}
    MaxBlocks = 3
    MaxPages = 2
    BatchSize = 2
    MaxAttempts = 2
    MaxTexts = 5
    FlagScore = 500000
    QuarantineScore = 800000
    QuarantineOnHigh = TRUE
    Passages <- MCPassages
    Seams <- MCSeams
    MaxChunks = 3
SYMMETRY Symmetry
INVARIANTS
    TypeOK
    SearchIsExact
    OwnWorkspaceOnly
    CitationsHold
    DocumentQuotaBounded
    StorageQuotaBounded
    CopiesBounded
    RowsHaveObjects
    WindowHolds
    RefusalsAreDue
    AuthHoldsUnshared
    RefusedOnlyForLongRuns
    SplitKeepsContext
    FiledUnderLastHeading
    VectorsAligned
    ReportIsWorst
    NeverDiluted
\* The limiter's clock, the document's pages, the texts and the chunks come to their ends.
CHECK_DEADLOCK FALSE
