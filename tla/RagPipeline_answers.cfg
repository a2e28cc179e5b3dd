SPECIFICATION Spec
CONSTANTS
    NumberValue <- MCNumberValue
    UnitModifiers <- MCUnitModifiers
    Stopwords <- MCStopwords
    Negations <- MCNegations
    MonthOf <- MCMonthOf
    YearOf <- MCYearOf
    IsoDates <- MCIsoDates
    FeaturesOf <- MCFeaturesOf
    RrfK = 60
    Unit = 2382660
    RerankLimit = 3
    ThresholdPct = 50
    Chunks = {1, 2, 3}
    Text <- MCText
    OcrCases <- MCOcrCases
    NoOcr <- MCNoOcr
    Queries <- MCQueries
    RawScores <- MCRawScores
    Proposals <- MCProposals
    TopK = 2
    MaxEvidence = 2
    MinEvidence = 1
    MinScore = 0
    MaxClaims = 2
    AnswerPct = 60
    LowOcr = 1191330
    FloorPct = 30
INVARIANTS
    TypeOK
    AnswersAreBacked
    RefusalsRevealNothing
    ContradictionWithheld
    UnwarnedIsClean
    VerbatimUnlessEclipsed
PROPERTY BestEvidenceFirst
