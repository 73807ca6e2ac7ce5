SPECIFICATION Spec
CONSTANTS
    p1 = p1
    p2 = p2
    None = None
    NoId = NoId
    Promoter <- TwoPromoters
    Claims <- BuildClaims
    Profiles <- OneProfile
    FastProfile = "fast-320k"
    SourceTypes <- MCSource
    BuildTypes <- MCBuild
    LiveTypes <- MCLive
    AnonymousTypes <- MCAnonymous
    Ids <- MCIds
    Attested <- MCAttested
    Pools <- BuildPools
    Release <- MCRelease
    HandEntries <- Forgeries
INVARIANT
    PassedClaimsCohere
PROPERTY
    WrittenClaimsSupported
CHECK_DEADLOCK FALSE
