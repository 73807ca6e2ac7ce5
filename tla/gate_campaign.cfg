SPECIFICATION Spec
CONSTANTS
    p1 = p1
    p2 = p2
    None = None
    NoId = NoId
    Promoter <- OnePromoter
    Claims <- AllClaims
    Profiles <- OneProfile
    FastProfile = "fast-320k"
    SourceTypes <- MCSource
    BuildTypes <- MCBuild
    LiveTypes <- MCLive
    AnonymousTypes <- MCAnonymous
    Ids <- MCIds
    Attested <- MCAttested
    Pools <- CampaignPools
    Release <- MCRelease
    HandEntries <- NoEntries
INVARIANTS
    TypeOK
    BitReproducibleComesLast
CHECK_DEADLOCK FALSE
