SPECIFICATION CatalogSpec
CONSTANTS
    ExitCodes = {0, 1}
    NameOrder <- MCNameOrder
    Limits <- MCLimits
    Requests = {}
    Configured <- MCConfigured
    Exposed = {TRUE, FALSE}
INVARIANTS
    AdvertisedIsAccepted
    GivenIsUsed
    ConventionKept
