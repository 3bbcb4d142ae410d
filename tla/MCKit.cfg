INIT KitInit
NEXT KitNext
CONSTANTS
    Package <- MCPackage
    Binding <- MCBinding
    Content <- MCContent
    Meta <- MCMeta
    Released <- MCReleased
    Parent <- MCParent
    ParentVersions <- MCParentVersions
    Settings <- MCSettings
    Base <- MCBase
    Alternatives <- MCAlternatives
    MaxChanges = 2
    GoodPrefix = {"/notes", "/dates"}
    GoodSchema = {"notes", "dates"}
    GoodResource = {"kit:revisions"}
    Core = {">=2,<3"}
    Catalog = {1, 2, 3}
    Title <- MCTitle
    Distribution <- MCDistribution
    Known <- MCKnown
    First <- MCFirst
    Host = {7, 8}
    MaxEdits = 3
    Owners = 2
    Variable = {"KEY", "URL"}
    Declaration <- MCDeclaration
    Requiring <- MCRequiring
    Use <- MCUse
    Declarations <- MCDeclarations
    Own <- MCOwn
    Identifier <- MCIdentifier
    MaxPackages = 3
    MaxRewrites = 3
    Post <- MCPost
    Weights <- MCWeights
    Keyword <- MCKeyword
    Schema <- MCSchema
    Depth <- MCDepth
    MaxDepth = 3
    Output <- MCOutput
    Parameter <- MCParameter
    Value = "value"
    Instance <- MCInstance
    Count = {1, 2}
    MaxPosts = 3
    Library = {9}
    Version = {1, 2}
    Command = {"start", "channel", "feed", "remind"}
    Reserved = {"start"}
    Key = {"language", "timezone", "clock"}
    LanguageKey = "language"
    NoKey = "none"
    NoSchema = "public"
    AnySource = "any"
    Provided = {"job_fired"}
    Declared = {}
    ToolCore = 2
    ProductCore = 2
    NoBinding = NoBinding
    ChannelsOld = ChannelsOld
    ChannelsNew = ChannelsNew
    RemindersDefault = RemindersDefault
    Taken = {"channel"}
    Broken = {"manifest_invalid", "registration_bypass"}
    MaxTroubles = 1
INVARIANTS CheckoutInstalls DoneIsWhole MechanicalInstallBinds WritesAreGeneratable EdgesAreSound SelectionIsNewest CheckedOnceIsAccepted StartsOnlyChecked MergeIsOrderFree TopIsReproducible ArtifactMeetsRequirements
\* the judging parts end
CHECK_DEADLOCK FALSE
