SPECIFICATION Spec
CONSTANTS
    Parts = {"decoding", "config", "urls", "routes", "encoding", "options"}
    Encodings <- MCEncodings
    ChunkSizes = {0, 1, 2}
    MaxChunk = 2
    MaxLength = 4
    HeaderNames = {"accept", "agent", "lang", "own"}
    HeaderValues = {"d", "a", "b", "u1", "u2"}
    DefaultHeaders <- MCDefaultHeaders
    ProfileHeaders <- MCProfileHeaders
    NoProfile = NoProfile
    UserHeaders <- MCUserHeaders
    UserParams <- MCUserParams
    Texts <- MCTexts
    Bases <- MCBases
    CopyArgs <- MCCopyArgs
    SchemeLength <- MCSchemeLength
    LabelLength <- MCLabelLength
    EnvProxies <- MCEnvProxies
    NoProxies <- MCNoProxies
    UserMounts <- MCUserMounts
    Requests <- MCRequests
    Files = {"f", "g"}
    Size <- MCSize
    Bodies <- MCBodies
    HeaderLength = 2
    BoundaryLength = 1
    ChunkSize = 2
    Transmissions = 2
    Arguments <- MCArguments
    ClientMappings <- MCClientMappings
    RequestMappings <- MCRequestMappings
    Mappings <- MCMappings
    NestedKeys <- MCNestedKeys
    Emulations <- MCEmulations
    ProxyLists <- MCProxyLists
INVARIANTS ChunkingTransparent SettingsSourced UrlsSound MountChosen FramingSound OptionsInOrder
CHECK_DEADLOCK FALSE
