\* The caller's credentials may hold both the server URL and a URL snapshot
\* (serde accepts any combination of the two optional fields).
CONSTANTS
    k1 = k1
    k2 = k2
    Keys <- MCKeys
    LegacyKey = LegacyKey
    NoAccount = NoAccount
    NoCreds = NoCreds
    NoReply = NoReply
    MaxDirVersion = 2
    EabRequired = TRUE
    MissingLocation = TRUE

SPECIFICATION Spec

PROPERTY RestoreNeedsExactlyOne
