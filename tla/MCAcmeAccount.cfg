\* Two fresh keys (two create calls), the legacy credentials or none at the
\* start, two directory versions, EAB required, Location may be missing.
CONSTANTS
    k1 = k1
    k2 = k2
    Keys <- MCKeys
    LegacyKey = LegacyKey
    NoAccount = NoAccount
    NoCreds = NoCreds
    NoReply = NoReply
    MaxDirVersion = 2
    EabRequired = TRUE
    MissingLocation = TRUE

SPECIFICATION Spec

INVARIANT TypeOK
INVARIANT CredentialsRegistered
INVARIANT ErrorPrecedence
PROPERTY RestoreUsesCurrentDirectory
