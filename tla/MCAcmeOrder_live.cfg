CONSTANTS
    h1 = h1  h2 = h2  a1 = a1  a2 = a2  n1 = n1  n2 = n2  n3 = n3
    Handles <- MCOneHandle
    Authzs <- MCTwoAuthzs
    Nonces <- MCTwoNonces
    NoNonce = NoNonce
    EmptyNonce = EmptyNonce
    HeadNonce = HeadNonce
    MalformedNonceHeader = FALSE
    MissingNonceHeader = TRUE
    MissingLocation = TRUE
SPECIFICATION FairSpec
PROPERTY PollingEnds
