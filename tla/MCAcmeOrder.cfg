CONSTANTS
    h1 = h1  h2 = h2  a1 = a1  a2 = a2  n1 = n1  n2 = n2  n3 = n3
    Handles <- MCHandles
    Authzs <- MCAuthzs
    Nonces <- MCNonces
    NoNonce = NoNonce
    EmptyNonce = EmptyNonce
    HeadNonce = HeadNonce
    MalformedNonceHeader = FALSE
    MissingNonceHeader = TRUE
    MissingLocation = TRUE
SPECIFICATION Spec
SYMMETRY Symmetry
INVARIANT TypeOK NonceSlotsUnspent CacheNeverAhead NoUrlMeansOrphan
PROPERTY LifecycleSpec
