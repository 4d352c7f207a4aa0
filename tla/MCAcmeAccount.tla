--------------------------- MODULE MCAcmeAccount ---------------------------
EXTENDS AcmeAccount

CONSTANTS k1, k2

MCKeys == {k1, k2}

=============================================================================
