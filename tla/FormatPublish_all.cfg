CONSTANTS
    Requests <- PairsAndTriples
    Adapters <- Formats
    Crashes = TRUE
    SignatureOf <- Signature
    None = None

SPECIFICATION Spec
INVARIANTS
    AcknowledgedIsServed
    ServedIsQueued
    RefsAreOwned
