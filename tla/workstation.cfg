SPECIFICATION Spec
CONSTANTS
    Identity <- MCIdentity
    Fingerprint <- MCFingerprint
    Vehicles <- MCVehicles
    Pids = {"rpm"}
INVARIANTS
    InductiveInvariant
    FingerprintGated
    HandOver
    SelectionConsistent
PROPERTIES
    PrefsConfined
