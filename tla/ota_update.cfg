SPECIFICATION Spec
CONSTANTS
    AddressSpace = 6
    Layouts <- MCLayouts
    Images <- MCImages
    FactoryImage <- MCFactory
INVARIANTS
    InductiveInvariant
    Bootable
PROPERTIES
    FlashConfined
    AntiRollbackKept
