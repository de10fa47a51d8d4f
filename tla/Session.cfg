SPECIFICATION Spec
CONSTANTS
    Names <- MCNames
    Inherited <- MCInherited
    Directories <- MCDirectories
    Commands <- MCCommands
    DefaultPath <- MCDefaultPath
    MaxCommands = 4
    CdTexts <- MCCdTexts
    PathTexts <- MCPathTexts
    ExitTexts <- MCExitTexts
INVARIANTS TypeOK UniqueNames PwdNamesCwd NestedKeeps CanonicalAsSpecified SearchAsSpecified NumbersAsSpecified
PROPERTIES CdLands CdAtomic ImplementsStore
CHECK_DEADLOCK FALSE
