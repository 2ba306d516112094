\* Two processes of three releases on one file.
CONSTANTS
    Openers = {p1, p2}
    NoOpener = NoOpener
    Binaries <- MCBinaries
    MaxVersion = 3
    Rows = {r1}
SPECIFICATION Spec
INVARIANTS TypeOK SchemaMatchesVersion RefusalIsJust OpenedIsMigrated
PROPERTIES RefusedIsUntouched KeysSurvive OpenerSettles
