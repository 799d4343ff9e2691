CONSTANTS
    Mod <- MCMod    Jar <- MCJar    Clutter = {}    Build <- MCBuild
    IdOf <- MCIdOf    SizeOf <- MCSizeOf
    NoId = NoId    Absent = Absent    OptionalSet = {"extras"}    Unset = Unset
    File <- MCFile    Dir <- MCDir    Content <- MCContent    NoFile = NoFile
    Under <- MCUnder    Marker <- MCMarker
    Null = Null    Bad = Bad    Nowhere = Nowhere
    Release = {"r1", "r2", "r3"}    Meta <- MCMeta    Resource = {"n1", "n2"}    None = None
    Mark = Mark    Torn = Torn    Plain <- MCPlain    Text = Text
    UserMods <- MCUserMods    UserFiles <- MCUserFiles
    Careful = TRUE    MaxEdits = 1    MaxStops = 1    MaxReleases = 1
SPECIFICATION Spec
CHECK_DEADLOCK FALSE
INVARIANTS ModsAsPublished FilesAsPublished NativesWhole NativesOfRecord
PROPERTIES OwnModsStay RemovedStays RemovalsTold
