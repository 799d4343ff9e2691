CONSTANTS
    Platform <- MCPlatform
    All = All
    Anything = Anything
    Unruled = Unruled
    NoIndex = NoIndex
    Patches <- MCPatches
    LwjglGroups = {"lwjgl"}
    LwjglOf <- MCLwjglOf
    Specs <- MCSpecs
    Id = {"pack", "other"}
    IndexId = {"17"}
    Authlib <- MCAuthlib
    MirrorTarget <- MCPlatform
    Package <- MCPackage
    None = None
    MaxBuilds = 2
    Wanted = "pack"
    Java = {8}
SPECIFICATION Spec
INVARIANTS  LaunchComplete
CHECK_DEADLOCK FALSE
