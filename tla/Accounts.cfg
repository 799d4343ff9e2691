CONSTANTS
    Name = {n1, n2}    NoToken = NoToken    Rounds = 5
    NoKey = NoKey    NoProvider = NoProvider
    Instance = {i1}    Add = Add    NoOne = NoOne
    Config <- MCConfig    KindOf <- MCKindOf    Gone = Gone
    MaxIds = 3    MaxFlows = 2    MaxEdits = 2    MaxMishaps = 1
SPECIFICATION Spec
CHECK_DEADLOCK FALSE
INVARIANTS KeysSound TokensMatch PlaysAsShown
PROPERTIES AddEnds
