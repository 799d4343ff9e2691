SPECIFICATION Spec
CONSTANTS
  Remote = {r1}
  Local = {l1}
  Recovered = {f1, f2, f3}
  Id = {a}
  TheId = a
  EntryId <- EntryIds
  MaxNum = 3
  MaxFaults = 2
  OneAtATime = TRUE
  Patient = TRUE
  Missing = Missing
INVARIANTS RestartSame OneDirectoryEach NothingVanishes
PROPERTY DataSurvives
SYMMETRY Alike
