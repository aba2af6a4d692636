SPECIFICATION Spec
CONSTANTS
    Name = {1, 2, 3}
    h1 = h1
    h2 = h2
    Hash = {h1, h2}
    NoHash = NoHash
    NoFile = NoFile
    Bases <- TheBases
    FirstFiles <- TheFirstFiles
    Configs <- TheConfigs
    MaxEdits = 2
    MaxFaults = 0
INVARIANTS
    RenameMovesARow
