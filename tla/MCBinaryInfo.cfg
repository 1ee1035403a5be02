SPECIFICATION Spec
CONSTANTS
    Files <- MCFiles
    Classes = {1, 2}
    Data = {1, 2}
    Extra = {0, 8}
INVARIANTS ShownIsInFile
