CONSTANTS
    e1 = e1
    ErrorReports <- MCErrorReports
    SearchTypes = {"name", "phone"}
    MaxSaves = 2
    MaxRemoves = 1
    MaxLists = 2

SPECIFICATION Spec

INVARIANT TypeOK
PROPERTY RemoveFiltersUniqueIds
