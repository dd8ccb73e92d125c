CONSTANTS
    e1 = e1
    ErrorReports <- MCErrorReports
    SearchTypes = {"name", "phone"}
    MaxSaves = 1
    MaxRemoves = 1
    MaxLists = 1

SPECIFICATION Spec

PROPERTY RemovedContactGone
