SPECIFICATION Spec
CONSTANTS
    u1 = u1
    u2 = u2
    Uploaders = {u1}
    FileOrder <- MCFileOrder
    MaxDay = 2
    MaxChunk = 4
    KeepDays = 1
    MaxLines = 3
    MaxFaults = 0
PROPERTIES
    DeletedIsUploaded
