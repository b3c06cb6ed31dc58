CONSTANTS
    w1 = w1
    w2 = w2
    w3 = w3
    w4 = w4
    Workspace <- MCWorkspace

SPECIFICATION Spec

INVARIANTS
    TypeOK
    SettingsIffCreated
