CONSTANTS
    ws1 = ws1
    gws = gws
    cat1 = cat1
    r1 = r1
    r2 = r2
    None = None
    Workspace <- MCWorkspace
    Global <- gws
    Category <- MCCategory
    Request <- MCRequest
    TicksPerDay = 2
    TTLDays = 1
    QueryDays = 1
    MaxTime = 4
SPECIFICATION Spec
INVARIANTS
    StoredRecordIndexed
