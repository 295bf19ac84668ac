SPECIFICATION Spec
CONSTANTS
    office = office
    admin = admin
    worker = worker
    o1 = o1
    o2 = o2
    a1 = a1
    a2 = a2
    w1 = w1
    w2 = w2
    Clients = {office, worker}
    Edits = {o1, o2, w1}
    Author <- MCAuthor
    Approvals <- MCApprovals
    Grants <- MCGrants
    Kinds = {"put", "command", "hours", "import"}
    Slots = {1, 2}
    NoSlot = 0
    MaxSends = 3
INVARIANTS
    SavedAsTold
    StaleIsGenuine
    AppliedOnce
    ApprovedWeekIsClosed
    ImportNamesWhatItReplaces
PROPERTIES
    RegisterIsShared
