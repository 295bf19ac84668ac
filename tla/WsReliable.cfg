SPECIFICATION FairSpec
CHECK_DEADLOCK FALSE
CONSTANTS
    laptop = laptop
    phone = phone
    l1 = l1
    l2 = l2
    p1 = p1
    p2 = p2
    Tabs = {laptop, phone}
    Edits = {l1, l2, p1}
    Author <- MCAuthor
    Events = {"probe"}
    MaxEdits = 3
INVARIANTS
    ConflictIsSomebodyElse
PROPERTIES
    EditsSettle
    StalenessIsAnnounced
