SPECIFICATION Spec
CHECK_DEADLOCK FALSE
CONSTANTS
    laptop = laptop
    phone = phone
    l1 = l1
    l2 = l2
    p1 = p1
    p2 = p2
    Tabs = {laptop}
    Edits = {l1, l2}
    Author <- MCAuthor
    Events = {"fail"}
    MaxEdits = 2
INVARIANTS
    ConflictIsSomebodyElse
