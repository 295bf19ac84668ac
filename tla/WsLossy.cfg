SPECIFICATION Spec
CONSTANTS
    laptop = laptop
    phone = phone
    l1 = l1
    l2 = l2
    p1 = p1
    p2 = p2
    Tabs = {laptop, phone}
    Edits = {l1, l2, p1}
    Author <- MCAuthor
    Events = {"fail", "reload", "probe", "return"}
    MaxEdits = 3
INVARIANTS
    ToldIsStored
    UnsavedIsPendingOrWarned
PROPERTIES
    RegisterIsShared
