SPECIFICATION OfficeSpec
CHECK_DEADLOCK FALSE
CONSTANTS
    a = a
    b = b
    mon = mon
    tue = tue
    acme = acme
    bolt = bolt
    ana = ana
    eva = eva
    k1 = k1
    k2 = k2
    w1 = w1
    w2 = w2
    i1 = i1
    i2 = i2
    prl = prl
    iso = iso
    b1 = b1
    b2 = b2
    chq = chq
    sav = sav
    crd = crd
    Parts = {"accounts"}
    Screens = {a, b}
    Returns = FALSE
    MaxTyped = 3
    MaxLosses = 2
    MaxOpened = 2
    Phones = {a}
    Shifts = {mon, tue}
    AtOnce = 2
    MaxIds = 2
    MaxSaves = 2
    MaxFailed = 1
    Reach = 4
    Chapters = {1, 2}
    Durations = {1, 3}
    LinkTypes = {"FS", "SS", "FF"}
    Lags <- MCLags
    Pins = {3}
    Closures = {1}
    Percentages = {50, 100}
    ExtraDays = {0, 1}
    Slips = {}
    MaxPresses = 4
    Amounts = {1, 2}
    Suppliers = {acme, bolt}
    Numbers = {1}
    Partidas = {1, 2}
    Habits = {}
    MaxDeeds = 4
    NoLink = NoLink
    People = {ana, eva}
    Founders = {ana, eva}
    EnvAdmins = {}
    Links = {k1}
    Workers = {w1, w2}
    Crashes = FALSE
    MaxRequests = 2
    Qtys = {1, 2}
    Costs = {2}
    Liberties = {}
    MaxScopes = 3
    MaxItems = 5
    MaxCosts = 2
    MaxMoves = 8
    Sellers = {acme}
    BillNumbers = {1, 2}
    Freedoms = {}
    MaxPapersIn = 1
    MaxBooked = 2
    MaxSold = 2
    MaxSent = 2
    LastQuarter = 2
    MaxActions = 6
    Invoiced = {i1, i2}
    Rules = {"issued", "overdue"}
    Mishaps = {}
    MaxLives = 2
    MaxFaults = 1
    MaxTouches = 6
    Receivable = {i1, i2}
    DueDay <- MCDueDay
    Hands = {w1}
    Kinds = {prl, iso}
    Arriving = {b1, b2}
    QuarterDays = 2
    LastDay = 3
    Cushions = {0, 1}
    Lapses = {}
    MaxNotes = 3
    Shapes <- MCShapes
    Papers = {1, 2, 3, 4}
    Due <- MCDue
    PaidTo <- MCPaidTo
    PaperDay <- MCPaperDay
    DayTolerance = 1
    CentTolerance = 1
    AutoAccept = 80
    MaxCombination = 3
    Windows = {{1}, {2}}
    Likenesses = {}
    MaxLines = 3
    MaxClicks = 4
    LastBuild = 3
    Tabs = {a, b}
    Turns = {}
    MaxRecords = 2
    MaxVersion = 3
    MaxTurns = 2
INVARIANTS
    SomebodyAdministers
