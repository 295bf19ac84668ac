SPECIFICATION Spec
CHECK_DEADLOCK FALSE
CONSTANTS
    owner = owner
    flat = flat
    insurer = insurer
    kitchen = kitchen
    bath = bath
    lift = lift
    deposit = deposit
    old = old
    slash = slash
    dash = dash
    plain = plain
    current = current
    savings = savings
    card = card
    spend = spend
    top = top
    refund = refund
    supplier = supplier
    client = client
    attic = attic
    socket = socket
    plug = plug
    ana = ana
    luis = luis
    villa = villa
    loose = loose
    ref = ref
    full = full
    dear = dear
    gross = gross
    pool = pool
    Parts = {"series", "book", "bank", "contracts", "labour", "purchasing", "budgets", "parties", "trades", "imports"}
    Patterns = {slash, dash}
    Dated = {slash, dash}
    Years = {1, 2}
    Default = slash
    Reshape = FALSE
    MaxIssued = 4
    MaxStart = 4
    Customers = {owner, flat, insurer}
    Owner = owner
    BillsUnder <- MCBillsUnder
    Chapters = {kitchen, bath}
    Sale <- MCSale
    Extras = {lift}
    Price <- MCPrice
    Milestones = {deposit}
    Stage <- MCStage
    Bases = {10, 20}
    Foreign = {old}
    YearOf <- MCYearOf
    InvoiceShape = slash
    CreditShape = dash
    MaxInvoices = 3
    MaxCollections = 1
    MaxCalls = 5
    Accounts = {current, savings, card}
    Cards = {card}
    Lines = {spend, refund, top}
    AccountOf <- MCAccountOf
    QuarterOf <- MCQuarterOf
    Amount <- MCAmount
    Times <- MCTimes
    Statements <- MCStatements
    Papers = {supplier, client}
    FromSuppliers = {supplier}
    Total <- MCTotal
    PaperQuarter <- MCPaperQuarter
    FiledQuarters = {}
    MaxMoves = 4
    MaxDeeds = 6
    Variations = {attic}
    Changes = {socket, plug}
    Terms = {0, 2}
    Habits = {"newest", "grow", "hold"}
    MaxContracts = 2
    MaxEnd = 4
    MaxSteps = 9
    Workers = {ana, luis}
    Jobs = {villa, loose}
    Budgeted = {villa}
    WorkDays = {1, 2, 3}
    WeekOf <- MCWeekOf
    HiredAt <- MCHiredAt
    Bands <- MCBands
    Lengths = {1, 2}
    Slips = {}
    MaxEntries = 2
    MaxRates = 2
    MaxActs = 5
    Readings = {full, dear}
    BaseOf <- MCBaseOf
    VatOf <- MCVatOf
    GrossOf <- MCGrossOf
    Shares <- MCShares
    Misses <- MCMisses
    Refs = {ref}
    OrderedQty = 2
    Deliveries = {1, 2}
    Goods = 10
    MaxPapers = 2
    MaxBills = 2
    MaxOrders = 2
    MaxSubs = 1
    MaxHandled = 7
    ExtraQuotes = {lift}
    Cents = {10, 20}
    TypedNumbers <- MCTyped
    Liberties = {}
    MaxVersions = 3
    MaxRows = 4
    MaxEdits = 9
    tap = tap
    sink = sink
    tube = tube
    cooker = cooker
    pipes = pipes
    tiles = tiles
    TaxIds = {1}
    Manners = {}
    MaxParties = 3
    MaxMeetings = 7
    Codes = {1, 2}
    Words = {1, 2}
    Subpartidas = {tap, sink, tube}
    Untidy = {}
    MaxFilings = 7
    Blank = Blank
    SheetRows <- MCSheetRows
    FirstBook <- MCFirstBook
    Careless = {}
    MaxSheet = 2
    MaxUploads = 2
    MaxTouches = 3
INVARIANTS
    NumbersRunOn
    BookHolds
    BankReconciles
    ContractsHold
    HoursHold
    PurchasesHold
    OffersHold
    PartiesHold
PROPERTIES
    StandingStands
