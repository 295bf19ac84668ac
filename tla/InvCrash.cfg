SPECIFICATION Spec
CHECK_DEADLOCK FALSE
SYMMETRY Alike
CONSTANTS
    alice = alice
    bob = bob
    q1 = q1
    q2 = q2
    tiles = tiles
    skylight = skylight
    Workers = {alice, bob}
    Quotes = {q1, q2}
    Lines = {tiles, skylight}
    Optional = {skylight}
    Crashes = TRUE
    MaxEvents = 4
INVARIANTS
    NumbersAreUnique
    BilledWasAccepted
    JournalTells
