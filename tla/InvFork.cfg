SPECIFICATION Spec
CHECK_DEADLOCK FALSE
CONSTANTS
    alice = alice
    bob = bob
    q1 = q1
    q2 = q2
    tiles = tiles
    skylight = skylight
    Workers = {alice, bob}
    Quotes = {q1}
    Lines = {tiles}
    Optional = {}
    Crashes = FALSE
    MaxEvents = 4
INVARIANTS
    ChainIsLinked
