SPECIFICATION Spec
CONSTANTS
    x = x
    y = y
    z = z
    alice = alice
    bob = bob
    eve = eve
    User = {alice, bob}
    Home = {alice}
    Stranger = {eve}
    NoName = NoName
    Client = {x, y}
    Raw = {}
    Rounds <- TwoEach
    Mortal = {}
    MayKill = {}
PROPERTIES KeepsPromise
CHECK_DEADLOCK FALSE
