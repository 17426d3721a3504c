SPECIFICATION Spec
CONSTANTS
    x = x
    y = y
    z = z
    alice = alice
    bob = bob
    eve = eve
    User = {alice, bob}
    Home = {alice, bob}
    Stranger = {eve}
    NoName = NoName
    Client = {x, z}
    Raw = {z}
    Rounds <- OneEach
    Mortal = {}
    MayKill = {}
PROPERTIES KeepsPromise
CHECK_DEADLOCK FALSE
