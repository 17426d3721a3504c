SPECIFICATION Spec
CONSTANTS
    x = x
    y = y
    z = z
    alice = alice
    bob = bob
    eve = eve
    User = {alice, bob}
    Home = {alice}
    Stranger = {eve}
    NoName = NoName
    Client = {x, y, z}
    Raw = {z}
    Rounds <- OneEach
    Mortal = {x, y, z}
    MayKill = {"smtp", "pop3"}
INVARIANTS TypeOK ClientInStep
PROPERTIES ImplementsStore
CHECK_DEADLOCK FALSE
