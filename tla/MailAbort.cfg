SPECIFICATION Spec
CONSTANTS
    x = x
    y = y
    z = z
    alice = alice
    bob = bob
    eve = eve
    User = {alice, bob}
    Home = {alice}
    Stranger = {eve}
    NoName = NoName
    Client = {x}
    Raw = {}
    Rounds <- TwoEach
    Mortal = {x}
    MayKill = {}
\* With OnlyQuitRemoves in its place: a connection lost after DELE deletes.
PROPERTIES KeepsPromise
CHECK_DEADLOCK FALSE
