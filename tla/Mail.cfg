SPECIFICATION FairSpec
CONSTANTS
    x = x
    y = y
    z = z
    alice = alice
    bob = bob
    eve = eve
    User = {alice, bob}
    Home = {alice}
    Stranger = {eve}
    NoName = NoName
    Client = {x, z}
    Raw = {z}
    Rounds <- ThreeX
    Mortal = {x}
    MayKill = {"smtp", "pop3"}
INVARIANTS TypeOK ClientInStep SystemInv
PROPERTIES ImplementsStore QuitAnswered ChildEnds
CHECK_DEADLOCK FALSE
