SPECIFICATION FairSpec
CONSTANTS
    x = x
    y = y
    z = z
    alice = alice
    bob = bob
    eve = eve
    User = {alice, bob}
    Home = {alice}
    Stranger = {eve}
    NoName = NoName
    Client = {x}
    Raw = {}
    Rounds <- TwoEach
    Mortal = {x}
    MayKill = {}
PROPERTIES SMTPChildEnds
CHECK_DEADLOCK FALSE
