SPECIFICATION Spec
CONSTANTS
    w1 = w1
    w2 = w2
    bot = bot
    api1 = api1
    api2 = api2
    Nobody = Nobody
    Wallets = {w1, w2}
    Scorers = {bot, api1, api2}
SYMMETRY Symmetry
INVARIANTS
    TypeOK
    PendingIsQueued
    QueueBounded
