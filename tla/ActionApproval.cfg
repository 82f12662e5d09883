SPECIFICATION FairSpec
CONSTANTS
    alice = alice
    bob = bob
    Users = {alice, bob}
    Claims = {c1}
    Owner <- AliceOwns
    Actions = {a1, a2}
    Requests = {p1, p2, p3}
INVARIANTS
    DecidedOnce
PROPERTIES
    ImplementsContract
    RequestsEnd
