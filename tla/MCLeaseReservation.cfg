SPECIFICATION LeaseSpec
CONSTANTS
    Owner = {w1, w2}
    NoOwner = NoOwner
    LeaseDuration = 2
    MaxTime = 5
    MaxFence = 4
PROPERTIES
    ReservationsFenced
