SPECIFICATION DbgpSpec
CONSTANTS
    NADDR = 2
    FAIL_TRSH = 1
    RETRY = 2
    SETADDR = TRUE
    MaxOut = 3
    MaxIn = 1
    MaxFaults = 2
INVARIANTS AddressAgrees DamageBounded
PROPERTY Recovers
