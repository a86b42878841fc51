SPECIFICATION Spec
CONSTANTS
    RX_DESC_NR = 3
    TX_DESC_NR = 3
    ARP_CACHE_SZ = 2
    gw = gw
    other = other
    zero = zero
    m1 = m1
    m2 = m2
    p1 = p1
    Ips <- MCIps
    NoIp = zero
    Gateway = gw
    Macs = {m1, m2}
    NoMac = NoMac
    Ports = {p1}
    NoPort = NoPort
    Arriving <- MCArriving
    MaxFrames = 4
    MaxSent = 6
INVARIANTS ArpTrue FramesAccounted TxFifo
PROPERTY RxServed
