\* A release after an acquisition.
SPECIFICATION FairSpec
CHECK_DEADLOCK FALSE
CONSTANTS
    p1 = p1  p2 = p2  p3 = p3
    m1 = m1  m2 = m2  x1 = x1  x2 = x2  x3 = x3
    i1 = i1  i2 = i2  s1 = s1  s2 = s2
    NoProc = NoProc  NoMac = NoMac  NoIp = NoIp  NoServer = NoServer
    Proc = {p1, p2}
    Mac = {m1, m2}
    Xid = {x1, x2}
    Ip = {i1, i2}
    Server = {s1, s2}
    dhmac <- OneMac
    dhcp_xid <- OwnXids
    req_ip <- NoReqIp
    PoolOf <- TwoPools
    Timed = {}
    Bind = {}
    Nagios = {}
    Bcast = {}
    Releaser = {p2}
    Residue <- Garbage
    Reserve = FALSE
    Faults = {}
PROPERTIES
    ReleaseNamesLoggedLease
