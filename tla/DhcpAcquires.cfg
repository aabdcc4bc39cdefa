\* Runs with -f acquire a lease.
SPECIFICATION LiveSpec
CHECK_DEADLOCK FALSE
CONSTANTS
    p1 = p1  p2 = p2  p3 = p3
    m1 = m1  m2 = m2  x1 = x1  x2 = x2  x3 = x3
    i1 = i1  i2 = i2  s1 = s1  s2 = s2
    NoProc = NoProc  NoMac = NoMac  NoIp = NoIp  NoServer = NoServer
    Proc = {p1, p2}
    Mac = {m1, m2}
    Xid = {x1, x2}
    Ip = {i1, i2}
    Server = {s1, s2}
    dhmac <- OwnMacs
    dhcp_xid <- OwnXids
    req_ip <- NoReqIp
    PoolOf <- TwoPools
    Timed = {}
    Bind = {p2}
    Nagios = {}
    Bcast = {p1, p2}
    Releaser = {}
    Residue <- Garbage
    Reserve = TRUE
    Faults = {}
PROPERTIES
    UntimedAcquires
