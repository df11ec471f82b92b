\* Two connections, over TLS or not, compete for nicknames, ids and the one
\* place per address, directly or through a gateway, while allocations and
\* lookup submissions fail.
SPECIFICATION Spec
CONSTANTS
    s1 = s1  s2 = s2  n1 = n1  n2 = n2  gw = gw  ip1 = ip1  None = None
    Slots = {s1, s2}
    Nicks = {n1, n2}
    Ips = {gw, ip1}
    MaxId = 4
    MaxPerIp = 1
    Gateways = {gw}
    ExemptIps = {}
    ListedIps = {}
    ServerPassword = FALSE
    NospoofEnabled = FALSE
    DnsblConfigured = FALSE
    TlsListeners = {TRUE, FALSE}
    BanSpace = {}
    ElineSpace <- LimitElines
    Faults = {"alloc", "submit"}
    Commands = {"NICK", "WEBIRC"}
SYMMETRY ClientSymmetry
INVARIANTS TypeOK IdIndexCoherent NickIndexCoherent CountsExact
PROPERTIES PerIpLimit
CHECK_DEADLOCK FALSE
