\* An operator bans while another client registers.
SPECIFICATION Spec
CONSTANTS
    s1 = s1  s2 = s2  n1 = n1  n2 = n2  gw = gw  ip1 = ip1  None = None
    Slots = {s1, s2}
    Nicks = {n1, n2}
    Ips = {gw, ip1}
    MaxId = 2
    MaxPerIp = 0
    Gateways = {gw}
    ExemptIps = {}
    ListedIps = {}
    ServerPassword = FALSE
    NospoofEnabled = FALSE
    DnsblConfigured = FALSE
    TlsListeners = {FALSE}
    BanSpace <- AllBans
    ElineSpace <- KlineElines
    Faults = {"bandb"}
    Commands = {"NICK", "USER", "WEBIRC"}
SYMMETRY SlotSymmetry
PROPERTIES NoEntryUnderBan
CHECK_DEADLOCK FALSE
