\* A GEOBAN is set while a client with a type G exception is connected.
SPECIFICATION Spec
CONSTANTS
    s1 = s1  s2 = s2  n1 = n1  n2 = n2  gw = gw  ip1 = ip1  None = None
    Slots = {s1, s2}
    Nicks = {n1, n2}
    Ips = {ip1}
    MaxId = 2
    MaxPerIp = 0
    Gateways = {}
    ExemptIps = {}
    ListedIps = {}
    ServerPassword = FALSE
    NospoofEnabled = FALSE
    DnsblConfigured = FALSE
    TlsListeners = {FALSE}
    BanSpace <- GeobanSpace
    ElineSpace <- GeobanElines
    Faults = {}
    Commands = {"NICK", "USER"}
SYMMETRY SlotSymmetry
PROPERTIES GeobanSparesExempt
CHECK_DEADLOCK FALSE
