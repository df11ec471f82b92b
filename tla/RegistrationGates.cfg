\* One connection slot used by several clients in turn, one of them a WEBIRC
\* gateway: every gate is configured, and both resolvers answer late, for
\* clients that left, or never.
SPECIFICATION FairSpec
CONSTANTS
    s1 = s1  s2 = s2  n1 = n1  n2 = n2  gw = gw  ip1 = ip1  None = None
    Slots = {s1}
    Nicks = {n1}
    Ips = {gw, ip1}
    MaxId = 3
    MaxPerIp = 1
    Gateways = {gw}
    ExemptIps = {}
    ListedIps = {gw}
    ServerPassword = TRUE
    NospoofEnabled = TRUE
    DnsblConfigured = TRUE
    TlsListeners = {FALSE}
    BanSpace = {}
    ElineSpace = {}
    Faults = {"alloc", "submit"}
    Commands = {"NICK", "USER", "PASS", "CAP", "PONG", "WEBIRC"}
INVARIANTS LookupsOwned IdentityCurrent Vetted NotStranded
PROPERTIES AutoZlineJustified LookupsNeverBlock
CHECK_DEADLOCK FALSE
