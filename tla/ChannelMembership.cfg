\* Two channels that redirect to each other, every membership command and the
\* operators' overrides, while allocations fail.
SPECIFICATION Spec
CONSTANTS
    x1 = x1  x2 = x2  f = f  g = g  c1 = c1  c2 = c2  m1 = m1  None = None
    Clients = {x1, x2}
    Accounts = {}
    Channels = {c1, c2}
    Masks = {m1}
    Keys = {}
    MaskMatches <- OneMask
    MaxLimit = 1
    Opers = {}
    NetAdmins = {x1}
    Overrides = {x1}
    SecureClients = {}
    MaxChannels = 2
    MaxChannelsPerClient = 2
    MaxInvites = 1
    MaxMasks = 1
    ModeLines <- MembershipLines
    Locks = {}
    AccessLevels = {}
    Commands = {"PART", "KICK", "MODE", "SAJOIN", "SAPART", "SAMODE", "RESTART"}
    Faults = {"alloc"}
INVARIANTS TypeOK MembershipTwoSided PrivilegesAreTheUnion
