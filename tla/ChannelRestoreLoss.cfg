\* A JOIN whose restore fails clears the live bans of a channel that has
\* members; the next MODE saves what is left.
SPECIFICATION Spec
CONSTANTS
    x1 = x1  x2 = x2  f = f  g = g  c1 = c1  c2 = c2  m1 = m1  None = None
    Clients = {x1, x2}
    Accounts = {f}
    Channels = {c1}
    Masks = {m1}
    Keys = {}
    MaskMatches <- OneMask
    MaxLimit = 1
    Opers = {}
    NetAdmins = {x1}
    Overrides = {x1}
    SecureClients = {}
    MaxChannels = 2
    MaxChannelsPerClient = 2
    MaxInvites = 1
    MaxMasks = 1
    ModeLines <- BanLines
    Locks = {}
    AccessLevels = {}
    Commands = {"MODE", "REGISTER", "RESTART"}
    Faults = {"restore"}
PROPERTIES StoredBansSurvive
