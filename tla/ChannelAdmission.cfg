\* Members come and go through restarts while the stored policy cannot always
\* be restored or saved.
SPECIFICATION Spec
CONSTANTS
    x1 = x1  x2 = x2  f = f  g = g  c1 = c1  c2 = c2  m1 = m1  None = None
    Clients = {x1, x2}
    Accounts = {f}
    Channels = {c1, c2}
    Masks = {m1}
    Keys = {}
    MaskMatches <- OneMask
    MaxLimit = 1
    Opers = {}
    NetAdmins = {x1}
    Overrides = {x1}
    SecureClients = {}
    MaxChannels = 2
    MaxChannelsPerClient = 1
    MaxInvites = 1
    MaxMasks = 1
    ModeLines <- AdmissionLines
    Locks <- InviteLock
    AccessLevels = {}
    Commands = {"PART", "MODE", "INVITE", "REGISTER", "MLOCK", "RESTART"}
    Faults = {"ready", "restore", "save"}
PROPERTIES JoinHonoursStoredPolicy RegisteredOwnershipByAccount InviteAdmitsOnce
