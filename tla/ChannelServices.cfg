\* One registered channel: founder, access list, mode lock, SecureOps and
\* accounts change in every order while members join, leave, log in and out
\* and change modes.
SPECIFICATION Spec
CONSTANTS
    x1 = x1  x2 = x2  f = f  g = g  c1 = c1  c2 = c2  m1 = m1  None = None
    Clients = {x1, x2}
    Accounts = {f, g}
    Channels = {c1}
    Masks = {m1}
    Keys = {}
    MaskMatches <- OneMask
    MaxLimit = 1
    Opers = {}
    NetAdmins = {x1}
    Overrides = {x1}
    SecureClients = {}
    MaxChannels = 2
    MaxChannelsPerClient = 2
    MaxInvites = 1
    MaxMasks = 1
    ModeLines <- ServiceLines
    Locks <- LockSpace
    AccessLevels = {"OP"}
    Commands = {"PART", "MODE", "IDENTIFY", "LOGOUT", "REGISTER", "ACCESS", "MLOCK", "TOPICLOCK", "SECUREOPS", "SUCCESSOR", "CSSET", "CSDROP", "NSSET", "NSDROP"}
    Faults = {}
INVARIANTS NoStaleAuthority SecureOpsHolds MlockHolds LiveIsStored
CHECK_DEADLOCK FALSE
