\* The services on eight configurations: tokens, sessions, memos, dropped
\* accounts, and the limiters of registrations, mails and password hashing.
SPECIFICATION Spec
CONSTANTS
    c1 = c1  c2 = c2  n1 = n1  n2 = n2  e1 = e1  e2 = e2  None = None
    Clients = {c1, c2}
    Names = {n1, n2}
    Addresses = {e1, e2}
    Configs <- AllConfigs
    IpOf <- OwnIp
    ThrottleSlots = 1
    VerifyLife = 1
    ResetLife = 1
    RegWindow = 2
    MailWindow = 2
    ArgonWindow = 3
    Minute = 3
    MaxAccounts = 2
    SaslFrames = 1
    Retention = 1
    PurgeInterval = 2
    Quota = 1
    SenderQuota = 1
    MaxMemos = 2
    MaxTime = 4
    MaxPasswords = 2
INVARIANTS SessionsCurrent MemosOfThisRegistration RatesBounded
PROPERTIES TokensHonoured MemosKept
CHECK_DEADLOCK FALSE
