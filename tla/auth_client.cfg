SPECIFICATION ClientSpec
CONSTANTS
    u1 = u1
    r1 = r1
    r2 = r2
    t1 = t1
    t2 = t2
    t3 = t3
    c1 = c1
    c2 = c2
    c3 = c3
    None = None
    Users = {u1}
    Account = u1
    Requests = {r1, r2}
    Tokens = {t1, t2, t3}
    Calls = {c1, c2}
    MaxLogins = 1
    MaxMails = 1
    MaxVersion = 1
    MaxFaults = 1
INVARIANTS
    KeptTokenIsLive
    NeverLosesToItself
PROPERTIES
    CallsSettle
CHECK_DEADLOCK FALSE
