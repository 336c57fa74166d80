SPECIFICATION MonitorSpec
CONSTANTS
    a1 = a1
    Accounts = {a1}
    Conns = {c1, c2}
    Namespaces <- MCNamespaces
    Subs <- MCSubs
    MaxSubs = 2
    MONITOR_EXPIRY_TIME = 1
INVARIANTS
    SubscriptionsAddUp
PROPERTIES
    SubscribersNotified
CHECK_DEADLOCK FALSE
