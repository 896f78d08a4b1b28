SPECIFICATION FairSpec
CONSTANTS
    t1 = t1
    t2 = t2
    s1 = s1
    Unlimited = Unlimited
    NoTask = NoTask
    Tasks = {t1, t2}
    Subscriptions = {s1}
    AsyncSubscriptions = {}
    SubOf <- MCSubOf
    Sizes = {1, 2}
    Limits <- MCLimits
    MaxTail <- MCMaxTail
    MaxVersion <- MCMaxVersion
INVARIANTS
    TypeOK
    BytesExact
    RetentionLimits
    NoSilentGap
    RetainedIsDelivered
    NoSleepOnPending
PROPERTY
    PendingIsDelivered
