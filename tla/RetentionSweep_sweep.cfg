SPECIFICATION Spec
CONSTANTS
    Identity <- MCIdentity
    Token <- MCToken
    Nobody = Nobody
    Never = Never
    None = None
    Unborn = Unborn
    Deleted = Deleted
    Swept = Swept
    Day = 1
    Days = {0, 1}
    MinDays = 1
    MaxDays = 3650
    Lifetime = {1}
    Skew = 1
    Grace = 1
    Limit = 1
    MaxEvents = 1
    MaxTime = 3
INVARIANTS TypeOK
PROPERTIES SweepSparesTheLiving NeverEarly StaleRowsDrain
CHECK_DEADLOCK FALSE
