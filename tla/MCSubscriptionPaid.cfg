SPECIFICATION FairSpec
CONSTANTS
    Guards = {g1}
    Scripts = {s1, s2}
    Nobody = Nobody
    TrialDays = 1
    MonthDays = 1
    GraceDays = 1
    RetentionDays = 1
    Months = {1, 2}
    Horizon = 5
    MaxFailures = 0
INVARIANTS PaidPeriodIsWritable
CHECK_DEADLOCK FALSE
