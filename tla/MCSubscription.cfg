SPECIFICATION FairSpec
CONSTANTS
    Guards = {g1}
    Scripts = {s1, s2}
    Nobody = Nobody
    TrialDays = 1
    MonthDays = 2
    GraceDays = 1
    RetentionDays = 1
    Months = {1}
    Horizon = 5
    MaxFailures = 1
INVARIANTS TypeOK LapsedIsReadOnly
PROPERTIES AccessImprovesOnlyByPayment MonthsAddUp PurgedOnlyAfterRetention DueIsPurged
CHECK_DEADLOCK FALSE
