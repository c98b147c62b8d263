CONSTANTS
    s1 = s1
    s2 = s2
    c = c
    d = d
    e1 = e1
    e2 = e2
    f = f
    g = g
    h = h
    cut = cut
    Absent = Absent
    Times <- MCTimes
    Names = {1, 2}
    HourOf <- MCHour
    DayOf <- MCDay
    WeekOf <- MCWeek
    Hourly = 3
    Daily = 7
    Weekly = 11
    Spaces = {s1, s2}
    Files <- MCFiles
    MaxVersions = 2
    DiesIn = {"publish", "sweep"}
SPECIFICATION PartsSpec
SYMMETRY MCSymmetry
INVARIANT PartsTypeOK
INVARIANT ReferencedIsStored
INVARIANT UploadsSurvive
INVARIANT EverySlotIsCovered
INVARIANT MergeFollowsRule
INVARIANT MergeLosesNothingSilently
INVARIANT MergeResumes
INVARIANT DiffIsExact
INVARIANT ArrivesAtGoal
PROPERTY UnrecordedIsKept
CHECK_DEADLOCK FALSE
