SPECIFICATION MCSpec
CONSTANTS
    i1 = i1
    i2 = i2
    i3 = i3
    i4 = i4
    Ids = {i1, i2, i3, i4}
    PageSize = 2
    MaxTime = 4
    MaxPage = 3
    e1 = e1
    e2 = e2
    Entries = {e1, e2}
    Sorts <- MCSorts
    Zones <- MCZones
    DayHours = 4
    WeekDays = 2
    MonthDays = 3
    MaxChartWeeks = 1
    MaxSeconds = 50
    Asked = {1, 2, 3}
    Now = 13
INVARIANTS WalkShowsAll DatesAreLocal PartsAgree ChartIsComplete
PROPERTIES PagesAreFull
SYMMETRY Symmetry
CHECK_DEADLOCK FALSE
