SPECIFICATION MCSpec
CONSTANTS
    Ids = {1, 2, 3, 4}
    PageSize = 2
    MaxTime = 3
    Start = 1
    End = 3
    Captures = {1, 2}
    Links = {1, 2, 3}
    Spellings = {"a", "b", "c"}
    SameLink <- MCSameLink
    Calls = {c1, c2}
    Entries = {e1, e2}
    Tags = {"go"}
    All = "all"
    Given <- MCGiven
    Keys = {"utm", "v", "w"}
    Tracking = {"utm"}
    Tails <- MCTails
    Endings <- MCEndings
    h1 = h1
    h2 = h2
    Podcasts = "podcasts.apple.com"
    GoogleApis = "www.googleapis.com"
    Hosts = {h1, h2, "podcasts.apple.com", "www.googleapis.com"}
    Jobs <- MCJobs
    Site <- MCSite
    EstimatesTime = {h1}
    WebPages <- MCWebPages
    PodcastPages <- MCPodcastPages
    MaxRedirects = 3
    Tabs = {t1, t2}
    Servers = {s1, s2}
    MaxToken = 3
SYMMETRY Symmetry
INVARIANTS NothingTwice NothingSkipped EditLinkReturnsHere
    KeyIsThePage SharedLinkSurvives
    BestTagWins DurationIsFound SummaryKeyIsThePages
    LoginsLast
PROPERTIES NoSilentDuplicate RowsVanishForReason
CHECK_DEADLOCK FALSE
