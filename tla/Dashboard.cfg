CONSTANTS
    Rows = {1, 2, 3, 4}
    Fields = {{1, 3, 4}}
    Limits = {0, 1}
    DefaultTake = 2
    Sorts = {"desc", "asc"}
    None = None
    Events = {e1, e2}
    Orgs = {o1, o2}
    Writers = {w1, w2}
    MaxSeats = 1
    Nobody = Nobody
SPECIFICATION DashboardSpec
CHECK_DEADLOCK FALSE
INVARIANTS TypeOK MissesAtMostRemoved RepeatsAtMostInserted
INVARIANTS RateExplainedByJoins QuietViewsAgree
PROPERTIES WalkEnds FeaturedAlone
