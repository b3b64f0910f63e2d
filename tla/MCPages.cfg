\* The transactions page with three rows, two to a page, one save and three moves;
\* the review page with two items, one AI job and three turns.
SPECIFICATION PagesSpec
CONSTANTS
    food = food
    fuel = fuel
    j1 = j1
    None = None
    Txn = {1, 2, 3}
    Posted <- Statements
    Category = {food, fuel}
    Review = {"unreviewed", "reviewed"}
    Filters = {None, food}
    Sorts = {"occurredAt", "amount"}
    Limit = 2
    Ticks = {{1, 3}}
    Start <- Imported
    Entry <- Typed
    BulkChange <- Bulks
    MaxSaves = 1
    MaxMoves = 3
    MaxUnder = 2
    Item = {1, 2}
    Kind = {"fare", "rules"}
    Kin <- Kins
    Keyed = {"rules"}
    Conflict = {"rules"}
    Hint = {food}
    Queued <- Waits
    Run = {j1}
    Tickable = {2}
    MaxTurns = 3
    Nothing = Nothing
INVARIANTS CacheFollowsServer FormShowsRow PagesFollowOn ListFollowsQueue DecisionsAreTaken
CHECK_DEADLOCK FALSE
