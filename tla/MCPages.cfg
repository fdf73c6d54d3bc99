\* Every page with its script in a small instance, one page in a behaviour. The
\* widths are each threshold and the pixel below it.
SPECIFICATION PagesSpec
CONSTANTS
    Rows = {mail1, mail2, mail3}
    Headers = {head, foot}
    Dropdowns = {move, mark}
    EagerPosts = 3
    WaitingPosts = 6
    OutsidePosts = 20
    Items <- MCItems
    Target <- MCTarget
    NavWidths = {300, 449, 450}
    NavPosts = 5
    More = "more"
    Entries <- MCEntries
    Sub <- MCSub
    Label = "label"
    Widths = {300, 399, 400, 429, 430, 449, 450, 479, 480, 519, 520, 700}
    Products = 5
    Months = {"January", "February", "March", "April"}
    TableRows <- MCTableRows
    TablePosts = 3
    Posts <- MCPosts
    MaxViews = 3
    Bars = {2, 3, 4, 5, 6, 7, 8, 9, 10, 11, 12, 13, 14, 15, 16}
    Series = {"flash", "html5"}
    Indices = {0, 1, 2, 3}
    None = None
    r1 = r1
    r2 = r2
    p1 = p1
    p2 = p2
INVARIANTS
    PagesTypeOK
    HeaderTakesTurns
    NavigationIsWhole
    AsIfJustLoaded
    TableIsConsistent
    InboxFollowsBoxes
    PaginationKnowsEnds
    TipFollowsPointer
PROPERTIES
    BlogIsConsistent
