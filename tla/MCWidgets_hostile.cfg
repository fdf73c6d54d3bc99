\* Callbacks that refuse, options that scripts change, content that grows,
\* replies that are late.
SPECIFICATION WidgetsSpec
CONSTANTS
    Running = {"notices", "dialogs", "panel", "fixedPanel", "picker", "colors", "pie", "styles"}
    Messages = {m1, m2, m3, m4}
    Sticky = {}
    NoOpen = {m2}
    NoClose = {m4}
    Keeps = {m3}
    NoMouse = NoMouse
    Pool = 2
    MaxFx = 2
    MayToggle = TRUE
    Changes = {"grow"}
    Late = TRUE
    MaxResizes = 3
    Dialogs <- MCDialogs
    Type <- MCType
    FollowUp <- MCFollowUp
    Windows = {200, 300, 600}
    Height = 120
    Offset <- MCOffset
    NoDialog = "none"
    NoAnswer = "no answer"
    Panel = 120
    MinBar = 40
    WheelStep = 30
    Contents = {120, 240, 480}
    Places = {0, 30, 60, 80}
    PageTops = {0, 70}
    MaxOrphans = 2
    Pickers = {"input", "selector"}
    Flat = {}
    FromInput = {"input"}
    Colors = {red, blue}
    MaxDrags = 2
    Samples <- MCSamples
    NearRGB = 2
    NearHSB = 7
    Charts <- MCCharts
    NoNumber = NaN
    Options <- MCOptions
    LegendWidths = {0, 4, 9}
    CanvasWidth = 10
    CanvasHeight = 8
    MaxErrors = 1
    MaxSets = 1
    Links = {"link1", "link2"}
    InPage = {"inpage"}
    Scripted = {"script"}
    Query <- MCQuery
    Device <- MCDevice
    UnitOf <- MCUnitOf
    NoValue = NaN
    Widths = {2, 3, 4, 5}
    ScrollBar = 1
    Thresholds = {0, 1}
    red = red
    blue = blue
    NaN = NaN
SYMMETRY Symmetric
INVARIANTS
    WidgetsTypeOK
    ClosedOnce
    PieIsConsistent
    StylesFitWindow
PROPERTIES
    ReadInPeace
    ImplementsNoticeBoard
    DialogsAreAnswered
    BarIsConsistent
    PickersAreConsistent
    ColorsAreKept
CHECK_DEADLOCK FALSE
