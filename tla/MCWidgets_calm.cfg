\* No callback refuses, scripts leave the options alone, the content keeps its
\* height, and replies are in time.
SPECIFICATION WidgetsFairSpec
CONSTANTS
    Running = {"notices", "dialogs", "panel", "styles"}
    Messages = {m1, m2, m3}
    Sticky = {m3}
    NoOpen = {}
    NoClose = {}
    Keeps = {}
    NoMouse = NoMouse
    Pool = 2
    MaxFx = 2
    MayToggle = FALSE
    Changes = {}
    Late = FALSE
    MaxResizes = 2
    Dialogs <- MCDialogs
    Type <- MCType
    FollowUp <- MCFollowUp
    Windows = {200, 300, 600}
    Height = 120
    Offset <- MCOffset
    NoDialog = "none"
    NoAnswer = "no answer"
    Panel = 120
    MinBar = 40
    WheelStep = 30
    Contents = {120, 240, 480}
    Places = {0, 30, 60, 80}
    PageTops = {0, 70}
    MaxOrphans = 2
    Pickers = {"input", "selector"}
    Flat = {}
    FromInput = {"input"}
    Colors = {red}
    MaxDrags = 2
    Samples <- MCSamples
    NearRGB = 2
    NearHSB = 7
    Charts <- MCCharts
    NoNumber = NaN
    Options <- MCOptions
    LegendWidths = {0, 4, 9}
    CanvasWidth = 10
    CanvasHeight = 8
    MaxErrors = 1
    MaxSets = 1
    Links = {"link1", "link2"}
    InPage = {"inpage"}
    Scripted = {"script"}
    Query <- MCQuery
    Device <- MCDevice
    UnitOf <- MCUnitOf
    NoValue = NaN
    Widths = {2, 3, 4, 5}
    ScrollBar = 1
    Thresholds = {0}
    red = red
    blue = blue
    NaN = NaN
PROPERTIES
    NoticesComeAndGo
    DialogsAreCentred
    TimersGetThere
CHECK_DEADLOCK FALSE
