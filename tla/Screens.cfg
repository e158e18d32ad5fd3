\* Three screens, two overlays opened, three requests under way.
SPECIFICATION Spec
CONSTANTS
    ScreenIDs = {"List", "Detail", "Help"}
    DisplayDefaultScreen = "List"
    Objects = {"title", "total"}
    HomeOf <- MCHomeOf
    EventIDs = {"refresh", "load"}
    DstObjects <- MCDstObjects
    Listening <- MCListening
    MaxOpened = 3
    MaxUnderWay = 3
INVARIANTS
    TypeOK
    CurrentScreenShown
    OverlayCanBeClosed
    MarkedAwaitsAnswer
