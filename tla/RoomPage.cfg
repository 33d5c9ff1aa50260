\* One page, one file, one download, every fault; the file is set back, or spoken of
\* again, up to twice.
CONSTANTS
    Clients = {"p"}
    Rooms = {"math"}
    RoomOf <- MCRoomOf
    SendCap = 1
    MaxEvents = 2
    Files = {"essay"}
    MaxClicks = 1
    MaxRepeats = 2
    Faults = {"publish", "requests", "api"}
SPECIFICATION FairPageSpec
INVARIANTS
    PageTypeOK
    MissingIsExplained
PROPERTIES
    DeliveredStaysHidden
    PushedIsShown
    DownloadedIsHidden
\* The page is closed, or everything has been shown.
CHECK_DEADLOCK FALSE
