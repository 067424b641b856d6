\* Two requests and two desktops; three intents and two handlers; four
\* presses in the windows; two processes that connect to a host that starts twice.
SPECIFICATION MCSpec
CONSTANTS
    None = None
    cli = cli
    desk = desk
    Requesters = {cli, desk}
    Desk = desk
    Targets = {t1, k1, d1}
    Credentials = {k1}
    Deletions = {t1}
    MaxRequests = 3
    MaxSeats = 2
    MaxPending = 2
    MaxSettled = 2
    MaxDeferred = 1
    MaxWaits = 1
    Stops = TRUE
    d1 = d1
    t1 = t1
    k1 = k1
    i1 = i1
    i2 = i2
    i3 = i3
    h1 = h1
    h2 = h2
    w1 = w1
    w2 = w2
    pin1 = pin1
    pin2 = pin2
    dev1 = dev1
    Nothing = Nothing
    Procs = {1, 2}
    Keys = {pin1, pin2}
    Devices = {dev1}
    MaxStarts = 2
    MaxBoots = 2
    MaxCounter = 2
INVARIANTS SeatSafe IntentsSafe DesktopSafe ConnectSafe
PROPERTIES SettledIsFinal
CHECK_DEADLOCK FALSE
