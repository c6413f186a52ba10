\* Two requests that overlap; see MCHost for the other instances.
SPECIFICATION MCSpec
CONSTANTS
    Client = {r1, r2}
    Text = {"x", "y"}
    WebhookURL = "x"
    MaxRequests = 3
    Device = {1, 2}
    MaxAdded = 3
    MaxFaults = 2
SYMMETRY Symmetry
INVARIANTS TypesOK SettingsShown AsAsked ContainersKept
 
CHECK_DEADLOCK FALSE
