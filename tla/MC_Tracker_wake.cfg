CONSTANTS
    r1 = r1
    r2 = r2
    r3 = r3
    Id <- MC_Id
    Timeout = 2
    Slack = 1
    MaxWakes = 2
SPECIFICATION TrackerSpec
INVARIANT OneWakePerTick
