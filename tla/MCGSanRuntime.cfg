CONSTANTS
    w0 = w0
    w1 = w1
    w2 = w2
    Workers <- ThreeWorkers
    SmOf <- OnePerSm3
    NumSms = 2
    NumDevices = 2
    Cells = {1, 2, 3}
    ReadClockSize = 2
    ClockBufferSize = 4
    MaxEpoch = 3
    Programs <- Launched
SPECIFICATION Spec
INVARIANTS
    
    AlarmIsRace
    TablesSound
    NoDeadlock
PROPERTIES
    ReadersKept
