\* Alarms and services come and go.  Behaviours where no call fails, and
\* behaviours where every call may fail and the heartbeat may end the process.
CONSTANTS
    NumTemps = 2
    NumVolts = 1
    Faults = {"gpio", "adc", "dbus"}
SPECIFICATION FairSpec
INVARIANTS TypeOK PowerCutForAlarm
PROPERTIES AlarmCutsPower ReleaseIsPublished
