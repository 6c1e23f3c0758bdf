\* Two rails, heartbeats at any time, reads and D-Bus calls that may fail.
CONSTANTS
    NumRails = 2
    Services = {"fan", "adc"}
    Faults = {"adc", "dbus"}
SPECIFICATION FairSpec
INVARIANTS TypeOK VoltageGate PowerSequence
PROPERTIES BootCompletes
