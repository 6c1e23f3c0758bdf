\* The heartbeat reads the rails while the boot does.
CONSTANTS
    NumRails = 2
    Services = {"fan", "adc"}
    Faults = {}
SPECIFICATION Spec
INVARIANT ReleasedOnGoodRails
