\* Requests at the boundaries of their fields; every call and process may fail.
CONSTANTS
    Trays = {0, 1}
    Enables = {0, 1}
    Timeouts = {0, 10, 240, 241}
    Levels = {0, 200}
    Locals = {0, 1}
    Faults = {"call", "reply", "loop", "ipmid", "required"}
    MaxCmds = 7
    Loop = Loop
SPECIFICATION FairSpec
INVARIANTS TypeOK TimerOfLastPolicy StopIsTemporary
PROPERTIES LoopResumes
