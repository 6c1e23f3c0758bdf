\* Every reply of the bridge, every request.
CONSTANTS
    Scan = {16, 32, 65, 69}
    ChmAddr = 32
    Ids = {0, 1, 2, 3, 4}
    LinkBytes = {0, 1, 255}
    Replies = {"data", "empty", "none"}
    Null = Null
    Absent = Absent
    Dead = Dead
SPECIFICATION FairSpec
INVARIANTS TypeOK TablesAgree
PROPERTIES ManagerComesBack
