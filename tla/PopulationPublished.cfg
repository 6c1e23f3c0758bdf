\* The smallest board with a full record: what becomes of its published sensor.
CONSTANTS
    Full = {1}
    Compact = {2}
    NumRecords = 2
    Others = {9}
    Mandatory <- MCMandatory
    Exposed = {1, 2}
    NumFrus = 1
    Dynamic = TRUE
    Lengths = {3}
    Section = 2
    Header = 1
    Byte = 8
    Retries = {0}
    MaxChanges = 0
    Torn = Torn
    None = None
SPECIFICATION Spec
PROPERTY PublishedStays
