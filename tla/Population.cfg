\* A board with two FRUs, a full and a compact record, one of which may come
\* later; a record has one or two sections, the last perhaps of no bytes.
CONSTANTS
    Full = {1}
    Compact = {2}
    NumRecords = 2
    Others = {9}
    Mandatory <- MCMandatory
    Exposed = {1, 2}
    NumFrus = 2
    Dynamic = TRUE
    Lengths = {2, 3}
    Section = 2
    Header = 1
    Byte = 8
    Retries = {0, 3}
    MaxChanges = 1
    Torn = Torn
    None = None
SPECIFICATION FairSpec
INVARIANTS TypeOK SectionsTile OneRecordPerSensor CachedMeansCurrent
PROPERTIES CompactStays ChangeIsRead
