\* Three rows whose timestamps differ by less than the cursor keeps, pages of two, nobody writes.
SPECIFICATION PagerSpec
CONSTANTS
    Value = {a}
    Soft = FALSE
    MaxBuilders = 1
    MaxParts = 0
    Id = {1, 2, 3}
    SortValue = {1, 2}
    Null = Null
    Tick = 2
    PerPage = 2
    MaxWrites = 0
    MaxPages = 4
INVARIANT ChunkVisitsOnce
CHECK_DEADLOCK FALSE
