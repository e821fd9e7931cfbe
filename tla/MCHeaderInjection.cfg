SPECIFICATION Spec
CONSTANTS
    accept = accept
    cookie = cookie
    TraceParent = TraceParent
    NoName = NoName
    Names <- MCNames
    Slots = 3
    BucketCounts = {1, 2}
    BucketOf <- MCBucketOf
    ContextOf <- MCContextOf
    Added = {0, 1}
    MaxSteps = 4
    MaxDos = 2
    ItemSize = 40
    MaxReallocation = 400
    MaxDataSize = 400
    MaxHeaders = 20
    MaxFields = 22
CHECK_DEADLOCK FALSE
INVARIANTS TypeOK RequestSound OwnHeadersKept ParentIsCaller SliceWithinArray FieldsKept ServerFinds
