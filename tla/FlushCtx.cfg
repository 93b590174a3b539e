CONSTANTS
    Entries = {e1, e2, e3, e4}
    BufCap = 2
    Batch = 2
SPECIFICATION Spec
PROPERTY
    DrainIgnoresCtx
