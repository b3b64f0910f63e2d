\* Imports interleave freely.
CONSTANTS
    i1 = i1
    i2 = i2
    i3 = i3
    i4 = i4
    Import = {i1, i2, i3, i4}
    Statement <- StatementDef
    Mask <- MaskDef
    NoMask = "-"
    None = None
SPECIFICATION Spec
CHECK_DEADLOCK FALSE
INVARIANTS
    BooksMatchSources
    NoSilentMerge
    FreshImportsNotDoubled
