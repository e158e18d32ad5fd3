\* Five appends on pages of two rows: up to three pages.
SPECIFICATION Spec
CONSTANTS
    RowCount = 2
    MaxAppends = 5
INVARIANTS
    TypeOK
    MenuNamesItsRow
PROPERTIES
    OnlyRemovalEmptiesPage
    ListSafety
