\* Five slots: every one of the four removal cases, with neighbours on both
\* sides of a middle entry, and every order of insertion.
CONSTANT MaxSize = 5
SPECIFICATION Spec
INVARIANTS TypeOK ForeachVisitsListed BackwardMirrorsForward ScanCoversListed
PROPERTY ImplementsActiveSet
