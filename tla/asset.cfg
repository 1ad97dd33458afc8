SPECIFICATION Spec
CONSTANTS
    N = 4
    Assets <- MCAssets
INVARIANTS TypeOK OneSnapshot SecondLoopOnlyReads LoadIsExact
PROPERTY FillsInOrder
