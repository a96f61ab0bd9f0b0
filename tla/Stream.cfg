\* Three frames; two connections may be lost.
CONSTANTS
    PayloadLen <- MCPayloadLen
    MaxLosses = 2
    Garbage = {0, 1, 3}
    Number <- MCNumber
    Dashed <- MCDashed
    Spelling <- MCSpelling
    CommandLines <- MCCommandLines
    Served <- MCServed
    LabelFiles <- MCLabelFiles
    ClassFiles <- MCClassFiles
    Thresholds = {0, 70}
SPECIFICATION PathFairSpec
INVARIANTS IInv OrderIsIrrelevant
PROPERTIES ImplementsChannel EveryFrameArrives AlertIsTheRule
CHECK_DEADLOCK FALSE
