\* Three frames, the defaults and the files on; one connection is lost.
CONSTANTS
    PayloadLen <- MCPayloadLen
    MaxLosses = 1
    Garbage = {0, 1}
    Number <- MCNumber
    Dashed <- MCDashed
    Spelling <- MCSpelling
    CommandLines = {}
    Served <- MCServed
    LabelFiles <- MCLabelFiles
    ClassFiles <- MCClassFiles
    Thresholds = {0, 70}
SPECIFICATION PathFairSpec
PROPERTIES FramesAsDocumented
CHECK_DEADLOCK FALSE
