SPECIFICATION DialogueSpec
CONSTANTS
    Contents <- MCContents
    Shapes <- MCShapes
    Requests <- MCRequests
    MaxSerial = 5
INVARIANTS SaidIsSent AnsweredTogether ThinkingFits
CHECK_DEADLOCK FALSE
