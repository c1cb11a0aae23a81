CONSTANTS
    Nodes = {1, 2}
    ToolId = 0
    ToolDatagrams <- MCToolDatagrams
    HandlerResult <- MCHandlerResultLong
    Overhead = 6
    RxCap = 2
    MaxTransmissions = 2
SPECIFICATION Spec
PROPERTIES
    ReplyCarriesResult
