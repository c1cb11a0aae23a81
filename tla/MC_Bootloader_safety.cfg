CONSTANTS
    Nodes = {1, 2}
    ToolId = 0
    ToolDatagrams <- MCToolDatagrams
    HandlerResult <- MCHandlerResult
    Overhead = 6
    RxCap = 2
    MaxTransmissions = 2
SPECIFICATION Spec
INVARIANTS
    TypeOK
    DispatchSound
    TimeoutFallbackSafe
    FallbackInv
    DispatchInv
PROPERTY
    ExecOnLastChunk
