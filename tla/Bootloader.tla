----------------------------- MODULE Bootloader -----------------------------
(***************************************************************************)
(* The field-update bootloader of a node on the shared CAN bus             *)
(* (src/bootloader.c): the main loop of bootloader_main, the chunked reply *)
(* of return_datagram, and what they call of the datagram codec and of the *)
(* command dispatcher (can_datagram_*, protocol_execute_command: outside   *)
(* src/, modelled from spec.md 4.1-4.3).                                   *)
(*                                                                         *)
(* Several bootloader nodes share the bus with the programming tool.  A    *)
(* frame one of them sends is queued in the receive FIFO of every other    *)
(* node, and lost for a node whose FIFO is full.  A datagram is abstracted *)
(* to what its encoding determines (destinations, command index, payload   *)
(* length) and a frame carries the k-th 8-byte slice of that encoding.     *)
(***************************************************************************)
EXTENDS Integers, Sequences, FiniteSets

CONSTANTS
    Nodes,             \* the configured IDs (config.ID) of the bootloader nodes
    ToolId,            \* the ID the programming tool sends its frames with
    ToolDatagrams,     \* the datagrams the tool may transmit
    HandlerResult,     \* HandlerResult[i]: the lengths handler i may return
    Overhead,          \* wire bytes of a datagram besides its IDs and payload
    RxCap,             \* depth of a node's receive FIFO
    MaxTransmissions   \* how many datagrams the tool starts in a behaviour

(* START_OF_DATAGRAM_MASK, line 15: bit 7 of a frame ID marks the first    *)
(* frame of a datagram; node IDs are 7 bits.                               *)
START_OF_DATAGRAM_MASK == 128
IdRange == 0..127
FrameIdRange == 0..255
ByteRange == 0..255
(* The uint8_t buf[8] of return_datagram (line 41): one frame's payload.   *)
FrameBytes == 8
(* The indices of the command table commands[] (lines 26-35); index 1 is   *)
(* command_jump_to_application.                                            *)
CommandIndices == 1..8
JumpIndex == 1

(* A datagram as its encoding determines it: the destination IDs, the      *)
(* command index (first payload byte) and the payload length.              *)
Contents == [dst : SUBSET IdRange, cmd : ByteRange, len : Nat]
Chunks == [c : Contents, k : Nat]
Frames == [id : FrameIdRange, data : Chunks]

ASSUME BootloaderAssumptions ==
    /\ Nodes \subseteq IdRange
    /\ ToolId \in IdRange \ Nodes
    /\ ToolDatagrams \subseteq Contents
    /\ \A c \in ToolDatagrams : c.dst # {} /\ c.len > 0
    /\ HandlerResult \in [CommandIndices \ {JumpIndex} -> (SUBSET Nat) \ {{}}]
    /\ Overhead \in Nat \ {0}
    /\ RxCap \in Nat \ {0}
    /\ MaxTransmissions \in Nat

(* (id & START_OF_DATAGRAM_MASK) != 0, line 105.                          *)
IsStartOfDatagram(id) == (id \div START_OF_DATAGRAM_MASK) % 2 = 1

(* Mutant of ReturnId: the marker bit is not masked off.                  *)
ReturnIdUnmasked(id) == id

(* id & ~START_OF_DATAGRAM_MASK, line 131: the sender of the last frame.  *)
ReturnId(id) == id - START_OF_DATAGRAM_MASK * ((id \div START_OF_DATAGRAM_MASK) % 2)

(* uint8_t len receives the int that protocol_execute_command returns,    *)
(* line 126: the conversion keeps the low 8 bits.                          *)
Len8(x) == x % 256

(* The reply built by return_datagram, lines 43-49: one destination, the  *)
(* len bytes of output_buf.  Its command byte is abstracted to 0, which   *)
(* is no index of the table.                                              *)
ReplyContent(dest, len) == [dst |-> {dest}, cmd |-> 0, len |-> len]

(***************************************************************************)
(* The datagram codec (spec.md 4.1): the wire encoding is the destination  *)
(* count, the IDs, the payload length, the payload and the CRC, cut into   *)
(* 8-byte chunks by can_datagram_output_bytes.                             *)
(***************************************************************************)
WireLen(c) == Overhead + Cardinality(c.dst) + c.len
NChunks(c) == (WireLen(c) + FrameBytes - 1) \div FrameBytes

(* The reassembly state.  "acc": every chunk since the header belongs to   *)
(* the datagram c the header announced; "bad": some did not, and the CRC   *)
(* will reject it once the need chunks the header announced are in;        *)
(* "junk": the bytes parsed as a header announced more than will arrive    *)
(* (or more than the buffers hold), so it completes at no chunk.           *)
NoContent == [dst |-> {}, cmd |-> 0, len |-> 0]
DecStates == [st : {"empty", "acc", "bad", "junk"}, c : Contents,
              need : Nat, got : Nat]

(* can_datagram_start.                                                    *)
DatagramStart == [st |-> "empty", c |-> NoContent, need |-> 0, got |-> 0]

(* can_datagram_is_complete and can_datagram_is_valid.  Validity assumes   *)
(* the CRC rejects every byte string that is not one datagram's encoding.  *)
IsComplete(d) == d.st \in {"acc", "bad"} /\ d.got = d.need
IsValid(d) == d.st = "acc"

(* can_datagram_input_byte over the bytes of one chunk: the states the     *)
(* decoder may be in after it.  Bytes past a complete datagram are         *)
(* ignored; a header parsed from the middle of a datagram announces a      *)
(* length the model does not know.                                        *)
InputChunk(d, ch) ==
    IF IsComplete(d) \/ d.st = "junk" THEN {d}
    ELSE IF d.st = "empty"
         THEN IF ch.k = 1
              THEN {[st |-> "acc", c |-> ch.c, need |-> NChunks(ch.c), got |-> 1]}
              ELSE {[st |-> "bad", c |-> NoContent, need |-> m, got |-> 1] : m \in 1..2}
                   \cup {[st |-> "junk", c |-> NoContent, need |-> 0, got |-> 0]}
    ELSE IF d.st = "acc" /\ ch = [c |-> d.c, k |-> d.got + 1]
         THEN {[d EXCEPT !.got = @ + 1]}
    ELSE {[d EXCEPT !.st = "bad", !.got = @ + 1]}

(* protocol_execute_command (spec.md 4.3): the handler of a table index    *)
(* returns one of its lengths; an index absent from the table gives 0.     *)
CommandResult(i) ==
    IF i \in CommandIndices \ {JumpIndex} THEN HandlerResult[i] ELSE {0}

-----------------------------------------------------------------------------
VARIABLES
    pc,             \* where each node's bootloader_main is
    noTimeoutArg,   \* arg == BOOT_ARG_START_BOOTLOADER_NO_TIMEOUT
    timeoutActive,  \* timeout_active
    expired,        \* whether timeout_reached() holds
    rx,             \* each node's receive FIFO
    dt,             \* each node's datagram decoder dt
    out,            \* the reply return_datagram is sending, and its next chunk
    result,         \* what protocol_execute_command last returned (history)
    dlog,           \* the datagrams each node has dispatched (history)
    leftBy,         \* how a node left for the application (history)
    toolOut,        \* the datagram the tool is sending, and its next chunk
    txCount,        \* how many datagrams the tool has started
    sent            \* sent[c]: how often the tool sent all chunks of c

nodeVars == <<pc, noTimeoutArg, timeoutActive, expired, dt, out, result, dlog, leftBy>>
toolVars == <<toolOut, txCount, sent>>
vars == <<pc, noTimeoutArg, timeoutActive, expired, rx, dt, out, result, dlog,
          leftBy, toolOut, txCount, sent>>

PcValues == {"boot", "top", "read", "send", "app", "halt"}
Idle == [c |-> NoContent, k |-> 0]

TypeOK ==
    /\ pc \in [Nodes -> PcValues]
    /\ noTimeoutArg \in [Nodes -> BOOLEAN]
    /\ timeoutActive \in [Nodes -> BOOLEAN]
    /\ expired \in [Nodes -> BOOLEAN]
    /\ rx \in [Nodes -> Seq(Frames)]
    /\ \A n \in Nodes : Len(rx[n]) <= RxCap
    /\ dt \in [Nodes -> DecStates]
    /\ out \in [Nodes -> [c : Contents, k : Nat]]
    /\ result \in [Nodes -> Nat]
    /\ dlog \in [Nodes -> Seq(Contents)]
    /\ leftBy \in [Nodes -> {"none", "timeout", "jump"}]
    /\ toolOut \in [c : Contents, k : Nat]
    /\ txCount \in 0..MaxTransmissions
    /\ sent \in [ToolDatagrams -> Nat]

(* The bus: frame f sent by src is queued at every other node that still  *)
(* runs the bootloader, unless its FIFO is full.                           *)
Broadcast(src, f) ==
    [m \in Nodes |-> IF m # src /\ pc[m] \notin {"app", "halt"} /\ Len(rx[m]) < RxCap
                     THEN Append(rx[m], f) ELSE rx[m]]

(* Line 75: the timeout is armed unless the boot argument suppresses it.   *)
Init ==
    /\ pc = [n \in Nodes |-> "boot"]
    /\ noTimeoutArg \in [Nodes -> BOOLEAN]
    /\ timeoutActive = [n \in Nodes |-> ~noTimeoutArg[n]]
    /\ expired = [n \in Nodes |-> FALSE]
    /\ rx = [n \in Nodes |-> <<>>]
    /\ dt = [n \in Nodes |-> DatagramStart]
    /\ out = [n \in Nodes |-> Idle]
    /\ result = [n \in Nodes |-> 0]
    /\ dlog = [n \in Nodes |-> <<>>]
    /\ leftBy = [n \in Nodes |-> "none"]
    /\ toolOut = Idle
    /\ txCount = 0
    /\ sent = [c \in ToolDatagrams |-> 0]

-----------------------------------------------------------------------------
(***************************************************************************)
(* bootloader_main                                                         *)
(***************************************************************************)

(* Lines 78-91: a valid configuration in the first or the second region;  *)
(* the decoder is set up and started.                                     *)
ConfigLoad(n) ==
    /\ pc[n] = "boot"
    /\ pc' = [pc EXCEPT ![n] = "top"]
    /\ dt' = [dt EXCEPT ![n] = DatagramStart]
    /\ UNCHANGED <<noTimeoutArg, timeoutActive, expired, rx, out, result, dlog,
                   leftBy, toolVars>>

(* Lines 82-85: neither region holds a valid configuration: while(1).    *)
ConfigInvalid(n) ==
    /\ pc[n] = "boot"
    /\ pc' = [pc EXCEPT ![n] = "halt"]
    /\ UNCHANGED <<noTimeoutArg, timeoutActive, expired, rx, dt, out, result,
                   dlog, leftBy, toolVars>>

(* Mutant of JumpOnTimeout: if (timeout_reached()), the flag ignored.     *)
JumpOnTimeoutUnguarded(n) ==
    /\ pc[n] = "top"
    /\ expired[n]
    /\ pc' = [pc EXCEPT ![n] = "app"]
    /\ leftBy' = [leftBy EXCEPT ![n] = "timeout"]
    /\ UNCHANGED <<noTimeoutArg, timeoutActive, expired, rx, dt, out, result,
                   dlog, toolVars>>

(* Lines 97-99: armed and elapsed: command_jump_to_application, which     *)
(* does not return.                                                       *)
JumpOnTimeout(n) ==
    /\ pc[n] = "top"
    /\ timeoutActive[n] /\ expired[n]
    /\ pc' = [pc EXCEPT ![n] = "app"]
    /\ leftBy' = [leftBy EXCEPT ![n] = "timeout"]
    /\ UNCHANGED <<noTimeoutArg, timeoutActive, expired, rx, dt, out, result,
                   dlog, toolVars>>

(* Lines 97 and 101: no timeout, so wait for a frame.                      *)
ReadMessage(n) ==
    /\ pc[n] = "top"
    /\ ~(timeoutActive[n] /\ expired[n])
    /\ pc' = [pc EXCEPT ![n] = "read"]
    /\ UNCHANGED <<noTimeoutArg, timeoutActive, expired, rx, dt, out, result,
                   dlog, leftBy, toolVars>>

(* Mutant of ReadTimeout: waits for a frame again without passing the     *)
(* timeout check.                                                         *)
ReadTimeoutNoCheck(n) ==
    /\ pc[n] = "read"
    /\ rx[n] = <<>>
    /\ UNCHANGED vars

(* Lines 101-103: no frame within CAN_RECEIVE_TIMEOUT: continue.          *)
ReadTimeout(n) ==
    /\ pc[n] = "read"
    /\ rx[n] = <<>>
    /\ pc' = [pc EXCEPT ![n] = "top"]
    /\ UNCHANGED <<noTimeoutArg, timeoutActive, expired, rx, dt, out, result,
                   dlog, leftBy, toolVars>>

(* Lines 105-112: the decoder states after the frame at the head of the   *)
(* FIFO, restarted first if the frame carries the start marker.           *)
Reassembled(n) ==
    LET f == Head(rx[n])
    IN  InputChunk(IF IsStartOfDatagram(f.id) THEN DatagramStart ELSE dt[n], f.data)

(* Mutant of Addressed: can_datagram_is_valid is not consulted.            *)
AddressedUnchecked(n, d) == n \in d.c.dst

(* Lines 115-124: valid, and config.ID is among the destinations.          *)
Addressed(n, d) == IsValid(d) /\ n \in d.c.dst

(* Mutant of FeedFrame: can_datagram_is_complete is not consulted.       *)
FeedFrameUnchecked(n) ==
    /\ pc[n] = "read" /\ rx[n] # <<>>
    /\ \E d \in Reassembled(n) : dt' = [dt EXCEPT ![n] = d]
    /\ rx' = [rx EXCEPT ![n] = Tail(@)]
    /\ pc' = [pc EXCEPT ![n] = "top"]
    /\ UNCHANGED <<noTimeoutArg, timeoutActive, expired, out, result, dlog,
                   leftBy, toolVars>>

(* Frame read, datagram not yet complete: back to the loop head.          *)
FeedFrame(n) ==
    /\ pc[n] = "read" /\ rx[n] # <<>>
    /\ \E d \in Reassembled(n) :
          /\ ~IsComplete(d)
          /\ dt' = [dt EXCEPT ![n] = d]
    /\ rx' = [rx EXCEPT ![n] = Tail(@)]
    /\ pc' = [pc EXCEPT ![n] = "top"]
    /\ UNCHANGED <<noTimeoutArg, timeoutActive, expired, out, result, dlog,
                   leftBy, toolVars>>

(* Lines 114-117 and 136: complete but invalid, or valid and addressed to *)
(* others: restart the decoder; a valid datagram disarms the timeout.     *)
DiscardDatagram(n) ==
    /\ pc[n] = "read" /\ rx[n] # <<>>
    /\ \E d \in Reassembled(n) :
          /\ IsComplete(d) /\ ~Addressed(n, d)
          /\ timeoutActive' = [timeoutActive EXCEPT ![n] = @ /\ ~IsValid(d)]
    /\ dt' = [dt EXCEPT ![n] = DatagramStart]
    /\ rx' = [rx EXCEPT ![n] = Tail(@)]
    /\ pc' = [pc EXCEPT ![n] = "top"]
    /\ UNCHANGED <<noTimeoutArg, expired, out, result, dlog, leftBy, toolVars>>

(* Mutant of ExecuteDatagram: lines 116 and 120 do not disarm the timer. *)
ExecuteDatagramKeepsTimer(n) ==
    /\ pc[n] = "read" /\ rx[n] # <<>>
    /\ \E d \in Reassembled(n) :
          /\ IsComplete(d) /\ Addressed(n, d)
          /\ d.c.cmd # JumpIndex
          /\ dlog' = [dlog EXCEPT ![n] = Append(@, d.c)]
          /\ \E r \in CommandResult(d.c.cmd) :
                /\ result' = [result EXCEPT ![n] = r]
                /\ pc' = [pc EXCEPT ![n] = IF Len8(r) > 0 THEN "send" ELSE "top"]
                /\ out' = [out EXCEPT ![n] =
                             [c |-> ReplyContent(ReturnId(Head(rx[n]).id), Len8(r)),
                              k |-> 1]]
    /\ dt' = [dt EXCEPT ![n] = DatagramStart]
    /\ rx' = [rx EXCEPT ![n] = Tail(@)]
    /\ UNCHANGED <<noTimeoutArg, timeoutActive, expired, leftBy, toolVars>>

(* Lines 114-136: complete, valid and addressed: the timeout is disarmed, *)
(* the command runs, and a non-zero uint8_t length starts the reply to    *)
(* the sender of the last frame; the decoder restarts.                    *)
ExecuteDatagram(n) ==
    /\ pc[n] = "read" /\ rx[n] # <<>>
    /\ \E d \in Reassembled(n) :
          /\ IsComplete(d) /\ Addressed(n, d)
          /\ d.c.cmd # JumpIndex
          /\ dlog' = [dlog EXCEPT ![n] = Append(@, d.c)]
          /\ \E r \in CommandResult(d.c.cmd) :
                /\ result' = [result EXCEPT ![n] = r]
                /\ pc' = [pc EXCEPT ![n] = IF Len8(r) > 0 THEN "send" ELSE "top"]
                /\ out' = [out EXCEPT ![n] =
                             [c |-> ReplyContent(ReturnId(Head(rx[n]).id), Len8(r)),
                              k |-> 1]]
    /\ timeoutActive' = [timeoutActive EXCEPT ![n] = FALSE]
    /\ dt' = [dt EXCEPT ![n] = DatagramStart]
    /\ rx' = [rx EXCEPT ![n] = Tail(@)]
    /\ UNCHANGED <<noTimeoutArg, expired, leftBy, toolVars>>

(* Lines 114-128 with command index 1: command_jump_to_application runs   *)
(* the application and never returns.                                     *)
JumpCommand(n) ==
    /\ pc[n] = "read" /\ rx[n] # <<>>
    /\ \E d \in Reassembled(n) :
          /\ IsComplete(d) /\ Addressed(n, d)
          /\ d.c.cmd = JumpIndex
          /\ dlog' = [dlog EXCEPT ![n] = Append(@, d.c)]
    /\ timeoutActive' = [timeoutActive EXCEPT ![n] = FALSE]
    /\ pc' = [pc EXCEPT ![n] = "app"]
    /\ leftBy' = [leftBy EXCEPT ![n] = "jump"]
    /\ rx' = [rx EXCEPT ![n] = Tail(@)]
    /\ UNCHANGED <<noTimeoutArg, expired, dt, out, result, toolVars>>

(***************************************************************************)
(* return_datagram, lines 51-70: one frame per call of                     *)
(* can_interface_send_message, the first with the start marker; a send     *)
(* that fails after CAN_SEND_RETRIES abandons the rest.                    *)
(***************************************************************************)
ReturnDatagramChunk(n) ==
    /\ pc[n] = "send"
    /\ LET k == out[n].k
           f == [id |-> IF k = 1 THEN n + START_OF_DATAGRAM_MASK ELSE n,
                 data |-> [c |-> out[n].c, k |-> k]]
       IN  /\ rx' = Broadcast(n, f)
           /\ out' = [out EXCEPT ![n].k = k + 1]
           /\ pc' = [pc EXCEPT ![n] = IF k = NChunks(out[n].c) THEN "top" ELSE "send"]
    /\ UNCHANGED <<noTimeoutArg, timeoutActive, expired, dt, result, dlog,
                   leftBy, toolVars>>

ReturnDatagramFail(n) ==
    /\ pc[n] = "send"
    /\ pc' = [pc EXCEPT ![n] = "top"]
    /\ UNCHANGED <<noTimeoutArg, timeoutActive, expired, rx, dt, out, result,
                   dlog, leftBy, toolVars>>

Node(n) ==
    \/ ConfigLoad(n) \/ ConfigInvalid(n)
    \/ JumpOnTimeout(n) \/ ReadMessage(n) \/ ReadTimeout(n)
    \/ FeedFrame(n) \/ DiscardDatagram(n) \/ ExecuteDatagram(n) \/ JumpCommand(n)
    \/ ReturnDatagramChunk(n) \/ ReturnDatagramFail(n)

(* timeout_reached() becomes true once and stays true.                     *)
Expire(n) ==
    /\ ~expired[n]
    /\ expired' = [expired EXCEPT ![n] = TRUE]
    /\ UNCHANGED <<pc, noTimeoutArg, timeoutActive, rx, dt, out, result, dlog,
                   leftBy, toolVars>>

(***************************************************************************)
(* The programming tool (not in this repository): it sends datagrams of   *)
(* ToolDatagrams chunk by chunk, and may give one up half-way (spec.md     *)
(* 4.2).  It is free to start a datagram while nodes are still replying.   *)
(***************************************************************************)
ToolChunk(c, k) ==
    /\ rx' = Broadcast(ToolId, [id |-> IF k = 1 THEN ToolId + START_OF_DATAGRAM_MASK
                                                ELSE ToolId,
                                data |-> [c |-> c, k |-> k]])
    /\ toolOut' = IF k = NChunks(c) THEN Idle ELSE [c |-> c, k |-> k + 1]
    /\ sent' = IF k = NChunks(c) THEN [sent EXCEPT ![c] = @ + 1] ELSE sent

ToolStart ==
    /\ toolOut.k = 0
    /\ txCount < MaxTransmissions
    /\ \E c \in ToolDatagrams : ToolChunk(c, 1)
    /\ txCount' = txCount + 1
    /\ UNCHANGED nodeVars

ToolContinue ==
    /\ toolOut.k > 0
    /\ ToolChunk(toolOut.c, toolOut.k)
    /\ UNCHANGED <<txCount>>
    /\ UNCHANGED nodeVars

ToolAbort ==
    /\ toolOut.k > 0
    /\ toolOut' = Idle
    /\ UNCHANGED <<rx, txCount, sent>>
    /\ UNCHANGED nodeVars

(* Every node runs the application or halts and the tool is done.         *)
Terminating ==
    /\ \A n \in Nodes : pc[n] \in {"app", "halt"}
    /\ toolOut.k = 0 /\ txCount = MaxTransmissions
    /\ UNCHANGED vars

Next ==
    \/ \E n \in Nodes : Node(n) \/ Expire(n)
    \/ ToolStart \/ ToolContinue \/ ToolAbort
    \/ Terminating

Spec == Init /\ [][Next]_vars

(* The loop of each node keeps running (every step of it is bounded: the  *)
(* receive by CAN_RECEIVE_TIMEOUT, a reply by its chunk count) and time   *)
(* passes.  Nothing is assumed of the tool.                                *)
FairSpec == Spec /\ \A n \in Nodes : WF_vars(Node(n)) /\ WF_vars(Expire(n))

-----------------------------------------------------------------------------
(***************************************************************************)
(* Properties                                                              *)
(***************************************************************************)
Occurrences(s, x) == Cardinality({i \in 1..Len(s) : s[i] = x})

(* Reassembly and dispatch (lines 105-128 with the codec): every command a *)
(* node executes is one the tool sent, addressed to that node, and no      *)
(* datagram runs more often at a node than the tool sent all its chunks,  *)
(* whatever resets, interleaved replies of other nodes, lost frames and    *)
(* abandoned transmissions came before.                                   *)
DispatchSound ==
    \A n \in Nodes : \A i \in 1..Len(dlog[n]) :
        LET c == dlog[n][i]
        IN  /\ c \in ToolDatagrams
            /\ n \in c.dst
            /\ Occurrences(dlog[n], c) <= sent[c]

(* The chunk contents of a FIFO, and the last chunk of a datagram: the   *)
(* one whose reading completes it.                                        *)
DataOf(s) == [i \in 1..Len(s) |-> s[i].data]
LastChunk(c) == [c |-> c, k |-> NChunks(c)]

(* A frame of the tool, sent with its ID (line 131 recovers ToolId).      *)
FromTool(f) ==
    f.data.c \in ToolDatagrams /\ f.id \in {ToolId, ToolId + START_OF_DATAGRAM_MASK}

(* Why dispatch is sound, as an inductive invariant: a frame is the      *)
(* tool's or a reply that addresses only the tool (replies go back to the *)
(* sender of a tool datagram, line 131); a decoder accumulating a         *)
(* datagram has read fewer chunks than its encoding has, so only reading  *)
(* the last chunk completes it; and at each node the executions of a      *)
(* datagram plus its last chunks still queued never exceed the tool's     *)
(* complete transmissions of it.                                          *)
DispatchInv ==
    /\ TypeOK
    /\ DispatchSound
    /\ \A n \in Nodes :
          /\ \A i \in 1..Len(rx[n]) :
                FromTool(rx[n][i]) \/ rx[n][i].data.c.dst \subseteq {ToolId}
          /\ out[n].c.dst \subseteq {ToolId}
          /\ dt[n].st = "acc" =>
                dt[n].need = NChunks(dt[n].c) /\ dt[n].got < dt[n].need
    /\ toolOut.k # 0 => toolOut.c \in ToolDatagrams /\ toolOut.k <= NChunks(toolOut.c)
    /\ \A n \in Nodes : \A c \in ToolDatagrams :
          n \in c.dst =>
             Occurrences(dlog[n], c) + Occurrences(DataOf(rx[n]), LastChunk(c)) <= sent[c]

(* A command runs (lines 118-128) only on reading the frame that carries  *)
(* the last chunk of that very datagram, sent by the tool: never on a     *)
(* reply of another node and never on a chunk of some other datagram.     *)
ExecOnLastChunk ==
    [][\A n \in Nodes :
          Len(dlog'[n]) # Len(dlog[n]) =>
             /\ rx[n] # <<>>
             /\ FromTool(Head(rx[n]))
             /\ Head(rx[n]).data = LastChunk(dlog'[n][Len(dlog'[n])])]_vars

(* The timeout fallback of lines 97-99 never fires on a node booted with  *)
(* the no-timeout argument, nor on one that has already executed a        *)
(* command sent to it (spec.md 8, "Timeout fallback").                     *)
TimeoutFallbackSafe ==
    \A n \in Nodes :
        leftBy[n] = "timeout" => ~noTimeoutArg[n] /\ dlog[n] = <<>>

(* Why the fallback is safe, as an inductive invariant: the timer is      *)
(* never armed on a node booted with the no-timeout argument (line 75) nor *)
(* after the node executed a command (lines 116 and 120 disarm it first), *)
(* and a node that left by timeout is in the application for good.        *)
FallbackInv ==
    /\ TypeOK
    /\ \A n \in Nodes :
          /\ noTimeoutArg[n] => ~timeoutActive[n]
          /\ dlog[n] # <<>> => ~timeoutActive[n]
          /\ leftBy[n] = "timeout" =>
                ~noTimeoutArg[n] /\ dlog[n] = <<>> /\ pc[n] = "app"

(* Liveness of the fallback: a node at the loop head with its timeout     *)
(* armed eventually runs the application or gets disarmed, whatever the   *)
(* traffic on the bus.                                                    *)
TimeoutFallback ==
    \A n \in Nodes :
        (pc[n] = "top" /\ timeoutActive[n]) ~> (pc[n] = "app" \/ ~timeoutActive[n])

(* spec.md 4.5 step 7: when the dispatcher returns a non-zero length, a   *)
(* reply of that length is sent (lines 126-133).                          *)
ReplyCarriesResult ==
    [][\A n \in Nodes :
          (/\ Len(dlog'[n]) = Len(dlog[n]) + 1
           /\ dlog'[n][Len(dlog'[n])].cmd # JumpIndex
           /\ result'[n] > 0)
          => pc'[n] = "send" /\ out'[n].c.len = result'[n]]_vars
=============================================================================
