-------------------------- MODULE BootloaderProofs --------------------------
(***************************************************************************)
(* Proofs about the bootloader model, for every value of the constants     *)
(* that BootloaderAssumptions allows.                                      *)
(***************************************************************************)
EXTENDS Bootloader, FiniteSetTheorems, SequenceTheorems, TLAPS

-----------------------------------------------------------------------------
(* Lemmas on the operators the model is built from.                        *)

(* A datagram's encoding has a whole number of chunks.                     *)
LEMMA NChunksType ==
    ASSUME NEW c \in Contents
    PROVE  NChunks(c) \in Nat
<1>1. IsFiniteSet(IdRange)
    <2>1. 0 \in Int /\ 127 \in Int
        OBVIOUS
    <2>. QED
        BY <2>1, FS_Interval DEF IdRange
<1>2. Cardinality(c.dst) \in Nat
    <2>1. c.dst \in SUBSET IdRange
        BY DEF Contents
    <2>2. IsFiniteSet(c.dst)
        BY <1>1, <2>1, FS_Subset
    <2>. QED
        BY <2>2, FS_CardinalityType
<1>3. Overhead \in Nat /\ c.len \in Nat
    BY BootloaderAssumptions DEF Contents
<1>. QED
    BY <1>2, <1>3 DEF NChunks, WireLen, FrameBytes

(* The sender ID recovered from a frame ID is a node ID.                  *)
LEMMA ReturnIdType ==
    ASSUME NEW id \in FrameIdRange
    PROVE  ReturnId(id) \in IdRange
BY DEF ReturnId, START_OF_DATAGRAM_MASK, FrameIdRange, IdRange

(* Feeding a chunk leaves the decoder in a decoder state.                 *)
LEMMA InputChunkType ==
    ASSUME NEW d \in DecStates, NEW ch \in Chunks
    PROVE  InputChunk(d, ch) \subseteq DecStates
<1>1. NoContent \in Contents
    BY DEF NoContent, Contents, ByteRange
<1>2. NChunks(ch.c) \in Nat /\ ch.c \in Contents
    BY NChunksType DEF Chunks
<1>3. CASE IsComplete(d) \/ d.st = "junk"
    BY <1>3 DEF InputChunk
<1>4. CASE ~(IsComplete(d) \/ d.st = "junk") /\ d.st = "empty" /\ ch.k = 1
    BY <1>2, <1>4 DEF InputChunk, DecStates
<1>5. CASE ~(IsComplete(d) \/ d.st = "junk") /\ d.st = "empty" /\ ch.k # 1
    BY <1>1, <1>5 DEF InputChunk, DecStates
<1>6. CASE ~(IsComplete(d) \/ d.st = "junk") /\ d.st # "empty"
    <2>1. d.got + 1 \in Nat /\ d.c \in Contents /\ d.need \in Nat
        BY DEF DecStates
    <2>2. [d EXCEPT !.got = @ + 1] \in DecStates
        BY <2>1 DEF DecStates
    <2>3. [d EXCEPT !.st = "bad", !.got = @ + 1] \in DecStates
        BY <2>1 DEF DecStates
    <2>4. InputChunk(d, ch) \subseteq {[d EXCEPT !.got = @ + 1],
                                       [d EXCEPT !.st = "bad", !.got = @ + 1]}
        BY <1>6 DEF InputChunk
    <2>. QED
        BY <2>2, <2>3, <2>4
<1>. QED
    BY <1>3, <1>4, <1>5, <1>6

(* The decoder states a node may reach with the frame at the head of its  *)
(* FIFO.                                                                  *)
LEMMA ReassembledType ==
    ASSUME TypeOK, NEW n \in Nodes, rx[n] # <<>>
    PROVE  Reassembled(n) \subseteq DecStates
<1>1. Head(rx[n]) \in Frames
    BY DEF TypeOK
<1>2. DatagramStart \in DecStates
    BY DEF DatagramStart, DecStates, NoContent, Contents, ByteRange
<1>3. dt[n] \in DecStates
    BY DEF TypeOK
<1>. QED
    BY <1>1, <1>2, <1>3, InputChunkType DEF Reassembled, Frames

(* A frame put on the bus keeps every FIFO a bounded sequence of frames.  *)
LEMMA BroadcastType ==
    ASSUME TypeOK, NEW src, NEW f \in Frames
    PROVE  /\ Broadcast(src, f) \in [Nodes -> Seq(Frames)]
           /\ \A m \in Nodes : Len(Broadcast(src, f)[m]) <= RxCap
<1>1. ASSUME NEW m \in Nodes
      PROVE  /\ Broadcast(src, f)[m] \in Seq(Frames)
             /\ Len(Broadcast(src, f)[m]) <= RxCap
    <2>1. rx[m] \in Seq(Frames) /\ Len(rx[m]) <= RxCap
        BY DEF TypeOK
    <2>2. CASE m # src /\ pc[m] \notin {"app", "halt"} /\ Len(rx[m]) < RxCap
        <3>1. Broadcast(src, f)[m] = Append(rx[m], f)
            BY <2>2 DEF Broadcast
        <3>2. /\ Append(rx[m], f) \in Seq(Frames)
              /\ Len(Append(rx[m], f)) = Len(rx[m]) + 1
            BY <2>1, AppendProperties
        <3>. QED
            BY <2>1, <2>2, <3>1, <3>2, BootloaderAssumptions
    <2>3. CASE ~(m # src /\ pc[m] \notin {"app", "halt"} /\ Len(rx[m]) < RxCap)
        BY <2>1, <2>3 DEF Broadcast
    <2>. QED
        BY <2>2, <2>3
<1>. QED
    BY <1>1 DEF Broadcast

(* A node's frames and the tool's frames have IDs of 8 bits.              *)
LEMMA SenderFrameId ==
    ASSUME NEW i \in IdRange, NEW k \in Nat
    PROVE  (IF k = 1 THEN i + START_OF_DATAGRAM_MASK ELSE i) \in FrameIdRange
BY DEF IdRange, FrameIdRange, START_OF_DATAGRAM_MASK

(* Taking the head frame off a FIFO keeps the FIFOs bounded sequences.   *)
LEMMA RxTailType ==
    ASSUME TypeOK, NEW n \in Nodes, rx[n] # <<>>
    PROVE  /\ Head(rx[n]) \in Frames
           /\ [rx EXCEPT ![n] = Tail(@)] \in [Nodes -> Seq(Frames)]
           /\ \A m \in Nodes : Len([rx EXCEPT ![n] = Tail(@)][m]) <= RxCap
<1>1. rx[n] \in Seq(Frames) /\ Len(rx[n]) <= RxCap
    BY DEF TypeOK
<1>2. /\ Head(rx[n]) \in Frames
      /\ Tail(rx[n]) \in Seq(Frames)
      /\ Len(Tail(rx[n])) = Len(rx[n]) - 1
    BY <1>1, HeadTailProperties
<1>3. rx \in [Nodes -> Seq(Frames)] /\ \A m \in Nodes : Len(rx[m]) <= RxCap
    BY DEF TypeOK
<1>4. [rx EXCEPT ![n] = Tail(@)] \in [Nodes -> Seq(Frames)]
    BY <1>2, <1>3
<1>5. ASSUME NEW m \in Nodes
      PROVE  Len([rx EXCEPT ![n] = Tail(@)][m]) <= RxCap
    <2>1. CASE m = n
        <3>1. [rx EXCEPT ![n] = Tail(@)][m] = Tail(rx[n])
            BY <1>3, <2>1
        <3>2. Len(Tail(rx[n])) <= RxCap
            BY <1>1, <1>2, BootloaderAssumptions
        <3>. QED
            BY <3>1, <3>2, <2>1
    <2>2. CASE m # n
        BY <1>3, <2>2
    <2>. QED
        BY <2>1, <2>2
<1>. QED
    BY <1>2, <1>4, <1>5

(* The handlers return lengths.                                           *)
LEMMA CommandResultType ==
    ASSUME NEW i
    PROVE  CommandResult(i) \subseteq Nat
BY BootloaderAssumptions DEF CommandResult

(* The reply return_datagram builds for a frame's sender.                 *)
LEMMA ReplyContentType ==
    ASSUME NEW id \in FrameIdRange, NEW r \in Nat
    PROVE  ReplyContent(ReturnId(id), Len8(r)) \in Contents
BY ReturnIdType DEF ReplyContent, Len8, Contents, ByteRange, IdRange

(* The reset decoder state and the idle output slot are well typed.     *)
LEMMA NoContentType == NoContent \in Contents
BY DEF NoContent, Contents, ByteRange

LEMMA DatagramStartType == DatagramStart \in DecStates
BY NoContentType DEF DatagramStart, DecStates

LEMMA IdleType == Idle \in [c : Contents, k : Nat]
BY NoContentType DEF Idle

-----------------------------------------------------------------------------
(* Type correctness.                                                      *)

(* The initial states of lines 75-91 are well typed.                     *)
LEMMA TypeOKInit == Init => TypeOK
BY BootloaderAssumptions DEF Init, TypeOK, PcValues, DatagramStart, DecStates, NoContent,
       Contents, ByteRange, Idle

(* Every step of a node or of the tool keeps the state well typed.        *)
LEMMA TypeOKStep == TypeOK /\ [Next]_vars => TypeOK'
<1> SUFFICES ASSUME TypeOK, [Next]_vars
             PROVE  TypeOK'
    OBVIOUS
<1> USE DEF toolVars, nodeVars
<1>1. ASSUME NEW n \in Nodes, ConfigLoad(n)
      PROVE  TypeOK'
    BY <1>1, DatagramStartType DEF ConfigLoad, TypeOK, PcValues
<1>2. ASSUME NEW n \in Nodes, ConfigInvalid(n)
      PROVE  TypeOK'
    BY <1>2 DEF ConfigInvalid, TypeOK, PcValues
<1>3. ASSUME NEW n \in Nodes, JumpOnTimeout(n)
      PROVE  TypeOK'
    BY <1>3 DEF JumpOnTimeout, TypeOK, PcValues
<1>4. ASSUME NEW n \in Nodes, ReadMessage(n)
      PROVE  TypeOK'
    BY <1>4 DEF ReadMessage, TypeOK, PcValues
<1>5. ASSUME NEW n \in Nodes, ReadTimeout(n)
      PROVE  TypeOK'
    BY <1>5 DEF ReadTimeout, TypeOK, PcValues
<1>6. ASSUME NEW n \in Nodes, FeedFrame(n)
      PROVE  TypeOK'
    <2>1. rx[n] # <<>>
        BY <1>6 DEF FeedFrame
    <2>2. PICK d \in Reassembled(n) : dt' = [dt EXCEPT ![n] = d]
        BY <1>6 DEF FeedFrame
    <2>3. d \in DecStates
        BY <2>1, ReassembledType
    <2>. QED
        BY <1>6, <2>1, <2>2, <2>3, RxTailType DEF FeedFrame, TypeOK, PcValues
<1>7. ASSUME NEW n \in Nodes, DiscardDatagram(n)
      PROVE  TypeOK'
    <2>1. rx[n] # <<>>
        BY <1>7 DEF DiscardDatagram
    <2>2. DatagramStart \in DecStates
        BY DatagramStartType
    <2>3. timeoutActive' \in [Nodes -> BOOLEAN]
        BY <1>7 DEF DiscardDatagram, TypeOK
    <2>. QED
        BY <1>7, <2>1, <2>2, <2>3, RxTailType DEF DiscardDatagram, TypeOK, PcValues
<1>8. ASSUME NEW n \in Nodes, ExecuteDatagram(n)
      PROVE  TypeOK'
    <2>1. rx[n] # <<>>
        BY <1>8 DEF ExecuteDatagram
    <2>2. PICK d \in Reassembled(n) :
             /\ dlog' = [dlog EXCEPT ![n] = Append(@, d.c)]
             /\ \E r \in CommandResult(d.c.cmd) :
                   /\ result' = [result EXCEPT ![n] = r]
                   /\ pc' = [pc EXCEPT ![n] = IF Len8(r) > 0 THEN "send" ELSE "top"]
                   /\ out' = [out EXCEPT ![n] =
                                [c |-> ReplyContent(ReturnId(Head(rx[n]).id), Len8(r)),
                                 k |-> 1]]
        BY <1>8 DEF ExecuteDatagram
    <2>3. PICK r \in CommandResult(d.c.cmd) :
             /\ result' = [result EXCEPT ![n] = r]
             /\ pc' = [pc EXCEPT ![n] = IF Len8(r) > 0 THEN "send" ELSE "top"]
             /\ out' = [out EXCEPT ![n] =
                          [c |-> ReplyContent(ReturnId(Head(rx[n]).id), Len8(r)),
                           k |-> 1]]
        BY <2>2
    <2>4. d.c \in Contents
        BY <2>1, ReassembledType DEF DecStates
    <2>5. r \in Nat
        BY CommandResultType
    <2>6. Head(rx[n]) \in Frames
        BY <2>1, RxTailType
    <2>7. ReplyContent(ReturnId(Head(rx[n]).id), Len8(r)) \in Contents
        BY <2>5, <2>6, ReplyContentType DEF Frames
    <2>8. Append(dlog[n], d.c) \in Seq(Contents)
        BY <2>4, AppendProperties DEF TypeOK
    <2>9. DatagramStart \in DecStates
        BY DatagramStartType
    <2>. QED
        BY <1>8, <2>1, <2>2, <2>3, <2>5, <2>7, <2>8, <2>9, RxTailType
        DEF ExecuteDatagram, TypeOK, PcValues
<1>9. ASSUME NEW n \in Nodes, JumpCommand(n)
      PROVE  TypeOK'
    <2>1. rx[n] # <<>>
        BY <1>9 DEF JumpCommand
    <2>2. PICK d \in Reassembled(n) : dlog' = [dlog EXCEPT ![n] = Append(@, d.c)]
        BY <1>9 DEF JumpCommand
    <2>3. Append(dlog[n], d.c) \in Seq(Contents)
        BY <2>1, ReassembledType, AppendProperties DEF DecStates, TypeOK
    <2>. QED
        BY <1>9, <2>1, <2>2, <2>3, RxTailType DEF JumpCommand, TypeOK, PcValues
<1>10. ASSUME NEW n \in Nodes, ReturnDatagramChunk(n)
       PROVE  TypeOK'
    <2> DEFINE k == out[n].k
               f == [id |-> IF k = 1 THEN n + START_OF_DATAGRAM_MASK ELSE n,
                     data |-> [c |-> out[n].c, k |-> k]]
    <2>1. k \in Nat /\ out[n].c \in Contents
        BY DEF TypeOK
    <2>2. f \in Frames
        BY <2>1, SenderFrameId, BootloaderAssumptions DEF Frames, Chunks
    <2>3. rx' = Broadcast(n, f)
        BY <1>10 DEF ReturnDatagramChunk
    <2>4. rx' \in [Nodes -> Seq(Frames)] /\ \A m \in Nodes : Len(rx'[m]) <= RxCap
        BY <2>2, <2>3, BroadcastType
    <2>5. out' \in [Nodes -> [c : Contents, k : Nat]]
        <3>1. out[n] \in [c : Contents, k : Nat]
            BY DEF TypeOK
        <3>2. [out[n] EXCEPT !.k = k + 1] \in [c : Contents, k : Nat]
            BY <3>1
        <3>3. out' = [out EXCEPT ![n] = [out[n] EXCEPT !.k = k + 1]]
            BY <1>10 DEF ReturnDatagramChunk
        <3>. QED
            BY <3>2, <3>3 DEF TypeOK
    <2>6. pc' \in [Nodes -> PcValues]
        BY <1>10 DEF ReturnDatagramChunk, TypeOK, PcValues
    <2>. QED
        BY <1>10, <2>4, <2>5, <2>6 DEF ReturnDatagramChunk, TypeOK
<1>11. ASSUME NEW n \in Nodes, ReturnDatagramFail(n)
       PROVE  TypeOK'
    BY <1>11 DEF ReturnDatagramFail, TypeOK, PcValues
<1>12. ASSUME NEW n \in Nodes, Expire(n)
       PROVE  TypeOK'
    BY <1>12 DEF Expire, TypeOK
<1>13. ASSUME NEW c \in Contents, NEW k \in Nat, ToolChunk(c, k)
       PROVE  /\ rx' \in [Nodes -> Seq(Frames)]
              /\ \A m \in Nodes : Len(rx'[m]) <= RxCap
              /\ toolOut' \in [c : Contents, k : Nat]
              /\ sent' \in [ToolDatagrams -> Nat]
    <2> DEFINE f == [id |-> IF k = 1 THEN ToolId + START_OF_DATAGRAM_MASK ELSE ToolId,
                     data |-> [c |-> c, k |-> k]]
    <2>1. f \in Frames
        BY SenderFrameId, BootloaderAssumptions DEF Frames, Chunks
    <2>2. Idle \in [c : Contents, k : Nat]
        BY IdleType
    <2>3. rx' \in [Nodes -> Seq(Frames)] /\ \A m \in Nodes : Len(rx'[m]) <= RxCap
        BY <1>13, <2>1, BroadcastType DEF ToolChunk
    <2>4. toolOut' \in [c : Contents, k : Nat]
        BY <1>13, <2>2 DEF ToolChunk
    <2>5. sent' \in [ToolDatagrams -> Nat]
        <3>1. sent \in [ToolDatagrams -> Nat]
            BY DEF TypeOK
        <3>2. [sent EXCEPT ![c] = @ + 1] \in [ToolDatagrams -> Nat]
            <4>1. CASE c \in ToolDatagrams
                BY <3>1, <4>1
            <4>2. CASE c \notin ToolDatagrams
                <5>1. [sent EXCEPT ![c] = @ + 1] = sent
                    BY <3>1, <4>2, Zenon
                <5>. QED
                    BY <3>1, <5>1
            <4>. QED
                BY <4>1, <4>2
        <3>. QED
            BY <1>13, <3>1, <3>2 DEF ToolChunk
    <2>. QED
        BY <2>3, <2>4, <2>5
<1>14. CASE ToolStart
    <2>1. PICK c \in ToolDatagrams : ToolChunk(c, 1)
        BY <1>14 DEF ToolStart
    <2>2. c \in Contents
        BY BootloaderAssumptions
    <2>3. /\ rx' \in [Nodes -> Seq(Frames)]
          /\ \A m \in Nodes : Len(rx'[m]) <= RxCap
          /\ toolOut' \in [c : Contents, k : Nat]
          /\ sent' \in [ToolDatagrams -> Nat]
        BY <2>1, <2>2, <1>13
    <2>4. txCount' \in 0..MaxTransmissions
        BY <1>14, BootloaderAssumptions DEF ToolStart, TypeOK
    <2>. QED
        BY <1>14, <2>3, <2>4 DEF ToolStart, TypeOK
<1>15. CASE ToolContinue
    BY <1>15, <1>13 DEF ToolContinue, TypeOK
<1>16. CASE ToolAbort
    <2>1. Idle \in [c : Contents, k : Nat]
        BY IdleType
    <2>. QED
        BY <1>16, <2>1 DEF ToolAbort, TypeOK
<1>17. CASE Terminating \/ UNCHANGED vars
    BY <1>17 DEF Terminating, vars, TypeOK
<1>. QED
    BY <1>1, <1>2, <1>3, <1>4, <1>5, <1>6, <1>7, <1>8, <1>9, <1>10, <1>11,
       <1>12, <1>14, <1>15, <1>16, <1>17 DEF Next, Node

(* Type correctness: every reachable state of the bootloader nodes and    *)
(* the bus has the types of the code's variables (TypeOK).                *)
THEOREM TypeCorrect == Spec => []TypeOK
BY TypeOKInit, TypeOKStep, PTL DEF Spec

-----------------------------------------------------------------------------
(* Safety of the timeout fallback.                                        *)

(* The per-node part of FallbackInv.                                      *)
FallbackAt(m) ==
    /\ noTimeoutArg[m] => ~timeoutActive[m]
    /\ dlog[m] # <<>> => ~timeoutActive[m]
    /\ leftBy[m] = "timeout" => ~noTimeoutArg[m] /\ dlog[m] = <<>> /\ pc[m] = "app"

(* A step that leaves node m's own variables alone keeps its part.         *)
LEMMA FallbackFrame ==
    ASSUME NEW m, FallbackAt(m),
           pc'[m] = pc[m], noTimeoutArg'[m] = noTimeoutArg[m],
           timeoutActive'[m] = timeoutActive[m], dlog'[m] = dlog[m],
           leftBy'[m] = leftBy[m]
    PROVE  FallbackAt(m)'
BY DEF FallbackAt

(* Line 75 arms the timer only without the no-timeout argument.           *)
LEMMA FallbackInit == Init => FallbackInv
<1> SUFFICES ASSUME Init PROVE FallbackInv
    OBVIOUS
<1>1. TypeOK
    BY TypeOKInit
<1>2. \A m \in Nodes : FallbackAt(m)
    BY DEF Init, FallbackAt
<1>. QED
    BY <1>1, <1>2 DEF FallbackInv, FallbackAt

(* Every step keeps the per-node part of FallbackInv.                      *)
LEMMA FallbackStep == FallbackInv /\ [Next]_vars => FallbackInv'
<1> SUFFICES ASSUME TypeOK, \A m \in Nodes : FallbackAt(m), [Next]_vars
             PROVE  TypeOK' /\ \A m \in Nodes : FallbackAt(m)'
    BY DEF FallbackInv, FallbackAt
<1> USE DEF toolVars, nodeVars
<1>0. TypeOK'
    BY TypeOKStep
<1> SUFFICES ASSUME NEW m \in Nodes PROVE FallbackAt(m)'
    BY <1>0
<1>1. FallbackAt(m)
    OBVIOUS
<1>2. ASSUME NEW n \in Nodes,
             \/ ConfigLoad(n) \/ ConfigInvalid(n) \/ ReadMessage(n)
             \/ ReadTimeout(n) \/ FeedFrame(n) \/ ReturnDatagramFail(n)
             \/ ReturnDatagramChunk(n) \/ Expire(n)
      PROVE  FallbackAt(m)'
    <2>1. /\ noTimeoutArg' = noTimeoutArg /\ timeoutActive' = timeoutActive
          /\ dlog' = dlog /\ leftBy' = leftBy
        BY <1>2 DEF ConfigLoad, ConfigInvalid, ReadMessage, ReadTimeout, FeedFrame,
                    ReturnDatagramFail, ReturnDatagramChunk, Expire
    <2>2. CASE leftBy[m] = "timeout"
        <3>1. pc[m] = "app"
            BY <1>1, <2>2 DEF FallbackAt
        <3>2. pc'[m] = "app"
            BY <1>2, <3>1 DEF ConfigLoad, ConfigInvalid, ReadMessage, ReadTimeout,
                              FeedFrame, ReturnDatagramFail, ReturnDatagramChunk,
                              Expire, TypeOK
        <3>. QED
            BY <1>1, <2>1, <3>2 DEF FallbackAt
    <2>3. CASE leftBy[m] # "timeout"
        BY <1>1, <2>1, <2>3 DEF FallbackAt
    <2>. QED
        BY <2>2, <2>3
<1>3. ASSUME NEW n \in Nodes, JumpOnTimeout(n)
      PROVE  FallbackAt(m)'
    <2>1. CASE m = n
        <3>1. timeoutActive[n]
            BY <1>3 DEF JumpOnTimeout
        <3>2. ~noTimeoutArg[n] /\ dlog[n] = <<>>
            BY <1>1, <2>1, <3>1 DEF FallbackAt
        <3>. QED
            BY <1>3, <2>1, <3>2 DEF JumpOnTimeout, FallbackAt, TypeOK
    <2>2. CASE m # n
        BY <1>1, <1>3, <2>2, FallbackFrame DEF JumpOnTimeout, TypeOK
    <2>. QED
        BY <2>1, <2>2
<1>4. ASSUME NEW n \in Nodes, DiscardDatagram(n)
      PROVE  FallbackAt(m)'
    <2>1. PICK d \in Reassembled(n) :
             timeoutActive' = [timeoutActive EXCEPT ![n] = @ /\ ~IsValid(d)]
        BY <1>4 DEF DiscardDatagram
    <2>2. timeoutActive'[m] => timeoutActive[m]
        BY <2>1 DEF TypeOK
    <2>3. pc[n] = "read" /\ pc'[m] = IF m = n THEN "top" ELSE pc[m]
        BY <1>4 DEF DiscardDatagram, TypeOK
    <2>. QED
        BY <1>1, <1>4, <2>2, <2>3 DEF DiscardDatagram, FallbackAt
<1>5. ASSUME NEW n \in Nodes, ExecuteDatagram(n) \/ JumpCommand(n)
      PROVE  FallbackAt(m)'
    <2>1. PICK d \in Reassembled(n) : dlog' = [dlog EXCEPT ![n] = Append(@, d.c)]
        BY <1>5 DEF ExecuteDatagram, JumpCommand
    <2>2. timeoutActive' = [timeoutActive EXCEPT ![n] = FALSE]
        BY <1>5 DEF ExecuteDatagram, JumpCommand
    <2>3. pc[n] = "read" /\ noTimeoutArg' = noTimeoutArg
        BY <1>5 DEF ExecuteDatagram, JumpCommand
    <2>4. leftBy' = leftBy \/ leftBy' = [leftBy EXCEPT ![n] = "jump"]
        BY <1>5 DEF ExecuteDatagram, JumpCommand
    <2>5. CASE m = n
        <3>1. leftBy[n] # "timeout"
            BY <1>1, <2>3, <2>5 DEF FallbackAt
        <3>2. leftBy'[n] # "timeout" /\ ~timeoutActive'[n]
            BY <2>2, <2>4, <3>1 DEF TypeOK
        <3>. QED
            BY <2>5, <3>2 DEF FallbackAt
    <2>6. CASE m # n
        <3>1. /\ dlog'[m] = dlog[m] /\ timeoutActive'[m] = timeoutActive[m]
              /\ leftBy'[m] = leftBy[m]
            BY <2>1, <2>2, <2>4, <2>6 DEF TypeOK
        <3>2. pc'[m] = pc[m]
            BY <1>5, <2>6 DEF ExecuteDatagram, JumpCommand, TypeOK
        <3>. QED
            BY <1>1, <2>3, <3>1, <3>2, FallbackFrame
    <2>. QED
        BY <2>5, <2>6
<1>6. CASE ToolStart \/ ToolContinue \/ ToolAbort \/ Terminating \/ UNCHANGED vars
    BY <1>1, <1>6 DEF ToolStart, ToolContinue, ToolAbort, Terminating, vars, FallbackAt
<1>. QED
    BY <1>2, <1>3, <1>4, <1>5, <1>6 DEF Next, Node

(* FallbackInv: the timer of line 75 is armed only on a node booted       *)
(* without the no-timeout argument that has executed nothing, and a node  *)
(* left by the timeout had executed nothing, for every number of nodes.  *)
THEOREM FallbackInvariant == Spec => []FallbackInv
BY FallbackInit, FallbackStep, PTL DEF Spec

(* The timeout fallback of lines 97-99 never fires on a node booted with  *)
(* the no-timeout argument, nor on one that already executed a command    *)
(* addressed to it: TimeoutFallbackSafe holds for every number of nodes,  *)
(* every datagram set and every FIFO depth.                               *)
THEOREM FallbackSafe == Spec => []TimeoutFallbackSafe
<1>1. FallbackInv => TimeoutFallbackSafe
    BY DEF FallbackInv, TimeoutFallbackSafe
<1>. QED
    BY FallbackInit, FallbackStep, <1>1, PTL DEF Spec
=============================================================================
