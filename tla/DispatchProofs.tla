--------------------------- MODULE DispatchProofs ---------------------------
(***************************************************************************)
(* Proof that the dispatch of bootloader_main is sound (DispatchSound):    *)
(* DispatchInv is inductive, for every set of nodes, every tool datagram   *)
(* set, every FIFO depth and every bound on the transmissions.             *)
(***************************************************************************)
EXTENDS BootloaderProofs



-----------------------------------------------------------------------------
(* Counting the occurrences of a value in a sequence.                     *)

(* The positions of x in s.                                                *)
Positions(s, x) == {i \in 1..Len(s) : s[i] = x}

LEMMA PositionsFinite ==
    ASSUME NEW S, NEW s \in Seq(S), NEW x
    PROVE  /\ IsFiniteSet(Positions(s, x))
           /\ Occurrences(s, x) = Cardinality(Positions(s, x))
           /\ Occurrences(s, x) \in Nat
<1>1. IsFiniteSet(1..Len(s))
    BY FS_Interval, LenProperties
<1>2. IsFiniteSet(Positions(s, x))
    BY <1>1, FS_Subset DEF Positions
<1>. QED
    BY <1>2, FS_CardinalityType DEF Occurrences, Positions

(* The empty sequence holds nothing.                                       *)
LEMMA OccEmpty ==
    ASSUME NEW x
    PROVE  Occurrences(<<>>, x) = 0
<1>1. {i \in 1..Len(<<>>) : <<>>[i] = x} = {}
    OBVIOUS
<1>. QED
    BY <1>1, FS_EmptySet DEF Occurrences

(* Appending y adds one occurrence of y and none of anything else.        *)
LEMMA OccAppend ==
    ASSUME NEW S, NEW s \in Seq(S), NEW y \in S, NEW x
    PROVE  Occurrences(Append(s, y), x) = Occurrences(s, x) + (IF y = x THEN 1 ELSE 0)
<1> DEFINE P == Positions(s, x)
           Q == Positions(Append(s, y), x)
<1>1. IsFiniteSet(P) /\ Occurrences(s, x) = Cardinality(P)
    BY PositionsFinite
<1>2. Append(s, y) \in Seq(S)
    BY AppendProperties
<1>2a. Occurrences(Append(s, y), x) = Cardinality(Q)
    BY <1>2, PositionsFinite
<1>3. /\ Len(Append(s, y)) = Len(s) + 1
      /\ \A i \in 1..Len(s) : Append(s, y)[i] = s[i]
      /\ Append(s, y)[Len(s) + 1] = y
      /\ Len(s) \in Nat
    BY AppendProperties, LenProperties
<1>4. CASE y = x
    <2>1. Q = P \cup {Len(s) + 1} /\ Len(s) + 1 \notin P
        BY <1>3, <1>4 DEF Positions
    <2>. QED
        BY <1>1, <1>2a, <1>4, <2>1, FS_AddElement
<1>5. CASE y # x
    <2>1. Q = P
        BY <1>3, <1>5 DEF Positions
    <2>2. Occurrences(Append(s, y), x) = Occurrences(s, x)
        BY <1>1, <1>2a, <2>1
    <2>3. Occurrences(s, x) \in Nat
        BY PositionsFinite
    <2>. QED
        BY <1>5, <2>2, <2>3
<1>. QED
    BY <1>4, <1>5

(* Taking the head off removes one occurrence of the head.                *)
LEMMA OccTail ==
    ASSUME NEW S, NEW s \in Seq(S), s # <<>>, NEW x
    PROVE  Occurrences(Tail(s), x) = Occurrences(s, x) - (IF Head(s) = x THEN 1 ELSE 0)
<1> DEFINE P == Positions(s, x)
           Q == Positions(Tail(s), x)
           g == [j \in P \ {1} |-> j - 1]
<1>1. /\ Len(s) \in Nat \ {0}
      /\ Tail(s) \in Seq(S)
      /\ Len(Tail(s)) = Len(s) - 1
      /\ \A i \in 1..Len(Tail(s)) : Tail(s)[i] = s[i + 1]
      /\ Head(s) = s[1]
    BY HeadTailProperties, EmptySeq, LenProperties
<1>2. IsFiniteSet(P) /\ Occurrences(s, x) = Cardinality(P)
    BY PositionsFinite
<1>3. Occurrences(Tail(s), x) = Cardinality(Q)
    BY <1>1, PositionsFinite
(* Position j of s is position j - 1 of its tail.                         *)
<1>4. g \in Bijection(P \ {1}, Q)
    <2>1. g \in [P \ {1} -> Q]
        BY <1>1 DEF Positions
    <2>2. IsInjective(g)
        BY <1>1 DEF IsInjective, Positions
    <2>3. \A i \in Q : \E j \in P \ {1} : g[j] = i
        <3> SUFFICES ASSUME NEW i \in Q PROVE i + 1 \in P \ {1} /\ g[i + 1] = i
            OBVIOUS
        <3>. QED
            BY <1>1 DEF Positions
    <2>. QED
        BY <2>1, <2>2, <2>3 DEF Bijection, Injection, Surjection
<1>5. IsFiniteSet(P \ {1}) /\ Cardinality(Q) = Cardinality(P \ {1})
    <2>1. IsFiniteSet(P \ {1})
        BY <1>2, FS_Subset
    <2>2. ExistsBijection(P \ {1}, Q)
        BY <1>4 DEF ExistsBijection
    <2>. QED
        BY <2>1, <2>2, FS_Bijection
<1>6. CASE Head(s) = x
    <2>1. 1 \in P
        BY <1>1, <1>6 DEF Positions
    <2>. QED
        BY <1>2, <1>3, <1>5, <1>6, <2>1, FS_RemoveElement
<1>7. CASE Head(s) # x
    <2>1. P \ {1} = P
        BY <1>1, <1>7 DEF Positions
    <2>2. Occurrences(Tail(s), x) = Occurrences(s, x)
        BY <1>2, <1>3, <1>5, <2>1
    <2>3. Occurrences(s, x) \in Nat
        BY PositionsFinite
    <2>. QED
        BY <1>7, <2>2, <2>3
<1>. QED
    BY <1>6, <1>7
-----------------------------------------------------------------------------
(* The chunk contents of a FIFO.                                           *)

LEMMA DataOfType ==
    ASSUME NEW s \in Seq(Frames)
    PROVE  /\ DataOf(s) \in Seq(Chunks)
           /\ Len(DataOf(s)) = Len(s)
           /\ \A i \in 1..Len(s) : DataOf(s)[i] = s[i].data
<1>1. Len(s) \in Nat /\ \A i \in 1..Len(s) : s[i] \in Frames
    BY LenProperties
<1>2. DataOf(s) \in [1..Len(s) -> Chunks]
    BY <1>1 DEF DataOf, Frames
<1>. QED
    BY <1>1, <1>2 DEF DataOf

(* A frame queued behind s adds its chunk behind the chunks of s.         *)
LEMMA DataOccAppend ==
    ASSUME NEW s \in Seq(Frames), NEW f \in Frames, NEW v
    PROVE  Occurrences(DataOf(Append(s, f)), v) =
               Occurrences(DataOf(s), v) + (IF f.data = v THEN 1 ELSE 0)
<1>1. Append(s, f) \in Seq(Frames) /\ Len(Append(s, f)) = Len(s) + 1
    BY AppendProperties
<1>2. f.data \in Chunks /\ DataOf(s) \in Seq(Chunks) /\ Len(DataOf(s)) = Len(s)
    BY DataOfType DEF Frames
<1>3. DataOf(Append(s, f)) = Append(DataOf(s), f.data)
    <2>1. Append(DataOf(s), f.data) \in Seq(Chunks)
          /\ Len(Append(DataOf(s), f.data)) = Len(s) + 1
        BY <1>2, AppendProperties
    <2>2. \A i \in 1..Len(s) + 1 : DataOf(Append(s, f))[i] = Append(DataOf(s), f.data)[i]
        <3>1. /\ \A i \in 1..Len(s) : Append(s, f)[i] = s[i]
              /\ Append(s, f)[Len(s) + 1] = f
            BY AppendProperties
        <3>2. /\ \A i \in 1..Len(s) : Append(DataOf(s), f.data)[i] = DataOf(s)[i]
              /\ Append(DataOf(s), f.data)[Len(s) + 1] = f.data
            BY <1>2, AppendProperties
        <3>3. \A i \in 1..Len(s) : DataOf(s)[i] = s[i].data
            BY DataOfType
        <3>4. \A i \in 1..Len(s) + 1 : DataOf(Append(s, f))[i] = Append(s, f)[i].data
            BY <1>1 DEF DataOf
        <3>5. Len(s) \in Nat
            BY LenProperties
        <3> SUFFICES ASSUME NEW i \in 1..Len(s) + 1
                     PROVE  DataOf(Append(s, f))[i] = Append(DataOf(s), f.data)[i]
            OBVIOUS
        <3>6. CASE i \in 1..Len(s)
            <4>1. DataOf(Append(s, f))[i] = s[i].data
                BY <3>1, <3>4, <3>6
            <4>2. Append(DataOf(s), f.data)[i] = s[i].data
                BY <3>2, <3>3, <3>6
            <4>. QED
                BY <4>1, <4>2
        <3>7. CASE i = Len(s) + 1
            BY <3>1, <3>2, <3>4, <3>7
        <3>8. i \in 1..Len(s) \/ i = Len(s) + 1
            BY <3>5
        <3>. QED
            BY <3>6, <3>7, <3>8, Zenon
    <2>3. Append(DataOf(s), f.data) \in [1..Len(s) + 1 -> Chunks]
        BY <2>1, LenProperties
    <2>4. DataOf(Append(s, f)) \in [1..Len(s) + 1 -> Chunks]
        BY <1>1, DataOfType, LenProperties
    <2>. QED
        BY <2>2, <2>3, <2>4
<1>. QED
    BY <1>2, <1>3, OccAppend

(* Reading the head frame removes its chunk from the front.              *)
LEMMA DataOccTail ==
    ASSUME NEW s \in Seq(Frames), s # <<>>, NEW v
    PROVE  Occurrences(DataOf(Tail(s)), v) =
               Occurrences(DataOf(s), v) - (IF Head(s).data = v THEN 1 ELSE 0)
<1>1. /\ Tail(s) \in Seq(Frames) /\ Len(Tail(s)) = Len(s) - 1
      /\ \A i \in 1..Len(Tail(s)) : Tail(s)[i] = s[i + 1]
      /\ Len(s) \in Nat \ {0} /\ Head(s) = s[1]
    BY HeadTailProperties, EmptySeq
<1>2. DataOf(s) \in Seq(Chunks) /\ Len(DataOf(s)) = Len(s)
      /\ \A i \in 1..Len(s) : DataOf(s)[i] = s[i].data
    BY DataOfType
<1>3. DataOf(s) # <<>> /\ Head(DataOf(s)) = Head(s).data
    BY <1>1, <1>2
<1>4. DataOf(Tail(s)) = Tail(DataOf(s))
    <2>1. /\ Tail(DataOf(s)) \in Seq(Chunks) /\ Len(Tail(DataOf(s))) = Len(s) - 1
          /\ \A i \in 1..Len(s) - 1 : Tail(DataOf(s))[i] = DataOf(s)[i + 1]
        BY <1>2, <1>3, HeadTailProperties
    <2>2. \A i \in 1..Len(s) - 1 : DataOf(Tail(s))[i] = s[i + 1].data
        BY <1>1 DEF DataOf
    <2>3. Tail(DataOf(s)) \in [1..Len(s) - 1 -> Chunks]
        BY <2>1, LenProperties
    <2>4. DataOf(Tail(s)) \in [1..Len(s) - 1 -> Chunks]
        BY <1>1, DataOfType, LenProperties
    <2>5. \A i \in 1..Len(s) - 1 : DataOf(s)[i + 1] = s[i + 1].data
        BY <1>1, <1>2
    <2>. QED
        BY <2>1, <2>2, <2>3, <2>4, <2>5
<1>. QED
    BY <1>2, <1>3, <1>4, OccTail
-----------------------------------------------------------------------------
(* The decoder.                                                            *)

(* Every encoding has at least one chunk: it holds Overhead bytes.        *)
LEMMA NChunksPositive ==
    ASSUME NEW c \in Contents
    PROVE  NChunks(c) \in Nat \ {0}
<1>1. IsFiniteSet(c.dst)
    <2>1. IsFiniteSet(IdRange)
        <3>1. 0 \in Int /\ 127 \in Int
            OBVIOUS
        <3>. QED
            BY <3>1, FS_Interval DEF IdRange
    <2>. QED
        BY <2>1, FS_Subset DEF Contents
<1>2. Cardinality(c.dst) \in Nat /\ c.len \in Nat /\ Overhead \in Nat \ {0}
    BY <1>1, FS_CardinalityType, BootloaderAssumptions DEF Contents
<1>. QED
    BY <1>2 DEF NChunks, WireLen, FrameBytes

(* A decoder accumulating a datagram has read fewer chunks than its      *)
(* encoding has.                                                          *)
AccOK(d) == d.st = "acc" => d.need = NChunks(d.c) /\ d.got < d.need

(* can_datagram_input_byte accumulates a datagram only from its first     *)
(* chunk on, in order, and completes it only with its last chunk.         *)
LEMMA DecodeAcc ==
    ASSUME NEW d0 \in DecStates, AccOK(d0), NEW ch \in Chunks,
           NEW d \in InputChunk(d0, ch), d.st = "acc"
    PROVE  /\ d.need = NChunks(d.c)
           /\ d.got <= d.need
           /\ d.got = d.need => ch = LastChunk(d.c)
<1>1. ch = [c |-> ch.c, k |-> ch.k] /\ ch.c \in Contents /\ ch.k \in Nat
    BY DEF Chunks
<1>2. d0.c \in Contents /\ d0.got \in Nat /\ d0.need \in Nat
    BY DEF DecStates
<1>3. CASE IsComplete(d0) \/ d0.st = "junk"
    <2>1. d = d0
        BY <1>3 DEF InputChunk
    <2>. QED
        BY <1>2, <2>1 DEF AccOK
<1>4. CASE ~(IsComplete(d0) \/ d0.st = "junk") /\ d0.st = "empty" /\ ch.k = 1
    <2>1. d = [st |-> "acc", c |-> ch.c, need |-> NChunks(ch.c), got |-> 1]
        BY <1>4 DEF InputChunk
    <2>2. NChunks(ch.c) \in Nat \ {0}
        BY <1>1, NChunksPositive
    <2>. QED
        BY <1>1, <1>4, <2>1, <2>2 DEF LastChunk
<1>5. CASE ~(IsComplete(d0) \/ d0.st = "junk") /\ d0.st = "empty" /\ ch.k # 1
    <2>1. d.st \in {"bad", "junk"}
        BY <1>5 DEF InputChunk
    <2>. QED
        BY <2>1
<1>6. CASE ~(IsComplete(d0) \/ d0.st = "junk") /\ d0.st # "empty"
           /\ d0.st = "acc" /\ ch = [c |-> d0.c, k |-> d0.got + 1]
    <2>1. d = [d0 EXCEPT !.got = @ + 1]
        BY <1>6 DEF InputChunk
    <2>2. d0.need = NChunks(d0.c) /\ d0.got < d0.need
        BY <1>6 DEF AccOK
    <2>3. d.c = d0.c /\ d.need = d0.need /\ d.got = d0.got + 1
        BY <2>1 DEF DecStates
    <2>. QED
        BY <1>2, <1>6, <2>2, <2>3 DEF LastChunk
<1>7. CASE ~(IsComplete(d0) \/ d0.st = "junk") /\ d0.st # "empty"
           /\ ~(d0.st = "acc" /\ ch = [c |-> d0.c, k |-> d0.got + 1])
    <2>1. d = [d0 EXCEPT !.st = "bad", !.got = @ + 1]
        BY <1>7 DEF InputChunk
    <2>. QED
        BY <2>1 DEF DecStates
<1>. QED
    BY <1>3, <1>4, <1>5, <1>6, <1>7
-----------------------------------------------------------------------------
(* DispatchInv, conjunct by conjunct.                                      *)

(* Every frame of a FIFO is the tool's or a reply to the tool.            *)
OriginSeq(s) ==
    \A i \in 1..Len(s) : FromTool(s[i]) \/ s[i].data.c.dst \subseteq {ToolId}

(* Node n executed only tool datagrams addressed to it.                   *)
Logged(n) == \A i \in 1..Len(dlog[n]) : dlog[n][i] \in ToolDatagrams /\ n \in dlog[n][i].dst

(* Executions of c at n plus its last chunks queued at n.                 *)
Counted(n, c) ==
    Occurrences(dlog[n], c) + Occurrences(DataOf(rx[n]), LastChunk(c)) <= sent[c]

ToolOK == toolOut.k # 0 => toolOut.c \in ToolDatagrams /\ toolOut.k <= NChunks(toolOut.c)

DInv ==
    /\ TypeOK
    /\ ToolOK
    /\ \A n \in Nodes :
          /\ Logged(n)
          /\ OriginSeq(rx[n])
          /\ out[n].c.dst \subseteq {ToolId}
          /\ AccOK(dt[n])
          /\ \A c \in ToolDatagrams : n \in c.dst => Counted(n, c)

(* The parts make up DispatchInv.                                         *)
LEMMA DInvDispatchInv == DInv => DispatchInv
<1> SUFFICES ASSUME DInv PROVE DispatchInv
    OBVIOUS
<1>1. DispatchSound
    <2> SUFFICES ASSUME NEW n \in Nodes, NEW i \in 1..Len(dlog[n])
                 PROVE  Occurrences(dlog[n], dlog[n][i]) <= sent[dlog[n][i]]
        BY DEF DInv, Logged, DispatchSound
    <2>1. dlog[n][i] \in ToolDatagrams /\ n \in dlog[n][i].dst
        BY DEF DInv, Logged
    <2>2. Counted(n, dlog[n][i])
        BY <2>1 DEF DInv
    <2>3. dlog[n] \in Seq(Contents) /\ rx[n] \in Seq(Frames)
        BY DEF DInv, TypeOK
    <2>4. DataOf(rx[n]) \in Seq(Chunks)
        BY <2>3, DataOfType
    <2>5. /\ Occurrences(dlog[n], dlog[n][i]) \in Nat
          /\ Occurrences(DataOf(rx[n]), LastChunk(dlog[n][i])) \in Nat
        BY <2>3, <2>4, PositionsFinite
    <2>6. sent[dlog[n][i]] \in Nat
        BY <2>1 DEF DInv, TypeOK
    <2>. QED
        BY <2>2, <2>5, <2>6 DEF Counted
<1>. QED
    BY <1>1 DEF DInv, DispatchInv, OriginSeq, ToolOK, AccOK, Counted

(* Lines 75-91: nothing executed, nothing queued, nothing sent.           *)
LEMMA DInvInit == Init => DInv
<1> SUFFICES ASSUME Init PROVE DInv
    OBVIOUS
<1>1. TypeOK
    BY TypeOKInit
<1>2. ASSUME NEW n \in Nodes, NEW c \in ToolDatagrams PROVE Counted(n, c)
    <2>1. <<>> \in Seq(Frames)
        BY EmptySeq
    <2>2. Len(DataOf(<<>>)) = 0
        BY <2>1, DataOfType, EmptySeq
    <2>3. Occurrences(DataOf(<<>>), LastChunk(c)) = 0
        <3>1. {i \in 1..Len(DataOf(<<>>)) : DataOf(<<>>)[i] = LastChunk(c)} = {}
            BY <2>2
        <3>. QED
            BY <3>1, FS_EmptySet DEF Occurrences
    <2>. QED
        BY <2>3, OccEmpty DEF Init, Counted
<1>. QED
    BY <1>1, <1>2 DEF Init, DInv, ToolOK, Idle, Logged, OriginSeq, AccOK, DatagramStart,
       NoContent
-----------------------------------------------------------------------------
(* What reading and queueing a frame do to a FIFO.                        *)

LEMMA OriginTail ==
    ASSUME NEW s \in Seq(Frames), s # <<>>, OriginSeq(s)
    PROVE  /\ OriginSeq(Tail(s))
           /\ FromTool(Head(s)) \/ Head(s).data.c.dst \subseteq {ToolId}
<1>1. /\ Len(Tail(s)) = Len(s) - 1
      /\ \A i \in 1..Len(Tail(s)) : Tail(s)[i] = s[i + 1]
      /\ Len(s) \in Nat \ {0} /\ Head(s) = s[1]
    BY HeadTailProperties, EmptySeq
<1>. QED
    BY <1>1 DEF OriginSeq

LEMMA OriginAppend ==
    ASSUME NEW s \in Seq(Frames), NEW f \in Frames, OriginSeq(s),
           FromTool(f) \/ f.data.c.dst \subseteq {ToolId}
    PROVE  OriginSeq(Append(s, f))
<1>1. /\ Len(Append(s, f)) = Len(s) + 1
      /\ \A i \in 1..Len(s) : Append(s, f)[i] = s[i]
      /\ Append(s, f)[Len(s) + 1] = f
      /\ Len(s) \in Nat
    BY AppendProperties, LenProperties
<1>. QED
    BY <1>1 DEF OriginSeq

(* Reading the head frame never adds a queued chunk.                      *)
LEMMA CountTail ==
    ASSUME NEW s \in Seq(Frames), s # <<>>, NEW v
    PROVE  /\ Occurrences(DataOf(Tail(s)), v) \in Nat
           /\ Occurrences(DataOf(Tail(s)), v) <= Occurrences(DataOf(s), v)
<1>1. Tail(s) \in Seq(Frames)
    BY HeadTailProperties
<1>2. DataOf(s) \in Seq(Chunks) /\ DataOf(Tail(s)) \in Seq(Chunks)
    BY <1>1, DataOfType
<1>3. Occurrences(DataOf(Tail(s)), v) \in Nat /\ Occurrences(DataOf(s), v) \in Nat
    BY <1>2, PositionsFinite
<1>. QED
    BY <1>3, DataOccTail

(* A frame on the bus: a receiver's FIFO keeps only tool frames and       *)
(* replies, and gains at most one copy of the frame's chunk.              *)
LEMMA BroadcastCount ==
    ASSUME TypeOK, NEW src, NEW f \in Frames,
           FromTool(f) \/ f.data.c.dst \subseteq {ToolId},
           NEW m \in Nodes, OriginSeq(rx[m]), NEW v
    PROVE  /\ OriginSeq(Broadcast(src, f)[m])
           /\ Occurrences(DataOf(Broadcast(src, f)[m]), v) <=
                 Occurrences(DataOf(rx[m]), v) + (IF f.data = v THEN 1 ELSE 0)
<1>1. rx[m] \in Seq(Frames)
    BY DEF TypeOK
<1>2. Occurrences(DataOf(rx[m]), v) \in Nat
    BY <1>1, DataOfType, PositionsFinite
<1>3. CASE m # src /\ pc[m] \notin {"app", "halt"} /\ Len(rx[m]) < RxCap
    <2>1. Broadcast(src, f)[m] = Append(rx[m], f)
        BY <1>3 DEF Broadcast
    <2>2. OriginSeq(Append(rx[m], f))
        BY <1>1, OriginAppend
    <2>3. Occurrences(DataOf(Append(rx[m], f)), v) =
              Occurrences(DataOf(rx[m]), v) + (IF f.data = v THEN 1 ELSE 0)
        BY <1>1, DataOccAppend
    <2>. QED
        BY <1>2, <2>1, <2>2, <2>3
<1>4. CASE ~(m # src /\ pc[m] \notin {"app", "halt"} /\ Len(rx[m]) < RxCap)
    <2>1. Broadcast(src, f)[m] = rx[m]
        BY <1>4 DEF Broadcast
    <2>. QED
        BY <1>2, <2>1
<1>. QED
    BY <1>3, <1>4
-----------------------------------------------------------------------------
(* Reading the head frame, lines 105-124.                                  *)

(* The decoder after the head frame: an incomplete datagram is still      *)
(* short of its last chunk, and a complete valid one was completed by it. *)
LEMMA ReadHead ==
    ASSUME DInv, NEW n \in Nodes, rx[n] # <<>>, NEW d \in Reassembled(n)
    PROVE  /\ d \in DecStates
           /\ ~IsComplete(d) => AccOK(d)
           /\ IsComplete(d) /\ IsValid(d) => Head(rx[n]).data = LastChunk(d.c)
<1> DEFINE d0 == IF IsStartOfDatagram(Head(rx[n]).id) THEN DatagramStart ELSE dt[n]
<1>1. d0 \in DecStates /\ AccOK(d0)
    <2>1. DatagramStart \in DecStates /\ AccOK(DatagramStart)
        BY DatagramStartType DEF AccOK, DatagramStart
    <2>2. dt[n] \in DecStates /\ AccOK(dt[n])
        BY DEF DInv, TypeOK
    <2>. QED
        BY <2>1, <2>2
<1>2. Head(rx[n]).data \in Chunks /\ d \in InputChunk(d0, Head(rx[n]).data)
    <2>1. Head(rx[n]) \in Frames
        BY RxTailType DEF DInv
    <2>. QED
        BY <2>1 DEF Reassembled, Frames
<1>3. d \in DecStates
    BY <1>1, <1>2, InputChunkType
<1>4. d.st = "acc" =>
         /\ d.need = NChunks(d.c) /\ d.got <= d.need
         /\ d.got = d.need => Head(rx[n]).data = LastChunk(d.c)
    BY <1>1, <1>2, DecodeAcc
<1>5. d.got \in Nat /\ d.need \in Nat
    BY <1>3 DEF DecStates
<1>. QED
    BY <1>3, <1>4, <1>5 DEF AccOK, IsComplete, IsValid

(* A datagram executed at n was completed by the last chunk of a tool    *)
(* datagram addressed to n, so line 131 answers the tool.                 *)
LEMMA ExecHead ==
    ASSUME DInv, NEW n \in Nodes, rx[n] # <<>>, NEW d \in Reassembled(n),
           IsComplete(d), Addressed(n, d)
    PROVE  /\ Head(rx[n]).data = LastChunk(d.c)
           /\ FromTool(Head(rx[n]))
           /\ d.c \in ToolDatagrams /\ n \in d.c.dst
           /\ ReturnId(Head(rx[n]).id) = ToolId
<1>1. Head(rx[n]).data = LastChunk(d.c)
    BY ReadHead DEF Addressed
<1>2. FromTool(Head(rx[n])) \/ Head(rx[n]).data.c.dst \subseteq {ToolId}
    BY OriginTail DEF DInv, TypeOK
<1>3. n \in Head(rx[n]).data.c.dst /\ n # ToolId
    BY <1>1, BootloaderAssumptions DEF Addressed, LastChunk
<1>4. FromTool(Head(rx[n]))
    BY <1>2, <1>3
<1>5. d.c \in ToolDatagrams /\ n \in d.c.dst
    BY <1>1, <1>3, <1>4 DEF FromTool, LastChunk
<1>6. ReturnId(Head(rx[n]).id) = ToolId
    <2>1. Head(rx[n]).id \in {ToolId, ToolId + START_OF_DATAGRAM_MASK}
        BY <1>4 DEF FromTool
    <2>2. ToolId \in 0..127
        BY BootloaderAssumptions DEF IdRange
    <2>. QED
        BY <2>1, <2>2 DEF ReturnId, START_OF_DATAGRAM_MASK
<1>. QED
    BY <1>1, <1>4, <1>5, <1>6
-----------------------------------------------------------------------------
(* DInv is kept by every step.                                             *)

(* A step that executes nothing at m keeps the count of c at m if the    *)
(* tool's complete transmissions of c grow by at least what the step     *)
(* adds to m's queued last chunks of c.                                  *)
LEMMA CountedMono ==
    ASSUME TypeOK, NEW m \in Nodes, NEW c \in ToolDatagrams, Counted(m, c),
           dlog'[m] = dlog[m], rx'[m] \in Seq(Frames), NEW x \in Nat,
           sent'[c] \in Nat, sent'[c] >= sent[c] + x,
           Occurrences(DataOf(rx'[m]), LastChunk(c)) <=
               Occurrences(DataOf(rx[m]), LastChunk(c)) + x
    PROVE  Counted(m, c)'
<1>1. dlog[m] \in Seq(Contents) /\ rx[m] \in Seq(Frames) /\ sent[c] \in Nat
    BY DEF TypeOK
<1>2. /\ Occurrences(dlog[m], c) \in Nat
      /\ Occurrences(DataOf(rx[m]), LastChunk(c)) \in Nat
      /\ Occurrences(DataOf(rx'[m]), LastChunk(c)) \in Nat
    BY <1>1, DataOfType, PositionsFinite
<1>. QED
    BY <1>1, <1>2 DEF Counted

(* Steps that change no FIFO, no log, no reply and nothing of the tool.  *)
LEMMA DInvFrame ==
    ASSUME DInv, TypeOK', UNCHANGED <<rx, out, dlog, toolOut, sent>>,
           \A m \in Nodes : AccOK(dt'[m])
    PROVE  DInv'
BY DEF DInv, Logged, OriginSeq, Counted, ToolOK

(* Lines 105-117 and 136: the head frame is read into the decoder, or a   *)
(* complete datagram not for this node is dropped.                        *)
LEMMA ReadStep ==
    ASSUME DInv, NEW n \in Nodes, FeedFrame(n) \/ DiscardDatagram(n)
    PROVE  DInv'
<1>1. TypeOK'
    BY TypeOKStep DEF DInv, Next, Node
<1>2. /\ rx[n] # <<>> /\ rx' = [rx EXCEPT ![n] = Tail(@)]
      /\ UNCHANGED <<out, dlog, toolOut, sent>>
    BY DEF FeedFrame, DiscardDatagram, toolVars
<1>3. ASSUME NEW m \in Nodes PROVE AccOK(dt'[m])
    <2>1. CASE FeedFrame(n)
        <3>1. PICK d \in Reassembled(n) : ~IsComplete(d) /\ dt' = [dt EXCEPT ![n] = d]
            BY <2>1 DEF FeedFrame
        <3>2. AccOK(d)
            BY <1>2, <3>1, ReadHead
        <3>. QED
            BY <3>1, <3>2 DEF DInv, TypeOK
    <2>2. CASE DiscardDatagram(n)
        <3>1. dt' = [dt EXCEPT ![n] = DatagramStart]
            BY <2>2 DEF DiscardDatagram
        <3>. QED
            BY <3>1 DEF DInv, TypeOK, AccOK, DatagramStart
    <2>. QED
        BY <2>1, <2>2
<1>4. rx[n] \in Seq(Frames) /\ OriginSeq(rx[n])
    BY DEF DInv, TypeOK
<1>5. ASSUME NEW m \in Nodes PROVE OriginSeq(rx'[m])
    BY <1>2, <1>4, OriginTail DEF DInv, TypeOK
<1>6. ASSUME NEW m \in Nodes, NEW c \in ToolDatagrams, m \in c.dst PROVE Counted(m, c)'
    <2>1. Counted(m, c)
        BY <1>6 DEF DInv
    <2>3. rx'[m] \in Seq(Frames)
        BY <1>1 DEF TypeOK
    <2>2. Occurrences(DataOf(rx'[m]), LastChunk(c)) <=
              Occurrences(DataOf(rx[m]), LastChunk(c)) + 0
        <3>1. CASE m = n
            <4>1. rx'[m] = Tail(rx[n])
                BY <1>2, <3>1 DEF DInv, TypeOK
            <4>2. Occurrences(DataOf(Tail(rx[n])), LastChunk(c)) <=
                      Occurrences(DataOf(rx[n]), LastChunk(c))
                BY <1>2, <1>4, CountTail
            <4>3. Occurrences(DataOf(rx[n]), LastChunk(c)) \in Nat
                BY <1>4, DataOfType, PositionsFinite
            <4>. QED
                BY <3>1, <4>1, <4>2, <4>3
        <3>2. CASE m # n
            <4>1. rx'[m] = rx[m]
                BY <1>2, <3>2 DEF DInv, TypeOK
            <4>. QED
                BY <4>1, DataOfType, PositionsFinite DEF DInv, TypeOK
        <3>. QED
            BY <3>1, <3>2
    <2>. QED
        BY <1>2, <2>1, <2>2, <2>3, CountedMono DEF DInv, TypeOK
<1>. QED
    BY <1>1, <1>2, <1>3, <1>5, <1>6 DEF DInv, Logged, ToolOK
(* Executing a datagram moves one count of it from the queue (its last    *)
(* chunk, read now) to the log.                                           *)
LEMMA ExecCount ==
    ASSUME DInv, NEW n \in Nodes, rx[n] # <<>>, NEW d \in Reassembled(n),
           IsComplete(d), Addressed(n, d), NEW c \in ToolDatagrams, n \in c.dst
    PROVE  Occurrences(Append(dlog[n], d.c), c) +
               Occurrences(DataOf(Tail(rx[n])), LastChunk(c)) <= sent[c]
<1>1. /\ Head(rx[n]).data = LastChunk(d.c)
      /\ d.c \in ToolDatagrams
    BY ExecHead
<1>2. /\ dlog[n] \in Seq(Contents) /\ rx[n] \in Seq(Frames) /\ sent[c] \in Nat
      /\ d.c \in Contents
    BY <1>1, BootloaderAssumptions DEF DInv, TypeOK
<1>3. Occurrences(Append(dlog[n], d.c), c) =
          Occurrences(dlog[n], c) + (IF d.c = c THEN 1 ELSE 0)
    BY <1>2, OccAppend
<1>4. Occurrences(DataOf(Tail(rx[n])), LastChunk(c)) =
          Occurrences(DataOf(rx[n]), LastChunk(c)) -
              (IF Head(rx[n]).data = LastChunk(c) THEN 1 ELSE 0)
    BY <1>2, DataOccTail
<1>5. Head(rx[n]).data = LastChunk(c) <=> d.c = c
    BY <1>1 DEF LastChunk
<1>6. Counted(n, c)
    BY DEF DInv
<1>7. /\ Occurrences(dlog[n], c) \in Nat
      /\ Occurrences(DataOf(rx[n]), LastChunk(c)) \in Nat
    BY <1>2, DataOfType, PositionsFinite
<1>. QED
    BY <1>3, <1>4, <1>5, <1>6, <1>7 DEF Counted

(* Lines 114-128: a complete, valid datagram addressed to the node runs,  *)
(* and the reply, if any, goes to the sender of the last frame.          *)
LEMMA ExecStep ==
    ASSUME DInv, NEW n \in Nodes, ExecuteDatagram(n) \/ JumpCommand(n)
    PROVE  DInv'
<1>1. TypeOK'
    BY TypeOKStep DEF DInv, Next, Node
<1>2. /\ rx[n] # <<>> /\ rx' = [rx EXCEPT ![n] = Tail(@)]
      /\ UNCHANGED <<toolOut, sent>>
    BY DEF ExecuteDatagram, JumpCommand, toolVars
<1>3. PICK d \in Reassembled(n) :
          /\ IsComplete(d) /\ Addressed(n, d)
          /\ dlog' = [dlog EXCEPT ![n] = Append(@, d.c)]
    BY DEF ExecuteDatagram, JumpCommand
<1>4. /\ d.c \in ToolDatagrams /\ n \in d.c.dst
      /\ ReturnId(Head(rx[n]).id) = ToolId
    BY <1>2, <1>3, ExecHead
<1>5. ASSUME NEW m \in Nodes PROVE out'[m].c.dst \subseteq {ToolId} /\ AccOK(dt'[m])
    <2>1. out[m].c.dst \subseteq {ToolId} /\ AccOK(dt[m])
        BY DEF DInv
    <2>2. CASE ExecuteDatagram(n)
        <3>1. PICK e \in Reassembled(n) :
                 /\ IsComplete(e) /\ Addressed(n, e)
                 /\ \E r \in CommandResult(e.c.cmd) :
                       out' = [out EXCEPT ![n] =
                                 [c |-> ReplyContent(ReturnId(Head(rx[n]).id), Len8(r)),
                                  k |-> 1]]
            BY <2>2 DEF ExecuteDatagram
        <3>2. dt' = [dt EXCEPT ![n] = DatagramStart]
            BY <2>2 DEF ExecuteDatagram
        <3>3. ReturnId(Head(rx[n]).id) = ToolId
            BY <1>2, <3>1, ExecHead
        <3>. QED
            BY <2>1, <3>1, <3>2, <3>3 DEF DInv, TypeOK, ReplyContent, AccOK, DatagramStart
    <2>3. CASE JumpCommand(n)
        BY <2>1, <2>3 DEF JumpCommand
    <2>. QED
        BY <2>2, <2>3
<1>6. rx[n] \in Seq(Frames) /\ OriginSeq(rx[n]) /\ dlog[n] \in Seq(Contents)
    BY DEF DInv, TypeOK
<1>7. ASSUME NEW m \in Nodes PROVE OriginSeq(rx'[m])
    BY <1>2, <1>6, OriginTail DEF DInv, TypeOK
<1>8. ASSUME NEW m \in Nodes PROVE Logged(m)'
    <2>1. CASE m = n
        <3>1. d.c \in Contents
            BY <1>4, BootloaderAssumptions
        <3>2. /\ Len(Append(dlog[n], d.c)) = Len(dlog[n]) + 1
              /\ \A i \in 1..Len(dlog[n]) : Append(dlog[n], d.c)[i] = dlog[n][i]
              /\ Append(dlog[n], d.c)[Len(dlog[n]) + 1] = d.c
              /\ Len(dlog[n]) \in Nat
            BY <1>6, <3>1, AppendProperties, LenProperties
        <3>3. dlog'[n] = Append(dlog[n], d.c)
            BY <1>3 DEF DInv, TypeOK
        <3>. QED
            BY <1>4, <2>1, <3>2, <3>3 DEF DInv, Logged
    <2>2. CASE m # n
        BY <1>3, <2>2 DEF DInv, TypeOK, Logged
    <2>. QED
        BY <2>1, <2>2
<1>9. ASSUME NEW m \in Nodes, NEW c \in ToolDatagrams, m \in c.dst PROVE Counted(m, c)'
    <2>1. CASE m = n
        <3>1. dlog'[n] = Append(dlog[n], d.c) /\ rx'[n] = Tail(rx[n])
            BY <1>2, <1>3 DEF DInv, TypeOK
        <3>2. Occurrences(Append(dlog[n], d.c), c) +
                  Occurrences(DataOf(Tail(rx[n])), LastChunk(c)) <= sent[c]
            BY <1>2, <1>3, <1>9, <2>1, ExecCount
        <3>. QED
            BY <1>2, <2>1, <3>1, <3>2 DEF Counted
    <2>2. CASE m # n
        <3>1. dlog'[m] = dlog[m] /\ rx'[m] = rx[m]
            BY <1>2, <1>3, <2>2 DEF DInv, TypeOK
        <3>. QED
            BY <1>2, <1>9, <3>1 DEF DInv, Counted
    <2>. QED
        BY <2>1, <2>2
<1>. QED
    BY <1>1, <1>2, <1>5, <1>7, <1>8, <1>9 DEF DInv, ToolOK
(* Lines 51-70: a reply chunk is queued at the other nodes; it is never   *)
(* the last chunk of a datagram for them, since replies address the tool. *)
LEMMA ReplyStep ==
    ASSUME DInv, NEW n \in Nodes, ReturnDatagramChunk(n)
    PROVE  DInv'
<1>1. TypeOK'
    BY TypeOKStep DEF DInv, Next, Node
<1> DEFINE k == out[n].k
           f == [id |-> IF k = 1 THEN n + START_OF_DATAGRAM_MASK ELSE n,
                 data |-> [c |-> out[n].c, k |-> k]]
<1>2. /\ rx' = Broadcast(n, f)
      /\ out' = [out EXCEPT ![n].k = k + 1]
      /\ UNCHANGED <<dt, dlog, toolOut, sent>>
    BY DEF ReturnDatagramChunk, toolVars
<1>3. f \in Frames /\ f.data.c.dst \subseteq {ToolId}
    <2>1. n \in IdRange /\ k \in Nat /\ out[n].c \in Contents
        BY BootloaderAssumptions DEF DInv, TypeOK
    <2>2. f.id \in FrameIdRange
        BY <2>1, SenderFrameId
    <2>. QED
        BY <2>1, <2>2 DEF Frames, Chunks, DInv
<1>4. ASSUME NEW m \in Nodes PROVE out'[m].c.dst \subseteq {ToolId}
    BY <1>2 DEF DInv, TypeOK
<1>5. ASSUME NEW m \in Nodes PROVE OriginSeq(rx'[m])
    BY <1>2, <1>3, BroadcastCount DEF DInv
<1>6. ASSUME NEW m \in Nodes, NEW c \in ToolDatagrams, m \in c.dst PROVE Counted(m, c)'
    <2>1. f.data # LastChunk(c)
        <3>1. m \notin f.data.c.dst
            BY <1>3, BootloaderAssumptions
        <3>. QED
            BY <1>6, <3>1 DEF LastChunk
    <2>2. Occurrences(DataOf(rx'[m]), LastChunk(c)) <=
              Occurrences(DataOf(rx[m]), LastChunk(c)) + 0
        <3>1. Occurrences(DataOf(Broadcast(n, f)[m]), LastChunk(c)) <=
                  Occurrences(DataOf(rx[m]), LastChunk(c)) +
                      (IF f.data = LastChunk(c) THEN 1 ELSE 0)
            BY <1>3, BroadcastCount DEF DInv
        <3>. QED
            BY <1>2, <2>1, <3>1
    <2>3. Counted(m, c) /\ rx'[m] \in Seq(Frames) /\ sent[c] \in Nat
        BY <1>1, <1>6 DEF DInv, TypeOK
    <2>4. sent'[c] \in Nat /\ sent'[c] >= sent[c] + 0 /\ dlog'[m] = dlog[m] /\ TypeOK
        BY <1>2, <2>3 DEF DInv
    <2>. QED
        BY <1>6, <2>2, <2>3, <2>4, CountedMono
<1>. QED
    BY <1>1, <1>2, <1>4, <1>5, <1>6 DEF DInv, ToolOK, Logged

(* The tool's chunk k of c, which counts c as sent with its last chunk.   *)
LEMMA ToolChunkStep ==
    ASSUME DInv, TypeOK', NEW c0 \in ToolDatagrams, NEW k \in 1..NChunks(c0),
           ToolChunk(c0, k), UNCHANGED nodeVars
    PROVE  DInv'
<1> DEFINE f == [id |-> IF k = 1 THEN ToolId + START_OF_DATAGRAM_MASK ELSE ToolId,
                 data |-> [c |-> c0, k |-> k]]
<1>1. /\ rx' = Broadcast(ToolId, f)
      /\ toolOut' = IF k = NChunks(c0) THEN Idle ELSE [c |-> c0, k |-> k + 1]
      /\ sent' = IF k = NChunks(c0) THEN [sent EXCEPT ![c0] = @ + 1] ELSE sent
    BY DEF ToolChunk
<1>2. f \in Frames /\ FromTool(f)
    <2>1. ToolId \in IdRange /\ c0 \in Contents
        BY BootloaderAssumptions
    <2>2. f.id \in FrameIdRange
        BY <2>1, SenderFrameId
    <2>. QED
        BY <2>1, <2>2 DEF Frames, Chunks, FromTool
<1>3. ToolOK'
    BY <1>1, NChunksPositive, BootloaderAssumptions DEF ToolOK, Idle
<1>4. ASSUME NEW m \in Nodes PROVE OriginSeq(rx'[m])
    BY <1>1, <1>2, BroadcastCount DEF DInv
<1>5. ASSUME NEW m \in Nodes, NEW c \in ToolDatagrams, m \in c.dst PROVE Counted(m, c)'
    <2> DEFINE x == IF f.data = LastChunk(c) THEN 1 ELSE 0
    <2>1. Occurrences(DataOf(rx'[m]), LastChunk(c)) <=
              Occurrences(DataOf(rx[m]), LastChunk(c)) + x
        BY <1>1, <1>2, BroadcastCount DEF DInv
    <2>2. sent \in [ToolDatagrams -> Nat]
        BY DEF DInv, TypeOK
    <2>3. f.data = LastChunk(c) => c0 = c /\ k = NChunks(c0)
        BY DEF LastChunk
    <2>4. sent'[c] \in Nat /\ sent'[c] >= sent[c] + x
        BY <1>1, <2>2, <2>3
    <2>5. Counted(m, c) /\ rx'[m] \in Seq(Frames) /\ dlog'[m] = dlog[m]
        BY <1>5 DEF DInv, TypeOK, nodeVars
    <2>. QED
        BY <2>1, <2>4, <2>5, CountedMono DEF DInv
<1>. QED
    BY <1>3, <1>4, <1>5 DEF DInv, Logged, AccOK, nodeVars
(* Every step of a node, of time or of the tool keeps DInv.               *)
LEMMA DInvStep == DInv /\ [Next]_vars => DInv'
<1> SUFFICES ASSUME DInv, [Next]_vars PROVE DInv'
    OBVIOUS
<1>1. TypeOK'
    BY TypeOKStep DEF DInv
<1>2. ASSUME NEW n \in Nodes,
             \/ ConfigLoad(n) \/ ConfigInvalid(n) \/ JumpOnTimeout(n) \/ ReadMessage(n)
             \/ ReadTimeout(n) \/ ReturnDatagramFail(n) \/ Expire(n)
      PROVE  DInv'
    <2>1. UNCHANGED <<rx, out, dlog, toolOut, sent>>
        BY <1>2 DEF ConfigLoad, ConfigInvalid, JumpOnTimeout, ReadMessage, ReadTimeout,
                    ReturnDatagramFail, Expire, toolVars
    <2>2. dt' = dt \/ dt' = [dt EXCEPT ![n] = DatagramStart]
        BY <1>2 DEF ConfigLoad, ConfigInvalid, JumpOnTimeout, ReadMessage, ReadTimeout,
                    ReturnDatagramFail, Expire
    <2>3. \A m \in Nodes : AccOK(dt'[m])
        <3>1. AccOK(DatagramStart) /\ \A m \in Nodes : AccOK(dt[m])
            BY DEF DInv, AccOK, DatagramStart
        <3>2. dt \in [Nodes -> DecStates]
            BY DEF DInv, TypeOK
        <3>. QED
            BY <2>2, <3>1, <3>2
    <2>. QED
        BY <1>1, <2>1, <2>3, DInvFrame
<1>3. ASSUME NEW n \in Nodes, FeedFrame(n) \/ DiscardDatagram(n) PROVE DInv'
    BY <1>3, ReadStep
<1>4. ASSUME NEW n \in Nodes, ExecuteDatagram(n) \/ JumpCommand(n) PROVE DInv'
    BY <1>4, ExecStep
<1>5. ASSUME NEW n \in Nodes, ReturnDatagramChunk(n) PROVE DInv'
    BY <1>5, ReplyStep
<1>6. CASE ToolStart
    <2>1. PICK c \in ToolDatagrams : ToolChunk(c, 1)
        BY <1>6 DEF ToolStart
    <2>2. 1 \in 1..NChunks(c)
        BY NChunksPositive, BootloaderAssumptions
    <2>3. UNCHANGED nodeVars
        BY <1>6 DEF ToolStart
    <2>. QED
        BY <1>1, <2>1, <2>2, <2>3, ToolChunkStep
<1>7. CASE ToolContinue
    <2>1. toolOut.c \in ToolDatagrams /\ toolOut.k \in 1..NChunks(toolOut.c)
        BY <1>7 DEF ToolContinue, DInv, ToolOK, TypeOK
    <2>2. ToolChunk(toolOut.c, toolOut.k) /\ UNCHANGED nodeVars
        BY <1>7 DEF ToolContinue
    <2>. QED
        BY <1>1, <2>1, <2>2, ToolChunkStep
<1>8. CASE ToolAbort
    BY <1>1, <1>8 DEF ToolAbort, nodeVars, DInv, ToolOK, Idle, Logged, OriginSeq, Counted,
                    AccOK
<1>9. CASE Terminating \/ UNCHANGED vars
    <2>1. UNCHANGED <<rx, out, dlog, toolOut, sent, dt>>
        BY <1>9 DEF Terminating, vars
    <2>. QED
        BY <1>1, <2>1, DInvFrame DEF DInv
<1>. QED
    BY <1>2, <1>3, <1>4, <1>5, <1>6, <1>7, <1>8, <1>9 DEF Next, Node

(* DInv holds in every reachable state.                                  *)
LEMMA DInvAlways == Spec => []DInv
BY DInvInit, DInvStep, PTL DEF Spec

-----------------------------------------------------------------------------
(* DispatchInv, the invariant the safety run checks, holds in every      *)
(* reachable state: replies only ever address the tool, a datagram       *)
(* accumulating in dt is short of its last chunk, and the executions of  *)
(* each tool datagram at a node plus its last chunks still in the node's *)
(* FIFO never exceed the tool's complete transmissions of it.            *)
THEOREM DispatchInvariant == Spec => []DispatchInv
BY DInvAlways, DInvDispatchInv, PTL

(* Reassembly and dispatch in bootloader_main (lines 105-128) are sound   *)
(* for every set of nodes, every FIFO depth and every set of tool         *)
(* datagrams: a node executes only datagrams the tool sent to it, and no  *)
(* datagram more often than the tool completed its transmission, whatever *)
(* frames were lost, interleaved with replies or abandoned half-way.      *)
THEOREM DispatchCorrect == Spec => []DispatchSound
<1>1. DispatchInv => DispatchSound
    BY DEF DispatchInv
<1>. QED
    BY <1>1, DispatchInvariant, PTL
(* Only ExecuteDatagram and JumpCommand of n extend n's log, by the       *)
(* datagram just completed.                                               *)
LEMMA ExecOnLastChunkStep ==
    ASSUME DInv, [Next]_vars, NEW n \in Nodes, Len(dlog'[n]) # Len(dlog[n])
    PROVE  /\ rx[n] # <<>>
           /\ FromTool(Head(rx[n]))
           /\ Head(rx[n]).data = LastChunk(dlog'[n][Len(dlog'[n])])
<1>1. dlog \in [Nodes -> Seq(Contents)]
    BY DEF DInv, TypeOK
<1>2. ASSUME NEW m \in Nodes, ExecuteDatagram(m) \/ JumpCommand(m), m # n
      PROVE  FALSE
    <2>1. \E d \in Reassembled(m) : dlog' = [dlog EXCEPT ![m] = Append(@, d.c)]
        BY <1>2 DEF ExecuteDatagram, JumpCommand
    <2>. QED
        BY <1>1, <1>2, <2>1
<1>3. ASSUME NEW m \in Nodes,
             \/ ConfigLoad(m) \/ ConfigInvalid(m) \/ JumpOnTimeout(m) \/ ReadMessage(m)
             \/ ReadTimeout(m) \/ FeedFrame(m) \/ DiscardDatagram(m)
             \/ ReturnDatagramChunk(m) \/ ReturnDatagramFail(m) \/ Expire(m)
      PROVE  FALSE
    <2>1. dlog' = dlog
        BY <1>3 DEF ConfigLoad, ConfigInvalid, JumpOnTimeout, ReadMessage, ReadTimeout,
                    FeedFrame, DiscardDatagram, ReturnDatagramChunk, ReturnDatagramFail,
                    Expire
    <2>. QED
        BY <2>1
<1>4. ~(ToolStart \/ ToolContinue \/ ToolAbort \/ Terminating \/ UNCHANGED vars)
    BY DEF ToolStart, ToolContinue, ToolAbort, Terminating, vars, nodeVars
<1>5. ExecuteDatagram(n) \/ JumpCommand(n)
    BY <1>2, <1>3, <1>4 DEF Next, Node
<1>6. PICK d \in Reassembled(n) :
          /\ IsComplete(d) /\ Addressed(n, d)
          /\ dlog' = [dlog EXCEPT ![n] = Append(@, d.c)]
    BY <1>5 DEF ExecuteDatagram, JumpCommand
<1>7. rx[n] # <<>>
    BY <1>5 DEF ExecuteDatagram, JumpCommand
<1>8. /\ Head(rx[n]).data = LastChunk(d.c) /\ FromTool(Head(rx[n]))
      /\ d.c \in Contents
    BY <1>6, <1>7, ExecHead, BootloaderAssumptions
<1>9. dlog'[n][Len(dlog'[n])] = d.c
    <2>1. dlog'[n] = Append(dlog[n], d.c)
        BY <1>1, <1>6
    <2>2. Len(Append(dlog[n], d.c)) = Len(dlog[n]) + 1
          /\ Append(dlog[n], d.c)[Len(dlog[n]) + 1] = d.c
        BY <1>1, <1>8, AppendProperties
    <2>. QED
        BY <2>1, <2>2
<1>. QED
    BY <1>7, <1>8, <1>9

(* ExecOnLastChunk: bootloader_main runs a command only on reading the    *)
(* tool's frame with the last chunk of that datagram, for every value of  *)
(* the constants.                                                         *)
THEOREM ExecOnlyOnLastChunk == Spec => ExecOnLastChunk
<1>1. DInv /\ [Next]_vars =>
        [\A n \in Nodes :
            Len(dlog'[n]) # Len(dlog[n]) =>
               /\ rx[n] # <<>>
               /\ FromTool(Head(rx[n]))
               /\ Head(rx[n]).data = LastChunk(dlog'[n][Len(dlog'[n])])]_vars
    BY ExecOnLastChunkStep
<1>. QED
    BY <1>1, DInvAlways, PTL DEF Spec, ExecOnLastChunk
=============================================================================
