--------------------------- MODULE MC_Bootloader ---------------------------
(* Instances of the bootloader model for TLC: two nodes (IDs 1 and 2) and *)
(* the tool (ID 0); 6 bytes of framing (count, length, 4-byte CRC).       *)
EXTENDS Bootloader

(* ping (index 5) to both nodes: 9 wire bytes, two frames.                *)
PingBoth == [dst |-> {1, 2}, cmd |-> 5, len |-> 1]
(* read-flash (index 6) of node 1: index, address and size, two frames.  *)
ReadOne == [dst |-> {1}, cmd |-> 6, len |-> 9]
(* ping of node 1 alone: 8 wire bytes, one frame.                        *)
PingOne == [dst |-> {1}, cmd |-> 5, len |-> 1]
(* jump-to-application (index 1) to node 2: one frame.                    *)
JumpTwo == [dst |-> {2}, cmd |-> 1, len |-> 1]
(* an index missing from the table, to node 1: one frame.                 *)
UnknownOne == [dst |-> {1}, cmd |-> 9, len |-> 1]

MCToolDatagrams == {PingBoth, PingOne, ReadOne, JumpTwo}
MCToolDatagramsUnknown == {PingBoth, UnknownOne}

(* Replies: read-flash 3 bytes (two frames), the others 1 byte (one).     *)
MCHandlerResult == [i \in CommandIndices \ {JumpIndex} |-> IF i = 6 THEN {3} ELSE {1}]
(* read-flash of 256 bytes and of 300 bytes.                              *)
MCHandlerResultLong == [i \in CommandIndices \ {JumpIndex} |-> IF i = 6 THEN {256, 300} ELSE {1}]
=============================================================================
