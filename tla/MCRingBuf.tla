----------------------------- MODULE MCRingBuf -----------------------------
(* A buffer of three bytes and every payload of one to four of them: shorter *)
(* than the buffer, exactly as long, and longer. What is read from it is     *)
(* sent as the payload of a replay frame. A byte is a bit here, so that a     *)
(* length of two or three needs two bytes, like one above 255; the server's  *)
(* limit is two.                                                              *)
(* The port scan, which is as small and shares no state with the buffer, is   *)
(* checked by the same run: a behaviour is one scan or a life of the buffer.  *)
EXTENDS RingBuf, FrameCodec, PortScan, TLC

MCByte == 0 .. 1
MCPayloads == UNION {[1 .. n -> MCByte] : n \in 1 .. 4}

\* Sockets differ in nothing but what is known of them.
Alike == Permutations(Inodes)

VARIABLE part   \* what the behaviour is about

buffering == part = "buffer" /\ Next /\ UNCHANGED <<scanVars, part>>
scanning == part = "scan" /\ ScanNext /\ UNCHANGED <<vars, part>>

MCInit == Init /\ ScanInit /\ part \in {"buffer", "scan"}
MCNext == buffering \/ scanning
MCSpec == MCInit /\ [][MCNext]_<<vars, scanVars, part>>

\* A frame that carries what the ring returned (Attach in session.go) arrives at
\* the other side as it was sent, for every type and channel.
ReplayFrameArrives ==
  \A t \in Uint8, c \in Uint16 : RoundTrip([type |-> t, chanID |-> c, payload |-> out])
=============================================================================
