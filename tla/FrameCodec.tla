----------------------------- MODULE FrameCodec -----------------------------
(***************************************************************************)
(* The frame format between the server (internal/hub/frame.go) and the     *)
(* page (lib/protocol.ts): type(1), channel(2), length(4), payload, with   *)
(* numbers in big-endian order.                                            *)
(***************************************************************************)
EXTENDS Integers, Sequences

CONSTANTS Base,         \* how many values a byte has
          MaxPayload    \* maxPayloadSize of the server

ASSUME BaseAssumption == Base \in Nat /\ Base >= 2
ASSUME MaxPayloadAssumption == MaxPayload \in Nat

Uint8 == 0 .. Base - 1
Uint16 == 0 .. Base * Base - 1
Uint32 == 0 .. Base * Base * Base * Base - 1
HeaderSize == 7

Frame == [type : Uint8, chanID : Uint16, payload : Seq(Uint8)]

\* Stands for the error Decode returns and for the exception of decodeFrame.
Failed == [type |-> -1, chanID |-> -1, payload |-> << >>]

\* Seeded bug: the low byte first.
PutUint16Little(n) == <<n % Base, (n \div Base) % Base>>

PutUint16(n) == <<(n \div Base) % Base, n % Base>>

PutUint32(n) == PutUint16(n \div (Base * Base)) \o PutUint16(n)

GetUint16(b, i) == b[i] * Base + b[i + 1]

GetUint32(b, i) == GetUint16(b, i) * Base * Base + GetUint16(b, i + 2)

\* Both sides encode alike; a channel or a length that does not fit is cut off.
Encode(f) == <<f.type>> \o PutUint16(f.chanID) \o PutUint32(Len(f.payload)) \o f.payload

Unpack(b, len) ==
  [type |-> b[1], chanID |-> GetUint16(b, 2), payload |-> SubSeq(b, HeaderSize + 1, HeaderSize + len)]

\* The hub's decoder of a message: its length must be what its header says.
decodeFromBytes(b) ==
  IF Len(b) < HeaderSize THEN Failed
  ELSE LET len == GetUint32(b, 4)
       IN IF len > MaxPayload \/ len # Len(b) - HeaderSize THEN Failed ELSE Unpack(b, len)

\* The decoder for a stream. What follows the payload is not looked at.
Decode(b) ==
  IF Len(b) < HeaderSize THEN Failed
  ELSE LET len == GetUint32(b, 4)
       IN IF len > MaxPayload \/ Len(b) < HeaderSize + len THEN Failed ELSE Unpack(b, len)

\* The page's decoder, which has no limit.
decodeFrame(b) ==
  IF Len(b) < HeaderSize THEN Failed
  ELSE LET len == GetUint32(b, 4)
       IN IF Len(b) < HeaderSize + len THEN Failed ELSE Unpack(b, len)

-----------------------------------------------------------------------------
\* What one side encodes the other decodes: the page every frame, the server
\* every frame within its limit. Each refuses a message that was cut short, and
\* the hub one that goes on behind its frame.
RoundTrip(f) ==
  LET b == Encode(f)
      within == IF Len(f.payload) <= MaxPayload THEN f ELSE Failed
  IN /\ decodeFrame(b) = f /\ Decode(b) = within /\ decodeFromBytes(b) = within
     /\ \A n \in 0 .. Len(b) - 1 :
          LET c == SubSeq(b, 1, n)
          IN decodeFrame(c) = Failed /\ Decode(c) = Failed /\ decodeFromBytes(c) = Failed
     /\ \A x \in Uint8 : decodeFromBytes(Append(b, x)) = Failed
=============================================================================
