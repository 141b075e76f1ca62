----------------------------- MODULE BoundedLog -----------------------------
(***************************************************************************)
(* What a ring buffer promises to its users, without saying how: it is a   *)
(* log that keeps the newest Cap bytes of everything written since the     *)
(* last reset.  A write is a single step and a reader gets the whole log,  *)
(* oldest byte first.  RingBuf (internal/ringbuf/ringbuf.go) implements    *)
(* this specification.                                                     *)
(***************************************************************************)
EXTENDS Naturals, Sequences

CONSTANTS Cap,       \* the number of bytes kept
          Payloads   \* the byte strings callers write

VARIABLES contents,  \* the bytes kept, oldest first
          arg,       \* what the latest write was given
          out        \* what the latest read returned

vars == <<contents, arg, out>>

\* The last n elements of s, all of s when it is no longer than n.
LastN(s, n) == IF Len(s) <= n THEN s ELSE SubSeq(s, Len(s) - n + 1, Len(s))

Init == contents = << >> /\ arg = << >> /\ out = << >>

\* Append p and forget all but the newest Cap bytes.
Put(p) == arg' = p /\ contents' = LastN(contents \o p, Cap) /\ UNCHANGED out

Read == out' = contents /\ UNCHANGED <<contents, arg>>

Clear == contents' = << >> /\ UNCHANGED <<arg, out>>

Next == (\E p \in Payloads : Put(p)) \/ Read \/ Clear

Spec == Init /\ [][Next]_vars
=============================================================================
