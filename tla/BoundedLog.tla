----------------------------- MODULE BoundedLog -----------------------------
(***************************************************************************)
(* What the runtime log promises (docs/operations.md, Runtime Logs): the   *)
(* newest entries that fit within a number of entries and a number of      *)
(* bytes, the oldest making room.                                          *)
(***************************************************************************)
EXTENDS Naturals, SequencesExt, Totals

CONSTANTS
  Entry,      \* records with a field size
  Limit,      \* at most so many entries
  ByteLimit   \* at most so many bytes

VARIABLE log   \* oldest first

Bytes(s) == Total([i \in DOMAIN s |-> s[i].size])

Fits(s) == Len(s) <= Limit /\ Bytes(s) <= ByteLimit

Newest(s, n) == SubSeq(s, Len(s) - n + 1, Len(s))

(* The longest end of s that fits.                                         *)
Trimmed(s) == Newest(s, Max({n \in 0..Len(s) : Fits(Newest(s, n))}))

Init == log = <<>>

Add(e) ==
  /\ e.size <= ByteLimit
  /\ log' = Trimmed(Append(log, e))

Next == \E e \in Entry : Add(e)

Spec == Init /\ [][Next]_log

=============================================================================
