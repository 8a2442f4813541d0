------------------------------ MODULE LogStore ------------------------------
(***************************************************************************)
(* The runtime log (internal/logs): a ring of entries with two limits, and *)
(* the line writers that the gateway's logger and Caddy's two output       *)
(* streams are connected to.                                               *)
(*                                                                         *)
(* A Write is a loop over the lines in its data.  Each turn of the loop is *)
(* one step: Store.mu is taken anew for each line, so that lines of other  *)
(* writers come in between, while lineWriter.mu keeps the turns of two     *)
(* Writes to one writer apart.  Of a line only its length matters here,    *)
(* and of an entry its size, which depends on the text and its encoding.   *)
(***************************************************************************)
EXTENDS Integers, FiniteSetsExt, SequencesExt, Totals

CONSTANTS
  Writers,
  Limit, ByteLimit,   \* limit, byteLimit
  MaxLine,            \* maxLineBytes
  PartLengths,        \* bound: lengths of the pieces in which data arrives
  EntrySizes          \* bound: sizes of encoded entries

ASSUME LimitAssumption ==
  /\ Limit \in Nat \ {0}   \* NewStore
  /\ ByteLimit \in Nat /\ MaxLine \in Nat
  /\ PartLengths \subseteq Nat /\ EntrySizes \subseteq Nat

VARIABLES
  \* Store
  entries, sizes,      \* arrays of Limit slots
  start, count, storedBytes,
  \* lineWriter
  pending,             \* the number of bytes of the line kept so far
  dropping,
  \* an observation
  received             \* the bytes of the line received, MaxLine + 1 for more

store == <<entries, sizes, start, count, storedBytes>>
writers == <<pending, dropping, received>>
vars == <<store, writers>>

Slots == 0..(Limit - 1)
NoEntry == [size |-> 0]

(* kept: the bytes of the line in the entry; received: all of them.        *)
Entry == [kept : 1..MaxLine, received : 1..(MaxLine + 1), size : EntrySizes]

TypeOK ==
  /\ entries \in [Slots -> Entry \cup {NoEntry}]
  /\ sizes \in [Slots -> EntrySizes \cup {0}]
  /\ start \in Slots /\ count \in 0..Limit /\ storedBytes \in Nat
  /\ pending \in [Writers -> 0..MaxLine]
  /\ dropping \in [Writers -> BOOLEAN]
  /\ received \in [Writers -> 0..(MaxLine + 1)]

Init ==
  /\ entries = [i \in Slots |-> NoEntry] /\ sizes = [i \in Slots |-> 0]
  /\ start = 0 /\ count = 0 /\ storedBytes = 0
  /\ pending = [w \in Writers |-> 0]
  /\ dropping = [w \in Writers |-> FALSE]
  /\ received = [w \in Writers |-> 0]

----------------------------------------------------------------------------
(* Store.Add and Store.ReadLast.                                           *)

\* The slot k places after the oldest entry.
Slot(k) == (start + k) % Limit

\* The bytes of the k oldest entries.
Freed(k) == Total([i \in 1..k |-> sizes[Slot(i - 1)]])

\* Bug: only the bytes count.
RoomInBytes(k, size) == storedBytes - Freed(k) + size <= ByteLimit

\* The condition that ends the loop of Add.
Room(k, size) ==
  count - k < Limit /\ storedBytes - Freed(k) + size <= ByteLimit

\* Bug: the log is cleared when it is full.
EvictedAll(size) == IF Room(0, size) THEN 0 ELSE count

\* How many entries the loop of Add removes.
Evicted(size) == Min({k \in 0..count : k = count \/ Room(k, size)})

\* Bug: only the entry that is overwritten is subtracted.
StoredOverwritten(k, size) == storedBytes - sizes[Slot(count)] + size

StoredAfter(k, size) == storedBytes - Freed(k) + size

Add(e) ==
  LET k == Evicted(e.size)
      gone == {Slot(i) : i \in 0..(k - 1)}
      index == Slot(count)
  IN /\ e.size <= ByteLimit
     /\ entries' = [i \in Slots |-> IF i = index THEN e
                                    ELSE IF i \in gone THEN NoEntry ELSE entries[i]]
     /\ sizes' = [i \in Slots |-> IF i = index THEN e.size
                                  ELSE IF i \in gone THEN 0 ELSE sizes[i]]
     /\ storedBytes' = StoredAfter(k, e.size)
     /\ start' = Slot(k)
     /\ count' = count - k + 1

\* An entry whose encoding exceeds the byte limit.
Refuse(e) == e.size > ByteLimit /\ UNCHANGED store

\* Bug: the slot after the newest entry.
ReadSlotLate(offset) == (start + count - offset + Limit) % Limit

ReadSlot(offset) == (start + count - 1 - offset + Limit) % Limit

ReadLast(limit) ==
  LET wanted == IF limit <= 0 \/ limit > Limit THEN Min({200, Limit}) ELSE limit
  IN [i \in 1..Min({wanted, count}) |-> entries[ReadSlot(i - 1)]]

----------------------------------------------------------------------------
(* lineWriter.Write: one turn of its loop.                                 *)

\* pending after a part of n bytes.
Kept(w, n) == IF dropping[w] THEN pending[w] ELSE Min({pending[w] + n, MaxLine})

Overflows(w, n) == dropping[w] \/ pending[w] + n > MaxLine

Received(w, n) == Min({received[w] + n, MaxLine + 1})

(* The data ends before the line does.                                     *)
WritePart(w, n) ==
  /\ n > 0
  /\ pending' = [pending EXCEPT ![w] = Kept(w, n)]
  /\ dropping' = [dropping EXCEPT ![w] = Overflows(w, n)]
  /\ received' = [received EXCEPT ![w] = Received(w, n)]
  /\ UNCHANGED store

\* Bug: the rest of the next line is dropped, too.
ResetPending(w) ==
  /\ pending' = [pending EXCEPT ![w] = 0]
  /\ UNCHANGED dropping

ResetLine(w) ==
  /\ pending' = [pending EXCEPT ![w] = 0]
  /\ dropping' = [dropping EXCEPT ![w] = FALSE]

(* addLine: nothing is added for a line of white space.                    *)
AddLine(kept, all) ==
  \/ UNCHANGED store
  \/ /\ kept > 0
     /\ \E size \in EntrySizes :
          LET e == [kept |-> kept, received |-> all, size |-> size]
          IN Add(e) \/ Refuse(e)

(* A part of n bytes ends in a newline.                                    *)
WriteLine(w, n) ==
  /\ AddLine(Kept(w, n), Received(w, n))
  /\ ResetLine(w)
  /\ received' = [received EXCEPT ![w] = 0]

Next == \E w \in Writers, n \in PartLengths : WritePart(w, n) \/ WriteLine(w, n)

Spec == Init /\ [][Next]_vars

----------------------------------------------------------------------------

Log == [k \in 1..count |-> entries[Slot(k - 1)]]

BoundedLog == INSTANCE BoundedLog WITH log <- Log

(* The counter that decides about evictions never drifts from the entries  *)
(* that Add keeps and removes, and never exceeds the byte limit.           *)
BytesExact == storedBytes = BoundedLog!Bytes(Log) /\ storedBytes <= ByteLimit

(* An entry is one line of one writer, cut at MaxLine bytes and nowhere    *)
(* else, in whatever pieces lineWriter.Write received it, and also after a *)
(* line that was too long.                                                 *)
LinesWhole ==
  /\ \A w \in Writers : pending[w] = Min({received[w], MaxLine})
  /\ \A k \in 1..count : Log[k].kept = Min({Log[k].received, MaxLine})

(* ReadLast returns the newest entries, newest first, for every limit a    *)
(* caller may ask for, wherever the ring has wrapped around.               *)
ReadsNewest ==
  \A limit \in -1..(Limit + 1) :
    LET n == IF limit \in 1..Limit THEN limit ELSE Min({200, Limit})
    IN ReadLast(limit) = Reverse(BoundedLog!Newest(Log, Min({n, count})))

(* The runtime log is what was written to it: Add, ReadLast and the line   *)
(* writers together, the parts above.                                      *)
LogExact == TypeOK /\ BytesExact /\ LinesWhole /\ ReadsNewest

(* The ring keeps the longest end of what was written that fits into both  *)
(* limits: Add evicts the oldest entries, and no more than it has to.      *)
ImplementsBoundedLog == BoundedLog!Spec

=============================================================================
