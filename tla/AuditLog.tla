------------------------------ MODULE AuditLog ------------------------------
(***************************************************************************)
(* The audit log (internal/audit/audit.go): Record appends one line to a   *)
(* file under a lock; ReadLast reads the file backwards, block by block,   *)
(* without the lock.                                                       *)
(*                                                                         *)
(* The file is a sequence of cells, each a part of an event or a newline.  *)
(* Events are numbered in the order in which they take their time, so the  *)
(* number of an event is its time.  A write may be seen in part while it   *)
(* happens, and may stop part of the way: the disk is full, or the process *)
(* ends.  Only a line that is one whole event is valid JSON.               *)
(***************************************************************************)
EXTENDS Integers, FiniteSets, SequencesExt

CONSTANTS
  Writers,                  \* requests that call Record
  Lengths,                  \* sizes of an event, in cells, positive
  BlockSize, MaxLineSize,
  Limits, DefaultLimit, MaxLimit,
  MaxEvents, MaxTears       \* bounds

VARIABLES
  file,      \* the cells of the file
  size,      \* the size of each event that has taken its time
  writer,    \* what each writer does
  mu,        \* who holds Logger.mu
  recorded,  \* events whose Record has returned no error
  tears,     \* writes that stopped part of the way
  reader     \* the call of ReadLast

vars == <<file, size, writer, mu, recorded, tears, reader>>

Nobody == "nobody"
Idle == [pc |-> "idle", event |-> 0, written |-> 0]
Newline == [event |-> 0, part |-> 0]
Times == DOMAIN size

\* What Record writes for an event: the event and a newline.
Entry(e) == Append([k \in 1..size[e] |-> [event |-> e, part |-> k]], Newline)

NoRead == [pc |-> "idle", from |-> 0, left |-> 0, limit |-> 0,
           data |-> <<>>, events |-> <<>>]

Init ==
  /\ file = <<>> /\ size = <<>>
  /\ writer = [w \in Writers |-> Idle] /\ mu = Nobody
  /\ recorded = {} /\ tears = 0
  /\ reader = NoRead

----------------------------------------------------------------------------
(* Record.                                                                 *)

\* time.Now and json.Marshal come before the lock.
Record(w, length) ==
  /\ writer[w].pc = "idle" /\ Len(size) < MaxEvents
  /\ size' = Append(size, length)
  /\ writer' = [writer EXCEPT ![w] = [pc |-> "stamped", event |-> Len(size) + 1,
                                      written |-> 0]]
  /\ UNCHANGED <<file, mu, recorded, tears, reader>>

\* Bug: the file is opened without the lock.
NoMutex(w) == w \in Writers

MutexFree(w) == mu = Nobody

Lock(w) ==
  /\ writer[w].pc = "stamped" /\ MutexFree(w)
  /\ mu' = w
  /\ writer' = [writer EXCEPT ![w].pc = "writing"]
  /\ UNCHANGED <<file, size, recorded, tears, reader>>

\* Some more cells of the line reach the file, at its end (O_APPEND).
Write(w) ==
  LET e == writer[w].event
      k == writer[w].written
  IN  /\ writer[w].pc = "writing"
      /\ \E n \in 1..(size[e] + 1 - k) :
           /\ file' = file \o SubSeq(Entry(e), k + 1, k + n)
           /\ IF k + n = size[e] + 1
              THEN /\ writer' = [writer EXCEPT ![w] = Idle] /\ mu' = Nobody
                   /\ recorded' = recorded \cup {e}
              ELSE /\ writer' = [writer EXCEPT ![w].written = k + n]
                   /\ UNCHANGED <<mu, recorded>>
      /\ UNCHANGED <<size, tears, reader>>

\* MkdirAll, OpenFile or Write fails: Record returns the error.
RecordFails(w) ==
  /\ writer[w].pc = "writing" /\ tears < MaxTears
  /\ writer' = [writer EXCEPT ![w] = Idle] /\ mu' = Nobody
  /\ tears' = IF writer[w].written > 0 THEN tears + 1 ELSE tears
  /\ UNCHANGED <<file, size, recorded, reader>>

\* The process ends and is started again.
Restart ==
  /\ tears < MaxTears
  /\ \E w \in Writers : writer[w].pc # "idle"
  /\ tears' = IF \E w \in Writers : writer[w].written > 0 THEN tears + 1 ELSE tears
  /\ writer' = [w \in Writers |-> Idle] /\ mu' = Nobody /\ reader' = NoRead
  /\ UNCHANGED <<file, size, recorded>>

----------------------------------------------------------------------------
(* ReadLast.                                                               *)

\* The limit in force: 100 unless the caller asks for 1 to 500.
LimitFor(asked) == IF asked <= 0 \/ asked > MaxLimit THEN DefaultLimit ELSE asked

\* os.Open and Stat; a missing file has no events.
ReadLast(asked) ==
  /\ reader.pc = "idle"
  /\ reader' = [NoRead EXCEPT !.pc = IF file = <<>> THEN "done" ELSE "reading",
                              !.from = Len(file), !.left = Len(file),
                              !.limit = LimitFor(asked)]
  /\ UNCHANGED <<file, size, writer, mu, recorded, tears>>

\* json.Unmarshal: the line is exactly one event.
Valid(line) == \E e \in Times : Append(line, Newline) = Entry(e)

Failed(r) == [r EXCEPT !.pc = "failed", !.events = <<>>]

\* The function parse; an error of it ends readLast.
parse(r, line) ==
  IF line = <<>> THEN r
  ELSE IF Len(line) > MaxLineSize THEN Failed(r)
  ELSE IF Valid(line) THEN [r EXCEPT !.events = Append(@, line[1].event)]
  ELSE r

Newlines(data) == {i \in DOMAIN data : data[i] = Newline}

\* Bug: what a block leaves over is not put behind the next one.
WithoutRemainder(block, remainder) == IF remainder = <<>> THEN block ELSE block

Joined(block, remainder) == block \o remainder

\* One block, from the end of the file towards its beginning.
ReadBlock ==
  LET left == IF reader.left < BlockSize THEN 0 ELSE reader.left - BlockSize
  IN  /\ reader.pc = "reading"
      /\ reader' = [reader EXCEPT !.pc = "scanning", !.left = left,
                      !.data = Joined(SubSeq(file, left + 1, reader.left), @)]
      /\ UNCHANGED <<file, size, writer, mu, recorded, tears>>

More == Len(reader.events) < reader.limit /\ Newlines(reader.data) # {}

\* The line behind the last newline of data (bytes.LastIndexByte).
ScanLine ==
  LET data == reader.data
      separator == CHOOSE i \in Newlines(data) : \A j \in Newlines(data) : j <= i
  IN  /\ reader.pc = "scanning" /\ More
      /\ reader' = parse([reader EXCEPT !.data = SubSeq(data, 1, separator - 1)],
                         SubSeq(data, separator + 1, Len(data)))
      /\ UNCHANGED <<file, size, writer, mu, recorded, tears>>

\* slices.Reverse comes last.
Finished(r) ==
  IF r.pc = "failed" THEN r ELSE [r EXCEPT !.pc = "done", !.events = Reverse(@)]

\* Data has no more lines to give, or none is wanted.
EndBlock ==
  /\ reader.pc = "scanning" /\ ~More
  /\ reader' = IF Len(reader.events) = reader.limit THEN Finished(reader)
               ELSE IF Len(reader.data) > MaxLineSize THEN Failed(reader)
               ELSE IF reader.left = 0 THEN Finished(parse(reader, reader.data))
               ELSE [reader EXCEPT !.pc = "reading"]
  /\ UNCHANGED <<file, size, writer, mu, recorded, tears>>

\* The caller has the answer.
Answered ==
  /\ reader.pc \in {"done", "failed"}
  /\ reader' = NoRead
  /\ UNCHANGED <<file, size, writer, mu, recorded, tears>>

Next ==
  \/ \E w \in Writers : \/ \E length \in Lengths : Record(w, length)
                        \/ Lock(w) \/ Write(w) \/ RecordFails(w)
  \/ Restart
  \/ \E asked \in Limits : ReadLast(asked)
  \/ ReadBlock \/ ScanLine \/ EndBlock \/ Answered

Spec == Init /\ [][Next]_vars

----------------------------------------------------------------------------
(* Properties.                                                             *)

\* The lines of the first n cells of the file: where a line starts, and where
\* the newline behind it is or would be.
Lines(n) ==
  {line \in (1..(n + 1)) \X (1..(n + 1)) :
     /\ line[1] <= line[2]
     /\ line[1] = 1 \/ file[line[1] - 1] = Newline
     /\ line[2] = n + 1 \/ file[line[2]] = Newline
     /\ \A k \in line[1]..(line[2] - 1) : file[k] # Newline}

TextOf(line) == SubSeq(file, line[1], line[2] - 1)
EventOf(line) == TextOf(line)[1].event
ValidLines(n) == {line \in Lines(n) : Valid(TextOf(line))}
Readable == {EventOf(line) : line \in ValidLines(Len(file))}

Newer(line, n) == {other \in ValidLines(n) : other[1] > line[1]}

\* The newest valid lines, and the lines too long to be read among or behind
\* them.
Wanted(n, limit) == {line \in ValidLines(n) : Cardinality(Newer(line, n)) < limit}

InTheWay(n, limit) ==
  {line \in Lines(n) :
     /\ line[2] - line[1] > MaxLineSize
     /\ \/ Cardinality(Wanted(n, limit)) < limit
        \/ \E other \in Wanted(n, limit) : other[1] <= line[1]}

\* readLast against its meaning: of the file as it was when it was opened,
\* ReadLast returns the newest valid events, as many as were asked for, in
\* the order of the file, whatever blocks the lines fall into; it fails only
\* if it has to pass a line that is too long.
ReadExact ==
  LET wanted == Wanted(reader.from, reader.limit)
      inTheWay == InTheWay(reader.from, reader.limit)
      place(line) == Cardinality(wanted) - Cardinality(Newer(line, reader.from))
  IN  /\ reader.pc = "failed" => inTheWay # {}
      /\ reader.pc = "done" =>
           /\ inTheWay = {}
           /\ Len(reader.events) = Cardinality(wanted)
           /\ \A line \in wanted : reader.events[place(line)] = EventOf(line)

\* A write that stops part of the way spoils the line it began and, because
\* the next Record continues that line, at most one event that was recorded:
\* every other event whose Record succeeded can be read.
DamageContained == Cardinality(recorded \ Readable) <= tears
=============================================================================
