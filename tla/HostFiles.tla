----------------------------- MODULE HostFiles ------------------------------
(***************************************************************************)
(* A host file channel (filesys.c): operators on a record of the host's    *)
(* files and one channel. A file is the sequence of its 512 byte units; a  *)
(* channel reads and writes one at a time. Only existing files are in the  *)
(* domain of "files".                                                      *)
(*                                                                         *)
(* The C library is modelled by what POSIX says of it: written data may    *)
(* stay in the stream ("view") until a seek or a close puts it into the    *)
(* file, writing past the end fills the gap with zeros, and a file that    *)
(* the user protected opens for reading only.                              *)
(***************************************************************************)
EXTENDS Integers, Sequences, FiniteSets

CONSTANTS
  Host,       \* names of host files
  Protected,  \* files that can not be written
  Value,      \* contents of a unit
  Zero,       \* a unit of zeros
  NoName      \* an empty name

ASSUME HostFilesAssumption ==
  /\ Protected \subseteq Host
  /\ Zero \in Value
  /\ NoName \notin Host /\ IsFiniteSet(Host)

\* filesys_ch_t: "at" and "view" stand for the stream fp.
NewChannel(name, pos) ==
  [rd |-> FALSE, wr |-> FALSE, at |-> 0, view |-> <<>>, name |-> name, pos |-> pos]
Closed == NewChannel(NoName, 0)
StartIO(files) ==
  [files |-> files, ch |-> Closed, crashed |-> FALSE]

\* What a stream opened on the channel's file sees, positioned at pos.
Opened(io, wr) ==
  [io EXCEPT !.ch.rd = TRUE, !.ch.wr = wr, !.ch.at = io.ch.pos,
             !.ch.view = io.files[io.ch.name]]

\* The files with one of them created or replaced.
Stored(files, name, data) ==
  [h \in DOMAIN files \union {name} |-> IF h = name THEN data ELSE files[h]]

\* The stream's pending data gets to the file.
Synced(io) ==
  IF io.ch.wr THEN [io EXCEPT !.files = Stored(@, io.ch.name, io.ch.view)] ELSE io

\* filesys_flush
Flush(io) == [Synced(io) EXCEPT !.ch = NewChannel(io.ch.name, io.ch.pos)]

Readable(io) == io.ch.name \in DOMAIN io.files

\* filesys_open
Open(io, name) ==
  LET named == [Flush(io) EXCEPT !.ch = NewChannel(name, 0)]
  IN IF Readable(named) THEN Opened(named, FALSE) ELSE named

\* Leaves a stream alone that stands there already.
FaultSetPos(io, pos) ==
  IF io.ch.rd /\ io.ch.pos # pos
    THEN [Synced(io) EXCEPT !.ch.pos = pos, !.ch.at = pos]
    ELSE [io EXCEPT !.ch.pos = pos]

\* filesys_setpos
SetPos(io, pos) ==
  IF io.ch.rd THEN [Synced(io) EXCEPT !.ch.pos = pos, !.ch.at = pos]
              ELSE [io EXCEPT !.ch.pos = pos]

\* filesys_read, reopening the file first where needed. "got" is the unit, in a
\* sequence that is empty at the end of the file.
ReadOpened(io) == IF ~io.ch.rd /\ Readable(io) THEN Opened(io, FALSE) ELSE io

Got(io) ==
  LET o == ReadOpened(io).ch
  IN IF o.rd /\ o.at < Len(o.view) THEN <<o.view[o.at + 1]>> ELSE <<>>

Read(io) ==
  LET n == Len(Got(io))
  IN [ReadOpened(io) EXCEPT !.ch.pos = @ + n, !.ch.at = @ + n]

\* The view after writing v at a position.
Written(view, at, v) ==
  [u \in 1 .. (IF at < Len(view) THEN Len(view) ELSE at + 1) |->
     IF u = at + 1 THEN v ELSE IF u <= Len(view) THEN view[u] ELSE Zero]

\* Creates the file in any case.
FaultWriteOpened(io) ==
  IF io.ch.wr THEN io
  ELSE IF io.ch.name \in Protected \union {NoName} THEN Flush(io)
  ELSE Opened([Flush(io) EXCEPT !.files = Stored(@, io.ch.name, <<>>)], TRUE)

\* filesys_write: "r+b", then "w+b". With no stream, ftell reads through a null
\* pointer.
WriteOpened(io) ==
  LET shut   == Flush(io)
      exists == IF Readable(io) THEN shut
                ELSE [shut EXCEPT !.files = Stored(@, io.ch.name, <<>>)]
  IN IF io.ch.wr THEN io
     ELSE IF io.ch.name \in Protected \union {NoName} THEN shut
     ELSE Opened(exists, TRUE)

Write(io, v) ==
  LET o == WriteOpened(io)
  IN IF o.ch.wr
       THEN [o EXCEPT !.ch.view = Written(@, o.ch.at, v),
                      !.ch.pos = @ + 1, !.ch.at = @ + 1]
       ELSE [o EXCEPT !.crashed = TRUE]
=============================================================================
