----------------------------- MODULE VFatProofs -----------------------------
(***************************************************************************)
(* Proofs about the virtual disk, for every size of the disk, every set of *)
(* host files and every way in which the program writes its FAT.           *)
(***************************************************************************)
EXTENDS VFat, ModularArith, FiniteSetTheorems, SequenceTheorems

Files == UNION {[S -> Seq(Value)] : S \in SUBSET Host}
Name  == Host \union {NoName}
ChanType == [rd : BOOLEAN, wr : BOOLEAN, at : Nat, view : Seq(Value), name : Name,
             pos : Nat]
IoType == [files : Files, ch : ChanType, crashed : BOOLEAN]

\* The stream is that of the channel's file, and where the channel says.
Sound(x) ==
  /\ x \in IoType
  /\ x.ch.wr => x.ch.rd
  /\ x.ch.rd => x.ch.at = x.ch.pos /\ x.ch.name \in DOMAIN x.files

\* Nothing is pending: the file is what the stream shows.
Settled(x) == x.ch.wr => x.files[x.ch.name] = x.ch.view

\* All that may be pending is the unit before the position.
Pending(x) ==
  x.ch.wr =>
    LET file == x.files[x.ch.name]
    IN \A u \in 1 .. Len(x.ch.view) :
         \/ u = x.ch.at
         \/ x.ch.view[u] = IF u <= Len(file) THEN file[u] ELSE Zero
-----------------------------------------------------------------------------
(* Host files. *)

\* The files with one of them replaced.
LEMMA StoredFiles ==
  ASSUME NEW f \in Files, NEW name \in Host, NEW data \in Seq(Value)
  PROVE  /\ Stored(f, name, data) \in Files
         /\ DOMAIN Stored(f, name, data) = DOMAIN f \union {name}
         /\ Stored(f, name, data)[name] = data
<1>1. PICK S \in SUBSET Host : f \in [S -> Seq(Value)]
  BY DEF Files
<1>2. Stored(f, name, data) \in [S \union {name} -> Seq(Value)]
  BY <1>1 DEF Stored
<1> QED BY <1>1, <1>2 DEF Files, Stored

\* A closed channel is sound.
LEMMA ClosedSound ==
  ASSUME NEW x \in IoType, NEW name \in Name, NEW pos \in Nat
  PROVE  LET d == [x EXCEPT !.ch = NewChannel(name, pos)]
         IN /\ Sound(d) /\ Settled(d) /\ ~d.ch.rd /\ ~d.ch.wr
            /\ d.ch.name = name /\ d.ch.pos = pos
            /\ d.files = x.files /\ d.crashed = x.crashed
<1> DEFINE d == [x EXCEPT !.ch = NewChannel(name, pos)]
<1>1. <<>> \in Seq(Value)
  BY EmptySeq
<1>2. NewChannel(name, pos) \in ChanType
  BY <1>1 DEF ChanType, NewChannel
<1>3. d \in IoType
  BY <1>2 DEF IoType
<1>4. d.ch = NewChannel(name, pos) /\ d.files = x.files /\ d.crashed = x.crashed
  BY DEF IoType
<1> HIDE DEF d
<1>5. ~d.ch.rd /\ ~d.ch.wr /\ d.ch.name = name /\ d.ch.pos = pos
  BY <1>4 DEF NewChannel
<1>6. Sound(d) /\ Settled(d)
  BY <1>3, <1>4, <1>5 DEF Sound, Settled
<1> QED BY <1>4, <1>5, <1>6 DEF d

\* A stream opened on an existing file shows it.
LEMMA OpenedSound ==
  ASSUME NEW x \in IoType, NEW wr \in BOOLEAN, x.ch.name \in DOMAIN x.files
  PROVE  LET d == Opened(x, wr)
         IN /\ Sound(d) /\ Settled(d) /\ d.ch.rd /\ d.ch.wr = wr
            /\ d.ch.name = x.ch.name /\ d.ch.pos = x.ch.pos
            /\ d.files = x.files /\ d.crashed = x.crashed
<1> DEFINE d == Opened(x, wr)
<1>1. x.files \in Files /\ x.ch \in ChanType
  BY DEF IoType
<1>2. x.files[x.ch.name] \in Seq(Value)
  BY <1>1 DEF Files
<1>3. /\ d.files = x.files /\ d.crashed = x.crashed
      /\ d.ch.rd /\ d.ch.wr = wr /\ d.ch.at = x.ch.pos
      /\ d.ch.view = x.files[x.ch.name]
      /\ d.ch.name = x.ch.name /\ d.ch.pos = x.ch.pos
  BY <1>1 DEF IoType, ChanType, Opened
<1>4. d \in IoType
  BY <1>1, <1>2 DEF IoType, ChanType, Opened
<1> QED BY <1>3, <1>4 DEF Sound, Settled

\* Putting pending data into the file.
LEMMA SyncedSound ==
  ASSUME NEW x, Sound(x)
  PROVE  LET d == Synced(x)
         IN /\ Sound(d) /\ Settled(d) /\ d.ch = x.ch /\ d.crashed = x.crashed
            /\ DOMAIN d.files = DOMAIN x.files
<1>1. CASE x.ch.wr
  <2>1. x.ch.name \in DOMAIN x.files /\ x.files \in Files /\ x.ch \in ChanType
    BY <1>1 DEF Sound, IoType
  <2>2. x.ch.name \in Host /\ x.ch.view \in Seq(Value)
    BY <2>1 DEF Files, ChanType
  <2> DEFINE g == Stored(x.files, x.ch.name, x.ch.view)
             f == x.files
             name == x.ch.name
             view == x.ch.view
  <2>3. f \in Files /\ name \in Host /\ view \in Seq(Value)
    BY <2>1, <2>2
  <2> HIDE DEF f, name, view
  <2>4. /\ Stored(f, name, view) \in Files
        /\ DOMAIN Stored(f, name, view) = DOMAIN f \union {name}
        /\ Stored(f, name, view)[name] = view
    BY <2>3, StoredFiles
  <2>5. g \in Files /\ DOMAIN g = DOMAIN x.files \union {x.ch.name}
        /\ g[x.ch.name] = x.ch.view
    BY <2>4 DEF f, name, view
  <2> HIDE DEF g
  <2>6. Synced(x) = [x EXCEPT !.files = g]
    BY <1>1 DEF Synced, g, Sound, IoType
  <2>7. [x EXCEPT !.files = g] \in IoType
    BY <2>5 DEF Sound, IoType
  <2>8. /\ [x EXCEPT !.files = g].files = g
        /\ [x EXCEPT !.files = g].ch = x.ch
        /\ [x EXCEPT !.files = g].crashed = x.crashed
    BY DEF Sound, IoType
  <2> QED BY <2>1, <2>5, <2>6, <2>7, <2>8, <1>1 DEF Sound, Settled
<1>2. CASE ~x.ch.wr
  BY <1>2 DEF Synced, Settled
<1>3. x.ch.wr \in BOOLEAN
  BY DEF Sound, IoType, ChanType
<1> QED BY <1>1, <1>2, <1>3

\* Closing the channel.
LEMMA FlushSound ==
  ASSUME NEW x, Sound(x)
  PROVE  LET d == Flush(x)
         IN /\ Sound(d) /\ Settled(d) /\ ~d.ch.rd /\ ~d.ch.wr
            /\ d.ch.name = x.ch.name /\ d.ch.pos = x.ch.pos
            /\ d.crashed = x.crashed /\ DOMAIN d.files = DOMAIN x.files
<1> DEFINE s == Synced(x)
<1>1. /\ s \in IoType /\ s.crashed = x.crashed /\ DOMAIN s.files = DOMAIN x.files
  BY SyncedSound DEF Sound
<1> HIDE DEF s
<1>2. x.ch.name \in Name /\ x.ch.pos \in Nat
  BY DEF Sound, IoType, ChanType
<1> DEFINE d == [s EXCEPT !.ch = NewChannel(x.ch.name, x.ch.pos)]
<1>3. /\ Sound(d) /\ Settled(d) /\ ~d.ch.rd /\ ~d.ch.wr
      /\ d.ch.name = x.ch.name /\ d.ch.pos = x.ch.pos
      /\ d.files = s.files /\ d.crashed = s.crashed
  BY <1>1, <1>2, ClosedSound
<1>4. Flush(x) = d
  BY DEF Flush, s
<1> HIDE DEF d
<1> QED BY <1>1, <1>3, <1>4

\* Opening a file of any name.
LEMMA OpenSound ==
  ASSUME NEW x, Sound(x), NEW name \in Name
  PROVE  LET d == Open(x, name)
         IN /\ Sound(d) /\ Settled(d) /\ ~d.ch.wr
            /\ d.ch.name = name /\ d.ch.pos = 0 /\ d.crashed = x.crashed
<1> DEFINE s == Flush(x)
           c == [s EXCEPT !.ch = NewChannel(name, 0)]
<1>1. s \in IoType /\ s.crashed = x.crashed
  BY FlushSound DEF Sound
<1> HIDE DEF s
<1>2. /\ Sound(c) /\ Settled(c) /\ ~c.ch.rd /\ ~c.ch.wr
      /\ c.ch.name = name /\ c.ch.pos = 0 /\ c.crashed = x.crashed
  BY <1>1, ClosedSound
<1>3. Open(x, name) = IF Readable(c) THEN Opened(c, FALSE) ELSE c
  BY DEF Open, s
<1> HIDE DEF c
<1>4. CASE Readable(c)
  <2>1. c \in IoType /\ c.ch.name \in DOMAIN c.files
    BY <1>2, <1>4 DEF Readable, Sound
  <2> DEFINE d == Opened(c, FALSE)
  <2>2. /\ Sound(d) /\ Settled(d) /\ d.ch.rd /\ d.ch.wr = FALSE
        /\ d.ch.name = c.ch.name /\ d.ch.pos = c.ch.pos /\ d.crashed = c.crashed
    BY <2>1, OpenedSound
  <2> HIDE DEF d
  <2> QED BY <1>2, <1>3, <1>4, <2>2 DEF d
<1>5. CASE ~Readable(c)
  BY <1>2, <1>3, <1>5
<1> QED BY <1>4, <1>5

\* Positioning puts pending data into the file.
LEMMA SetPosSound ==
  ASSUME NEW x, Sound(x), NEW pos \in Nat
  PROVE  LET d == SetPos(x, pos)
         IN /\ Sound(d) /\ Settled(d) /\ d.ch.pos = pos
            /\ d.ch.name = x.ch.name /\ d.ch.rd = x.ch.rd /\ d.ch.wr = x.ch.wr
            /\ d.crashed = x.crashed
<1>1. x \in IoType /\ x.ch \in ChanType /\ x.ch.rd \in BOOLEAN
  BY DEF Sound, IoType, ChanType
<1>2. CASE x.ch.rd
  <2> DEFINE s == Synced(x)
             d == [s EXCEPT !.ch.pos = pos, !.ch.at = pos]
  <2>1. /\ Sound(s) /\ Settled(s) /\ s.ch = x.ch /\ s.crashed = x.crashed
        /\ s \in IoType /\ s.ch \in ChanType
    BY SyncedSound DEF Sound, IoType
  <2>2. SetPos(x, pos) = d
    BY <1>2 DEF SetPos
  <2> HIDE DEF s
  <2>3. d \in IoType
    BY <2>1 DEF IoType, ChanType
  <2>4. /\ d.ch.pos = pos /\ d.ch.at = pos /\ d.ch.name = s.ch.name
        /\ d.ch.rd = s.ch.rd /\ d.ch.wr = s.ch.wr /\ d.ch.view = s.ch.view
        /\ d.files = s.files /\ d.crashed = s.crashed
    BY <2>1 DEF IoType, ChanType
  <2> HIDE DEF d
  <2>5. Sound(d) /\ Settled(d)
    BY <2>1, <2>3, <2>4 DEF Sound, Settled
  <2> QED BY <2>1, <2>2, <2>4, <2>5
<1>3. CASE ~x.ch.rd
  <2> DEFINE d == [x EXCEPT !.ch.pos = pos]
  <2>2. SetPos(x, pos) = d
    BY <1>3 DEF SetPos
  <2>3. d \in IoType
    BY <1>1 DEF IoType, ChanType
  <2>4. /\ d.ch.pos = pos /\ d.ch.name = x.ch.name
        /\ d.ch.rd = x.ch.rd /\ d.ch.wr = x.ch.wr
        /\ d.files = x.files /\ d.crashed = x.crashed
    BY <1>1 DEF IoType, ChanType
  <2> HIDE DEF d
  <2>5. Sound(d) /\ Settled(d)
    BY <1>3, <2>3, <2>4 DEF Sound, Settled
  <2> QED BY <2>2, <2>4, <2>5
<1> QED BY <1>1, <1>2, <1>3

\* Reopening for reading, which reading does where it finds no stream.
LEMMA ReadOpenedSound ==
  ASSUME NEW x, Sound(x), Settled(x)
  PROVE  LET d == ReadOpened(x)
         IN /\ Sound(d) /\ Settled(d) /\ d.ch.wr = x.ch.wr
            /\ d.ch.name = x.ch.name /\ d.ch.pos = x.ch.pos
            /\ d.crashed = x.crashed
<1>1. x \in IoType /\ x.ch.rd \in BOOLEAN /\ x.ch.wr \in BOOLEAN
  BY DEF Sound, IoType, ChanType
<1>2. CASE ~x.ch.rd /\ Readable(x)
  <2> DEFINE d == Opened(x, FALSE)
  <2>1. /\ Sound(d) /\ Settled(d) /\ d.ch.wr = FALSE
        /\ d.ch.name = x.ch.name /\ d.ch.pos = x.ch.pos
        /\ d.crashed = x.crashed
    BY <1>1, <1>2, OpenedSound DEF Readable
  <2>2. ReadOpened(x) = d
    BY <1>2 DEF ReadOpened
  <2>3. x.ch.wr = FALSE
    BY <1>1, <1>2 DEF Sound
  <2> HIDE DEF d
  <2> QED BY <2>1, <2>2, <2>3
<1>3. CASE ~(~x.ch.rd /\ Readable(x))
  <2>1. ReadOpened(x) = x
    BY <1>3 DEF ReadOpened
  <2> QED BY <2>1
<1> QED BY <1>2, <1>3

\* What a read gets: nothing or one unit.
LEMMA GotIs ==
  ASSUME NEW x, Sound(x), Settled(x)
  PROVE  /\ Got(x) \in Seq(Value) /\ Len(Got(x)) \in 0 .. 1
         /\ Got(x) # <<>> => Got(x)[1] \in Value
<1> DEFINE o == ReadOpened(x).ch
<1>1. Sound(ReadOpened(x))
  BY ReadOpenedSound
<1>2. o.view \in Seq(Value) /\ o.at \in Nat
  BY <1>1 DEF Sound, IoType, ChanType
<1> HIDE DEF o
<1>3. CASE o.rd /\ o.at < Len(o.view)
  <2> DEFINE e == o.view[o.at + 1]
  <2>1. Len(o.view) \in Nat
    BY <1>2
  <2>2. e \in Value
    BY <1>2, <1>3, <2>1
  <2>3. Got(x) = <<e>>
    BY <1>3 DEF Got, o
  <2> HIDE DEF e
  <2> QED BY <2>2, <2>3
<1>4. CASE ~(o.rd /\ o.at < Len(o.view))
  <2>1. Got(x) = <<>>
    BY <1>4 DEF Got, o
  <2>2. <<>> \in Seq(Value) /\ Len(<<>>) = 0
    BY EmptySeq
  <2> QED BY <2>1, <2>2
<1> QED BY <1>3, <1>4

\* Reading.
LEMMA ReadSound ==
  ASSUME NEW x, Sound(x), Settled(x)
  PROVE  LET d == Read(x)
         IN /\ Sound(d) /\ Settled(d) /\ d.ch.wr = x.ch.wr
            /\ d.ch.name = x.ch.name /\ d.ch.pos \in x.ch.pos .. x.ch.pos + 1
            /\ d.crashed = x.crashed
<1> DEFINE o == ReadOpened(x)
           n == Len(Got(x))
           d == [o EXCEPT !.ch.pos = @ + n, !.ch.at = @ + n]
<1>1. /\ Sound(o) /\ Settled(o) /\ o.ch.wr = x.ch.wr
      /\ o.ch.name = x.ch.name /\ o.ch.pos = x.ch.pos /\ o.crashed = x.crashed
  BY ReadOpenedSound
<1>2. n \in 0 .. 1
  BY GotIs
<1>3. Read(x) = d
  BY DEF Read
<1> HIDE DEF o, n
<1>4. o \in IoType /\ o.ch \in ChanType /\ o.ch.pos \in Nat /\ o.ch.at \in Nat
  BY <1>1 DEF Sound, IoType, ChanType
<1>5. d \in IoType
  <2> DEFINE p == o.ch.pos + n
             a == o.ch.at + n
  <2>1. p \in Nat /\ a \in Nat
    BY <1>2, <1>4
  <2>2. d = [o EXCEPT !.ch = [o.ch EXCEPT !.pos = p, !.at = a]]
    BY <1>4 DEF IoType, ChanType
  <2> HIDE DEF p, a, d
  <2>3. [o.ch EXCEPT !.pos = p, !.at = a] \in ChanType
    BY <1>4, <2>1 DEF ChanType
  <2> QED BY <1>4, <2>2, <2>3 DEF IoType
<1>6. /\ d.ch.pos = o.ch.pos + n /\ d.ch.at = o.ch.at + n /\ d.ch.name = o.ch.name
      /\ d.ch.rd = o.ch.rd /\ d.ch.wr = o.ch.wr /\ d.ch.view = o.ch.view
      /\ d.files = o.files /\ d.crashed = o.crashed
  BY <1>4 DEF IoType, ChanType
<1> HIDE DEF d
<1>7. Sound(d) /\ Settled(d)
  BY <1>1, <1>5, <1>6 DEF Sound, Settled
<1> QED BY <1>1, <1>2, <1>3, <1>4, <1>6, <1>7

\* What the stream shows after a write is a sequence, and only the unit written
\* and the gap before it are new.
LEMMA WrittenIs ==
  ASSUME NEW view \in Seq(Value), NEW at \in Nat, NEW v \in Value
  PROVE  LET w == Written(view, at, v)
         IN /\ w \in Seq(Value)
            /\ \A u \in 1 .. Len(w) : u # at + 1 =>
                 w[u] = IF u <= Len(view) THEN view[u] ELSE Zero
<1> DEFINE n == IF at < Len(view) THEN Len(view) ELSE at + 1
           w == [u \in 1 .. n |-> IF u = at + 1 THEN v
                                  ELSE IF u <= Len(view) THEN view[u] ELSE Zero]
<1>1. Len(view) \in Nat
  OBVIOUS
<1>2. n \in Nat
  BY <1>1
<1> HIDE DEF n
<1>3. Zero \in Value
  BY HostFilesAssumption
<1>4. w \in [1 .. n -> Value]
  <2> SUFFICES ASSUME NEW u \in 1 .. n, u # at + 1, u <= Len(view)
               PROVE  view[u] \in Value
    BY <1>3
  <2> QED BY <1>1, <1>2
<1>5. Written(view, at, v) = w
  BY DEF Written, n
<1>6. w \in Seq(Value) /\ Len(w) = n
  <2> HIDE DEF w
  <2> QED BY <1>2, <1>4
<1>7. \A u \in 1 .. n : u # at + 1 =>
        w[u] = IF u <= Len(view) THEN view[u] ELSE Zero
  OBVIOUS
<1> HIDE DEF w
<1> QED BY <1>5, <1>6, <1>7

\* Reopening for writing: the file exists then, or there is no stream at all.
LEMMA WriteOpenedSound ==
  ASSUME NEW x, Sound(x), Settled(x)
  PROVE  LET d == WriteOpened(x)
         IN /\ Sound(d) /\ Settled(d) /\ (d.ch.rd => d.ch.wr)
            /\ d.ch.name = x.ch.name /\ d.ch.pos = x.ch.pos
            /\ d.crashed = x.crashed
<1>1. x \in IoType /\ x.ch.rd \in BOOLEAN /\ x.ch.wr \in BOOLEAN /\ x.ch.name \in Name
  BY DEF Sound, IoType, ChanType
<1> DEFINE shut == Flush(x)
           name == x.ch.name
           new  == Stored(shut.files, name, <<>>)
           made == [shut EXCEPT !.files = new]
           exists == IF Readable(x) THEN shut ELSE made
<1>2. /\ Sound(shut) /\ Settled(shut) /\ ~shut.ch.rd /\ ~shut.ch.wr
      /\ shut.ch.name = name /\ shut.ch.pos = x.ch.pos
      /\ shut.crashed = x.crashed /\ DOMAIN shut.files = DOMAIN x.files
  BY FlushSound
<1>3. WriteOpened(x) = IF x.ch.wr THEN x
                       ELSE IF name \in Protected \union {NoName} THEN shut
                       ELSE Opened(exists, TRUE)
  BY DEF WriteOpened
<1> HIDE DEF shut
<1>4. CASE x.ch.wr
  BY <1>3, <1>4
<1>5. CASE ~x.ch.wr /\ name \in Protected \union {NoName}
  <2>1. WriteOpened(x) = shut
    BY <1>3, <1>5
  <2> QED BY <1>2, <2>1
<1>6. CASE ~x.ch.wr /\ name \notin Protected \union {NoName}
  <2>1. name \in Host /\ shut \in IoType /\ shut.files \in Files
    BY <1>1, <1>2, <1>6 DEF Name, Sound, IoType
  <2>2. <<>> \in Seq(Value)
    BY EmptySeq
  <2>3. new \in Files /\ name \in DOMAIN new
    <3> DEFINE f == shut.files
               nothing == <<>>
    <3>1. f \in Files /\ nothing \in Seq(Value)
      BY <2>1, <2>2
    <3> HIDE DEF f, nothing, name
    <3>2. Stored(f, name, nothing) \in Files
          /\ DOMAIN Stored(f, name, nothing) = DOMAIN f \union {name}
      BY <2>1, <3>1, StoredFiles
    <3> QED BY <3>2 DEF f, nothing
  <2> HIDE DEF new
  <2>4. /\ made \in IoType /\ made.files = new /\ made.ch = shut.ch
        /\ made.crashed = shut.crashed
    BY <2>1, <2>3 DEF IoType
  <2> HIDE DEF made
  <2>5. /\ exists \in IoType /\ exists.ch = shut.ch /\ exists.crashed = shut.crashed
        /\ exists.ch.name \in DOMAIN exists.files
    <3>1. CASE Readable(x)
      <4>1. exists = shut
        BY <3>1
      <4> QED BY <1>2, <2>1, <3>1, <4>1 DEF Readable
    <3>2. CASE ~Readable(x)
      <4>1. exists = made
        BY <3>2
      <4> QED BY <1>2, <2>3, <2>4, <3>2, <4>1
    <3> QED BY <3>1, <3>2
  <2> HIDE DEF exists
  <2> DEFINE d == Opened(exists, TRUE)
  <2>6. /\ Sound(d) /\ Settled(d) /\ d.ch.rd /\ d.ch.wr = TRUE
        /\ d.ch.name = exists.ch.name /\ d.ch.pos = exists.ch.pos
        /\ d.crashed = exists.crashed
    BY <2>5, OpenedSound
  <2>7. WriteOpened(x) = d
    BY <1>3, <1>6
  <2> HIDE DEF d
  <2> QED BY <1>2, <2>5, <2>6, <2>7
<1> QED BY <1>4, <1>5, <1>6

\* Writing: the unit written is all that is pending.
LEMMA WriteSound ==
  ASSUME NEW x, Sound(x), Settled(x), NEW v \in Value
  PROVE  LET d == Write(x, v)
         IN /\ Sound(d) /\ Pending(d)
            /\ d.ch.name = x.ch.name /\ d.ch.pos \in x.ch.pos .. x.ch.pos + 1
<1> DEFINE o == WriteOpened(x)
<1>1. /\ Sound(o) /\ Settled(o) /\ (o.ch.rd => o.ch.wr)
      /\ o.ch.name = x.ch.name /\ o.ch.pos = x.ch.pos /\ o.crashed = x.crashed
  BY WriteOpenedSound
<1>2. Write(x, v) =
        IF o.ch.wr
          THEN [o EXCEPT !.ch.view = Written(@, o.ch.at, v),
                         !.ch.pos = @ + 1, !.ch.at = @ + 1]
          ELSE [o EXCEPT !.crashed = TRUE]
  BY DEF Write
<1> HIDE DEF o
<1>3. /\ o \in IoType /\ o.ch \in ChanType /\ o.ch.pos \in Nat /\ o.ch.at \in Nat
      /\ o.ch.view \in Seq(Value)
  BY <1>1 DEF Sound, IoType, ChanType
<1>4. CASE o.ch.wr
  <2> DEFINE w == Written(o.ch.view, o.ch.at, v)
             p == o.ch.pos + 1
             a == o.ch.at + 1
             d == [o EXCEPT !.ch = [o.ch EXCEPT !.view = w, !.pos = p, !.at = a]]
  <2>1. p \in Nat /\ a \in Nat
    BY <1>3
  <2>2. w \in Seq(Value) /\ \A u \in 1 .. Len(w) : u # a =>
               w[u] = IF u <= Len(o.ch.view) THEN o.ch.view[u] ELSE Zero
    BY <1>3, WrittenIs
  <2>3. Write(x, v) = d
    BY <1>2, <1>3, <1>4 DEF IoType, ChanType
  <2> HIDE DEF w
  <2>4. p = o.ch.pos + 1 /\ a = o.ch.at + 1
    OBVIOUS
  <2> HIDE DEF p, a
  <2>5. d \in IoType
    BY <1>3, <2>1, <2>2 DEF IoType, ChanType
  <2>6. /\ d.ch.pos = p /\ d.ch.at = a /\ d.ch.name = o.ch.name
        /\ d.ch.rd = o.ch.rd /\ d.ch.wr = o.ch.wr /\ d.ch.view = w
        /\ d.files = o.files
    BY <1>3 DEF IoType, ChanType
  <2> HIDE DEF d
  <2>7. Sound(d)
    BY <1>1, <1>4, <2>4, <2>5, <2>6 DEF Sound
  <2>8. o.files[o.ch.name] = o.ch.view
    BY <1>1, <1>4 DEF Settled
  <2>9. Pending(d)
    BY <2>2, <2>6, <2>8 DEF Pending
  <2> QED BY <1>1, <1>3, <2>3, <2>4, <2>6, <2>7, <2>9
<1>5. CASE ~o.ch.wr
  <2> DEFINE d == [o EXCEPT !.crashed = TRUE]
  <2>1. Write(x, v) = d
    BY <1>2, <1>5
  <2>2. d \in IoType /\ d.ch = o.ch /\ d.files = o.files
    BY <1>3 DEF IoType
  <2> HIDE DEF d
  <2>3. Sound(d) /\ Pending(d)
    BY <1>1, <1>5, <2>2 DEF Sound, Pending
  <2> QED BY <1>1, <1>3, <2>1, <2>2, <2>3
<1> QED BY <1>4, <1>5
-----------------------------------------------------------------------------
(* Chains. *)

\* The functions that a recursion over the numbers up to m defines.
Recursive(E, e, g, m) ==
  {c \in [0 .. m -> E] : c[0] = e /\ \A n \in 1 .. m : c[n] = g[<<n, c[n - 1]>>]}

\* There is one.
LEMMA Iterates ==
  ASSUME NEW E, NEW e \in E, NEW g \in [Nat \X E -> E], NEW m \in Nat
  PROVE  Recursive(E, e, g, m) # {}
<1> DEFINE P(k) == \E c \in [0 .. k -> E] :
                     c[0] = e /\ \A n \in 1 .. k : c[n] = g[<<n, c[n - 1]>>]
           Bad == {k \in Nat : ~P(k)}
<1>1. P(0)
  <2> DEFINE c == [n \in 0 .. 0 |-> e]
  <2>1. c \in [0 .. 0 -> E] /\ c[0] = e
    OBVIOUS
  <2>2. \A n \in 1 .. 0 : c[n] = g[<<n, c[n - 1]>>]
    OBVIOUS
  <2> HIDE DEF c
  <2> QED BY <2>1, <2>2
<1>2. ASSUME NEW k \in Nat, P(k) PROVE P(k + 1)
  <2>1. PICK c \in [0 .. k -> E] :
          c[0] = e /\ \A n \in 1 .. k : c[n] = g[<<n, c[n - 1]>>]
    BY <1>2
  <2> DEFINE d == [n \in 0 .. k + 1 |-> IF n = k + 1 THEN g[<<k + 1, c[k]>>] ELSE c[n]]
  <2>2. c[k] \in E /\ k + 1 \in Nat
    BY <2>1
  <2>3. g[<<k + 1, c[k]>>] \in E
    BY <2>2
  <2>4. d \in [0 .. k + 1 -> E]
    BY <2>1, <2>3
  <2>5. \A n \in 0 .. k : d[n] = c[n]
    OBVIOUS
  <2>6. d[k + 1] = g[<<k + 1, c[k]>>]
    OBVIOUS
  <2> HIDE DEF d
  <2>7. \A n \in 1 .. k + 1 : d[n] = g[<<n, d[n - 1]>>]
    <3> TAKE n \in 1 .. k + 1
    <3>1. CASE n = k + 1
      <4>1. d[n - 1] = c[k]
        BY <2>5, <3>1
      <4> QED BY <2>6, <3>1, <4>1
    <3>2. CASE n # k + 1
      <4>1. n \in 1 .. k /\ n - 1 \in 0 .. k /\ n \in 0 .. k
        BY <3>2
      <4> QED BY <2>1, <2>5, <4>1
    <3> QED BY <3>1, <3>2
  <2>8. d[0] = e
    BY <2>1, <2>5
  <2> QED BY <2>4, <2>7, <2>8
<1> HIDE DEF P
<1>3. Bad = {}
  <2> SUFFICES ASSUME Bad # {} PROVE FALSE
    OBVIOUS
  <2>1. Min(Bad) \in Bad /\ \A y \in Bad : Min(Bad) <= y
    BY MinIs
  <2> DEFINE b == Min(Bad)
  <2>2. b \in Nat /\ ~P(b) /\ \A k \in Nat : ~P(k) => b <= k
    BY <2>1
  <2> HIDE DEF b
  <2>3. b # 0 /\ b - 1 \in Nat
    BY <1>1, <2>2
  <2>4. P(b - 1)
    BY <2>2, <2>3
  <2>5. P(b - 1 + 1)
    BY <1>2, <2>3, <2>4
  <2> QED BY <2>2, <2>5
<1>4. P(m)
  BY <1>3
<1> QED BY <1>4 DEF P, Recursive

\* Where a chain goes on.
After(v, c) == IF c \in Cluster THEN v.fat[c] ELSE 0

\* The clusters of a chain, one after the other.
LEMMA ChainIs ==
  ASSUME NEW v \in VfatType, NEW i \in Slot
  PROVE  LET c == Chain(v, i)
         IN /\ c \in [0 .. Clusters - 1 -> Entry]
            /\ c[0] = v.dir[i].first
            /\ \A n \in 1 .. Clusters - 1 : c[n] = After(v, c[n - 1])
<1> DEFINE m == Clusters - 1
           D == 0 .. m
           first == v.dir[i].first
           F(f) == [n \in D |-> IF n = 0 THEN first
                                ELSE IF f[n - 1] \in Cluster THEN v.fat[f[n - 1]] ELSE 0]
           g == [p \in Nat \X Entry |-> After(v, p[2])]
           c == Chain(v, i)
<1>1. m \in Nat /\ first \in Entry /\ v.fat \in [Cluster -> Entry]
  BY VFatAssumption DEF VfatType, DirEntry
<1>2. \A x : After(v, x) \in Entry
  BY <1>1 DEF After, Entry
<1>3. g \in [Nat \X Entry -> Entry]
  BY <1>2
<1> HIDE DEF m, first, g
<1>4. PICK d \in [0 .. m -> Entry] :
        d[0] = first /\ \A n \in 1 .. m : d[n] = g[<<n, d[n - 1]>>]
  <2> HIDE DEF F, c
  <2>1. Recursive(Entry, first, g, m) # {}
    BY <1>1, <1>3, Iterates
  <2> QED BY <2>1 DEF Recursive
<1>5. d = F(d)
  <2>1. \A n \in D : n # 0 => d[n] = After(v, d[n - 1])
    <3> TAKE n \in D
    <3> HAVE n # 0
    <3>1. n \in 1 .. m /\ n \in Nat /\ d[n - 1] \in Entry
      BY <1>1
    <3>2. g[<<n, d[n - 1]>>] = After(v, d[n - 1])
      BY <3>1 DEF g
    <3> QED BY <1>4, <3>1, <3>2
  <2>2. d = [n \in D |-> d[n]]
    OBVIOUS
  <2>3. \A n \in D : d[n] = F(d)[n]
    BY <1>4, <2>1 DEF After
  <2> QED BY <2>2, <2>3
<1>6. c = CHOOSE f : f = F(f)
  BY DEF Chain, m, first
<1>7. c = F(c)
  <2> HIDE DEF F, c
  <2> QED BY <1>5, <1>6
<1> HIDE DEF c
<1>8. \A n \in D : c[n] = IF n = 0 THEN first ELSE After(v, c[n - 1])
  BY <1>7 DEF After
<1>9. c = [n \in D |-> IF n = 0 THEN first ELSE After(v, c[n - 1])]
  BY <1>7 DEF After
<1>10. c \in [D -> Entry]
  BY <1>1, <1>2, <1>9
<1>11. c[0] = first /\ \A n \in 1 .. m : c[n] = After(v, c[n - 1])
  BY <1>1, <1>8
<1> QED BY <1>10, <1>11 DEF c, m, first

\* Chains depend on the FAT and the directory alone.
LEMMA SameChain ==
  ASSUME NEW v, NEW w, w.fat = v.fat, w.dir = v.dir, NEW i, NEW s
  PROVE  /\ Chain(w, i) = Chain(v, i) /\ Belongs(w, i, s) = Belongs(v, i, s)
         /\ Exhausts(w, i, s) = Exhausts(v, i, s) /\ PosIn(w, i, s) = PosIn(v, i, s)
         /\ Valid(w) = Valid(v)
<1>1. Chain(w, i) = Chain(v, i)
  BY DEF Chain
<1>2. Belongs(w, i, s) = Belongs(v, i, s)
  BY <1>1 DEF Belongs
<1>3. Exhausts(w, i, s) = Exhausts(v, i, s)
  BY <1>1, <1>2 DEF Exhausts
<1>4. PosIn(w, i, s) = PosIn(v, i, s)
  BY <1>1 DEF PosIn
<1> QED BY <1>1, <1>2, <1>3, <1>4 DEF Valid

\* A chain that has left the clusters does not come back.
LEMMA ChainEnds ==
  ASSUME NEW v \in VfatType, NEW i \in Slot, NEW n \in 0 .. Clusters - 1,
         Chain(v, i)[n] \notin Cluster
  PROVE  \A m \in n .. Clusters - 1 : Chain(v, i)[m] \notin Cluster
<1> DEFINE c == Chain(v, i)
           Bad == {m \in n .. Clusters - 1 : c[m] \in Cluster}
<1>1. Clusters \in Nat \ {0}
  BY VFatAssumption
<1>2. \A m \in 1 .. Clusters - 1 : c[m] = After(v, c[m - 1])
  BY ChainIs
<1> HIDE DEF c
<1>3. Bad = {}
  <2> SUFFICES ASSUME Bad # {} PROVE FALSE
    OBVIOUS
  <2>1. Bad \subseteq Nat
    BY <1>1
  <2> DEFINE b == Min(Bad)
  <2>2. b \in Bad /\ \A y \in Bad : b <= y
    BY <2>1, MinIs
  <2> HIDE DEF b
  <2>3. b \in n .. Clusters - 1 /\ c[b] \in Cluster
    BY <2>2
  <2>4. b # n
    BY <2>3 DEF c
  <2>5. b - 1 \in n .. Clusters - 1 /\ b \in 1 .. Clusters - 1
    BY <1>1, <2>3, <2>4
  <2>6. ~(b <= b - 1)
    BY <2>5
  <2>7. c[b - 1] \notin Cluster
    BY <2>2, <2>5, <2>6
  <2>8. c[b] = 0
    BY <1>2, <2>5, <2>7 DEF After
  <2>9. 0 \notin Cluster
    BY DEF Cluster
  <2> QED BY <2>3, <2>8, <2>9
<1> QED BY <1>3 DEF c

\* An entry without a first cluster holds no sector, and its chain ends.
LEMMA EmptyChain ==
  ASSUME NEW v \in VfatType, NEW i \in Slot, v.dir[i].first = 0, NEW s \in Sector
  PROVE  ~Belongs(v, i, s) /\ ~Exhausts(v, i, s)
<1>1. Clusters \in Nat \ {0}
  BY VFatAssumption
<1>2. 0 \in 0 .. Clusters - 1 /\ Clusters - 1 \in 0 .. Clusters - 1 /\ 0 \notin Cluster
  BY <1>1 DEF Cluster
<1>3. Chain(v, i)[0] = 0
  BY ChainIs
<1>4. \A m \in 0 .. Clusters - 1 : Chain(v, i)[m] \notin Cluster
  BY <1>2, <1>3, ChainEnds
<1> QED BY <1>2, <1>4 DEF Belongs, Exhausts

\* The least of a set, as it is chosen.
LEMMA LeastIs ==
  ASSUME NEW S, S \subseteq Nat, S # {}
  PROVE  LET x == CHOOSE x \in S : \A y \in S : x <= y
         IN x \in S /\ \A y \in S : x <= y
  BY MinIs DEF Min

\* Sectors of the disk.
LEMMA SectorIs ==
  ASSUME NEW s \in Sector
  PROVE  /\ ClusterOf(s) \in Nat /\ OffsetOf(s) \in 0 .. ClusterSize - 1
         /\ s = (ClusterOf(s) - 2) * ClusterSize + OffsetOf(s)
         /\ s # Past => ClusterOf(s) \in Cluster
<1> DEFINE q == s \div ClusterSize
           r == s % ClusterSize
           p == q * ClusterSize
           total == Clusters * ClusterSize
<1>1. ClusterSize \in Nat \ {0} /\ Clusters \in Nat \ {0}
  BY VFatAssumption
<1>2. total \in Nat
  BY <1>1, ProductNat
<1>3. s \in 0 .. total
  BY DEF Sector
<1>4. q \in Int /\ r \in 0 .. ClusterSize - 1 /\ r = s - ClusterSize * q
  BY <1>1, <1>2, <1>3, DivMod
<1> HIDE DEF q, r
<1>5. p \in Int /\ ClusterSize * q = p
  BY <1>1, <1>4, Distribute
<1>6. s = p + r
  <2> HIDE DEF p, total
  <2> QED BY <1>1, <1>2, <1>3, <1>4, <1>5
<1>7. q \in Nat
  <2> SUFFICES ASSUME q <= -1 PROVE FALSE
    BY <1>4
  <2> DEFINE n == -1 - q
  <2>1. n \in Nat /\ q = -1 - n
    BY <1>4
  <2> HIDE DEF n
  <2>2. n * ClusterSize \in Nat
    BY <1>1, <2>1, ProductNat
  <2>3. p = -ClusterSize - n * ClusterSize
    BY <1>1, <2>1
  <2> HIDE DEF p, total
  <2> QED BY <1>1, <1>2, <1>3, <1>4, <1>6, <2>2, <2>3
<1>8. s # total => q <= Clusters - 1
  <2> SUFFICES ASSUME s # total, q >= Clusters PROVE FALSE
    BY <1>1, <1>7
  <2> DEFINE n == q - Clusters
  <2>1. n \in Nat /\ q = Clusters + n
    BY <1>1, <1>7
  <2> HIDE DEF n
  <2>2. n * ClusterSize \in Nat
    BY <1>1, <2>1, ProductNat
  <2>3. p = total + n * ClusterSize
    BY <1>1, <2>1
  <2> HIDE DEF p, total
  <2> QED BY <1>1, <1>2, <1>3, <1>4, <1>6, <2>2, <2>3
<1>9. ClusterOf(s) = q + 2 /\ OffsetOf(s) = r /\ Past = total
  BY DEF ClusterOf, OffsetOf, Past, q, r
<1>10. ClusterOf(s) - 2 = q
  BY <1>7, <1>9
<1> QED BY <1>1, <1>4, <1>6, <1>7, <1>8, <1>9, <1>10 DEF Cluster

\* The position of a sector in the file that holds it.
LEMMA PosInIs ==
  ASSUME NEW v \in VfatType, NEW i \in Slot, NEW s \in Sector, Belongs(v, i, s)
  PROVE  /\ \E n \in 0 .. Clusters - 1 :
              /\ Chain(v, i)[n] = ClusterOf(s)
              /\ PosIn(v, i, s) = n * ClusterSize + OffsetOf(s)
         /\ PosIn(v, i, s) \in 0 .. Clusters * ClusterSize - 1
<1> DEFINE c == Chain(v, i)
           Hits == {n \in 0 .. Clusters - 1 : c[n] = ClusterOf(s)}
           Q(n) == /\ c[n] = ClusterOf(s)
                   /\ \A m \in 0 .. n - 1 : c[m] # ClusterOf(s)
           n0 == CHOOSE n \in 0 .. Clusters - 1 : Q(n)
<1>1. Clusters \in Nat \ {0} /\ ClusterSize \in Nat \ {0}
  BY VFatAssumption
<1>2. Hits # {} /\ Hits \subseteq Nat
  BY <1>1 DEF Belongs
<1>3. PosIn(v, i, s) = n0 * ClusterSize + OffsetOf(s)
  BY DEF PosIn
<1> HIDE DEF c
<1>4. \E n \in 0 .. Clusters - 1 : Q(n)
  <2> DEFINE b == Min(Hits)
  <2>1. b \in Hits /\ \A y \in Hits : b <= y
    BY <1>2, MinIs
  <2> HIDE DEF b
  <2>2. b \in 0 .. Clusters - 1 /\ c[b] = ClusterOf(s)
    BY <2>1
  <2>3. \A m \in 0 .. b - 1 : c[m] # ClusterOf(s)
    <3> SUFFICES ASSUME NEW m \in 0 .. b - 1, c[m] = ClusterOf(s) PROVE FALSE
      OBVIOUS
    <3>1. m \in Hits
      BY <1>1, <2>2
    <3> QED BY <1>1, <2>1, <2>2, <3>1
  <2> QED BY <2>2, <2>3
<1>5. n0 \in 0 .. Clusters - 1 /\ c[n0] = ClusterOf(s)
  BY <1>4
<1> HIDE DEF n0
<1>6. n0 * ClusterSize + OffsetOf(s) \in 0 .. Clusters * ClusterSize - 1
  <2> DEFINE k == Clusters - 1 - n0
  <2>1. k \in Nat /\ n0 \in Nat /\ n0 = Clusters - 1 - k
    BY <1>1, <1>5
  <2> HIDE DEF k
  <2>2. k * ClusterSize \in Nat /\ n0 * ClusterSize \in Nat
    BY <1>1, <2>1, ProductNat
  <2>3. n0 * ClusterSize = Clusters * ClusterSize - ClusterSize - k * ClusterSize
    BY <1>1, <2>1
  <2>4. Clusters * ClusterSize \in Nat
    BY <1>1, ProductNat
  <2>5. OffsetOf(s) \in 0 .. ClusterSize - 1
    BY SectorIs
  <2> DEFINE a == k * ClusterSize
             b == n0 * ClusterSize
             e == Clusters * ClusterSize
             o == OffsetOf(s)
  <2>6. a \in Nat /\ b \in Nat /\ e \in Nat /\ o \in 0 .. ClusterSize - 1
        /\ b = e - ClusterSize - a
    BY <2>2, <2>3, <2>4, <2>5
  <2> HIDE DEF a, b, e, o
  <2>7. b + o \in 0 .. e - 1
    BY <1>1, <2>6
  <2> QED BY <2>7 DEF b, e, o
<1> QED BY <1>3, <1>5, <1>6 DEF c

\* Entries that are not used have no first cluster, those in use have a name.
Tidy(v) ==
  \A i \in Slot : IF v.dir[i].valid THEN v.dir[i].name \in FatName
                                    ELSE v.dir[i].first = 0

\* What a search keeps of the disk.
SameDisk(v, w) ==
  /\ w.fat = v.fat /\ w.dir = v.dir /\ w.hnames = v.hnames /\ w.rwbuf = v.rwbuf
  /\ w.lfile = v.lfile

\* Finding the file of a sector: it is an entry in use that holds the sector, and
\* the FAT is taken for broken only when some chain exhausts it.
LEMMA FoundIs ==
  ASSUME NEW v \in VfatType, Tidy(v), NEW s \in Sector
  PROVE  LET f == Found(v, s)
         IN /\ f.v \in VfatType /\ SameDisk(v, f.v)
            /\ f.id \in Slot \union {NoSlot}
            /\ f.id # NoSlot =>
                 /\ f.id \in Valid(v) /\ Belongs(v, f.id, s)
                 /\ ~v.broken /\ ~f.v.broken
            /\ ~v.broken /\ f.v.broken => \E i \in Slot : Exhausts(v, i, s)
            /\ f.id = NoSlot =>
                 \/ v.broken \/ \E i \in Slot : Exhausts(v, i, s)
                 \/ \A i \in Valid(v) : ~Belongs(v, i, s)
<1> DEFINE ends == {i \in Valid(v) : Belongs(v, i, s) \/ Exhausts(v, i, s)}
           first == CHOOSE i \in ends : \A j \in ends : i <= j
           None(b) == [id |-> NoSlot, v |-> [v EXCEPT !.broken = b]]
           Hit(i) == [id |-> i, v |-> [v EXCEPT !.last = i]]
           f == Found(v, s)
           Missing == \/ v.broken \/ \E i \in Slot : Exhausts(v, i, s)
                      \/ \A i \in Valid(v) : ~Belongs(v, i, s)
           Good(g) == /\ g.v \in VfatType /\ SameDisk(v, g.v)
                      /\ g.id \in Slot \union {NoSlot}
                      /\ g.id # NoSlot =>
                           /\ g.id \in Valid(v) /\ Belongs(v, g.id, s)
                           /\ ~v.broken /\ ~g.v.broken
                      /\ ~v.broken /\ g.v.broken => \E i \in Slot : Exhausts(v, i, s)
                      /\ g.id = NoSlot => Missing
<1>1. Slots \in Nat /\ NoSlot \notin Slot /\ Slot \subseteq Nat
  BY VFatAssumption DEF NoSlot, Slot
<1>2. f = IF v.broken THEN None(TRUE)
          ELSE IF Belongs(v, v.last, s) THEN Hit(v.last)
          ELSE IF Exhausts(v, v.last, s) THEN None(TRUE)
          ELSE IF ends = {} THEN None(FALSE)
          ELSE IF Belongs(v, first, s) THEN Hit(first) ELSE None(TRUE)
  BY DEF Found
<1>3. v.last \in Slot /\ Valid(v) \subseteq Slot
  BY DEF VfatType, Valid
<1>4. \A i \in Slot : Belongs(v, i, s) \/ Exhausts(v, i, s) => i \in Valid(v)
  <2> SUFFICES ASSUME NEW i \in Slot, i \notin Valid(v)
               PROVE  ~Belongs(v, i, s) /\ ~Exhausts(v, i, s)
    OBVIOUS
  <2>1. v.dir[i].first = 0
    BY DEF Valid, Tidy
  <2> QED BY <2>1, EmptyChain
<1>5. ends # {} => first \in ends
  BY <1>1, <1>3, LeastIs
<1> HIDE DEF first
<1>6. \A b \in BOOLEAN :
        (~v.broken /\ b => \E i \in Slot : Exhausts(v, i, s)) /\ Missing => Good(None(b))
  <2> TAKE b \in BOOLEAN
  <2> HAVE (~v.broken /\ b => \E i \in Slot : Exhausts(v, i, s)) /\ Missing
  <2> DEFINE w == [v EXCEPT !.broken = b]
  <2>1. w \in VfatType /\ SameDisk(v, w) /\ w.broken = b
    BY DEF VfatType, SameDisk
  <2> HIDE DEF w
  <2>2. None(b).v = w /\ None(b).id = NoSlot
    BY DEF w
  <2> HIDE DEF None
  <2> QED BY <2>1, <2>2
<1>7. \A i \in Slot : ~v.broken /\ Belongs(v, i, s) => Good(Hit(i))
  <2> TAKE i \in Slot
  <2> HAVE ~v.broken /\ Belongs(v, i, s)
  <2> DEFINE w == [v EXCEPT !.last = i]
  <2>1. w \in VfatType /\ SameDisk(v, w) /\ w.broken = v.broken
    BY DEF VfatType, SameDisk
  <2> HIDE DEF w
  <2>2. Hit(i).v = w /\ Hit(i).id = i
    BY DEF w
  <2> HIDE DEF Hit
  <2>3. i \in Valid(v)
    BY <1>4
  <2>4. i # NoSlot
    BY <1>1
  <2> QED BY <2>1, <2>2, <2>3, <2>4
<1> SUFFICES Good(f)
  OBVIOUS
<1> HIDE DEF None, Hit, Good, f
<1>8. CASE v.broken
  BY <1>2, <1>6, <1>8
<1>9. CASE ~v.broken /\ Belongs(v, v.last, s)
  BY <1>2, <1>3, <1>7, <1>9
<1>10. CASE ~v.broken /\ ~Belongs(v, v.last, s) /\ Exhausts(v, v.last, s)
  BY <1>2, <1>3, <1>6, <1>10
<1>11. CASE /\ ~v.broken /\ ~Belongs(v, v.last, s) /\ ~Exhausts(v, v.last, s)
            /\ ends = {}
  BY <1>2, <1>6, <1>11
<1>12. CASE /\ ~v.broken /\ ~Belongs(v, v.last, s) /\ ~Exhausts(v, v.last, s)
            /\ ends # {}
  <2>1. first \in Slot /\ (Belongs(v, first, s) \/ Exhausts(v, first, s))
    BY <1>3, <1>5, <1>12
  <2>2. f = IF Belongs(v, first, s) THEN Hit(first) ELSE None(TRUE)
    BY <1>2, <1>12
  <2>3. CASE Belongs(v, first, s)
    BY <1>7, <1>12, <2>1, <2>2, <2>3
  <2>4. CASE ~Belongs(v, first, s)
    BY <1>6, <1>12, <2>1, <2>2, <2>4
  <2> QED BY <2>3, <2>4
<1> QED BY <1>8, <1>9, <1>10, <1>11, <1>12

\* A chain that visits two clusters twice goes on at its end: it loops.
LEMMA Periodic ==
  ASSUME NEW v \in VfatType, NEW i \in Slot,
         NEW x \in 0 .. Clusters - 1, NEW y \in 0 .. Clusters - 1, x < y,
         Chain(v, i)[x] = Chain(v, i)[y]
  PROVE  \A k \in 0 .. Clusters - 1 - y : Chain(v, i)[x + k] = Chain(v, i)[y + k]
<1> DEFINE c == Chain(v, i)
           Bad == {k \in 0 .. Clusters - 1 - y : c[x + k] # c[y + k]}
<1>1. Clusters \in Nat \ {0}
  BY VFatAssumption
<1>2. \A m \in 1 .. Clusters - 1 : c[m] = After(v, c[m - 1])
  BY ChainIs
<1>3. c[x] = c[y]
  OBVIOUS
<1> HIDE DEF c
<1>4. Bad = {}
  <2> SUFFICES ASSUME Bad # {} PROVE FALSE
    OBVIOUS
  <2>1. Bad \subseteq Nat
    BY <1>1
  <2> DEFINE b == Min(Bad)
  <2>2. b \in Bad /\ \A k \in Bad : b <= k
    BY <2>1, MinIs
  <2> HIDE DEF b
  <2>3. b \in 0 .. Clusters - 1 - y /\ c[x + b] # c[y + b]
    BY <2>2
  <2>4. b # 0
    <3> SUFFICES ASSUME b = 0 PROVE FALSE
      OBVIOUS
    <3>1. x + b = x /\ y + b = y
      OBVIOUS
    <3> QED BY <1>3, <2>3, <3>1
  <2>5. b - 1 \in 0 .. Clusters - 1 - y /\ ~(b <= b - 1)
    BY <1>1, <2>3, <2>4
  <2>6. c[x + (b - 1)] = c[y + (b - 1)]
    BY <2>2, <2>5
  <2>7. /\ x + b \in 1 .. Clusters - 1 /\ y + b \in 1 .. Clusters - 1
        /\ x + b - 1 = x + (b - 1) /\ y + b - 1 = y + (b - 1)
    BY <1>1, <2>3, <2>4
  <2>8. /\ c[x + b] = After(v, c[x + b - 1])
        /\ c[y + b] = After(v, c[y + b - 1])
    <3> DEFINE p == x + b
               q == y + b
    <3>1. p \in 1 .. Clusters - 1 /\ q \in 1 .. Clusters - 1
      BY <2>7
    <3>2. p = x + b /\ q = y + b
      OBVIOUS
    <3> HIDE DEF p, q
    <3>3. c[p] = After(v, c[p - 1]) /\ c[q] = After(v, c[q - 1])
      BY <1>2, <3>1
    <3> QED BY <1>1, <2>3, <3>1, <3>2, <3>3
  <2>9. c[x + b - 1] = c[y + b - 1]
    BY <2>6, <2>7
  <2> QED BY <2>3, <2>8, <2>9
<1> QED BY <1>4 DEF c

\* A chain that does not end within all of the clusters, and leaves one out, loops.
LEMMA ExhaustsLoops ==
  ASSUME NEW v \in VfatType, NEW i \in Slot, NEW s \in Sector, s # Past,
         Exhausts(v, i, s)
  PROVE  LET end == Chain(v, i)[Clusters - 1]
         IN end \in Cluster /\ v.fat[end] \in Cluster
<1> DEFINE c == Chain(v, i)
           D == 0 .. Clusters - 1
           R == Cluster \ {ClusterOf(s)}
<1>1. Clusters \in Nat \ {0}
  BY VFatAssumption
<1>2. c \in [D -> Entry] /\ \A m \in 1 .. Clusters - 1 : c[m] = After(v, c[m - 1])
  BY ChainIs
<1>3. ClusterOf(s) \in Cluster
  BY SectorIs
<1>4. Clusters - 1 \in D /\ c[Clusters - 1] \in Cluster
  BY <1>1 DEF Exhausts
<1>5. \A n \in D : c[n] \in Cluster
  <2> SUFFICES ASSUME NEW n \in D, c[n] \notin Cluster PROVE FALSE
    OBVIOUS
  <2>1. \A m \in n .. Clusters - 1 : c[m] \notin Cluster
    BY ChainEnds
  <2>2. Clusters - 1 \in n .. Clusters - 1
    BY <1>1
  <2> QED BY <1>4, <2>1, <2>2
<1>6. \A n \in D : c[n] # ClusterOf(s)
  BY <1>3 DEF Exhausts, Belongs
<1> HIDE DEF c
<1>7. c \in [D -> R]
  BY <1>2, <1>5, <1>6
<1>8. IsFiniteSet(D) /\ Cardinality(D) = Clusters
  <2>1. /\ IsFiniteSet(D)
        /\ Cardinality(D) = IF 0 > Clusters - 1 THEN 0 ELSE Clusters - 1 - 0 + 1
    BY <1>1, FS_Interval
  <2> QED BY <1>1, <2>1
<1>9. IsFiniteSet(R) /\ Cardinality(R) = Clusters - 1
  <2>1. /\ IsFiniteSet(2 .. Clusters + 1)
        /\ Cardinality(2 .. Clusters + 1) =
             IF 2 > Clusters + 1 THEN 0 ELSE Clusters + 1 - 2 + 1
    BY <1>1, FS_Interval
  <2>2. IsFiniteSet(Cluster) /\ Cardinality(Cluster) = Clusters
    BY <1>1, <2>1 DEF Cluster
  <2>3. IsFiniteSet(R) /\ Cardinality(R) = Cardinality(Cluster) - 1
    BY <1>3, <2>2, FS_RemoveElement
  <2> QED BY <2>2, <2>3
<1> DEFINE r == R
           d == D
<1>10. \E x, y \in D : x # y /\ c[x] = c[y]
  <2>1. Cardinality(r) < Cardinality(d)
    BY <1>1, <1>8, <1>9
  <2>2. IsFiniteSet(d) /\ IsFiniteSet(r) /\ c \in [d -> r]
    BY <1>7, <1>8, <1>9
  <2> HIDE DEF d, r
  <2>3. \E x, y \in d : x # y /\ c[x] = c[y]
    BY <2>1, <2>2, FS_PigeonHole
  <2> QED BY <2>3 DEF d
<1>11. PICK x \in D, y \in D : x < y /\ c[x] = c[y]
  <2>1. PICK x \in D, y \in D : x # y /\ c[x] = c[y]
    BY <1>10
  <2>2. x < y \/ y < x
    BY <1>1, <2>1
  <2> QED BY <2>1, <2>2
<1> DEFINE k == Clusters - 1 - y
<1>12. k \in 0 .. Clusters - 1 - y /\ y + k = Clusters - 1 /\ x + k + 1 \in 1 .. Clusters - 1
       /\ x + k + 1 - 1 = x + k
  BY <1>1, <1>11
<1>13. c[x + k] = c[y + k]
  BY <1>11, <1>12, Periodic DEF c
<1> HIDE DEF k
<1>14. c[x + k + 1] = After(v, c[Clusters - 1])
  BY <1>2, <1>12, <1>13
<1>15. c[x + k + 1] \in Cluster
  BY <1>5, <1>12
<1> QED BY <1>4, <1>14, <1>15 DEF After, c
-----------------------------------------------------------------------------
(* The disk as it is built. *)

\* The number of clusters of a file.
LEMMA ExtentNat == ASSUME NEW size \in Nat PROVE Extent(size) \in Nat
<1> DEFINE r == (size + ClusterSize - 1) % SizeMod
<1>1. ClusterSize \in Nat \ {0} /\ SizeMod \in Nat \ {0}
  BY VFatAssumption
<1>2. size + ClusterSize - 1 \in Int
  BY <1>1
<1>3. r \in Nat
  BY <1>1, <1>2, DivMod
<1>4. Extent(size) = IF size = 0 THEN 1 ELSE r \div ClusterSize
  BY DEF Extent
<1> HIDE DEF r
<1> DEFINE q == r \div ClusterSize
<1>5. q \in Int /\ r % ClusterSize \in 0 .. ClusterSize - 1
      /\ r % ClusterSize = r - ClusterSize * q
  BY <1>1, <1>3, DivMod
<1>6. q \in Nat
  <2> SUFFICES ASSUME q <= -1 PROVE FALSE
    BY <1>5
  <2> HIDE DEF q
  <2> DEFINE n == -1 - q
  <2>1. n \in Nat /\ q = -1 - n
    BY <1>5
  <2> HIDE DEF n
  <2>2. ClusterSize * n \in Nat
    BY <1>1, <2>1, ProductNat
  <2>3. ClusterSize * q = -ClusterSize - ClusterSize * n
    BY <1>1, <2>1
  <2> DEFINE a == ClusterSize * n
             b == ClusterSize * q
  <2>4. a \in Nat /\ b = -ClusterSize - a /\ r - b <= ClusterSize - 1
    BY <1>1, <1>3, <1>5, <2>2, <2>3
  <2> HIDE DEF a, b
  <2> QED BY <1>1, <1>3, <2>4
<1> HIDE DEF q
<1> QED BY <1>4, <1>6 DEF q

\* A listing is a sequence of the files, each of them once.
LEMMA ListingIs ==
  ASSUME NEW files \in Files, NEW order \in Listings(files)
  PROVE  /\ Len(order) \in Nat
         /\ \A k \in 1 .. Len(order) : order[k] \in DOMAIN files /\ order[k] \in Host
         /\ \A k, l \in 1 .. Len(order) : order[k] = order[l] => k = l
         /\ DOMAIN order = 1 .. Len(order)
<1> DEFINE D == DOMAIN files
           n == Cardinality(D)
<1>1. D \in SUBSET Host
  BY DEF Files
<1>2. IsFiniteSet(D) /\ IsFiniteSet(Host)
  BY <1>1, HostFilesAssumption, FS_Subset
<1>3. n \in Nat
  BY <1>2, FS_CardinalityType
<1>4. order \in [1 .. n -> D] /\ \A k, l \in 1 .. n : k # l => order[k] # order[l]
  BY DEF Listings, SetToSeqs
<1> HIDE DEF n
<1>5. order \in Seq(D)
  BY <1>3, <1>4
<1>6. Len(order) = n
  BY <1>3, <1>4, <1>5
<1> QED BY <1>1, <1>3, <1>4, <1>6

\* The first cluster of each file, as Built counts it.
Step(files, order, k, at) ==
  LET asks == Extent(Len(files[order[k]]))
  IN IF at + asks <= Clusters + 2 THEN at + (IF asks = 0 THEN 1 ELSE asks) ELSE at

\* Whatever the host's files and their order, the disk is well formed: clusters
\* of a file lie on the disk.
LEMMA BuiltIs ==
  ASSUME NEW files \in Files, NEW order \in Listings(files), NEW last \in Slot
  PROVE  LET v == Built(files, order, last)
         IN /\ v \in VfatType /\ Tidy(v)
            /\ ~v.broken /\ v.lfile = NoSlot /\ v.last = last
            /\ \A i \in Slot : IF v.dir[i].valid
                               THEN /\ i + 1 \in 1 .. Len(order)
                                    /\ v.dir[i].name = ToFat[order[i + 1]]
                                    /\ v.hnames[i] = order[i + 1]
                               ELSE v.hnames[i] = NoName
<1> DEFINE len == Len(order)
           Asks(k) == Extent(Len(files[order[k]]))
           Fit(k, at) == at + Asks(k) <= Clusters + 2
           D == 1 .. len
           F(f) == [k \in D |->
                      IF k = 1 THEN 2
                      ELSE LET at == f[k - 1]
                               n  == IF Asks(k - 1) = 0 THEN 1 ELSE Asks(k - 1)
                           IN IF Fit(k - 1, at) THEN at + n ELSE at]
           from == CHOOSE f : f = F(f)
           listed == {k \in 1 .. len : k <= Slots /\ Fit(k, from[k])}
           Body(k) == from[k] .. from[k] + Asks(k) - 2
           body   == UNION {Body(k) : k \in listed}
           tails  == {from[k] + (IF Asks(k) = 0 THEN 0 ELSE Asks(k) - 1) : k \in listed}
           Has(i) == i + 1 \in listed
           fat == [c \in Cluster |-> IF c \in body THEN c + 1
                                     ELSE IF c \in tails THEN EOC ELSE 0]
           dir == [i \in Slot |->
                     IF Has(i) THEN [valid |-> TRUE, name |-> ToFat[order[i + 1]],
                                     first |-> from[i + 1]]
                               ELSE FreeEntry]
           hnames == [i \in Slot |-> IF Has(i) THEN order[i + 1] ELSE NoName]
           v == Built(files, order, last)
<1>1. len \in Nat /\ \A k \in D : order[k] \in DOMAIN files /\ order[k] \in Host
  BY ListingIs
<1>2. /\ Slots \in Nat \ {0} /\ Clusters \in Nat \ {0} /\ ToFat \in [Host -> FatName]
      /\ Slot \subseteq Nat /\ Zero \in Value
  BY VFatAssumption, HostFilesAssumption DEF Slot
<1>3. v = [fat |-> fat, dir |-> dir, hnames |-> hnames, rwbuf |-> Zero, broken |-> FALSE,
           lfile |-> NoSlot, last |-> last]
  BY DEF Built
<1> HIDE DEF v
<1>4. \A k \in D : Asks(k) \in Nat
  <2> TAKE k \in D
  <2>1. files[order[k]] \in Seq(Value)
    BY <1>1 DEF Files
  <2>2. Len(files[order[k]]) \in Nat
    BY <2>1
  <2> QED BY <2>2, ExtentNat
<1> HIDE DEF Asks
<1>5. \E f \in [D -> Nat] : f = F(f) /\ \A k \in D : f[k] >= 2
  <2>1. CASE len = 0
    <3> DEFINE f == [k \in D |-> 2]
    <3>1. f \in [D -> Nat]
      OBVIOUS
    <3>2. D = {}
      BY <2>1
    <3>3. f = F(f)
      BY <3>2
    <3> HIDE DEF F, f
    <3> QED BY <3>1, <3>2, <3>3
  <2>2. CASE len # 0
    <3> DEFINE E == {n \in Nat : n >= 2}
               S(k, at) == IF k \in D /\ Fit(k, at)
                             THEN at + (IF Asks(k) = 0 THEN 1 ELSE Asks(k)) ELSE at
               g == [p \in Nat \X E |-> S(p[1], p[2])]
               m == len - 1
    <3>1. m \in Nat /\ 2 \in E
      BY <1>1, <2>2
    <3>2. \A k \in Nat, at \in E : S(k, at) \in E
      BY <1>4
    <3>3. g \in [Nat \X E -> E]
      <4> HIDE DEF S, E
      <4> QED BY <3>2
    <3>4. PICK c \in [0 .. m -> E] :
            c[0] = 2 /\ \A n \in 1 .. m : c[n] = g[<<n, c[n - 1]>>]
      <4> DEFINE two == 2
      <4>1. two \in E
        BY <3>1
      <4> HIDE DEF S, E, g, m, F, two
      <4>2. Recursive(E, two, g, m) # {}
        BY <3>1, <3>3, <4>1, Iterates
      <4>3. PICK c \in Recursive(E, two, g, m) : TRUE
        BY <4>2
      <4> QED BY <4>3 DEF Recursive, two
    <3> DEFINE f == [k \in D |-> c[k - 1]]
    <3>5. \A k \in D : k - 1 \in 0 .. m /\ c[k - 1] \in E
      BY <1>1, <3>4
    <3>6. f \in [D -> Nat] /\ \A k \in D : f[k] >= 2
      BY <3>5
    <3>7. \A k \in D : f[k] = F(f)[k]
      <4> TAKE k \in D
      <4>1. CASE k = 1
        BY <3>4, <4>1
      <4>2. CASE k # 1
        <5>1. k - 1 \in D /\ k - 1 \in 1 .. m /\ k - 1 \in Nat /\ k - 1 - 1 \in 0 .. m
          BY <1>1, <4>2
        <5>2. f[k] = c[k - 1] /\ f[k - 1] = c[k - 1 - 1]
          BY <5>1
        <5>3. c[k - 1] = g[<<k - 1, c[k - 1 - 1]>>]
          BY <3>4, <5>1
        <5>4. c[k - 1 - 1] \in E
          BY <3>4, <5>1
        <5>5. g[<<k - 1, c[k - 1 - 1]>>] = S(k - 1, c[k - 1 - 1])
          <6> HIDE DEF E, S
          <6> QED BY <5>1, <5>4
        <5>6. f[k] = S(k - 1, f[k - 1])
          BY <5>2, <5>3, <5>5
        <5> HIDE DEF f
        <5>7. F(f)[k] = LET at == f[k - 1]
                            n  == IF Asks(k - 1) = 0 THEN 1 ELSE Asks(k - 1)
                        IN IF Fit(k - 1, at) THEN at + n ELSE at
          BY <4>2
        <5> QED BY <5>1, <5>6, <5>7
      <4> QED BY <4>1, <4>2
    <3>8. f = F(f)
      <4>1. f = [k \in D |-> f[k]] /\ F(f) = [k \in D |-> F(f)[k]]
        OBVIOUS
      <4> HIDE DEF f, F
      <4> QED BY <3>7, <4>1
    <3> HIDE DEF f, F
    <3> QED BY <3>6, <3>8
  <2> QED BY <2>1, <2>2
<1>6. from = F(from)
  <2> HIDE DEF F
  <2> QED BY <1>5
<1>7. \A k \in D : from[k] \in Nat /\ from[k] >= 2
  <2> DEFINE Bad == {k \in D : ~(from[k] \in Nat /\ from[k] >= 2)}
             b == Min(Bad)
  <2>1. DOMAIN from = D /\ \A k \in D : from[k] = F(from)[k]
    <3> HIDE DEF from
    <3>1. DOMAIN F(from) = D
      OBVIOUS
    <3> HIDE DEF F
    <3> QED BY <1>6, <3>1
  <2> HIDE DEF from
  <2> SUFFICES ASSUME Bad # {} PROVE FALSE
    OBVIOUS
  <2>2. Bad \subseteq Nat
    BY <1>1
  <2>3. b \in Bad /\ \A k \in Bad : b <= k
    BY <2>2, MinIs
  <2> HIDE DEF b
  <2>4. b \in D /\ ~(from[b] \in Nat /\ from[b] >= 2)
    BY <2>3
  <2>5. b # 1
    BY <1>1, <2>1, <2>4
  <2>6. b - 1 \in D /\ ~(b <= b - 1)
    BY <1>1, <2>4, <2>5
  <2>7. from[b - 1] \in Nat /\ from[b - 1] >= 2
    BY <2>3, <2>6
  <2>8. F(from)[b] = LET at == from[b - 1]
                         n  == IF Asks(b - 1) = 0 THEN 1 ELSE Asks(b - 1)
                     IN IF Fit(b - 1, at) THEN at + n ELSE at
    BY <2>4, <2>5
  <2>9. Asks(b - 1) \in Nat
    BY <1>4, <2>6
  <2>10. from[b] = F(from)[b]
    BY <2>1, <2>4
  <2> HIDE DEF F, Fit
  <2> QED BY <2>4, <2>7, <2>8, <2>9, <2>10
<1> HIDE DEF from
<1>8. \A k \in listed : /\ k \in D /\ from[k] \in Nat /\ from[k] >= 2 /\ Asks(k) \in Nat
                        /\ from[k] + Asks(k) <= Clusters + 2
  BY <1>4, <1>7
<1> HIDE DEF listed
<1>9. fat \in [Cluster -> Entry]
  <2> SUFFICES ASSUME NEW c \in Cluster, c \in body PROVE c + 1 \in Entry
    BY DEF Entry
  <2>1. PICK k \in listed : c \in Body(k)
    OBVIOUS
  <2>2. c \in Nat /\ c >= 2 /\ c <= from[k] + Asks(k) - 2
    BY <1>2, <1>8, <2>1 DEF Cluster
  <2>3. c + 1 \in Nat /\ 2 <= c + 1 /\ c + 1 <= Clusters + 1
    BY <1>2, <1>8, <2>2
  <2> QED BY <1>2, <2>3 DEF Entry, Cluster
<1>10. \A i \in Slot : Has(i) =>
         /\ order[i + 1] \in Host /\ ToFat[order[i + 1]] \in FatName
         /\ from[i + 1] \in Entry
  <2> TAKE i \in Slot
  <2> HAVE Has(i)
  <2> DEFINE k == i + 1
  <2>1. k \in listed
    OBVIOUS
  <2> HIDE DEF k
  <2>2. order[k] \in Host
    BY <1>1, <1>8, <2>1
  <2>3. from[k] \in 2 .. Clusters + 2
    BY <1>2, <1>8, <2>1
  <2>4. from[k] \in Entry
    BY <1>2, <2>3 DEF Entry, Cluster, EOC
  <2> QED BY <1>2, <2>2, <2>4 DEF k
<1>11. \A i \in Slot : dir[i] \in DirEntry
  <2> TAKE i \in Slot
  <2>1. 0 \in Entry
    BY DEF Entry
  <2> QED BY <1>10, <2>1 DEF DirEntry, FreeEntry
<1>12. hnames \in [Slot -> Host \union {NoName}]
  BY <1>10
<1>13. \A i \in Slot : IF dir[i].valid THEN dir[i].name \in FatName ELSE dir[i].first = 0
  BY <1>10 DEF FreeEntry
<1>18. \A i \in Slot : IF dir[i].valid
                      THEN /\ i + 1 \in D
                           /\ dir[i].name = ToFat[order[i + 1]]
                           /\ hnames[i] = order[i + 1]
                      ELSE hnames[i] = NoName
  BY <1>8 DEF FreeEntry
<1> HIDE DEF fat, dir, hnames
<1>14. dir \in [Slot -> DirEntry]
  <2>1. dir = [i \in Slot |-> dir[i]]
    BY DEF dir
  <2> QED BY <1>11, <2>1
<1>15. /\ v.fat = fat /\ v.dir = dir /\ v.hnames = hnames /\ v.rwbuf = Zero
       /\ v.broken = FALSE /\ v.lfile = NoSlot /\ v.last = last
  BY <1>3
<1>16. v \in VfatType
  BY <1>2, <1>3, <1>9, <1>12, <1>14 DEF VfatType
<1>17. Tidy(v)
  BY <1>13, <1>15 DEF Tidy
<1> QED BY <1>15, <1>16, <1>17, <1>18 DEF v
-----------------------------------------------------------------------------
(* The invariant. *)

\* The five facts that keep each other: the channel is sound and no more than a
\* unit of it is pending, the directory is tidy, and the file that the disk
\* remembers is the channel's.
Inv ==
  /\ vfat \in VfatType /\ Tidy(vfat)
  /\ Sound(io) /\ Pending(io)
  /\ io.ch.pos \in 0 .. Clusters * ClusterSize
  /\ vfat.lfile # NoSlot => io.ch.name = vfat.hnames[vfat.lfile]
  /\ media \in [Sector -> Value \union {Unknown}]

\* The sector accessed by a step is one of an entry that holds it.
Served ==
  access'.host # NoName =>
    \E i \in Valid(vfat) : \E n \in DOMAIN Chain(vfat, i) :
      /\ vfat'.hnames[i] = access'.host
      /\ Chain(vfat, i)[n] = ClusterOf(access'.sector)
      /\ access'.at = n * ClusterSize + OffsetOf(access'.sector)

\* The channel positioned for a sector, when its file was found.
LEMMA PositionedIs ==
  ASSUME NEW v \in VfatType, Tidy(v), Sound(io),
         v.lfile # NoSlot => io.ch.name = v.hnames[v.lfile],
         NEW i \in Valid(v), NEW s \in Sector, Belongs(v, i, s)
  PROVE  LET at == SetPos(Channel(v, i), PosIn(v, i, s))
             w  == Selected(v, i)
         IN /\ Sound(at) /\ Settled(at) /\ at.ch.name = w.hnames[i]
            /\ at.ch.pos = PosIn(v, i, s)
            /\ w \in VfatType /\ w.fat = v.fat /\ w.dir = v.dir
            /\ w.lfile = i /\ w.broken = v.broken
<1> DEFINE at == SetPos(Channel(v, i), PosIn(v, i, s))
           w  == Selected(v, i)
           ch == Channel(v, i)
           as == Assigned(v, i)
           pos == PosIn(v, i, s)
<1>1. i \in Slot /\ v.dir[i].name \in FatName /\ i # NoSlot
  BY VFatAssumption DEF Valid, Tidy, Slot, NoSlot
<1>2. ToHost[v.dir[i].name] \in Host
  BY <1>1, VFatAssumption
<1>3. as \in VfatType /\ as.fat = v.fat /\ as.dir = v.dir /\ as.broken = v.broken
  BY <1>1, <1>2 DEF Assigned, VfatType
<1>4. as.hnames[i] \in Name
  BY <1>1, <1>3 DEF VfatType, Name
<1> HIDE DEF as
<1>5. w \in VfatType /\ w.fat = v.fat /\ w.dir = v.dir /\ w.lfile = i /\ w.broken = v.broken
  <2>1. CASE i = v.lfile
    BY <2>1 DEF Selected
  <2>2. CASE i # v.lfile
    <3>1. w = [as EXCEPT !.lfile = i]
      BY <2>2 DEF Selected, as
    <3> HIDE DEF w
    <3> QED BY <1>1, <1>3, <3>1 DEF VfatType
  <2> QED BY <2>1, <2>2
<1>6. Sound(ch) /\ ch.ch.name = w.hnames[i]
  <2>1. CASE i = v.lfile
    BY <1>1, <2>1 DEF Channel, Selected
  <2>2. CASE i # v.lfile
    <3>1. w.hnames = as.hnames
      <4>1. w = [as EXCEPT !.lfile = i]
        BY <2>2 DEF Selected, as
      <4> HIDE DEF w
      <4> QED BY <1>3, <4>1 DEF VfatType
    <3> DEFINE name == as.hnames[i]
               opened == Open(io, name)
    <3>2. ch = opened
      BY <2>2 DEF Channel, as
    <3>3. name \in Name
      BY <1>4
    <3> HIDE DEF name, ch, w
    <3>4. Sound(opened) /\ opened.ch.name = name
      BY <3>3, OpenSound
    <3> QED BY <3>1, <3>2, <3>4 DEF name
  <2> QED BY <2>1, <2>2
<1>7. pos \in Nat
  <2>1. pos \in 0 .. Clusters * ClusterSize - 1
    BY <1>1, PosInIs
  <2> HIDE DEF pos
  <2>2. Clusters * ClusterSize \in Nat
    BY VFatAssumption, ProductNat
  <2> QED BY <2>1, <2>2
<1> HIDE DEF ch, pos, w
<1>8. /\ Sound(SetPos(ch, pos)) /\ Settled(SetPos(ch, pos))
      /\ SetPos(ch, pos).ch.pos = pos /\ SetPos(ch, pos).ch.name = ch.ch.name
  BY <1>6, <1>7, SetPosSound
<1> QED BY <1>5, <1>6, <1>8 DEF at, w, ch, pos

\* What a step that found the file of a sector has to show.
LEMMA AccessKeeps ==
  ASSUME Inv, NEW s \in Sector, NEW f, f = Found(vfat, s), f.id # NoSlot,
         NEW at, at = SetPos(Channel(f.v, f.id), PosIn(f.v, f.id, s)),
         NEW w, w = Selected(f.v, f.id)
  PROVE  /\ f.id \in Valid(vfat)
         /\ Sound(at) /\ Settled(at) /\ at.ch.name = w.hnames[f.id]
         /\ at.ch.pos \in Nat /\ at.ch.pos + 1 \in 0 .. Clusters * ClusterSize
         /\ w \in VfatType /\ Tidy(w) /\ w.lfile = f.id /\ ~w.broken
         /\ w.fat = vfat.fat /\ w.dir = vfat.dir
         /\ \E n \in DOMAIN Chain(vfat, f.id) :
              /\ Chain(vfat, f.id)[n] = ClusterOf(s)
              /\ at.ch.pos = n * ClusterSize + OffsetOf(s)
<1> DEFINE v == f.v
           i == f.id
<1>1. /\ v \in VfatType /\ SameDisk(vfat, v)
      /\ i \in Valid(vfat) /\ Belongs(vfat, i, s)
      /\ ~vfat.broken /\ ~v.broken
  BY FoundIs DEF Inv
<1> HIDE DEF v, i
<1>2. v.fat = vfat.fat /\ v.dir = vfat.dir /\ v.hnames = vfat.hnames /\ v.lfile = vfat.lfile
  BY <1>1 DEF SameDisk
<1>3. /\ Chain(v, i) = Chain(vfat, i) /\ Belongs(v, i, s) = Belongs(vfat, i, s)
      /\ PosIn(v, i, s) = PosIn(vfat, i, s) /\ Valid(v) = Valid(vfat)
  BY <1>2, SameChain
<1>4. Tidy(v) /\ Sound(io) /\ (v.lfile # NoSlot => io.ch.name = v.hnames[v.lfile])
  BY <1>2 DEF Inv, Tidy
<1>5. i \in Valid(v) /\ Belongs(v, i, s) /\ i \in Slot
  BY <1>1, <1>3 DEF Valid
<1>6. /\ Sound(at) /\ Settled(at) /\ at.ch.name = w.hnames[i]
      /\ at.ch.pos = PosIn(v, i, s)
      /\ w \in VfatType /\ w.fat = v.fat /\ w.dir = v.dir
      /\ w.lfile = i /\ w.broken = v.broken
  <2>1. at = SetPos(Channel(v, i), PosIn(v, i, s)) /\ w = Selected(v, i)
    BY DEF v, i
  <2> QED BY <1>1, <1>4, <1>5, <2>1, PositionedIs
<1>7. /\ \E n \in 0 .. Clusters - 1 :
           /\ Chain(v, i)[n] = ClusterOf(s)
           /\ PosIn(v, i, s) = n * ClusterSize + OffsetOf(s)
      /\ PosIn(v, i, s) \in 0 .. Clusters * ClusterSize - 1
  BY <1>1, <1>5, PosInIs
<1>8. DOMAIN Chain(v, i) = 0 .. Clusters - 1
  <2>1. Chain(v, i) \in [0 .. Clusters - 1 -> Entry]
    BY <1>1, <1>5, ChainIs
  <2> QED BY <2>1
<1>9. Tidy(w)
  BY <1>4, <1>6 DEF Tidy
<1>10. at.ch.pos \in Nat /\ at.ch.pos + 1 \in 0 .. Clusters * ClusterSize
  <2>1. Clusters * ClusterSize \in Nat
    BY VFatAssumption, ProductNat
  <2> DEFINE t == Clusters * ClusterSize
             p == at.ch.pos
  <2>2. t \in Nat /\ p \in 0 .. t - 1
    BY <1>6, <1>7, <2>1
  <2> HIDE DEF t, p
  <2>3. p \in Nat /\ p + 1 \in 0 .. t
    BY <2>2
  <2> QED BY <2>3 DEF t, p
<1>11. i = f.id
  BY DEF i
<1>12. \E n \in DOMAIN Chain(vfat, i) :
         Chain(vfat, i)[n] = ClusterOf(s) /\ at.ch.pos = n * ClusterSize + OffsetOf(s)
  BY <1>3, <1>6, <1>7, <1>8
<1> QED BY <1>1, <1>2, <1>6, <1>9, <1>10, <1>11, <1>12

\* What is kept by all steps: no more is known of the disk than before.
LEMMA RememberedType ==
  ASSUME NEW m \in [Sector -> Value \union {Unknown}], NEW v
  PROVE  Remembered(m, v) \in [Sector -> Value \union {Unknown}]
  BY DEF Remembered

\* Tidiness depends on the directory alone.
LEMMA SameTidy ==
  ASSUME NEW v, NEW w, Tidy(v), w.dir = v.dir
  PROVE  Tidy(w)
  BY DEF Tidy

\* A step that takes the disk for broken has met a chain that does not end.
Broke(s) == ~vfat.broken /\ vfat'.broken => \E i \in Slot : Exhausts(vfat, i, s)

\* Where nothing is pending, no unit is.
LEMMA SettledPending ==
  ASSUME NEW x, Sound(x), Settled(x)
  PROVE  Pending(x)
<1> SUFFICES ASSUME x.ch.wr, NEW u \in 1 .. Len(x.ch.view)
             PROVE  x.ch.view[u] = IF u <= Len(x.files[x.ch.name])
                                     THEN x.files[x.ch.name][u] ELSE Zero
  BY DEF Pending
<1>1. x.files[x.ch.name] = x.ch.view
  BY DEF Settled
<1> QED BY <1>1

\* The access that is recorded is the one of the channel on the entry's file.
LEMMA AccessedServed ==
  ASSUME NEW ch, NEW kind, NEW s, Accessed(kind, s, ch), NEW i \in Valid(vfat),
         ch.rd => ch.at = ch.pos, ch.name = vfat'.hnames[i],
         \E n \in DOMAIN Chain(vfat, i) :
           Chain(vfat, i)[n] = ClusterOf(s) /\ ch.pos = n * ClusterSize + OffsetOf(s)
  PROVE  Served
<1>1. access' = [kind |-> kind, sector |-> s, host |-> IF ch.rd THEN ch.name ELSE NoName,
                 at |-> IF ch.rd THEN ch.at ELSE 0]
  BY DEF Accessed
<1>2. CASE ch.rd
  <2>1. access'.host = ch.name /\ access'.at = ch.pos /\ access'.sector = s
    BY <1>1, <1>2
  <2> QED BY <2>1 DEF Served
<1>3. CASE ~ch.rd
  <2>1. access'.host = NoName
    BY <1>1, <1>3
  <2> QED BY <2>1 DEF Served
<1> QED BY <1>2, <1>3

\* Reading a sector.
LEMMA ReadKeeps ==
  ASSUME Inv, NEW s \in Sector, ReadSector(s)
  PROVE  Inv' /\ Served /\ Broke(s)
<1> DEFINE f  == Found(vfat, s)
           at == SetPos(Channel(f.v, f.id), PosIn(f.v, f.id, s))
           got == Got(at)
           w == Selected(f.v, f.id)
           o == ReadOpened(at)
<1>1. /\ f.v \in VfatType /\ SameDisk(vfat, f.v)
      /\ (~vfat.broken /\ f.v.broken => \E i \in Slot : Exhausts(vfat, i, s))
  BY FoundIs DEF Inv
<1>2. media' \in [Sector -> Value \union {Unknown}]
  BY RememberedType DEF ReadSector, Inv
<1>3. CASE f.id = NoSlot
  <2>1. /\ vfat' = [f.v EXCEPT !.rwbuf = Zero] /\ io' = io
        /\ Accessed("read", s, Closed)
    BY <1>3 DEF ReadSector
  <2> HIDE DEF f
  <2>2. Zero \in Value
    BY HostFilesAssumption
  <2>3. /\ vfat' \in VfatType /\ vfat'.dir = f.v.dir /\ vfat'.lfile = f.v.lfile
        /\ vfat'.hnames = f.v.hnames /\ vfat'.broken = f.v.broken
    BY <1>1, <2>1, <2>2 DEF VfatType
  <2>4. /\ vfat'.dir = vfat.dir /\ vfat'.lfile = vfat.lfile
        /\ vfat'.hnames = vfat.hnames
    BY <1>1, <2>3 DEF SameDisk
  <2>5. Tidy(vfat')
    BY <2>4, SameTidy DEF Inv
  <2>6. Inv'
    BY <1>2, <2>1, <2>3, <2>4, <2>5 DEF Inv
  <2>7. access'.host = NoName
    BY <2>1 DEF Accessed, Closed, NewChannel
  <2> QED BY <1>1, <2>3, <2>6, <2>7 DEF Served, Broke
<1>4. CASE f.id # NoSlot
  <2>1. /\ f.id \in Valid(vfat)
        /\ Sound(at) /\ Settled(at) /\ at.ch.name = w.hnames[f.id]
        /\ at.ch.pos \in Nat /\ at.ch.pos + 1 \in 0 .. Clusters * ClusterSize
        /\ w \in VfatType /\ Tidy(w) /\ w.lfile = f.id /\ ~w.broken
        /\ \E n \in DOMAIN Chain(vfat, f.id) :
             /\ Chain(vfat, f.id)[n] = ClusterOf(s)
             /\ at.ch.pos = n * ClusterSize + OffsetOf(s)
    <3> DEFINE g == f
               a == at
               u == w
    <3>1. /\ g = Found(vfat, s) /\ g.id # NoSlot /\ u = Selected(g.v, g.id)
          /\ a = SetPos(Channel(g.v, g.id), PosIn(g.v, g.id, s))
      BY <1>4
    <3> HIDE DEF g, a, u
    <3>2. /\ g.id \in Valid(vfat)
          /\ Sound(a) /\ Settled(a) /\ a.ch.name = u.hnames[g.id]
          /\ a.ch.pos \in Nat /\ a.ch.pos + 1 \in 0 .. Clusters * ClusterSize
          /\ u \in VfatType /\ Tidy(u) /\ u.lfile = g.id /\ ~u.broken
          /\ \E n \in DOMAIN Chain(vfat, g.id) :
               /\ Chain(vfat, g.id)[n] = ClusterOf(s)
               /\ a.ch.pos = n * ClusterSize + OffsetOf(s)
      BY <3>1, AccessKeeps
    <3> QED BY <3>2 DEF g, a, u
  <2>2. /\ io' = Read(at)
        /\ vfat' = [w EXCEPT !.rwbuf = IF got = <<>> THEN @ ELSE got[1]]
        /\ Accessed("read", s, o.ch)
    BY <1>4 DEF ReadSector
  <2> HIDE DEF f, at, w
  <2>3. got # <<>> => got[1] \in Value
    BY <2>1, GotIs
  <2>4. /\ Sound(io') /\ Settled(io') /\ io'.ch.name = at.ch.name
        /\ io'.ch.pos \in at.ch.pos .. at.ch.pos + 1
    BY <2>1, <2>2, ReadSound
  <2>5. Sound(o) /\ o.ch.name = at.ch.name /\ o.ch.pos = at.ch.pos
    BY <2>1, ReadOpenedSound
  <2> HIDE DEF got, o
  <2>6. /\ vfat' \in VfatType /\ vfat'.dir = w.dir /\ vfat'.lfile = w.lfile
        /\ vfat'.hnames = w.hnames /\ vfat'.broken = w.broken
    BY <2>1, <2>2, <2>3 DEF VfatType
  <2>7. Tidy(vfat')
    BY <2>1, <2>6, SameTidy
  <2>8. Pending(io')
    BY <2>4, SettledPending
  <2>9. io'.ch.pos \in 0 .. Clusters * ClusterSize
    <3> DEFINE t == Clusters * ClusterSize
               p == at.ch.pos
               q == io'.ch.pos
    <3>1. p \in Nat /\ p + 1 \in 0 .. t /\ q \in p .. p + 1 /\ t \in Nat
      BY <2>1, <2>4, VFatAssumption, ProductNat
    <3> HIDE DEF t, p, q
    <3>2. q \in 0 .. t
      BY <3>1
    <3> QED BY <3>2 DEF t, q
  <2>10. Inv'
    BY <1>2, <2>1, <2>4, <2>6, <2>7, <2>8, <2>9 DEF Inv
  <2>11. Served
    <3> DEFINE ch == o.ch
               i == f.id
    <3>1. i \in Valid(vfat) /\ Accessed("read", s, ch)
      BY <2>1, <2>2
    <3>2. ch.rd => ch.at = ch.pos
      BY <2>5 DEF Sound
    <3>3. ch.name = vfat'.hnames[i] /\ ch.pos = at.ch.pos
      BY <2>1, <2>5, <2>6
    <3>4. \E n \in DOMAIN Chain(vfat, i) :
            /\ Chain(vfat, i)[n] = ClusterOf(s)
            /\ ch.pos = n * ClusterSize + OffsetOf(s)
      BY <2>1, <3>3
    <3> HIDE DEF ch, i
    <3> QED BY <3>1, <3>2, <3>3, <3>4, AccessedServed
  <2> QED BY <2>1, <2>6, <2>10, <2>11 DEF Broke
<1> QED BY <1>3, <1>4

\* Writing a sector.
LEMMA WriteKeeps ==
  ASSUME Inv, NEW s \in Sector, NEW d \in Value, WriteSector(s, d)
  PROVE  Inv' /\ Served /\ Broke(s)
<1> DEFINE f  == Found(vfat, s)
           at == SetPos(Channel(f.v, f.id), PosIn(f.v, f.id, s))
           w == Selected(f.v, f.id)
           o == WriteOpened(at)
<1>1. /\ f.v \in VfatType /\ SameDisk(vfat, f.v)
      /\ (~vfat.broken /\ f.v.broken => \E i \in Slot : Exhausts(vfat, i, s))
  BY FoundIs DEF Inv
<1>2. media' \in [Sector -> Value \union {Unknown}]
  <2> DEFINE m == IF Placed(vfat, s) THEN [media EXCEPT ![s] = d] ELSE media
  <2>1. m \in [Sector -> Value \union {Unknown}]
    BY DEF Inv
  <2>2. media' = Remembered(m, vfat')
    BY DEF WriteSector
  <2> HIDE DEF m
  <2> QED BY <2>1, <2>2, RememberedType
<1>3. CASE f.id = NoSlot
  <2>1. /\ vfat' = [f.v EXCEPT !.rwbuf = d] /\ io' = io
        /\ Accessed("write", s, Closed)
    BY <1>3 DEF WriteSector
  <2> HIDE DEF f
  <2>2. /\ vfat' \in VfatType /\ vfat'.dir = f.v.dir /\ vfat'.lfile = f.v.lfile
        /\ vfat'.hnames = f.v.hnames /\ vfat'.broken = f.v.broken
    BY <1>1, <2>1 DEF VfatType
  <2>3. /\ vfat'.dir = vfat.dir /\ vfat'.lfile = vfat.lfile
        /\ vfat'.hnames = vfat.hnames
    BY <1>1, <2>2 DEF SameDisk
  <2>4. Tidy(vfat')
    BY <2>3, SameTidy DEF Inv
  <2>5. Inv'
    BY <1>2, <2>1, <2>2, <2>3, <2>4 DEF Inv
  <2>6. access'.host = NoName
    BY <2>1 DEF Accessed, Closed, NewChannel
  <2> QED BY <1>1, <2>2, <2>5, <2>6 DEF Served, Broke
<1>4. CASE f.id # NoSlot
  <2>1. /\ f.id \in Valid(vfat)
        /\ Sound(at) /\ Settled(at) /\ at.ch.name = w.hnames[f.id]
        /\ at.ch.pos \in Nat /\ at.ch.pos + 1 \in 0 .. Clusters * ClusterSize
        /\ w \in VfatType /\ Tidy(w) /\ w.lfile = f.id /\ ~w.broken
        /\ \E n \in DOMAIN Chain(vfat, f.id) :
             /\ Chain(vfat, f.id)[n] = ClusterOf(s)
             /\ at.ch.pos = n * ClusterSize + OffsetOf(s)
    <3> DEFINE g == f
               a == at
               u == w
    <3>1. /\ g = Found(vfat, s) /\ g.id # NoSlot /\ u = Selected(g.v, g.id)
          /\ a = SetPos(Channel(g.v, g.id), PosIn(g.v, g.id, s))
      BY <1>4
    <3> HIDE DEF g, a, u
    <3>2. /\ g.id \in Valid(vfat)
          /\ Sound(a) /\ Settled(a) /\ a.ch.name = u.hnames[g.id]
          /\ a.ch.pos \in Nat /\ a.ch.pos + 1 \in 0 .. Clusters * ClusterSize
          /\ u \in VfatType /\ Tidy(u) /\ u.lfile = g.id /\ ~u.broken
          /\ \E n \in DOMAIN Chain(vfat, g.id) :
               /\ Chain(vfat, g.id)[n] = ClusterOf(s)
               /\ a.ch.pos = n * ClusterSize + OffsetOf(s)
      BY <3>1, AccessKeeps
    <3> QED BY <3>2 DEF g, a, u
  <2>2. /\ io' = Write(at, d)
        /\ vfat' = [w EXCEPT !.rwbuf = d]
        /\ Accessed("write", s, o.ch)
    BY <1>4 DEF WriteSector
  <2> HIDE DEF f, at, w
  <2>3. /\ Sound(io') /\ Pending(io') /\ io'.ch.name = at.ch.name
        /\ io'.ch.pos \in at.ch.pos .. at.ch.pos + 1
    BY <2>1, <2>2, WriteSound
  <2>4. Sound(o) /\ o.ch.name = at.ch.name /\ o.ch.pos = at.ch.pos
    BY <2>1, WriteOpenedSound
  <2> HIDE DEF o
  <2>5. /\ vfat' \in VfatType /\ vfat'.dir = w.dir /\ vfat'.lfile = w.lfile
        /\ vfat'.hnames = w.hnames /\ vfat'.broken = w.broken
    BY <2>1, <2>2 DEF VfatType
  <2>6. Tidy(vfat')
    BY <2>1, <2>5, SameTidy
  <2>7. io'.ch.pos \in 0 .. Clusters * ClusterSize
    <3> DEFINE t == Clusters * ClusterSize
               p == at.ch.pos
               q == io'.ch.pos
    <3>1. p \in Nat /\ p + 1 \in 0 .. t /\ q \in p .. p + 1 /\ t \in Nat
      BY <2>1, <2>3, VFatAssumption, ProductNat
    <3> HIDE DEF t, p, q
    <3>2. q \in 0 .. t
      BY <3>1
    <3> QED BY <3>2 DEF t, q
  <2>8. Inv'
    BY <1>2, <2>1, <2>3, <2>5, <2>6, <2>7 DEF Inv
  <2>9. Served
    <3> DEFINE ch == o.ch
               i == f.id
    <3>1. i \in Valid(vfat) /\ Accessed("write", s, ch)
      BY <2>1, <2>2
    <3>2. ch.rd => ch.at = ch.pos
      BY <2>4 DEF Sound
    <3>3. ch.name = vfat'.hnames[i] /\ ch.pos = at.ch.pos
      BY <2>1, <2>4, <2>5
    <3>4. \E n \in DOMAIN Chain(vfat, i) :
            /\ Chain(vfat, i)[n] = ClusterOf(s)
            /\ ch.pos = n * ClusterSize + OffsetOf(s)
      BY <2>1, <3>3
    <3> HIDE DEF ch, i
    <3> QED BY <3>1, <3>2, <3>3, <3>4, AccessedServed
  <2> QED BY <2>1, <2>5, <2>8, <2>9 DEF Broke
<1> QED BY <1>3, <1>4

\* A write to the system area that keeps the entries tidy.
LEMMA SysKeeps ==
  ASSUME Inv, NEW v \in VfatType, Tidy(v), v.hnames = vfat.hnames,
         v.lfile = vfat.lfile, WriteSys(v)
  PROVE  Inv' /\ access'.host = NoName /\ ~vfat'.broken
<1>1. vfat' = [v EXCEPT !.broken = FALSE] /\ io' = io
  BY DEF WriteSys
<1>2. /\ vfat' \in VfatType /\ vfat'.dir = v.dir /\ vfat'.hnames = v.hnames
      /\ vfat'.lfile = v.lfile /\ ~vfat'.broken
  BY <1>1 DEF VfatType
<1>3. Tidy(vfat')
  BY <1>2, SameTidy
<1>4. media' \in [Sector -> Value \union {Unknown}]
  BY DEF WriteSys, Remember, Inv
<1>5. access'.host = NoName
  BY DEF WriteSys, NoAccess
<1> QED BY <1>1, <1>2, <1>3, <1>4, <1>5 DEF Inv

\* Linking clusters, creating an entry, giving it a first cluster.
LEMMA SystemKeeps ==
  ASSUME Inv,
         \/ \E c \in Cluster, e \in Entry : WriteFat(c, e)
         \/ \E i \in Slot, n \in FatName : Create(i, n)
         \/ \E i \in Slot, c \in Cluster : SetFirst(i, c)
  PROVE  Inv' /\ access'.host = NoName /\ ~vfat'.broken
<1>1. vfat \in VfatType /\ Tidy(vfat)
  BY DEF Inv
<1>2. ASSUME NEW c \in Cluster, NEW e \in Entry, WriteFat(c, e)
      PROVE  Inv' /\ access'.host = NoName /\ ~vfat'.broken
  <2> DEFINE v == [vfat EXCEPT !.fat[c] = e]
  <2>1. /\ v \in VfatType /\ v.dir = vfat.dir /\ v.hnames = vfat.hnames
        /\ v.lfile = vfat.lfile
    BY <1>1 DEF VfatType
  <2>2. WriteSys(v)
    BY <1>2 DEF WriteFat
  <2> HIDE DEF v
  <2>3. Tidy(v)
    BY <1>1, <2>1, SameTidy
  <2> QED BY <2>1, <2>2, <2>3, SysKeeps
<1>3. ASSUME NEW i \in Slot, NEW n \in FatName, Create(i, n)
      PROVE  Inv' /\ access'.host = NoName /\ ~vfat'.broken
  <2> DEFINE e == [valid |-> TRUE, name |-> n, first |-> 0]
             v == [vfat EXCEPT !.dir[i] = e]
  <2>1. e \in DirEntry /\ e.valid /\ e.name \in FatName
    BY DEF DirEntry, Entry
  <2>2. WriteSys(v)
    BY <1>3 DEF Create
  <2> HIDE DEF e
  <2>3. /\ v \in VfatType /\ v.hnames = vfat.hnames /\ v.lfile = vfat.lfile
        /\ v.dir[i] = e /\ \A j \in Slot : j # i => v.dir[j] = vfat.dir[j]
    BY <1>1, <2>1 DEF VfatType
  <2> HIDE DEF v
  <2>4. Tidy(v)
    BY <1>1, <2>1, <2>3 DEF Tidy
  <2> QED BY <2>2, <2>3, <2>4, SysKeeps
<1>4. ASSUME NEW i \in Slot, NEW c \in Cluster, SetFirst(i, c)
      PROVE  Inv' /\ access'.host = NoName /\ ~vfat'.broken
  <2> DEFINE v == [vfat EXCEPT !.dir[i].first = c]
  <2>1. vfat.dir[i].valid /\ WriteSys(v)
    BY <1>4 DEF SetFirst
  <2>2. c \in Entry
    BY DEF Entry
  <2>3. /\ v \in VfatType /\ v.hnames = vfat.hnames /\ v.lfile = vfat.lfile
        /\ v.dir[i].valid = vfat.dir[i].valid /\ v.dir[i].name = vfat.dir[i].name
        /\ \A j \in Slot : j # i => v.dir[j] = vfat.dir[j]
    BY <1>1, <2>2 DEF VfatType, DirEntry
  <2> HIDE DEF v
  <2>4. Tidy(v)
    BY <1>1, <2>1, <2>3 DEF Tidy
  <2> QED BY <2>1, <2>3, <2>4, SysKeeps
<1> QED BY <1>2, <1>3, <1>4

\* A channel that is not open.
LEMMA StartSound ==
  ASSUME NEW files \in Files
  PROVE  LET x == StartIO(files)
         IN /\ Sound(x) /\ Pending(x) /\ x.ch.pos = 0 /\ ~x.crashed
<1> DEFINE x == StartIO(files)
<1>1. <<>> \in Seq(Value)
  BY EmptySeq
<1>2. Closed \in ChanType /\ ~Closed.rd /\ ~Closed.wr /\ Closed.pos = 0
  BY <1>1 DEF ChanType, Closed, NewChannel, Name
<1>3. x \in IoType /\ x.ch = Closed /\ ~x.crashed
  BY <1>2 DEF IoType, StartIO
<1> HIDE DEF x
<1>4. Sound(x) /\ Pending(x)
  BY <1>2, <1>3 DEF Sound, Pending
<1> QED BY <1>2, <1>3, <1>4 DEF x

\* Zero is a position of the disk.
LEMMA ZeroPos == 0 \in 0 .. Clusters * ClusterSize
<1> DEFINE t == Clusters * ClusterSize
<1>1. t \in Nat
  BY VFatAssumption, ProductNat
<1> HIDE DEF t
<1>2. 0 \in 0 .. t
  BY <1>1
<1> QED BY <1>2 DEF t

\* The disk after a reset or a start.
LEMMA ResetKeeps ==
  ASSUME Inv, Reset \/ Exit \/ Kill
  PROVE  Inv' /\ access'.host = NoName /\ ~vfat'.broken
<1>1. io.files \in Files /\ Flush(io).files \in Files
  BY FlushSound DEF Inv, Sound, IoType
<1>2. vfat.last \in Slot /\ 0 \in Slot
  BY VFatAssumption DEF Inv, VfatType, Slot
<1>3. ASSUME NEW files \in Files, NEW last \in Slot, Sound(io'), Pending(io'),
             io'.ch.pos \in 0 .. Clusters * ClusterSize,
             \E order \in Listings(files) : vfat' = Built(files, order, last),
             media' = [s \in Sector |-> Unknown], access' = NoAccess
      PROVE  Inv' /\ access'.host = NoName /\ ~vfat'.broken
  <2>1. PICK order \in Listings(files) : vfat' = Built(files, order, last)
    BY <1>3
  <2>2. vfat' \in VfatType /\ Tidy(vfat') /\ ~vfat'.broken /\ vfat'.lfile = NoSlot
    BY <2>1, BuiltIs
  <2>3. media' \in [Sector -> Value \union {Unknown}]
    BY <1>3
  <2>4. access'.host = NoName
    BY <1>3 DEF NoAccess
  <2> QED BY <1>3, <2>2, <2>3, <2>4 DEF Inv
<1>4. ASSUME NEW files \in Files, Started(files)
      PROVE  Inv' /\ access'.host = NoName /\ ~vfat'.broken
  <2>1. io' = StartIO(files)
    BY <1>4 DEF Started
  <2>2. Sound(io') /\ Pending(io') /\ io'.ch.pos = 0
    BY <2>1, StartSound
  <2>3. io'.ch.pos \in 0 .. Clusters * ClusterSize
    BY <2>2, ZeroPos
  <2>4. /\ \E order \in Listings(files) : vfat' = Built(files, order, 0)
        /\ media' = [s \in Sector |-> Unknown] /\ access' = NoAccess
    BY <1>4 DEF Started
  <2> QED BY <1>2, <1>3, <2>2, <2>3, <2>4
<1>5. CASE Reset
  <2>1. /\ \E order \in Listings(io.files) : vfat' = Built(io.files, order, vfat.last)
        /\ media' = [s \in Sector |-> Unknown] /\ access' = NoAccess /\ io' = io
    BY <1>5 DEF Reset
  <2>2. /\ Sound(io') /\ Pending(io')
        /\ io'.ch.pos \in 0 .. Clusters * ClusterSize
    BY <2>1 DEF Inv
  <2> QED BY <1>1, <1>2, <1>3, <2>1, <2>2
<1>6. CASE Exit
  BY <1>1, <1>4, <1>6 DEF Exit
<1>7. CASE Kill
  BY <1>1, <1>4, <1>7 DEF Kill
<1> QED BY <1>5, <1>6, <1>7

\* The start.
LEMMA InitInv == Init => Inv
<1> SUFFICES ASSUME Init PROVE Inv
  OBVIOUS
<1>1. StartFiles \in Files /\ 0 \in Slot
  BY VFatAssumption DEF Files, Slot
<1>2. PICK order \in Listings(StartFiles) : vfat = Built(StartFiles, order, 0)
  BY DEF Init
<1>3. vfat \in VfatType /\ Tidy(vfat) /\ vfat.lfile = NoSlot
  BY <1>1, <1>2, BuiltIs
<1>4. Sound(io) /\ Pending(io) /\ io.ch.pos = 0
  BY <1>1, StartSound DEF Init
<1>5. io.ch.pos \in 0 .. Clusters * ClusterSize
  BY <1>4, ZeroPos
<1>6. media \in [Sector -> Value \union {Unknown}]
  BY DEF Init
<1> QED BY <1>3, <1>4, <1>5, <1>6 DEF Inv

\* When a step takes the FAT for broken, the reason that the property asks for.
Reason ==
  ~vfat.broken /\ vfat'.broken =>
    \/ \E i \in Slot : Loops(i)
    \/ ReadSector(Past)
    \/ \E d \in Value : WriteSector(Past, d)

\* A chain that exhausts a sector of the disk loops.
LEMMA BrokeReason ==
  ASSUME Inv, NEW s \in Sector, s # Past, Broke(s)
  PROVE  Reason
<1> SUFFICES ASSUME ~vfat.broken, vfat'.broken PROVE \E i \in Slot : Loops(i)
  BY DEF Reason
<1>1. PICK i \in Slot : Exhausts(vfat, i, s)
  BY DEF Broke
<1>2. vfat \in VfatType
  BY DEF Inv
<1>3. Chain(vfat, i)[Clusters - 1] \in Cluster
      /\ vfat.fat[Chain(vfat, i)[Clusters - 1]] \in Cluster
  BY <1>1, <1>2, ExhaustsLoops
<1>4. Loops(i)
  BY <1>3 DEF Loops
<1> QED BY <1>4

\* Every step keeps the invariant, and does what the action properties say.
LEMMA NextInv ==
  ASSUME Inv, [Next]_vars
  PROVE  Inv' /\ (Next => Served /\ Reason)
<1>1. ASSUME NEW s \in Sector, ReadSector(s)
      PROVE  Inv' /\ Served /\ Reason
  <2>1. Inv' /\ Served /\ Broke(s)
    BY <1>1, ReadKeeps
  <2>2. CASE s = Past
    BY <1>1, <2>1, <2>2 DEF Reason
  <2>3. CASE s # Past
    BY <2>1, <2>3, BrokeReason
  <2> QED BY <2>1, <2>2, <2>3
<1>2. ASSUME NEW s \in Sector, NEW d \in Value, WriteSector(s, d)
      PROVE  Inv' /\ Served /\ Reason
  <2>1. Inv' /\ Served /\ Broke(s)
    BY <1>2, WriteKeeps
  <2>2. CASE s = Past
    BY <1>2, <2>1, <2>2 DEF Reason
  <2>3. CASE s # Past
    BY <2>1, <2>3, BrokeReason
  <2> QED BY <2>1, <2>2, <2>3
<1>3. ASSUME NEW d \in Value, WritePart(d)
      PROVE  Inv' /\ Served /\ Reason
  <2>1. vfat' = [vfat EXCEPT !.rwbuf = d] /\ io' = io /\ media' = media /\ access' = NoAccess
    BY <1>3 DEF WritePart
  <2>2. /\ vfat' \in VfatType /\ vfat'.dir = vfat.dir /\ vfat'.lfile = vfat.lfile
        /\ vfat'.hnames = vfat.hnames /\ vfat'.broken = vfat.broken
    BY <2>1 DEF Inv, VfatType
  <2>3. Tidy(vfat')
    BY <2>2, SameTidy DEF Inv
  <2>4. access'.host = NoName
    BY <2>1 DEF NoAccess
  <2> QED BY <2>1, <2>2, <2>3, <2>4 DEF Inv, Served, Reason
<1>4. CASE \/ \E c \in Cluster, e \in Entry : WriteFat(c, e)
           \/ \E i \in Slot, n \in FatName : Create(i, n)
           \/ \E i \in Slot, c \in Cluster : SetFirst(i, c)
  BY <1>4, SystemKeeps DEF Served, Reason
<1>5. CASE Reset \/ Exit \/ Kill
  BY <1>5, ResetKeeps DEF Served, Reason
<1>6. CASE UNCHANGED vars /\ ~Next
  BY <1>6 DEF vars, Inv
<1> QED BY <1>1, <1>2, <1>3, <1>4, <1>5, <1>6 DEF Next

\* The invariant holds from the start on.
THEOREM Invariance == Spec => []Inv
<1>1. Init => Inv
  BY InitInv
<1>2. Inv /\ [Next]_vars => Inv'
  BY NextInv
<1> QED BY <1>1, <1>2, PTL DEF Spec
-----------------------------------------------------------------------------
\* Whatever the program writes into the FAT and the directory, the state of the
\* disk (cu_vfat.c) stays in its ranges, and the position of its file within the
\* data area.
THEOREM TypeCorrect == Spec => []TypeOK
<1>1. Inv => TypeOK
  <2> SUFFICES ASSUME Inv PROVE TypeOK
    OBVIOUS
  <2>1. io.files \in Files /\ io.ch.view \in Seq(Value)
    BY DEF Inv, Sound, IoType, ChanType
  <2>2. DOMAIN io.files \subseteq Host /\ \A h \in DOMAIN io.files : io.files[h] \in Seq(Value)
    BY <2>1 DEF Files
  <2> QED BY <2>1, <2>2 DEF Inv, TypeOK
<1> QED BY <1>1, Invariance, PTL

\* The open stream is that of the file which vfat_lfile remembers, and stands
\* where the channel says: cu_vfat_read and cu_vfat_write may skip opening it.
THEOREM ChannelAgreement == Spec => []ChannelAgrees
<1>1. Inv => ChannelAgrees
  BY DEF Inv, Sound, ChannelAgrees, Readable
<1> QED BY <1>1, Invariance, PTL

\* A kill loses one sector at most, the one last written.
THEOREM OneSectorPending == Spec => []PendingIsLast
<1>1. Inv => PendingIsLast
  BY DEF Inv, Pending, PendingIsLast
<1> QED BY <1>1, Invariance, PTL

\* A data sector is only read from, and written to, the host file of an entry
\* that holds its cluster by the FAT as it is, where its chain says.
THEOREM ServedByItsOwner == Spec => ServedByOwner
<1>1. ASSUME Inv, Next
      PROVE  access'.host # NoName =>
               \E i \in Valid(vfat) : \E n \in DOMAIN Chain(vfat, i) :
                 /\ vfat'.hnames[i] = access'.host
                 /\ Chain(vfat, i)[n] = ClusterOf(access'.sector)
                 /\ access'.at = n * ClusterSize + OffsetOf(access'.sector)
  BY <1>1, NextInv DEF Served
<1> QED BY <1>1, Invariance, PTL DEF Spec, ServedByOwner

\* The FAT is taken for broken (cu_vfat_findbypos) only because of a loop, or in a
\* search for a sector past the end of the disk.
THEOREM OnlyLoopsBreak == Spec => BrokenMeansLoop
<1>1. ASSUME Inv, Next
      PROVE  ~vfat.broken /\ vfat'.broken =>
               \/ \E i \in Slot : Loops(i)
               \/ ReadSector(Past)
               \/ \E d \in Value : WriteSector(Past, d)
  BY <1>1, NextInv DEF Reason
<1> QED BY <1>1, Invariance, PTL DEF Spec, BrokenMeansLoop
-----------------------------------------------------------------------------
(* The disk as the program sees it. *)

\* Host names and FAT names convert back and forth.
NamesConvert ==
  /\ \A h \in Host : ToHost[ToFat[h]] = h
  /\ \A n \in FatName : ToFat[ToHost[n]] = n

\* The host file of an entry.
HostOf(v, i) == ToHost[v.dir[i].name]

\* Entries have names of their own, and the files of these names.
Named(v) ==
  /\ \A i \in Slot : IF i \in Valid(v) THEN v.hnames[i] \in {NoName, HostOf(v, i)}
                                       ELSE v.hnames[i] = NoName
  /\ \A i, j \in Valid(v) : v.dir[i].name = v.dir[j].name => i = j
  /\ v.lfile # NoSlot => v.lfile \in Valid(v) /\ v.hnames[v.lfile] = HostOf(v, v.lfile)

\* A stream for reading shows the file as it is.
Fresh(x) == x.ch.rd /\ ~x.ch.wr => x.ch.view = x.files[x.ch.name]

\* What a file holds, with what is pending.
Content(x, h) == IF x.ch.wr /\ x.ch.name = h THEN x.ch.view
                 ELSE IF h \in DOMAIN x.files THEN x.files[h] ELSE <<>>

\* The unit at a position of a file.
UnitAt(x, h, p, d) == p < Len(Content(x, h)) /\ Content(x, h)[p + 1] = d

\* The files hold the sectors that are known.
Holds(v, x, m) ==
  \A s \in Sector : m[s] # Unknown =>
    Placed(v, s) /\ UnitAt(x, HostOf(v, Place(v, s)[1]), Place(v, s)[2], m[s])

SameContent(x, y) == \A h : Content(y, h) = Content(x, h)

\* A channel that is closed shows the files.
LEMMA ClosedContent ==
  ASSUME NEW x, ~x.ch.wr
  PROVE  \A h : Content(x, h) = IF h \in DOMAIN x.files THEN x.files[h] ELSE <<>>
  BY DEF Content

\* Pending data is part of a file before and after it is put there.
LEMMA SyncedContent ==
  ASSUME NEW x, Sound(x), Fresh(x)
  PROVE  LET d == Synced(x)
         IN /\ SameContent(x, d) /\ Fresh(d)
            /\ \A h : Content(x, h) = IF h \in DOMAIN d.files THEN d.files[h] ELSE <<>>
<1> DEFINE d == Synced(x)
<1>1. CASE x.ch.wr
  <2> DEFINE g == Stored(x.files, x.ch.name, x.ch.view)
  <2>1. d = [x EXCEPT !.files = g]
    BY <1>1 DEF Synced, Sound, IoType
  <2> HIDE DEF g
  <2>2. d.files = g /\ d.ch = x.ch
    BY <2>1 DEF Sound, IoType
  <2> HIDE DEF d
  <2>3. \A h : h # x.ch.name =>
          (h \in DOMAIN g <=> h \in DOMAIN x.files)
          /\ (h \in DOMAIN x.files => g[h] = x.files[h])
    BY DEF g, Stored
  <2>4. x.ch.name \in DOMAIN g /\ g[x.ch.name] = x.ch.view
    BY DEF g, Stored
  <2>5. \A h : Content(x, h) = IF h \in DOMAIN g THEN g[h] ELSE <<>>
    <3> TAKE h
    <3>1. CASE h = x.ch.name
      BY <1>1, <2>4, <3>1 DEF Content
    <3>2. CASE h # x.ch.name
      BY <2>3, <3>2 DEF Content
    <3> QED BY <3>1, <3>2
  <2>6. \A h : Content(d, h) = Content(x, h)
    <3> TAKE h
    <3>1. CASE h = x.ch.name
      BY <1>1, <2>2, <3>1 DEF Content
    <3>2. CASE h # x.ch.name
      BY <2>2, <2>3, <3>2 DEF Content
    <3> QED BY <3>1, <3>2
  <2> QED BY <1>1, <2>2, <2>5, <2>6 DEF SameContent, Fresh, d
<1>2. CASE ~x.ch.wr
  <2>1. d = x
    BY <1>2 DEF Synced
  <2> QED BY <1>2, <2>1 DEF SameContent, Content
<1> QED BY <1>1, <1>2

\* Changes of the channel that is closed, or of a stream that shows its file, do
\* not change what the files hold.
LEMMA ContentKept ==
  ASSUME NEW x, NEW y, y.files = x.files,
         x.ch.wr => /\ x.files[x.ch.name] = x.ch.view
                     /\ x.ch.name \in DOMAIN x.files,
         y.ch.wr => /\ y.files[y.ch.name] = y.ch.view
                     /\ y.ch.name \in DOMAIN y.files
  PROVE  SameContent(x, y)
<1>1. \A h : Content(x, h) = IF h \in DOMAIN x.files THEN x.files[h] ELSE <<>>
  BY DEF Content
<1>2. \A h : Content(y, h) = IF h \in DOMAIN x.files THEN x.files[h] ELSE <<>>
  BY DEF Content
<1> QED BY <1>1, <1>2 DEF SameContent

\* Sharing contents is transitive.
LEMMA SameContentTrans ==
  ASSUME NEW x, NEW y, NEW z, SameContent(x, y), SameContent(y, z)
  PROVE  SameContent(x, z)
  BY DEF SameContent

\* Opening a stream on the channel's file.
LEMMA OpenedContent ==
  ASSUME NEW x \in IoType, ~x.ch.wr, NEW wr \in BOOLEAN, x.ch.name \in DOMAIN x.files
  PROVE  SameContent(x, Opened(x, wr)) /\ Fresh(Opened(x, wr))
<1> DEFINE d == Opened(x, wr)
<1>1. x.ch \in ChanType
  BY DEF IoType
<1>2. /\ d.files = x.files /\ d.ch.name = x.ch.name
      /\ d.ch.view = x.files[x.ch.name]
  BY <1>1 DEF IoType, ChanType, Opened
<1> HIDE DEF d
<1>3. SameContent(x, d)
  BY <1>2, ContentKept
<1>4. Fresh(d)
  BY <1>2 DEF Fresh
<1> QED BY <1>3, <1>4 DEF d

\* Closing, opening, positioning and reading do not change what files hold.
LEMMA FlushContent ==
  ASSUME NEW x, Sound(x), Fresh(x)
  PROVE  SameContent(x, Flush(x)) /\ Fresh(Flush(x))
<1> DEFINE s == Synced(x)
           d == Flush(x)
<1>1. s \in IoType
  BY SyncedSound DEF Sound
<1>2. \A h : Content(x, h) = IF h \in DOMAIN s.files THEN s.files[h] ELSE <<>>
  BY SyncedContent
<1> HIDE DEF s
<1>3. d = [s EXCEPT !.ch = NewChannel(x.ch.name, x.ch.pos)]
  BY DEF Flush, s
<1>4. d.files = s.files /\ d.ch = NewChannel(x.ch.name, x.ch.pos)
  BY <1>1, <1>3 DEF IoType
<1> HIDE DEF d
<1>5. ~d.ch.wr /\ ~d.ch.rd
  BY <1>4 DEF NewChannel
<1>6. \A h : Content(d, h) = IF h \in DOMAIN d.files THEN d.files[h] ELSE <<>>
  BY <1>5, ClosedContent
<1> QED BY <1>2, <1>4, <1>5, <1>6 DEF SameContent, Fresh, d

\* Opening another file changes no content.
LEMMA OpenContent ==
  ASSUME NEW x, Sound(x), Fresh(x), NEW name \in Name
  PROVE  SameContent(x, Open(x, name)) /\ Fresh(Open(x, name))
<1> DEFINE s == Flush(x)
           c == [s EXCEPT !.ch = NewChannel(name, 0)]
<1>1. s \in IoType /\ ~s.ch.wr
  BY FlushSound DEF Sound
<1>2. SameContent(x, s)
  BY FlushContent
<1>3. Open(x, name) = IF Readable(c) THEN Opened(c, FALSE) ELSE c
  BY DEF Open
<1> HIDE DEF s
<1>4. c.files = s.files /\ ~c.ch.wr /\ ~c.ch.rd /\ c \in IoType
  <2>1. Sound(c) /\ ~c.ch.rd /\ ~c.ch.wr /\ c.files = s.files
    <3>1. 0 \in Nat
      OBVIOUS
    <3> QED BY <1>1, <3>1, ClosedSound
  <2> QED BY <2>1 DEF Sound
<1> HIDE DEF c
<1>5. SameContent(s, c)
  <2>1. \A h : Content(s, h) = IF h \in DOMAIN s.files THEN s.files[h] ELSE <<>>
    BY <1>1, ClosedContent
  <2>2. \A h : Content(c, h) = IF h \in DOMAIN c.files THEN c.files[h] ELSE <<>>
    BY <1>4, ClosedContent
  <2> QED BY <1>4, <2>1, <2>2 DEF SameContent
<1>6. SameContent(x, c)
  BY <1>2, <1>5, SameContentTrans
<1>7. CASE Readable(c)
  <2>1. SameContent(c, Opened(c, FALSE)) /\ Fresh(Opened(c, FALSE))
    BY <1>4, <1>7, OpenedContent DEF Readable
  <2> QED BY <1>3, <1>6, <1>7, <2>1, SameContentTrans
<1>8. CASE ~Readable(c)
  BY <1>3, <1>4, <1>6, <1>8 DEF Fresh
<1> QED BY <1>7, <1>8

\* Neither does a seek.
LEMMA SetPosContent ==
  ASSUME NEW x, Sound(x), Fresh(x), NEW pos \in Nat
  PROVE  SameContent(x, SetPos(x, pos)) /\ Fresh(SetPos(x, pos))
<1> DEFINE d == SetPos(x, pos)
<1>1. CASE x.ch.rd
  <2> DEFINE s == Synced(x)
  <2>1. /\ SameContent(x, s) /\ Fresh(s) /\ Settled(s) /\ Sound(s)
        /\ s \in IoType /\ s.ch \in ChanType
    BY SyncedContent, SyncedSound DEF Sound, IoType
  <2>2. d = [s EXCEPT !.ch.pos = pos, !.ch.at = pos]
    BY <1>1 DEF SetPos
  <2> HIDE DEF s
  <2>3. /\ d.files = s.files /\ d.ch.wr = s.ch.wr /\ d.ch.rd = s.ch.rd
        /\ d.ch.name = s.ch.name /\ d.ch.view = s.ch.view
    BY <2>1, <2>2 DEF IoType, ChanType
  <2> HIDE DEF d
  <2>4. SameContent(s, d)
    BY <2>3 DEF SameContent, Content
  <2> QED BY <2>1, <2>3, <2>4, SameContentTrans DEF Fresh, d
<1>2. CASE ~x.ch.rd
  <2>1. d = [x EXCEPT !.ch.pos = pos]
    BY <1>2 DEF SetPos
  <2>2. /\ d.files = x.files /\ d.ch.wr = x.ch.wr /\ d.ch.rd = x.ch.rd
        /\ d.ch.name = x.ch.name /\ d.ch.view = x.ch.view
    BY <2>1 DEF Sound, IoType, ChanType
  <2> HIDE DEF d
  <2> QED BY <2>2 DEF SameContent, Content, Fresh, d
<1> QED BY <1>1, <1>2

\* Neither does opening the file for a read.
LEMMA ReadOpenedContent ==
  ASSUME NEW x, Sound(x), Fresh(x)
  PROVE  SameContent(x, ReadOpened(x)) /\ Fresh(ReadOpened(x))
<1>1. CASE ~x.ch.rd /\ Readable(x)
  <2>1. x \in IoType /\ ~x.ch.wr /\ x.ch.name \in DOMAIN x.files
    BY <1>1 DEF Sound, Readable
  <2>2. ReadOpened(x) = Opened(x, FALSE)
    BY <1>1 DEF ReadOpened
  <2> QED BY <2>1, <2>2, OpenedContent
<1>2. CASE ~(~x.ch.rd /\ Readable(x))
  <2>1. ReadOpened(x) = x
    BY <1>2 DEF ReadOpened
  <2> QED BY <2>1 DEF SameContent
<1> QED BY <1>1, <1>2

\* A unit that a file holds is what a read gets.
LEMMA GotUnit ==
  ASSUME NEW x, Sound(x), Settled(x), Fresh(x), NEW d,
         UnitAt(x, x.ch.name, x.ch.pos, d)
  PROVE  Got(x) = <<d>>
<1> DEFINE o == ReadOpened(x)
<1>1. Sound(o) /\ Settled(o) /\ o.ch.name = x.ch.name /\ o.ch.pos = x.ch.pos
  BY ReadOpenedSound
<1>2. Fresh(o) /\ \A h : Content(o, h) = Content(x, h)
  BY ReadOpenedContent DEF SameContent
<1>3. x.ch.name \in DOMAIN x.files => o.ch.rd
  <2> SUFFICES ASSUME x.ch.name \in DOMAIN x.files PROVE o.ch.rd
    OBVIOUS
  <2>1. CASE x.ch.rd
    BY <2>1 DEF ReadOpened
  <2>2. CASE ~x.ch.rd
    <3>1. o = Opened(x, FALSE) /\ x \in IoType
      BY <2>2 DEF ReadOpened, Readable, Sound
    <3>2. Opened(x, FALSE).ch.rd
      BY <3>1, OpenedSound
    <3> QED BY <3>1, <3>2
  <2> QED BY <2>1, <2>2
<1>4. Got(x) = IF o.ch.rd /\ o.ch.at < Len(o.ch.view)
                 THEN <<o.ch.view[o.ch.at + 1]>> ELSE <<>>
  BY DEF Got
<1> HIDE DEF o
<1>5. x.ch.name \in DOMAIN x.files
  <2> SUFFICES ASSUME x.ch.name \notin DOMAIN x.files PROVE FALSE
    OBVIOUS
  <2>1. ~x.ch.wr
    BY DEF Sound
  <2>2. Content(x, x.ch.name) = <<>>
    BY <2>1 DEF Content
  <2>3. x.ch.pos \in Nat /\ Len(<<>>) = 0
    BY DEF Sound, IoType, ChanType
  <2>4. x.ch.pos < 0
    BY <2>2, <2>3 DEF UnitAt
  <2> QED BY <2>3, <2>4
<1>6. o.ch.rd /\ o.ch.at = x.ch.pos /\ o.ch.name \in DOMAIN o.files
  BY <1>1, <1>3, <1>5 DEF Sound
<1>7. o.ch.view = Content(o, o.ch.name)
  <2>1. CASE o.ch.wr
    BY <2>1 DEF Content
  <2>2. CASE ~o.ch.wr
    BY <1>2, <1>6, <2>2 DEF Content, Fresh
  <2> QED BY <2>1, <2>2
<1>8. o.ch.view = Content(x, x.ch.name)
  BY <1>1, <1>2, <1>7
<1> QED BY <1>4, <1>6, <1>8 DEF UnitAt

\* Neither does a read.
LEMMA ReadContent ==
  ASSUME NEW x, Sound(x), Settled(x), Fresh(x)
  PROVE  SameContent(x, Read(x)) /\ Fresh(Read(x))
<1> DEFINE o == ReadOpened(x)
           n == Len(Got(x))
           d == Read(x)
<1>1. /\ Sound(o) /\ SameContent(x, o) /\ Fresh(o) /\ o \in IoType /\ o.ch \in ChanType
  BY ReadOpenedSound, ReadOpenedContent DEF Sound, IoType
<1>2. d = [o EXCEPT !.ch.pos = @ + n, !.ch.at = @ + n]
  BY DEF Read
<1> HIDE DEF o, n
<1>3. /\ d.files = o.files /\ d.ch.wr = o.ch.wr /\ d.ch.rd = o.ch.rd
      /\ d.ch.name = o.ch.name /\ d.ch.view = o.ch.view
  BY <1>1, <1>2 DEF IoType, ChanType
<1> HIDE DEF d
<1>4. SameContent(o, d) /\ Fresh(d)
  BY <1>1, <1>3 DEF SameContent, Content, Fresh
<1> QED BY <1>1, <1>4, SameContentTrans DEF d

\* Neither does opening the file for a write, when it creates the file too.
LEMMA WriteOpenedContent ==
  ASSUME NEW x, Sound(x), Fresh(x)
  PROVE  SameContent(x, WriteOpened(x)) /\ Fresh(WriteOpened(x))
<1> DEFINE shut == Flush(x)
           name == x.ch.name
           new  == Stored(shut.files, name, <<>>)
           made == [shut EXCEPT !.files = new]
           exists == IF Readable(x) THEN shut ELSE made
<1>1. x \in IoType /\ name \in Name
  BY DEF Sound, IoType, ChanType
<1>2. /\ Sound(shut) /\ ~shut.ch.rd /\ ~shut.ch.wr /\ shut.ch.name = name
      /\ DOMAIN shut.files = DOMAIN x.files /\ shut \in IoType
  BY FlushSound DEF Sound
<1>3. SameContent(x, shut) /\ Fresh(shut)
  BY FlushContent
<1>4. WriteOpened(x) = IF x.ch.wr THEN x
                       ELSE IF name \in Protected \union {NoName} THEN shut
                       ELSE Opened(exists, TRUE)
  BY DEF WriteOpened
<1> HIDE DEF shut
<1>5. CASE x.ch.wr
  BY <1>4, <1>5 DEF SameContent
<1>6. CASE ~x.ch.wr /\ name \in Protected \union {NoName}
  BY <1>3, <1>4, <1>6
<1>7. CASE ~x.ch.wr /\ name \notin Protected \union {NoName}
  <2>1. name \in Host /\ shut.files \in Files
    BY <1>1, <1>2, <1>7 DEF Name, IoType
  <2>2. <<>> \in Seq(Value)
    BY EmptySeq
  <2>3. /\ DOMAIN new = DOMAIN shut.files \union {name} /\ new[name] = <<>>
        /\ \A h \in DOMAIN shut.files : h # name => new[h] = shut.files[h]
        /\ new \in Files
    <3> DEFINE f == shut.files
               nothing == <<>>
    <3>1. f \in Files /\ nothing \in Seq(Value)
      BY <2>1, <2>2
    <3> HIDE DEF f, nothing, name
    <3>2. Stored(f, name, nothing) \in Files
      BY <2>1, <3>1, StoredFiles
    <3>3. /\ DOMAIN Stored(f, name, nothing) = DOMAIN f \union {name}
          /\ Stored(f, name, nothing)[name] = nothing
          /\ \A h \in DOMAIN f : h # name => Stored(f, name, nothing)[h] = f[h]
      BY DEF Stored
    <3> QED BY <3>2, <3>3 DEF f, nothing
  <2> HIDE DEF new
  <2>4. /\ made \in IoType /\ made.files = new /\ made.ch = shut.ch
    BY <1>2, <2>3 DEF IoType
  <2> HIDE DEF made
  <2>5. \A h : Content(shut, h) = IF h \in DOMAIN shut.files THEN shut.files[h] ELSE <<>>
    BY <1>2, ClosedContent
  <2>6. /\ SameContent(shut, exists) /\ exists \in IoType /\ exists.ch = shut.ch
        /\ exists.ch.name \in DOMAIN exists.files
    <3>1. CASE Readable(x)
      <4>1. exists = shut
        BY <3>1
      <4> QED BY <1>2, <3>1, <4>1 DEF Readable, SameContent
    <3>2. CASE ~Readable(x)
      <4>1. exists = made /\ name \notin DOMAIN shut.files
        BY <1>2, <3>2 DEF Readable
      <4>2. \A h : Content(made, h) = IF h \in DOMAIN new THEN new[h] ELSE <<>>
        BY <1>2, <2>4, ClosedContent
      <4>3. \A h : Content(made, h) = Content(shut, h)
        <5> TAKE h
        <5>1. CASE h = name
          BY <2>3, <2>5, <4>1, <4>2, <5>1
        <5>2. CASE h # name
          BY <2>3, <2>5, <4>1, <4>2, <5>2
        <5> QED BY <5>1, <5>2
      <4> QED BY <1>2, <2>3, <2>4, <4>1, <4>3 DEF SameContent
    <3> QED BY <3>1, <3>2
  <2> HIDE DEF exists
  <2>7. SameContent(exists, Opened(exists, TRUE)) /\ Fresh(Opened(exists, TRUE))
    BY <1>2, <2>6, OpenedContent
  <2>8. WriteOpened(x) = Opened(exists, TRUE)
    BY <1>4, <1>7
  <2>9. SameContent(x, exists)
    BY <1>3, <2>6, SameContentTrans
  <2> QED BY <2>7, <2>8, <2>9, SameContentTrans
<1> QED BY <1>5, <1>6, <1>7

\* Units of what is written: the new one, and those that were there.
LEMMA WrittenUnits ==
  ASSUME NEW view \in Seq(Value), NEW at \in Nat, NEW v \in Value
  PROVE  LET w == Written(view, at, v)
         IN /\ at < Len(w) /\ w[at + 1] = v
            /\ \A p \in Nat : p # at /\ p < Len(view) =>
                 p < Len(w) /\ w[p + 1] = view[p + 1]
<1> DEFINE n == IF at < Len(view) THEN Len(view) ELSE at + 1
           w == [u \in 1 .. n |-> IF u = at + 1 THEN v
                                  ELSE IF u <= Len(view) THEN view[u] ELSE Zero]
<1>1. Len(view) \in Nat
  OBVIOUS
<1>2. n \in Nat /\ at < n /\ Len(view) <= n
  BY <1>1
<1> HIDE DEF n
<1>3. Written(view, at, v) = w
  BY DEF Written, n
<1>4. Len(w) = n
  <2>1. w \in Seq(Value) /\ DOMAIN w = 1 .. n
    BY <1>3, WrittenIs
  <2>2. DOMAIN w = 1 .. Len(w) /\ Len(w) \in Nat
    <3> HIDE DEF w
    <3> QED BY <2>1, LenProperties
  <2> HIDE DEF w
  <2> QED BY <1>2, <2>1, <2>2
<1>5. w[at + 1] = v
  BY <1>2
<1>6. \A p \in Nat : p # at /\ p < Len(view) => p < n /\ w[p + 1] = view[p + 1]
  BY <1>1, <1>2
<1> HIDE DEF w
<1> QED BY <1>2, <1>3, <1>4, <1>5, <1>6

\* Writing changes one unit of the channel's file.
LEMMA WriteContent ==
  ASSUME NEW x, Sound(x), Settled(x), Fresh(x), NEW v \in Value
  PROVE  LET d == Write(x, v)
         IN /\ Fresh(d)
            /\ ~d.crashed =>
                 /\ UnitAt(d, x.ch.name, x.ch.pos, v)
                 /\ \A h : h # x.ch.name => Content(d, h) = Content(x, h)
                 /\ \A p \in Nat : \A e : p # x.ch.pos /\ UnitAt(x, x.ch.name, p, e) =>
                      UnitAt(d, x.ch.name, p, e)
<1> DEFINE o == WriteOpened(x)
           name == x.ch.name
           d == Write(x, v)
<1>1. /\ Sound(o) /\ Settled(o) /\ (o.ch.rd => o.ch.wr)
      /\ o.ch.name = name /\ o.ch.pos = x.ch.pos
  BY WriteOpenedSound
<1>2. \A h : Content(o, h) = Content(x, h)
  BY WriteOpenedContent DEF SameContent
<1>3. d = IF o.ch.wr
            THEN [o EXCEPT !.ch.view = Written(@, o.ch.at, v),
                           !.ch.pos = @ + 1, !.ch.at = @ + 1]
            ELSE [o EXCEPT !.crashed = TRUE]
  BY DEF Write
<1> HIDE DEF o, d
<1>4. /\ o \in IoType /\ o.ch \in ChanType /\ o.ch.at \in Nat
      /\ o.ch.view \in Seq(Value)
  BY <1>1 DEF Sound, IoType, ChanType
<1>5. CASE o.ch.wr
  <2> DEFINE view == o.ch.view
             at == o.ch.at
             w == Written(view, at, v)
  <2>1. /\ d.files = o.files /\ d.ch.wr = o.ch.wr /\ d.ch.name = o.ch.name
        /\ d.ch.view = w
    BY <1>3, <1>4, <1>5 DEF IoType, ChanType
  <2>2. view = Content(x, name) /\ at = x.ch.pos
    BY <1>1, <1>2, <1>5 DEF Content, Sound
  <2>3. Content(d, name) = w
    BY <1>1, <1>5, <2>1 DEF Content
  <2>4. \A h : h # name => Content(d, h) = Content(x, h)
    <3>1. \A h : h # name => Content(d, h) = Content(o, h)
      BY <1>1, <2>1 DEF Content
    <3> QED BY <1>2, <3>1
  <2>5. view \in Seq(Value) /\ at \in Nat
    BY <1>4
  <2> HIDE DEF view, at
  <2>6. /\ at < Len(w) /\ w[at + 1] = v
        /\ \A p \in Nat : p # at /\ p < Len(view) => p < Len(w) /\ w[p + 1] = view[p + 1]
    BY <2>5, WrittenUnits
  <2> HIDE DEF w
  <2>7. UnitAt(d, name, x.ch.pos, v)
    BY <2>2, <2>3, <2>6 DEF UnitAt
  <2>8. \A p \in Nat : \A e : p # x.ch.pos /\ UnitAt(x, name, p, e) => UnitAt(d, name, p, e)
    BY <2>2, <2>3, <2>6 DEF UnitAt
  <2>9. Fresh(d)
    BY <1>5, <2>1 DEF Fresh
  <2> QED BY <2>4, <2>7, <2>8, <2>9 DEF d
<1>6. CASE ~o.ch.wr
  <2>1. d.crashed /\ d.ch = o.ch
    BY <1>3, <1>4, <1>6 DEF IoType
  <2> QED BY <1>1, <1>6, <2>1 DEF Fresh, d
<1> QED BY <1>5, <1>6
-----------------------------------------------------------------------------
(* Places of sectors. *)

\* A sector that has a place has one owner.
LEMMA PlaceIs ==
  ASSUME NEW v \in VfatType, NEW s \in Sector, Placed(v, s)
  PROVE  LET i == Place(v, s)[1]
         IN /\ i \in Valid(v) /\ i \in Slot /\ Belongs(v, i, s)
            /\ Place(v, s)[2] = PosIn(v, i, s)
            /\ \A j \in Valid(v) : Belongs(v, j, s) => j = i
            /\ \A j \in Slot : ~Exhausts(v, j, s)
            /\ ~v.broken
<1> DEFINE owners == Owners(v, s)
           i == CHOOSE i \in owners : TRUE
           Once == /\ Cardinality(owners) = 1
                   /\ \A j \in Slot : ~Exhausts(v, j, s)
                   /\ ~v.broken
<1>1. Place(v, s) = IF Once THEN <<i, PosIn(v, i, s)>> ELSE <<NoSlot, 0>>
  BY DEF Place
<1> HIDE DEF i
<1>2. Once
  <2> SUFFICES ASSUME ~Once PROVE FALSE
    OBVIOUS
  <2>1. Place(v, s) = <<NoSlot, 0>>
    BY <1>1
  <2> HIDE DEF Once
  <2> QED BY <2>1 DEF Placed
<1>3. Place(v, s)[1] = i /\ Place(v, s)[2] = PosIn(v, i, s)
  <2> HIDE DEF Once
  <2> QED BY <1>1, <1>2
<1>4. owners \subseteq Slot
  BY DEF Owners, Valid
<1>5. IsFiniteSet(owners)
  <2>1. 0 \in Int /\ Slots - 1 \in Int
    BY VFatAssumption
  <2>2. IsFiniteSet(0 .. Slots - 1)
    BY ONLY <2>1, FS_Interval
  <2> QED BY <1>4, <2>2, FS_Subset DEF Slot
<1>6. PICK x : owners = {x}
  BY <1>2, <1>5, FS_Singleton
<1>7. i \in owners /\ \A j \in owners : j = i
  BY <1>6 DEF i
<1>8. i \in Valid(v) /\ i \in Slot /\ Belongs(v, i, s)
      /\ \A j \in Valid(v) : Belongs(v, j, s) => j = i
  BY <1>7 DEF Owners, Valid
<1> QED BY <1>2, <1>3, <1>8

\* Places depend on the FAT and the directory, as long as the FAT is not taken for
\* broken.
LEMMA SamePlace ==
  ASSUME NEW v, NEW w, w.fat = v.fat, w.dir = v.dir, ~v.broken, ~w.broken, NEW s
  PROVE  Place(w, s) = Place(v, s) /\ Placed(w, s) = Placed(v, s)
<1>1. \A i : /\ Belongs(w, i, s) = Belongs(v, i, s)
             /\ Exhausts(w, i, s) = Exhausts(v, i, s)
             /\ PosIn(w, i, s) = PosIn(v, i, s) /\ Valid(w) = Valid(v)
  BY SameChain
<1>2. Owners(w, s) = Owners(v, s)
  BY <1>1 DEF Owners
<1> DEFINE owners == Owners(v, s)
           i == CHOOSE i \in owners : TRUE
<1>3. Place(v, s) = IF Cardinality(owners) = 1 /\ \A j \in Slot : ~Exhausts(v, j, s)
                    THEN <<i, PosIn(v, i, s)>> ELSE <<NoSlot, 0>>
  BY DEF Place
<1>4. Place(w, s) = IF Cardinality(owners) = 1 /\ \A j \in Slot : ~Exhausts(w, j, s)
                    THEN <<i, PosIn(w, i, s)>> ELSE <<NoSlot, 0>>
  BY <1>2 DEF Place
<1> HIDE DEF i, owners
<1>5. (\A j \in Slot : ~Exhausts(w, j, s)) <=> (\A j \in Slot : ~Exhausts(v, j, s))
  BY <1>1
<1>6. Place(w, s) = Place(v, s)
  BY <1>1, <1>3, <1>4, <1>5
<1> QED BY <1>6 DEF Placed

\* A sector with a place is found there.
LEMMA FoundPlaced ==
  ASSUME NEW v \in VfatType, Tidy(v), NEW s \in Sector, Placed(v, s)
  PROVE  Found(v, s).id = Place(v, s)[1]
<1> DEFINE i == Place(v, s)[1]
           f == Found(v, s)
<1>1. /\ i \in Valid(v) /\ Belongs(v, i, s)
      /\ \A j \in Valid(v) : Belongs(v, j, s) => j = i
      /\ \A j \in Slot : ~Exhausts(v, j, s)
      /\ ~v.broken
  BY PlaceIs
<1>2. /\ f.id # NoSlot => f.id \in Valid(v) /\ Belongs(v, f.id, s)
      /\ f.id = NoSlot =>
           \/ v.broken \/ \E j \in Slot : Exhausts(v, j, s)
           \/ \A j \in Valid(v) : ~Belongs(v, j, s)
  BY FoundIs
<1> HIDE DEF i, f
<1>3. f.id # NoSlot
  BY <1>1, <1>2
<1> QED BY <1>1, <1>2, <1>3 DEF i, f

\* Two sectors of a file have positions of their own.
LEMMA PositionsDiffer ==
  ASSUME NEW v \in VfatType, NEW i \in Slot, NEW s \in Sector, NEW u \in Sector,
         Belongs(v, i, s), Belongs(v, i, u), PosIn(v, i, s) = PosIn(v, i, u)
  PROVE  s = u
<1> DEFINE c == Chain(v, i)
           z == ClusterSize
           a == OffsetOf(s)
           b == OffsetOf(u)
<1>1. PICK m \in 0 .. Clusters - 1 : c[m] = ClusterOf(s) /\ PosIn(v, i, s) = m * z + a
  BY PosInIs
<1>2. PICK n \in 0 .. Clusters - 1 : c[n] = ClusterOf(u) /\ PosIn(v, i, u) = n * z + b
  BY PosInIs
<1>3. z \in Nat \ {0} /\ Clusters \in Nat
  BY VFatAssumption
<1>4. /\ a \in 0 .. z - 1 /\ b \in 0 .. z - 1
      /\ s = (ClusterOf(s) - 2) * z + a /\ u = (ClusterOf(u) - 2) * z + b
  BY SectorIs
<1>20. m * z + a = n * z + b
  <2> HIDE DEF a, b, z, c
  <2> QED BY <1>1, <1>2
<1> HIDE DEF c, z, a, b
<1>21. m \in Int /\ n \in Int
  BY <1>1, <1>2, <1>3
<1>5. m \in Int /\ n \in Int /\ m * z + a = n * z + b
  BY <1>20, <1>21
<1>6. z * m = m * z /\ z * n = n * z /\ m * z \in Int /\ n * z \in Int
  BY <1>3, <1>5, Distribute
<1>7. (z * m + a) % z = a /\ (z * n + b) % z = b
  BY <1>3, <1>4, <1>5, ModUnique
<1>8. a = b
  BY <1>5, <1>6, <1>7
<1>9. m * z = n * z
  <2> DEFINE p == m * z
             q == n * z
  <2>1. p \in Int /\ q \in Int /\ p + a = q + b /\ a \in Int
    BY <1>3, <1>4, <1>5, <1>6
  <2> HIDE DEF p, q
  <2>2. p = q
    BY <1>8, <2>1
  <2> QED BY <2>2 DEF p, q
<1>10. m = n
  <2>1. ASSUME NEW x \in Int, NEW y \in Int, x < y PROVE x * z # y * z
    <3> DEFINE k == y - x - 1
    <3>1. k \in Nat /\ y = x + k + 1
      BY <2>1
    <3> HIDE DEF k
    <3>2. k * z \in Nat
      BY <1>3, <3>1, ProductNat
    <3>3. y * z = x * z + k * z + z
      BY <1>3, <3>1
    <3> DEFINE p == x * z
               q == k * z
               r == y * z
    <3>4. p \in Int /\ q \in Nat /\ r = p + q + z
      BY <1>3, <2>1, <3>2, <3>3, Distribute
    <3> HIDE DEF p, q, r
    <3>5. p # r
      BY <1>3, <3>4
    <3> QED BY <3>5 DEF p, r
  <2>2. ~(m < n)
    BY <1>5, <1>9, <2>1
  <2>3. ~(n < m)
    BY <1>5, <1>9, <2>1
  <2> QED BY <1>5, <2>2, <2>3
<1> QED BY <1>1, <1>2, <1>4, <1>8, <1>10

\* Places, of the sectors that are known, as far as they are of use: the owner of a
\* sector, and the host file and the position that it is to be found at.
LEMMA HeldIs ==
  ASSUME NEW v \in VfatType, NEW x, NEW m, Holds(v, x, m), NEW s \in Sector,
         m[s] # Unknown
  PROVE  LET i == Place(v, s)[1]
         IN /\ i \in Valid(v) /\ i \in Slot /\ Belongs(v, i, s) /\ Placed(v, s)
            /\ UnitAt(x, HostOf(v, i), PosIn(v, i, s), m[s])
            /\ ~v.broken
<1>1. Placed(v, s) /\ UnitAt(x, HostOf(v, Place(v, s)[1]), Place(v, s)[2], m[s])
  BY DEF Holds
<1> QED BY <1>1, PlaceIs

\* What is held stays held as long as the FAT, the directory and the files do.
LEMMA HoldsSame ==
  ASSUME NEW v \in VfatType, NEW w, w.fat = v.fat, w.dir = v.dir, ~w.broken, NEW x, NEW y,
         SameContent(x, y), NEW m, Holds(v, x, m)
  PROVE  Holds(w, y, m)
<1> SUFFICES ASSUME NEW s \in Sector, m[s] # Unknown
             PROVE  /\ Placed(w, s)
                    /\ UnitAt(y, HostOf(w, Place(w, s)[1]), Place(w, s)[2], m[s])
  BY DEF Holds
<1>1. Placed(v, s) /\ UnitAt(x, HostOf(v, Place(v, s)[1]), Place(v, s)[2], m[s]) /\ ~v.broken
  BY HeldIs DEF Holds
<1>2. Place(w, s) = Place(v, s) /\ Placed(w, s) = Placed(v, s)
  BY <1>1, SamePlace
<1>3. \A i : HostOf(w, i) = HostOf(v, i)
  BY DEF HostOf
<1>4. \A h, p, d : UnitAt(y, h, p, d) = UnitAt(x, h, p, d)
  BY DEF UnitAt, SameContent
<1> QED BY <1>1, <1>2, <1>3, <1>4

\* Opening the file of an entry gives the entry its host name.
LEMMA SelectedNamed ==
  ASSUME NEW v \in VfatType, Tidy(v), Named(v), NEW i \in Valid(v)
  PROVE  /\ Named(Selected(v, i)) /\ Selected(v, i).hnames[i] = HostOf(v, i)
         /\ i # v.lfile => Assigned(v, i).hnames[i] = HostOf(v, i)
         /\ HostOf(v, i) \in Name
<1> DEFINE as == Assigned(v, i)
           w == Selected(v, i)
           h == HostOf(v, i)
<1>1. i \in Slot /\ v.dir[i].name \in FatName /\ i # NoSlot
  BY VFatAssumption DEF Valid, Tidy, Slot, NoSlot
<1>2. h \in Host
  BY <1>1, VFatAssumption DEF HostOf
<1>3. CASE i = v.lfile
  BY <1>1, <1>2, <1>3 DEF Selected, Named, Name
<1>4. CASE i # v.lfile
  <2>1. /\ as.dir = v.dir /\ as.hnames[i] = h
        /\ \A j \in Slot : j # i => as.hnames[j] = v.hnames[j]
    <3>1. v.hnames[i] \in {NoName, h}
      BY <1>1 DEF Named
    <3> QED BY <1>1, <3>1 DEF Assigned, VfatType, HostOf
  <2>2. as \in VfatType
    BY <1>1, <1>2 DEF Assigned, VfatType, HostOf
  <2>3. w = [as EXCEPT !.lfile = i]
    BY <1>4 DEF Selected
  <2> HIDE DEF as, w
  <2>4. w.dir = v.dir /\ w.hnames = as.hnames /\ w.lfile = i
    BY <2>1, <2>2, <2>3 DEF VfatType
  <2>5. Valid(w) = Valid(v) /\ \A j : HostOf(w, j) = HostOf(v, j)
    BY <2>4 DEF Valid, HostOf
  <2>6. \A j \in Slot : IF j \in Valid(w) THEN w.hnames[j] \in {NoName, HostOf(w, j)}
                                          ELSE w.hnames[j] = NoName
    <3> TAKE j \in Slot
    <3>1. CASE j = i
      BY <1>1, <2>1, <2>4, <2>5, <3>1
    <3>2. CASE j # i
      BY <2>1, <2>4, <2>5, <3>2 DEF Named
    <3> QED BY <3>1, <3>2
  <2>7. Named(w)
    BY <1>1, <2>1, <2>4, <2>5, <2>6 DEF Named
  <2> QED BY <1>2, <2>1, <2>4, <2>7 DEF w, as, Name
<1> QED BY <1>3, <1>4

\* The names of a disk just built, each of one file.
LEMMA BuiltNamed ==
  ASSUME NamesConvert, NEW files \in Files, NEW order \in Listings(files),
         NEW last \in Slot
  PROVE  Named(Built(files, order, last))
<1> DEFINE v == Built(files, order, last)
<1>1. /\ v.lfile = NoSlot
      /\ \A i \in Slot : IF v.dir[i].valid
                           THEN /\ i + 1 \in 1 .. Len(order)
                                /\ v.dir[i].name = ToFat[order[i + 1]]
                                /\ v.hnames[i] = order[i + 1]
                           ELSE v.hnames[i] = NoName
  BY BuiltIs
<1>2. /\ \A k \in 1 .. Len(order) : order[k] \in Host
      /\ \A k, l \in 1 .. Len(order) : order[k] = order[l] => k = l
  BY ListingIs
<1> HIDE DEF v
<1>3. \A i \in Slot : IF i \in Valid(v) THEN v.hnames[i] \in {NoName, HostOf(v, i)}
                                        ELSE v.hnames[i] = NoName
  BY <1>1, <1>2 DEF Valid, HostOf, NamesConvert
<1>4. ASSUME NEW i \in Valid(v), NEW j \in Valid(v), v.dir[i].name = v.dir[j].name
      PROVE  i = j
  <2>1. i \in Slot /\ j \in Slot /\ i + 1 \in 1 .. Len(order) /\ j + 1 \in 1 .. Len(order)
        /\ ToFat[order[i + 1]] = ToFat[order[j + 1]]
    BY <1>1, <1>4 DEF Valid
  <2>2. order[i + 1] = order[j + 1]
    BY <1>2, <2>1 DEF NamesConvert
  <2>3. i + 1 = j + 1
    BY <1>2, <2>1, <2>2
  <2> QED BY <2>1, <2>3, VFatAssumption DEF Slot
<1> QED BY <1>1, <1>3, <1>4 DEF Named, v

\* Seeking to a place, in the file of an entry, changes no file's content.
LEMMA PositionedContent ==
  ASSUME NEW v \in VfatType, Tidy(v), Named(v), Sound(io), Fresh(io),
         NEW i \in Valid(v), NEW pos \in Nat
  PROVE  SameContent(io, SetPos(Channel(v, i), pos)) /\ Fresh(SetPos(Channel(v, i), pos))
<1> DEFINE ch == Channel(v, i)
           name == Assigned(v, i).hnames[i]
<1>1. SameContent(io, ch) /\ Fresh(ch) /\ Sound(ch)
  <2>1. CASE i = v.lfile
    BY <2>1 DEF Channel, SameContent
  <2>2. CASE i # v.lfile
    <3>1. ch = Open(io, name)
      BY <2>2 DEF Channel
    <3>2. name \in Name
      BY <2>2, SelectedNamed
    <3> HIDE DEF ch, name
    <3> QED BY <3>1, <3>2, OpenContent, OpenSound
  <2> QED BY <2>1, <2>2
<1> HIDE DEF ch
<1>2. SameContent(ch, SetPos(ch, pos)) /\ Fresh(SetPos(ch, pos))
  BY <1>1, SetPosContent
<1>3. SameContent(io, SetPos(ch, pos))
  BY <1>1, <1>2, SameContentTrans
<1> QED BY <1>2, <1>3 DEF ch

\* The strengthening: names and contents agree, and all sectors that are known are
\* held.
Refined(v, x, m) == Named(v) /\ Fresh(x) /\ (~x.crashed => Holds(v, x, m))

\* What a step that found the file of a sector starts from.
LEMMA AccessHeld ==
  ASSUME Inv, Named(vfat), Fresh(io), NEW s \in Sector,
         NEW f, f = Found(vfat, s), f.id # NoSlot,
         NEW at, at = SetPos(Channel(f.v, f.id), PosIn(f.v, f.id, s)),
         NEW w, w = Selected(f.v, f.id)
  PROVE  /\ f.id \in Valid(vfat) /\ f.id \in Slot /\ Belongs(vfat, f.id, s)
         /\ Named(w) /\ at.ch.name = HostOf(vfat, f.id)
         /\ at.ch.pos = PosIn(vfat, f.id, s)
         /\ SameContent(io, at) /\ Fresh(at)
<1> DEFINE v == f.v
           i == f.id
           pos == PosIn(v, i, s)
<1>1. /\ v \in VfatType /\ SameDisk(vfat, v)
      /\ i \in Valid(vfat) /\ Belongs(vfat, i, s)
  BY FoundIs DEF Inv
<1>2. at.ch.name = w.hnames[i]
  BY AccessKeeps
<1>3. at = SetPos(Channel(v, i), pos) /\ w = Selected(v, i) /\ i = f.id
  OBVIOUS
<1> HIDE DEF v, i
<1>4. v.fat = vfat.fat /\ v.dir = vfat.dir /\ v.hnames = vfat.hnames /\ v.lfile = vfat.lfile
  BY <1>1 DEF SameDisk
<1>5. /\ Belongs(v, i, s) = Belongs(vfat, i, s)
      /\ PosIn(v, i, s) = PosIn(vfat, i, s) /\ Valid(v) = Valid(vfat)
  BY <1>4, SameChain
<1>6. /\ Tidy(v) /\ Sound(io)
      /\ v.lfile # NoSlot => io.ch.name = v.hnames[v.lfile]
  BY <1>4, SameTidy DEF Inv
<1>7. Named(v)
  BY <1>4, <1>5 DEF Named, HostOf
<1>8. i \in Valid(v) /\ i \in Slot /\ pos \in 0 .. Clusters * ClusterSize - 1
  <2>1. i \in Slot /\ i \in Valid(v)
    BY <1>1, <1>5 DEF Valid
  <2> QED BY <1>1, <1>5, <2>1, PosInIs
<1>9. pos \in Nat
  <2> HIDE DEF pos
  <2> QED BY <1>8, VFatAssumption, ProductNat
<1>10. at.ch.pos = pos
  <2>1. Belongs(v, i, s)
    BY <1>1, <1>5
  <2>2. SetPos(Channel(v, i), PosIn(v, i, s)).ch.pos = PosIn(v, i, s)
    BY <1>1, <1>6, <1>8, <2>1, PositionedIs
  <2> QED BY <1>3, <2>2
<1>11. SameContent(io, at) /\ Fresh(at)
  <2> HIDE DEF pos
  <2> QED BY <1>1, <1>3, <1>6, <1>7, <1>8, <1>9, PositionedContent
<1>12. Named(w) /\ w.hnames[i] = HostOf(v, i)
  BY <1>1, <1>3, <1>6, <1>7, <1>8, SelectedNamed
<1>13. HostOf(v, i) = HostOf(vfat, i)
  BY <1>4 DEF HostOf
<1> QED BY <1>1, <1>2, <1>3, <1>5, <1>8, <1>10, <1>11, <1>12, <1>13

\* A step that knows no more of the disk keeps what is held.
LEMMA HoldsLess ==
  ASSUME NEW v, NEW x, NEW m, Holds(v, x, m), NEW n,
         \A s \in Sector : n[s] # Unknown => m[s] = n[s]
  PROVE  Holds(v, x, n)
<1> SUFFICES ASSUME NEW s \in Sector, n[s] # Unknown
             PROVE  /\ Placed(v, s)
                    /\ UnitAt(x, HostOf(v, Place(v, s)[1]), Place(v, s)[2], n[s])
  BY DEF Holds
<1>1. m[s] # Unknown /\ m[s] = n[s]
  OBVIOUS
<1> QED BY <1>1 DEF Holds

\* Names that agree, after a step that leaves the directory and the names alone.
LEMMA NamedSame ==
  ASSUME NEW v, Named(v), NEW w, w.dir = v.dir, w.hnames = v.hnames, w.lfile = v.lfile
  PROVE  Named(w)
<1>1. Valid(w) = Valid(v) /\ \A i : HostOf(w, i) = HostOf(v, i)
  BY DEF Valid, HostOf
<1> QED BY <1>1 DEF Named

\* A read that finds no file is a read of a sector that is not known.
LEMMA ReadMissed ==
  ASSUME Inv, Refined(vfat, io, media), ~io.crashed, NEW s \in Sector, ReadSector(s),
         Found(vfat, s).id = NoSlot
  PROVE  Refined(vfat', io', media') /\ (Disk!Read(s) \/ Disk!ReadNowhere(s))
<1> DEFINE f == Found(vfat, s)
<1>1. /\ vfat' = [f.v EXCEPT !.rwbuf = Zero] /\ io' = io
      /\ Accessed("read", s, Closed) /\ media' = Remembered(media, vfat')
  BY DEF ReadSector
<1>2. f.v \in VfatType /\ SameDisk(vfat, f.v) /\ f.id = NoSlot
  BY FoundIs DEF Inv
<1>3. media[s] = Unknown
  <2>1. Placed(vfat, s) => f.id = Place(vfat, s)[1]
    BY FoundPlaced DEF Inv
  <2>2. ~Placed(vfat, s)
    BY <1>2, <2>1 DEF Placed
  <2> QED BY <2>2 DEF Refined, Holds
<1> HIDE DEF f
<1>4. Zero \in Value
  BY HostFilesAssumption
<1>5. /\ vfat'.fat = vfat.fat /\ vfat'.dir = vfat.dir /\ vfat'.hnames = vfat.hnames
      /\ vfat'.lfile = vfat.lfile /\ vfat'.rwbuf = Zero
  BY <1>1, <1>2, <1>4 DEF VfatType, SameDisk
<1>6. Named(vfat') /\ Fresh(io')
  BY <1>1, <1>5, NamedSame DEF Refined
<1>7. LastRead' = <<s, Zero>>
  BY <1>1, <1>5 DEF LastRead, Accessed
<1>8. media' = IF vfat'.broken THEN Disk!AllUnknown ELSE media
  BY <1>1 DEF Remembered, Disk!AllUnknown
<1>9. Holds(vfat', io', media')
  <2>1. CASE vfat'.broken
    BY <1>8, <2>1 DEF Holds, Disk!AllUnknown
  <2>2. CASE ~vfat'.broken
    <3>1. SameContent(io, io')
      BY <1>1 DEF SameContent
    <3>2. vfat \in VfatType /\ Holds(vfat, io, media)
      BY DEF Inv, Refined
    <3>3. Holds(vfat', io', media)
      BY <1>5, <2>2, <3>1, <3>2, HoldsSame
    <3> QED BY <1>8, <2>2, <3>3
  <2> QED BY <2>1, <2>2
<1>10. Disk!Read(s) \/ Disk!ReadNowhere(s)
  <2>1. Disk!Reads(s, Zero)
    BY <1>3, <1>7 DEF Disk!Reads
  <2> QED BY <1>3, <1>4, <1>8, <2>1 DEF Disk!Read, Disk!ReadNowhere
<1> QED BY <1>6, <1>9, <1>10 DEF Refined

\* A read that finds the file of the sector reads what the sector holds.
LEMMA ReadFound ==
  ASSUME Inv, Refined(vfat, io, media), ~io.crashed, NEW s \in Sector, ReadSector(s),
         Found(vfat, s).id # NoSlot
  PROVE  Refined(vfat', io', media') /\ Disk!Read(s)
<1> DEFINE f  == Found(vfat, s)
           at == SetPos(Channel(f.v, f.id), PosIn(f.v, f.id, s))
           got == Got(at)
           w == Selected(f.v, f.id)
           o == ReadOpened(at)
<1>1. /\ Sound(at) /\ Settled(at) /\ w \in VfatType /\ ~w.broken
      /\ w.fat = vfat.fat /\ w.dir = vfat.dir
      /\ f.id \in Valid(vfat) /\ Belongs(vfat, f.id, s)
      /\ Named(w) /\ at.ch.name = HostOf(vfat, f.id)
      /\ at.ch.pos = PosIn(vfat, f.id, s)
      /\ SameContent(io, at) /\ Fresh(at)
  <2> DEFINE g == f
             a == at
             u == w
  <2>1. /\ g = Found(vfat, s) /\ g.id # NoSlot /\ u = Selected(g.v, g.id)
        /\ a = SetPos(Channel(g.v, g.id), PosIn(g.v, g.id, s))
    OBVIOUS
  <2> HIDE DEF g, a, u
  <2>2. Named(vfat) /\ Fresh(io)
    BY DEF Refined
  <2>3. /\ Sound(a) /\ Settled(a) /\ u \in VfatType /\ ~u.broken
        /\ u.fat = vfat.fat /\ u.dir = vfat.dir
    BY <2>1, AccessKeeps
  <2>4. /\ g.id \in Valid(vfat) /\ Belongs(vfat, g.id, s)
        /\ Named(u) /\ a.ch.name = HostOf(vfat, g.id)
        /\ a.ch.pos = PosIn(vfat, g.id, s)
        /\ SameContent(io, a) /\ Fresh(a)
    BY <2>1, <2>2, AccessHeld
  <2> QED BY <2>3, <2>4 DEF g, a, u
<1>2. /\ io' = Read(at)
      /\ vfat' = [w EXCEPT !.rwbuf = IF got = <<>> THEN @ ELSE got[1]]
      /\ Accessed("read", s, o.ch) /\ media' = Remembered(media, vfat')
  BY DEF ReadSector
<1>3. Placed(vfat, s) => f.id = Place(vfat, s)[1]
  BY FoundPlaced DEF Inv
<1> HIDE DEF f, at, w
<1>4. got # <<>> => got[1] \in Value
  BY <1>1, GotIs
<1>5. SameContent(at, io') /\ Fresh(io')
  BY <1>1, <1>2, ReadContent
<1>6. SameContent(io, io')
  BY <1>1, <1>5, SameContentTrans
<1>7. /\ vfat' \in VfatType /\ vfat'.fat = vfat.fat /\ vfat'.dir = vfat.dir
      /\ vfat'.hnames = w.hnames /\ vfat'.lfile = w.lfile /\ vfat'.dir = w.dir
      /\ ~vfat'.broken /\ (got # <<>> => vfat'.rwbuf = got[1])
  <2> HIDE DEF got
  <2> QED BY <1>1, <1>2, <1>4 DEF VfatType
<1>8. Named(vfat')
  BY <1>1, <1>7, NamedSame
<1>9. media' = media
  BY <1>2, <1>7 DEF Remembered
<1>10. vfat \in VfatType /\ Holds(vfat, io, media)
  BY DEF Inv, Refined
<1>11. Holds(vfat', io', media')
  BY <1>6, <1>7, <1>9, <1>10, HoldsSame
<1>12. vfat'.rwbuf \in Value /\ LastRead' = <<s, vfat'.rwbuf>>
  BY <1>2, <1>7 DEF LastRead, Accessed, VfatType
<1>13. media[s] \in {vfat'.rwbuf, Unknown}
  <2> SUFFICES ASSUME media[s] # Unknown PROVE vfat'.rwbuf = media[s]
    OBVIOUS
  <2>1. Placed(vfat, s) /\ UnitAt(io, HostOf(vfat, f.id), PosIn(vfat, f.id, s), media[s])
    BY <1>3, <1>10, HeldIs
  <2>2. UnitAt(at, at.ch.name, at.ch.pos, media[s])
    BY <1>1, <2>1 DEF UnitAt, SameContent
  <2>3. got = <<media[s]>>
    BY <1>1, <2>2, GotUnit
  <2> HIDE DEF got
  <2> QED BY <1>7, <2>3
<1>14. Disk!Read(s)
  BY <1>9, <1>12, <1>13 DEF Disk!Read, Disk!Reads
<1> QED BY <1>5, <1>8, <1>11, <1>14 DEF Refined

\* A write that finds no file is a write to a sector that is not known.
LEMMA WriteMissed ==
  ASSUME Inv, Refined(vfat, io, media), ~io.crashed, NEW s \in Sector, NEW d \in Value,
         WriteSector(s, d), Found(vfat, s).id = NoSlot
  PROVE  Refined(vfat', io', media') /\ Disk!WriteNowhere(s)
<1> DEFINE f == Found(vfat, s)
<1>1. /\ vfat' = [f.v EXCEPT !.rwbuf = d] /\ io' = io
      /\ Accessed("write", s, Closed)
      /\ media' = Remembered(IF Placed(vfat, s) THEN [media EXCEPT ![s] = d]
                             ELSE media, vfat')
  BY DEF WriteSector
<1>2. f.v \in VfatType /\ SameDisk(vfat, f.v) /\ f.id = NoSlot
  BY FoundIs DEF Inv
<1>3. ~Placed(vfat, s) /\ media[s] = Unknown
  <2>1. Placed(vfat, s) => f.id = Place(vfat, s)[1]
    BY FoundPlaced DEF Inv
  <2>2. ~Placed(vfat, s)
    BY <1>2, <2>1 DEF Placed
  <2> QED BY <2>2 DEF Refined, Holds
<1> HIDE DEF f
<1>4. /\ vfat'.fat = vfat.fat /\ vfat'.dir = vfat.dir /\ vfat'.hnames = vfat.hnames
      /\ vfat'.lfile = vfat.lfile
  BY <1>1, <1>2 DEF VfatType, SameDisk
<1>5. Named(vfat') /\ Fresh(io')
  BY <1>1, <1>4, NamedSame DEF Refined
<1>6. LastRead' = <<>>
  BY <1>1 DEF LastRead, Accessed
<1>7. media' = IF vfat'.broken THEN Disk!AllUnknown ELSE media
  BY <1>1, <1>3 DEF Remembered, Disk!AllUnknown
<1>8. Holds(vfat', io', media')
  <2>1. CASE vfat'.broken
    BY <1>7, <2>1 DEF Holds, Disk!AllUnknown
  <2>2. CASE ~vfat'.broken
    <3>1. SameContent(io, io')
      BY <1>1 DEF SameContent
    <3>2. vfat \in VfatType /\ Holds(vfat, io, media)
      BY DEF Inv, Refined
    <3>3. Holds(vfat', io', media)
      BY <1>4, <2>2, <3>1, <3>2, HoldsSame
    <3> QED BY <1>7, <2>2, <3>3
  <2> QED BY <2>1, <2>2
<1> QED BY <1>3, <1>5, <1>6, <1>7, <1>8 DEF Refined, Disk!WriteNowhere

\* A unit written to the file of an entry changes no other sector.
LEMMA OthersHeld ==
  ASSUME NamesConvert, NEW v \in VfatType, Tidy(v), Named(v), NEW x, NEW m, Holds(v, x, m),
         NEW s \in Sector, NEW i \in Valid(v), i \in Slot, Belongs(v, i, s),
         NEW y,
         \A h : h # HostOf(v, i) => Content(y, h) = Content(x, h),
         \A p \in Nat : \A e : p # PosIn(v, i, s) /\ UnitAt(x, HostOf(v, i), p, e) =>
           UnitAt(y, HostOf(v, i), p, e),
         NEW u \in Sector, u # s, m[u] # Unknown
  PROVE  UnitAt(y, HostOf(v, Place(v, u)[1]), Place(v, u)[2], m[u])
<1> DEFINE j == Place(v, u)[1]
           p == PosIn(v, j, u)
<1>1. /\ j \in Valid(v) /\ j \in Slot /\ Belongs(v, j, u) /\ Place(v, u)[2] = p
      /\ UnitAt(x, HostOf(v, j), p, m[u])
  BY HeldIs, PlaceIs
<1> HIDE DEF j
<1>2. CASE HostOf(v, j) # HostOf(v, i)
  BY <1>1, <1>2 DEF UnitAt, j
<1>3. CASE HostOf(v, j) = HostOf(v, i)
  <2>1. v.dir[i].name \in FatName /\ v.dir[j].name \in FatName
    BY <1>1 DEF Tidy, Valid
  <2>2. v.dir[i].name = v.dir[j].name
    BY <1>3, <2>1 DEF HostOf, NamesConvert
  <2>3. i = j
    BY <1>1, <2>2 DEF Named
  <2>4. p # PosIn(v, i, s)
    BY <1>1, <2>3, PositionsDiffer
  <2>5. p \in Nat
    <3>1. p \in 0 .. Clusters * ClusterSize - 1
      BY <1>1, PosInIs
    <3> HIDE DEF p
    <3> QED BY <3>1, VFatAssumption, ProductNat
  <2> HIDE DEF p
  <2>6. UnitAt(y, HostOf(v, i), p, m[u])
    BY <1>1, <2>3, <2>4, <2>5
  <2> QED BY <1>1, <2>3, <2>6 DEF j
<1> QED BY <1>2, <1>3

\* A write that finds the file of the sector writes this sector alone.
LEMMA WriteFound ==
  ASSUME NamesConvert, Inv, Refined(vfat, io, media), ~io.crashed,
         NEW s \in Sector, NEW d \in Value, WriteSector(s, d), Found(vfat, s).id # NoSlot
  PROVE  Refined(vfat', io', media') /\ (Disk!Write(s) \/ Disk!WriteNowhere(s))
<1> DEFINE f  == Found(vfat, s)
           at == SetPos(Channel(f.v, f.id), PosIn(f.v, f.id, s))
           w == Selected(f.v, f.id)
           o == WriteOpened(at)
           i == f.id
           m == IF Placed(vfat, s) THEN [media EXCEPT ![s] = d] ELSE media
<1>1. /\ Sound(at) /\ Settled(at) /\ w \in VfatType /\ ~w.broken
      /\ w.fat = vfat.fat /\ w.dir = vfat.dir
      /\ i \in Valid(vfat) /\ i \in Slot /\ Belongs(vfat, i, s)
      /\ Named(w) /\ at.ch.name = HostOf(vfat, i)
      /\ at.ch.pos = PosIn(vfat, i, s)
      /\ SameContent(io, at) /\ Fresh(at)
  <2> DEFINE g == f
             a == at
             u == w
  <2>1. /\ g = Found(vfat, s) /\ g.id # NoSlot /\ u = Selected(g.v, g.id)
        /\ a = SetPos(Channel(g.v, g.id), PosIn(g.v, g.id, s))
    OBVIOUS
  <2> HIDE DEF g, a, u
  <2>2. Named(vfat) /\ Fresh(io)
    BY DEF Refined
  <2>3. /\ Sound(a) /\ Settled(a) /\ u \in VfatType /\ ~u.broken
        /\ u.fat = vfat.fat /\ u.dir = vfat.dir
    BY <2>1, AccessKeeps
  <2>4. /\ g.id \in Valid(vfat) /\ g.id \in Slot /\ Belongs(vfat, g.id, s)
        /\ Named(u) /\ a.ch.name = HostOf(vfat, g.id)
        /\ a.ch.pos = PosIn(vfat, g.id, s)
        /\ SameContent(io, a) /\ Fresh(a)
    BY <2>1, <2>2, AccessHeld
  <2> QED BY <2>3, <2>4 DEF g, a, u
<1>2. /\ io' = Write(at, d)
      /\ vfat' = [w EXCEPT !.rwbuf = d]
      /\ Accessed("write", s, o.ch) /\ media' = Remembered(m, vfat')
  BY DEF WriteSector
<1>3. Placed(vfat, s) => i = Place(vfat, s)[1]
  BY FoundPlaced DEF Inv
<1> HIDE DEF f, at, w, i, o, m
<1>4. /\ Fresh(io')
      /\ ~io'.crashed =>
           /\ UnitAt(io', at.ch.name, at.ch.pos, d)
           /\ \A h : h # at.ch.name => Content(io', h) = Content(at, h)
           /\ \A p \in Nat : \A e : p # at.ch.pos /\ UnitAt(at, at.ch.name, p, e) =>
                UnitAt(io', at.ch.name, p, e)
  BY <1>1, <1>2, WriteContent
<1>5. /\ vfat'.fat = vfat.fat /\ vfat'.dir = vfat.dir
      /\ vfat'.hnames = w.hnames /\ vfat'.lfile = w.lfile /\ vfat'.dir = w.dir
      /\ ~vfat'.broken
  BY <1>1, <1>2 DEF VfatType
<1>6. Named(vfat')
  BY <1>1, <1>5, NamedSame
<1>7. media' = m
  BY <1>2, <1>5 DEF Remembered
<1>8. /\ vfat \in VfatType /\ Holds(vfat, io, media) /\ Tidy(vfat) /\ Named(vfat)
      /\ media \in [Sector -> Value \union {Unknown}]
  BY DEF Inv, Refined
<1>9. ASSUME ~io'.crashed PROVE Holds(vfat', io', media')
  <2>1. \A h : h # HostOf(vfat, i) => Content(io', h) = Content(io, h)
    BY <1>1, <1>4, <1>9 DEF SameContent
  <2>2. \A p \in Nat : \A e : p # PosIn(vfat, i, s) /\ UnitAt(io, HostOf(vfat, i), p, e) =>
          UnitAt(io', HostOf(vfat, i), p, e)
    BY <1>1, <1>4, <1>9 DEF SameContent, UnitAt
  <2>3. ASSUME NEW u \in Sector, media'[u] # Unknown
        PROVE  /\ Placed(vfat, u)
               /\ UnitAt(io', HostOf(vfat, Place(vfat, u)[1]), Place(vfat, u)[2], media'[u])
    <3>1. CASE u = s /\ Placed(vfat, s)
      <4>1. media'[u] = d /\ Place(vfat, u)[1] = i /\ Place(vfat, u)[2] = PosIn(vfat, i, s)
        BY <1>3, <1>7, <1>8, <3>1, PlaceIs DEF m
      <4> QED BY <1>1, <1>4, <1>9, <3>1, <4>1
    <3>2. CASE u = s /\ ~Placed(vfat, s)
      BY <1>7, <1>8, <2>3, <3>2 DEF m, Holds
    <3>3. CASE u # s
      <4>1. media'[u] = media[u]
        BY <1>7, <1>8, <3>3 DEF m
      <4>2. Placed(vfat, u)
        BY <1>8, <2>3, <4>1 DEF Holds
      <4>3. UnitAt(io', HostOf(vfat, Place(vfat, u)[1]), Place(vfat, u)[2], media[u])
        BY <1>1, <1>8, <2>1, <2>2, <2>3, <3>3, <4>1, OthersHeld
      <4> QED BY <4>1, <4>2, <4>3
    <3> QED BY <3>1, <3>2, <3>3
  <2>4. Holds(vfat, io', media')
    BY <2>3 DEF Holds
  <2>5. SameContent(io', io')
    BY DEF SameContent
  <2> QED BY <1>5, <1>8, <2>4, <2>5, HoldsSame
<1>10. LastRead' = <<>>
  BY <1>2 DEF LastRead, Accessed
<1>11. Disk!Write(s) \/ Disk!WriteNowhere(s)
  <2>1. CASE Placed(vfat, s)
    BY <1>7, <1>10, <2>1 DEF m, Disk!Write
  <2>2. CASE ~Placed(vfat, s)
    <3>1. media[s] = Unknown /\ media' = media
      BY <1>7, <1>8, <2>2 DEF m, Holds
    <3> QED BY <1>10, <3>1 DEF Disk!WriteNowhere
  <2> QED BY <2>1, <2>2
<1> QED BY <1>4, <1>6, <1>9, <1>11 DEF Refined

\* Some bytes of a sector concern no file yet.
LEMMA PartRefines ==
  ASSUME Inv, Refined(vfat, io, media), ~io.crashed, NEW d \in Value, WritePart(d)
  PROVE  Refined(vfat', io', media') /\ Disk!Forget({})
<1>1. vfat' = [vfat EXCEPT !.rwbuf = d] /\ io' = io /\ media' = media /\ access' = NoAccess
  BY DEF WritePart
<1>2. /\ vfat'.fat = vfat.fat /\ vfat'.dir = vfat.dir /\ vfat'.hnames = vfat.hnames
      /\ vfat'.lfile = vfat.lfile /\ vfat'.broken = vfat.broken
  BY <1>1 DEF Inv, VfatType
<1>3. Named(vfat') /\ Fresh(io')
  BY <1>1, <1>2, NamedSame DEF Refined
<1>4. Holds(vfat', io', media')
  <2>1. CASE vfat.broken
    <3>1. \A s \in Sector : media[s] = Unknown
      BY <2>1, HeldIs DEF Inv, Refined
    <3> QED BY <1>1, <3>1 DEF Holds
  <2>2. CASE ~vfat.broken
    BY <1>1, <1>2, <2>2, HoldsSame DEF Inv, Refined, SameContent
  <2> QED BY <2>1, <2>2
<1>5. Disk!Forget({})
  BY <1>1 DEF Disk!Forget, LastRead, NoAccess, Inv
<1> QED BY <1>3, <1>4, <1>5 DEF Refined

\* A write to the system area forgets the sectors that move, and holds the others:
\* their owner had its name before.
LEMMA SysRefines ==
  ASSUME Inv, Refined(vfat, io, media), ~io.crashed, NEW v \in VfatType, WriteSys(v),
         Named(v), \A j \in Valid(vfat) : HostOf(v, j) = HostOf(vfat, j)
  PROVE  Refined(vfat', io', media') /\ \E S \in SUBSET Sector : Disk!Forget(S)
<1>1. vfat' = [v EXCEPT !.broken = FALSE] /\ io' = io /\ access' = NoAccess
      /\ media' = Remember(vfat')
  BY DEF WriteSys
<1>2. vfat'.dir = v.dir /\ vfat'.hnames = v.hnames /\ vfat'.lfile = v.lfile
  BY <1>1 DEF VfatType
<1>3. Named(vfat') /\ Fresh(io')
  BY <1>1, <1>2, NamedSame DEF Refined
<1>4. \A s \in Sector :
        media'[s] = IF media[s] # Unknown /\ Place(vfat', s) = Place(vfat, s)
                    THEN media[s] ELSE Unknown
  BY <1>1 DEF Remember
<1>5. Holds(vfat', io', media')
  <2> SUFFICES ASSUME NEW s \in Sector, media'[s] # Unknown
               PROVE  /\ Placed(vfat', s)
                      /\ UnitAt(io', HostOf(vfat', Place(vfat', s)[1]), Place(vfat', s)[2],
                                media'[s])
    BY DEF Holds
  <2>1. media'[s] = media[s] /\ media[s] # Unknown /\ Place(vfat', s) = Place(vfat, s)
    BY <1>4
  <2>2. /\ Placed(vfat, s) /\ Place(vfat, s)[1] \in Valid(vfat)
        /\ UnitAt(io, HostOf(vfat, Place(vfat, s)[1]), Place(vfat, s)[2], media[s])
    BY <2>1, HeldIs DEF Inv, Refined, Holds
  <2>3. HostOf(vfat', Place(vfat, s)[1]) = HostOf(vfat, Place(vfat, s)[1])
    BY <1>2, <2>2 DEF HostOf
  <2> QED BY <1>1, <2>1, <2>2, <2>3 DEF Placed
<1>6. \E S \in SUBSET Sector : Disk!Forget(S)
  <2> DEFINE S == {s \in Sector : media'[s] = Unknown}
  <2>1. media' = [s \in Sector |-> media'[s]]
    BY <1>1 DEF Remember
  <2>2. \A s \in Sector : media'[s] = IF s \in S THEN Unknown ELSE media[s]
    BY <1>4
  <2>3. LastRead' = <<>>
    BY <1>1 DEF LastRead, NoAccess
  <2>4. S \in SUBSET Sector
    OBVIOUS
  <2> HIDE DEF S
  <2>5. media' = [s \in Sector |-> IF s \in S THEN Unknown ELSE media[s]]
    BY <2>1, <2>2
  <2> QED BY <2>3, <2>4, <2>5 DEF Disk!Forget
<1> QED BY <1>3, <1>5, <1>6 DEF Refined

\* Names that agree, after a step that leaves the names and the entries' validity alone.
LEMMA NamedFirst ==
  ASSUME NEW v, Named(v), NEW w, w.hnames = v.hnames, w.lfile = v.lfile,
         \A j \in Slot : /\ w.dir[j].valid = v.dir[j].valid
                         /\ w.dir[j].name = v.dir[j].name
  PROVE  Named(w) /\ \A j \in Valid(v) : HostOf(w, j) = HostOf(v, j)
<1>1. Valid(w) = Valid(v) /\ \A j \in Slot : HostOf(w, j) = HostOf(v, j)
  BY DEF Valid, HostOf
<1>2. \A j \in Valid(v) : w.dir[j].name = v.dir[j].name /\ HostOf(w, j) = HostOf(v, j)
  BY <1>1 DEF Valid
<1> QED BY <1>1, <1>2 DEF Named

\* Linking clusters, creating an entry, giving it a first cluster.
LEMMA SystemRefines ==
  ASSUME Inv, Refined(vfat, io, media), ~io.crashed,
         \/ \E c \in Cluster, e \in Entry : WriteFat(c, e)
         \/ \E i \in Slot, n \in FatName : Create(i, n)
         \/ \E i \in Slot, c \in Cluster : SetFirst(i, c)
  PROVE  Refined(vfat', io', media') /\ \E S \in SUBSET Sector : Disk!Forget(S)
<1> DEFINE Goal == Refined(vfat', io', media') /\ \E S \in SUBSET Sector : Disk!Forget(S)
<1> SUFFICES Goal
  OBVIOUS
<1> HIDE DEF Goal
<1>1. vfat \in VfatType /\ Named(vfat)
  BY DEF Inv, Refined
<1>2. ASSUME NEW c \in Cluster, NEW e \in Entry, WriteFat(c, e) PROVE Goal
  <2> DEFINE v == [vfat EXCEPT !.fat[c] = e]
  <2>1. /\ v \in VfatType /\ v.dir = vfat.dir /\ v.hnames = vfat.hnames
        /\ v.lfile = vfat.lfile
    BY <1>1 DEF VfatType
  <2>2. WriteSys(v)
    BY <1>2 DEF WriteFat
  <2> HIDE DEF v
  <2>3. Named(v) /\ \A j \in Valid(vfat) : HostOf(v, j) = HostOf(vfat, j)
    BY <1>1, <2>1, NamedFirst
  <2> QED BY <2>1, <2>2, <2>3, SysRefines DEF Goal
<1>3. ASSUME NEW i \in Slot, NEW n \in FatName, Create(i, n) PROVE Goal
  <2> DEFINE e == [valid |-> TRUE, name |-> n, first |-> 0]
             v == [vfat EXCEPT !.dir[i] = e]
  <2>1. e \in DirEntry /\ e.valid /\ e.name = n
    BY DEF DirEntry, Entry
  <2>2. /\ WriteSys(v) /\ ~vfat.dir[i].valid
        /\ \A j \in Valid(vfat) : vfat.dir[j].name # n
    BY <1>3 DEF Create
  <2> HIDE DEF e
  <2>3. /\ v \in VfatType /\ v.hnames = vfat.hnames /\ v.lfile = vfat.lfile
        /\ v.dir[i] = e /\ \A j \in Slot : j # i => v.dir[j] = vfat.dir[j]
    BY <1>1, <2>1 DEF VfatType
  <2> HIDE DEF v
  <2>4. i \notin Valid(vfat) /\ Valid(v) = Valid(vfat) \union {i}
    BY <2>1, <2>2, <2>3 DEF Valid
  <2>5. \A j \in Valid(vfat) : HostOf(v, j) = HostOf(vfat, j) /\ v.dir[j] = vfat.dir[j]
    BY <2>3, <2>4 DEF Valid, HostOf
  <2>6. \A j \in Slot : IF j \in Valid(v) THEN v.hnames[j] \in {NoName, HostOf(v, j)}
                                          ELSE v.hnames[j] = NoName
    <3> TAKE j \in Slot
    <3>1. CASE j = i
      BY <1>1, <2>3, <2>4, <3>1 DEF Named
    <3>2. CASE j # i
      BY <1>1, <2>3, <2>4, <2>5, <3>2 DEF Named
    <3> QED BY <3>1, <3>2
  <2>7. \A j, k \in Valid(v) : v.dir[j].name = v.dir[k].name => j = k
    BY <1>1, <2>1, <2>2, <2>3, <2>4, <2>5 DEF Named
  <2>8. v.lfile # NoSlot => v.lfile \in Valid(v) /\ v.hnames[v.lfile] = HostOf(v, v.lfile)
    BY <1>1, <2>3, <2>4, <2>5 DEF Named
  <2>9. Named(v)
    BY <2>6, <2>7, <2>8 DEF Named
  <2> QED BY <2>2, <2>3, <2>5, <2>9, SysRefines DEF Goal
<1>4. ASSUME NEW i \in Slot, NEW c \in Cluster, SetFirst(i, c) PROVE Goal
  <2> DEFINE v == [vfat EXCEPT !.dir[i].first = c]
  <2>1. WriteSys(v)
    BY <1>4 DEF SetFirst
  <2>2. c \in Entry
    BY DEF Entry
  <2>3. /\ v \in VfatType /\ v.hnames = vfat.hnames /\ v.lfile = vfat.lfile
        /\ v.dir[i].valid = vfat.dir[i].valid /\ v.dir[i].name = vfat.dir[i].name
        /\ \A j \in Slot : j # i => v.dir[j] = vfat.dir[j]
    BY <1>1, <2>2 DEF VfatType, DirEntry
  <2> HIDE DEF v
  <2>4. \A j \in Slot : /\ v.dir[j].valid = vfat.dir[j].valid
                        /\ v.dir[j].name = vfat.dir[j].name
    BY <2>3
  <2>5. Named(v) /\ \A j \in Valid(vfat) : HostOf(v, j) = HostOf(vfat, j)
    BY <1>1, <2>3, <2>4, NamedFirst
  <2> QED BY <2>1, <2>3, <2>5, SysRefines DEF Goal
<1> QED BY <1>2, <1>3, <1>4

\* After a reset or a start nothing is known, and all names are new.
LEMMA ResetRefines ==
  ASSUME NamesConvert, Inv, Refined(vfat, io, media), ~io.crashed, Reset \/ Exit \/ Kill
  PROVE  Refined(vfat', io', media') /\ Disk!Forget(Sector)
<1>1. /\ io.files \in Files /\ Flush(io).files \in Files
      /\ vfat.last \in Slot /\ 0 \in Slot
  BY VFatAssumption, FlushSound DEF Inv, Sound, IoType, VfatType, Slot
<1>2. media' = [s \in Sector |-> Unknown] /\ access' = NoAccess
  BY DEF Reset, Exit, Kill, Started
<1>3. Fresh(io')
  <2>1. \A files : Fresh(StartIO(files))
    BY DEF Fresh, StartIO, Closed, NewChannel
  <2> QED BY <2>1 DEF Reset, Exit, Kill, Started, Refined
<1>4. Named(vfat')
  <2>1. CASE Reset
    BY <1>1, <2>1, BuiltNamed DEF Reset
  <2>2. CASE Exit
    BY <1>1, <2>2, BuiltNamed DEF Exit, Started
  <2>3. CASE Kill
    BY <1>1, <2>3, BuiltNamed DEF Kill, Started
  <2> QED BY <2>1, <2>2, <2>3
<1>5. Holds(vfat', io', media')
  BY <1>2 DEF Holds
<1>6. Disk!Forget(Sector)
  BY <1>2 DEF Disk!Forget, LastRead, NoAccess
<1> QED BY <1>3, <1>4, <1>5, <1>6 DEF Refined

\* Every step is one of the disk, or none.
LEMMA NextRefines ==
  ASSUME NamesConvert, Inv, Refined(vfat, io, media), [Next]_vars
  PROVE  Refined(vfat', io', media') /\ [Disk!Next]_(Disk!dvars)
<1>1. CASE UNCHANGED vars
  <2>1. vfat' = vfat /\ io' = io /\ media' = media /\ access' = access
    BY <1>1 DEF vars
  <2>2. UNCHANGED Disk!dvars
    BY <2>1 DEF Disk!dvars, LastRead
  <2> QED BY <2>1, <2>2
<1>2. ASSUME Next PROVE Refined(vfat', io', media') /\ Disk!Next
  <2>1. ~io.crashed
    BY <1>2 DEF Next
  <2>2. ASSUME NEW s \in Sector, ReadSector(s)
        PROVE  Refined(vfat', io', media') /\ (Disk!Read(s) \/ Disk!ReadNowhere(s))
    BY <2>1, <2>2, ReadMissed, ReadFound
  <2>3. ASSUME NEW s \in Sector, NEW d \in Value, WriteSector(s, d)
        PROVE  Refined(vfat', io', media') /\ (Disk!Write(s) \/ Disk!WriteNowhere(s))
    BY <2>1, <2>3, WriteMissed, WriteFound
  <2>4. ASSUME \/ \E d \in Value : WritePart(d)
               \/ \E c \in Cluster, e \in Entry : WriteFat(c, e)
               \/ \E i \in Slot, n \in FatName : Create(i, n)
               \/ \E i \in Slot, c \in Cluster : SetFirst(i, c)
               \/ Reset \/ Exit \/ Kill
        PROVE  Refined(vfat', io', media') /\ \E S \in SUBSET Sector : Disk!Forget(S)
    BY <2>1, <2>4, PartRefines, SystemRefines, ResetRefines
  <2> QED BY <1>2, <2>2, <2>3, <2>4 DEF Next, Disk!Next
<1> QED BY <1>1, <1>2

\* To the program the virtual disk is a disk: a sector reads as it was last written,
\* through changes of the FAT, other files, cut off writes and buffers that are not
\* in their file yet (cu_vfat.c, filesys.c). Names of the host and of the FAT have
\* to correspond one to one, which cu_vfat_tofat leaves to the user.
THEOREM SectorDiskImplemented ==
  ASSUME NamesConvert
  PROVE  Spec => ImplementsSectorDisk
<1>1. Init => Refined(vfat, io, media) /\ Disk!Init
  <2> SUFFICES ASSUME Init PROVE Refined(vfat, io, media) /\ Disk!Init
    OBVIOUS
  <2>1. StartFiles \in Files /\ 0 \in Slot
    BY VFatAssumption DEF Files, Slot
  <2>2. Named(vfat)
    BY <2>1, BuiltNamed DEF Init
  <2>3. Fresh(io)
    BY DEF Init, Fresh, StartIO, Closed, NewChannel
  <2>4. media = [s \in Sector |-> Unknown] /\ access = NoAccess
    BY DEF Init
  <2>5. Holds(vfat, io, media)
    BY <2>4 DEF Holds
  <2>6. Disk!Init
    BY <2>4 DEF Disk!Init, Disk!AllUnknown, LastRead, NoAccess
  <2> QED BY <2>2, <2>3, <2>5, <2>6 DEF Refined
<1>2. Inv /\ Refined(vfat, io, media) /\ [Next]_vars
        => Refined(vfat, io, media)' /\ [Disk!Next]_(Disk!dvars)
  BY NextRefines
<1> QED BY <1>1, <1>2, Invariance, PTL DEF Spec, Disk!Spec, ImplementsSectorDisk
-----------------------------------------------------------------------------
\* What the property of the cache says of a step.
Cached ==
  access'.host # NoName /\ Placed(vfat, access'.sector) =>
    access'.host = vfat'.hnames[Place(vfat, access'.sector)[1]]

\* Reading and writing a sector that has one owner access its file.
LEMMA AccessCached ==
  ASSUME Inv, NEW s \in Sector, ReadSector(s) \/ \E d \in Value : WriteSector(s, d)
  PROVE  Cached
<1> DEFINE f  == Found(vfat, s)
           at == SetPos(Channel(f.v, f.id), PosIn(f.v, f.id, s))
           w  == Selected(f.v, f.id)
           i  == f.id
<1>1. CASE f.id = NoSlot
  <2>1. \A k : Accessed(k, s, Closed) => access'.host = NoName
    BY DEF Accessed, Closed, NewChannel
  <2> QED BY <1>1, <2>1 DEF ReadSector, WriteSector, Cached
<1>2. CASE f.id # NoSlot
  <2>1. Sound(at) /\ Settled(at) /\ at.ch.name = w.hnames[i] /\ w \in VfatType
    <3> DEFINE g == f
               a == at
               u == w
    <3>1. /\ g = Found(vfat, s) /\ g.id # NoSlot /\ u = Selected(g.v, g.id)
          /\ a = SetPos(Channel(g.v, g.id), PosIn(g.v, g.id, s))
      BY <1>2
    <3> HIDE DEF g, a, u
    <3>2. Sound(a) /\ Settled(a) /\ a.ch.name = u.hnames[g.id] /\ u \in VfatType
      BY <3>1, AccessKeeps
    <3> QED BY <3>2 DEF g, a, u
  <2>2. Placed(vfat, s) => i = Place(vfat, s)[1]
    BY FoundPlaced DEF Inv
  <2>3. PICK ch \in {ReadOpened(at).ch, WriteOpened(at).ch} :
          (\E kind \in {"read", "write"} : Accessed(kind, s, ch)) /\ vfat'.hnames = w.hnames
    <3>1. CASE ReadSector(s)
      <4>1. /\ vfat' = [w EXCEPT !.rwbuf = IF Got(at) = <<>> THEN @ ELSE Got(at)[1]]
            /\ Accessed("read", s, ReadOpened(at).ch)
        BY <1>2, <3>1 DEF ReadSector
      <4> HIDE DEF f, at, w, i
      <4>2. vfat'.hnames = w.hnames
        BY <2>1, <4>1 DEF VfatType
      <4> QED BY <4>1, <4>2
    <3>2. CASE \E d \in Value : WriteSector(s, d)
      <4>1. PICK d \in Value : WriteSector(s, d)
        BY <3>2
      <4>2. vfat' = [w EXCEPT !.rwbuf = d] /\ Accessed("write", s, WriteOpened(at).ch)
        BY <1>2, <4>1 DEF WriteSector
      <4> HIDE DEF f, at, w, i
      <4>3. vfat'.hnames = w.hnames
        BY <2>1, <4>2 DEF VfatType
      <4> QED BY <4>2, <4>3
    <3> QED BY <3>1, <3>2
  <2> HIDE DEF f, at, w, i
  <2>4. ch.name = at.ch.name
    BY <2>1, <2>3, ReadOpenedSound, WriteOpenedSound
  <2>6. access'.sector = s /\ access'.host \in {ch.name, NoName}
    BY <2>3 DEF Accessed
  <2> QED BY <2>1, <2>2, <2>3, <2>4, <2>6 DEF Cached
<1> QED BY <1>1, <1>2

\* The cache of the last file changes nothing (cu_vfat.c:113-117): whatever entry it
\* holds, a sector with exactly one owner is served from the file of that owner.
THEOREM CacheUnobservable == Spec => CacheTransparent
<1>1. ASSUME Inv, [Next]_vars PROVE [Cached]_vars
  <2>1. ASSUME NEW s \in Sector, ReadSector(s) \/ \E d \in Value : WriteSector(s, d)
        PROVE  Cached
    BY <1>1, <2>1, AccessCached
  <2>2. ASSUME NEW d \in Value, WritePart(d) PROVE access'.host = NoName
    BY <2>2 DEF WritePart, NoAccess
  <2>3. CASE \/ \E c \in Cluster, e \in Entry : WriteFat(c, e)
             \/ \E i \in Slot, n \in FatName : Create(i, n)
             \/ \E i \in Slot, c \in Cluster : SetFirst(i, c)
    BY <1>1, <2>3, SystemKeeps DEF Cached
  <2>4. CASE Reset \/ Exit \/ Kill
    BY <1>1, <2>4, ResetKeeps DEF Cached
  <2> QED BY <1>1, <2>1, <2>2, <2>3, <2>4 DEF Next, Cached
<1>2. Inv /\ [Next]_vars => [Cached]_vars
  BY <1>1
<1>3. [Cached]_vars =>
        [access'.host # NoName /\ Placed(vfat, access'.sector) =>
           access'.host = vfat'.hnames[Place(vfat, access'.sector)[1]]]_vars
  BY DEF Cached
<1> QED BY <1>2, <1>3, Invariance, PTL DEF Spec, CacheTransparent
=============================================================================
