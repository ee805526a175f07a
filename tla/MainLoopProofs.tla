--------------------------- MODULE MainLoopProofs ---------------------------
(***************************************************************************)
(* Proofs about the main program's part: the main loop, for memories of    *)
(* any size and contents, any game, any files that can not be written, and *)
(* any number of runs; the pace of its passes, for all thresholds and all  *)
(* times; and the player's input that its events bring in, for any keys,   *)
(* buttons, game controllers and lengths of bytes and queues, and for any  *)
(* program that reads the ports.                                           *)
(***************************************************************************)
EXTENDS MainLoop, GameInput, SequenceTheorems, TLAPS

Files == UNION {[S -> Seq(Value)] : S \in SUBSET Host}
ChanType == [rd : BOOLEAN, wr : BOOLEAN, at : Nat, view : Seq(Value),
             name : Host \union {NoName}, pos : Nat]
IoType == [files : Files, ch : ChanType, crashed : BOOLEAN]
Contents == [1 .. Cells -> Value]
Jobs == [of : Memory, at : {"begin", "opened", "written"}]

\* What a load makes of the files.
Image(files, m) ==
  IF m \in DOMAIN files /\ Len(files[m]) >= Cells
    THEN [n \in 1 .. Cells |-> files[m][n]] ELSE Blank(m)

\* A channel with no stream.
Shut(x) == x \in IoType /\ ~x.ch.rd /\ ~x.ch.wr

-----------------------------------------------------------------------------
(* Files. *)

\* The constants, as the proofs use them.
LEMMA Constants ==
  /\ Cells \in Nat /\ Cells > 0 /\ Memory = Host /\ NoName \notin Memory
  /\ Value \subseteq Nat
  /\ \A m \in Memory : Blank(m) \in Contents
  /\ \A c \in Contents : Overlaid(c) \in Contents
<1>1. /\ Cells \in Nat /\ Cells > 0 /\ Memory = Host /\ NoName \notin Memory
      /\ Value \subseteq Nat
  BY MainLoopAssumption, HostFilesAssumption DEF Memory
<1>2. ASSUME NEW m \in Memory PROVE Blank(m) \in Contents
  BY MainLoopAssumption DEF Blank, Contents, Memory
<1>3. ASSUME NEW c \in Contents PROVE Overlaid(c) \in Contents
  BY MainLoopAssumption DEF Overlaid, Contents
<1> QED BY <1>1, <1>2, <1>3

\* What files are.
LEMMA FilesAre ==
  ASSUME NEW f \in Files
  PROVE  DOMAIN f \subseteq Host /\ \A h \in DOMAIN f : f[h] \in Seq(Value)
BY DEF Files

\* The files with one of them replaced: the others are the same.
LEMMA StoredFiles ==
  ASSUME NEW f \in Files, NEW name \in Host, NEW data \in Seq(Value)
  PROVE  /\ Stored(f, name, data) \in Files
         /\ DOMAIN Stored(f, name, data) = DOMAIN f \union {name}
         /\ Stored(f, name, data)[name] = data
         /\ \A h \in DOMAIN f : h # name => Stored(f, name, data)[h] = f[h]
<1>1. PICK S \in SUBSET Host : f \in [S -> Seq(Value)]
  BY DEF Files
<1>2. Stored(f, name, data) \in [S \union {name} -> Seq(Value)]
  BY <1>1 DEF Stored
<1>3. DOMAIN f = S
  BY <1>1
<1>4. Stored(f, name, data) \in Files
  BY <1>2 DEF Files
<1> QED BY <1>2, <1>3, <1>4 DEF Stored

\* An image is a memory.
LEMMA ImageIs ==
  ASSUME NEW f \in Files, NEW m \in Memory
  PROVE  Image(f, m) \in Contents
<1>1. CASE m \in DOMAIN f /\ Len(f[m]) >= Cells
  <2>1. f[m] \in Seq(Value) /\ Len(f[m]) \in Nat
    BY <1>1, FilesAre
  <2>2. \A n \in 1 .. Cells : f[m][n] \in Value
    BY <1>1, <2>1, Constants
  <2> QED BY <1>1, <2>2 DEF Image, Contents
<1>2. CASE ~(m \in DOMAIN f /\ Len(f[m]) >= Cells)
  BY <1>2, Constants DEF Image
<1> QED BY <1>1, <1>2

\* Storing a file leaves the images of the others.
LEMMA OtherImages ==
  ASSUME NEW f \in Files, NEW name \in Host, NEW data \in Seq(Value),
         NEW m \in Memory, m # name
  PROVE  Image(Stored(f, name, data), m) = Image(f, m)
<1> DEFINE g == Stored(f, name, data)
<1>1. /\ DOMAIN g = DOMAIN f \union {name}
      /\ \A h \in DOMAIN f : h # name => g[h] = f[h]
  BY StoredFiles
<1> HIDE DEF g
<1>2. m \in DOMAIN g <=> m \in DOMAIN f
  BY <1>1
<1>3. m \in DOMAIN f => g[m] = f[m]
  BY <1>1
<1>4. Image(g, m) = Image(f, m)
  BY <1>2, <1>3 DEF Image
<1> QED BY <1>4 DEF g

\* The image of a file is its start.
LEMMA StoredImage ==
  ASSUME NEW f \in Files, NEW m \in Memory, NEW data \in Seq(Value), NEW c \in Contents,
         Len(data) >= Cells, \A n \in 1 .. Cells : data[n] = c[n]
  PROVE  Image(Stored(f, m, data), m) = c
<1>1. m \in DOMAIN Stored(f, m, data) /\ Stored(f, m, data)[m] = data
  <2>1. m \in Host
    BY Constants
  <2> DEFINE g == Stored(f, m, data)
  <2>2. DOMAIN g = DOMAIN f \union {m} /\ g[m] = data
    BY <2>1, StoredFiles
  <2> HIDE DEF g
  <2>3. m \in DOMAIN g
    BY <2>2
  <2> QED BY <2>2, <2>3 DEF g
<1>2. [n \in 1 .. Cells |-> data[n]] = c
  BY DEF Contents
<1> QED BY <1>1, <1>2 DEF Image

\* A start over a sequence.
LEMMA OverIs ==
  ASSUME NEW old \in Seq(Value), NEW n \in Nat, NEW new,
         \A u \in 1 .. n : new[u] \in Value
  PROVE  /\ Over(new, n, old) \in Seq(Value)
         /\ Len(Over(new, n, old)) >= n
         /\ \A u \in 1 .. n : Over(new, n, old)[u] = new[u]
<1> DEFINE l == IF n > Len(old) THEN n ELSE Len(old)
           w == [u \in 1 .. l |-> IF u <= n THEN new[u] ELSE old[u]]
<1>1. Len(old) \in Nat
  OBVIOUS
<1>2. l \in Nat /\ l >= n
  BY <1>1
<1>3. \A u \in 1 .. l : u > n => u \in 1 .. Len(old)
  BY <1>1
<1> HIDE DEF l
<1>4. w \in [1 .. l -> Value]
  <2> SUFFICES ASSUME NEW u \in 1 .. l
               PROVE  (IF u <= n THEN new[u] ELSE old[u]) \in Value
    OBVIOUS
  <2>1. CASE u <= n
    <3>1. u \in 1 .. n
      BY <1>2, <2>1
    <3> QED BY <2>1, <3>1
  <2>2. CASE ~(u <= n)
    <3>1. u \in 1 .. Len(old)
      BY <1>2, <1>3, <2>2
    <3> QED BY <2>2, <3>1
  <2> QED BY <2>1, <2>2
<1>5. \A u \in 1 .. n : w[u] = new[u]
  BY <1>2
<1>6. Over(new, n, old) = w
  BY DEF Over, l
<1> HIDE DEF w
<1>7. w \in Seq(Value) /\ Len(w) = l
  BY <1>2, <1>4
<1> QED BY <1>2, <1>5, <1>6, <1>7
-----------------------------------------------------------------------------
(* The channel. *)

\* A fresh channel.
LEMMA FreshChannel ==
  ASSUME NEW x \in IoType, NEW name \in Host \union {NoName}, NEW pos \in Nat
  PROVE  LET d == [x EXCEPT !.ch = NewChannel(name, pos)]
         IN /\ Shut(d) /\ d.ch.name = name /\ d.ch.pos = pos /\ d.ch.at = 0
            /\ d.ch.view = <<>> /\ d.files = x.files /\ d.crashed = x.crashed
<1> DEFINE c == NewChannel(name, pos)
           d == [x EXCEPT !.ch = c]
<1>1. <<>> \in Seq(Value)
  BY EmptySeq
<1>2. /\ c \in ChanType /\ ~c.rd /\ ~c.wr /\ c.name = name /\ c.pos = pos /\ c.at = 0
      /\ c.view = <<>>
  BY <1>1 DEF ChanType, NewChannel
<1> HIDE DEF c
<1>3. /\ d \in IoType /\ d.ch = c /\ d.files = x.files /\ d.crashed = x.crashed
  BY <1>2 DEF IoType
<1> HIDE DEF d
<1>4. /\ Shut(d) /\ d.ch.name = name /\ d.ch.pos = pos /\ d.ch.at = 0
      /\ d.ch.view = <<>> /\ d.files = x.files /\ d.crashed = x.crashed
  BY <1>2, <1>3 DEF Shut
<1> QED BY <1>4 DEF d, c

\* What a channel is at the start.
LEMMA StartIs ==
  ASSUME NEW f \in Files
  PROVE  LET d == StartIO(f)
         IN Shut(d) /\ d.files = f /\ d.crashed = FALSE
<1>1. <<>> \in Seq(Value)
  BY EmptySeq
<1>2. Closed \in ChanType /\ ~Closed.rd /\ ~Closed.wr
  BY <1>1 DEF Closed, NewChannel, ChanType
<1> QED BY <1>2 DEF StartIO, Shut, IoType

\* Closing a channel that nothing was written to.
LEMMA FlushUnwritten ==
  ASSUME NEW x \in IoType, ~x.ch.wr
  PROVE  /\ Shut(Flush(x)) /\ Flush(x).files = x.files /\ Flush(x).crashed = x.crashed
         /\ Flush(x).ch.name = x.ch.name /\ Flush(x).ch.pos = x.ch.pos
         /\ Flush(x).ch.at = 0 /\ Flush(x).ch.view = <<>>
<1>1. x.ch.name \in Host \union {NoName} /\ x.ch.pos \in Nat
  BY DEF IoType, ChanType
<1>2. Flush(x) = [x EXCEPT !.ch = NewChannel(x.ch.name, x.ch.pos)]
  BY DEF Flush, Synced
<1> QED BY <1>1, <1>2, FreshChannel

\* Closing one that was written to puts what the stream shows into the file.
LEMMA FlushWritten ==
  ASSUME NEW x \in IoType, x.ch.wr, x.ch.name \in Host
  PROVE  /\ Shut(Flush(x)) /\ Flush(x).crashed = x.crashed
         /\ Flush(x).files = Stored(x.files, x.ch.name, x.ch.view)
<1> DEFINE f == x.files
           name == x.ch.name
           view == x.ch.view
           g == Stored(f, name, view)
           s == [x EXCEPT !.files = g]
<1>1. f \in Files /\ name \in Host /\ view \in Seq(Value) /\ x.ch.pos \in Nat
  BY DEF IoType, ChanType
<1>2. g \in Files
  <2> HIDE DEF f, name, view
  <2> QED BY <1>1, StoredFiles
<1>3. Synced(x) = s
  BY DEF Synced, IoType
<1> HIDE DEF g
<1>4. s \in IoType /\ s.files = g /\ s.ch = x.ch /\ s.crashed = x.crashed
  BY <1>2 DEF IoType
<1>5. Flush(x) = [s EXCEPT !.ch = NewChannel(x.ch.name, x.ch.pos)]
  BY <1>3 DEF Flush
<1> HIDE DEF s
<1>6. Shut(Flush(x)) /\ Flush(x).files = s.files /\ Flush(x).crashed = s.crashed
  BY <1>1, <1>4, <1>5, FreshChannel
<1> QED BY <1>4, <1>6 DEF g

\* A stream opened on an existing file shows it.
LEMMA OpenedIs ==
  ASSUME NEW x \in IoType, NEW wr \in BOOLEAN, x.ch.name \in DOMAIN x.files
  PROVE  LET d == Opened(x, wr)
         IN /\ d \in IoType /\ d.ch.rd /\ d.ch.wr = wr
            /\ d.ch.name = x.ch.name /\ d.ch.pos = x.ch.pos /\ d.ch.at = x.ch.pos
            /\ d.ch.view = x.files[x.ch.name]
            /\ d.files = x.files /\ d.crashed = x.crashed
<1> DEFINE d == Opened(x, wr)
<1>1. x.files \in Files /\ x.ch \in ChanType
  BY DEF IoType
<1>2. x.files[x.ch.name] \in Seq(Value)
  BY <1>1, FilesAre
<1>3. /\ d.files = x.files /\ d.crashed = x.crashed
      /\ d.ch.rd /\ d.ch.wr = wr /\ d.ch.at = x.ch.pos
      /\ d.ch.view = x.files[x.ch.name]
      /\ d.ch.name = x.ch.name /\ d.ch.pos = x.ch.pos
  BY <1>1 DEF IoType, ChanType, Opened
<1>4. d \in IoType
  BY <1>1, <1>2 DEF IoType, ChanType, Opened
<1> QED BY <1>3, <1>4

\* filesys_open with no stream left from before.
LEMMA OpenIs ==
  ASSUME NEW x, Shut(x), NEW m \in Memory
  PROVE  LET d == Open(x, m)
         IN /\ d \in IoType /\ ~d.ch.wr /\ d.ch.name = m /\ d.ch.pos = 0 /\ d.ch.at = 0
            /\ d.ch.rd <=> m \in DOMAIN x.files
            /\ d.ch.view = IF m \in DOMAIN x.files THEN x.files[m] ELSE <<>>
            /\ d.files = x.files /\ d.crashed = x.crashed
<1> DEFINE s == Flush(x)
           c == [s EXCEPT !.ch = NewChannel(m, 0)]
<1>1. s \in IoType /\ s.files = x.files /\ s.crashed = x.crashed
  BY FlushUnwritten DEF Shut
<1> HIDE DEF s
<1>2. m \in Host \union {NoName} /\ 0 \in Nat
  BY Constants
<1>3. /\ Shut(c) /\ c.ch.name = m /\ c.ch.pos = 0 /\ c.ch.at = 0
      /\ c.ch.view = <<>> /\ c.files = x.files /\ c.crashed = x.crashed
  BY <1>1, <1>2, FreshChannel, SMTT(60)
<1>4. Open(x, m) = IF Readable(c) THEN Opened(c, FALSE) ELSE c
  BY DEF Open, s
<1>5. Readable(c) <=> m \in DOMAIN x.files
  BY <1>3 DEF Readable
<1> HIDE DEF c
<1>6. CASE Readable(c)
  <2> DEFINE d == Opened(c, FALSE)
  <2>1. c \in IoType /\ c.ch.name \in DOMAIN c.files
    BY <1>3, <1>6 DEF Readable, Shut
  <2>2. /\ d \in IoType /\ d.ch.rd /\ d.ch.wr = FALSE
        /\ d.ch.name = c.ch.name /\ d.ch.pos = c.ch.pos /\ d.ch.at = c.ch.pos
        /\ d.ch.view = c.files[c.ch.name]
        /\ d.files = c.files /\ d.crashed = c.crashed
    BY <2>1, OpenedIs
  <2> HIDE DEF d
  <2> QED BY <1>3, <1>4, <1>5, <1>6, <2>2 DEF d
<1>7. CASE ~Readable(c)
  BY <1>3, <1>4, <1>5, <1>7 DEF Shut
<1> QED BY <1>6, <1>7

\* A load is the image of the files, and leaves the channel shut.
LEMMA LoadIs ==
  ASSUME NEW x, Shut(x), NEW m \in Memory
  PROVE  /\ Load(x, m) = Image(x.files, m)
         /\ Shut(AfterLoad(x, m)) /\ AfterLoad(x, m).files = x.files
         /\ AfterLoad(x, m).crashed = x.crashed
<1> DEFINE o == Open(x, m)
           n == IF ~o.ch.rd \/ o.ch.at >= Len(o.ch.view) THEN 0
                ELSE IF Len(o.ch.view) - o.ch.at < Cells THEN Len(o.ch.view) - o.ch.at
                ELSE Cells
           got == [u \in 1 .. n |-> o.ch.view[o.ch.at + u]]
           loaded == [o EXCEPT !.ch.pos = @ + n, !.ch.at = @ + n]
<1>1. /\ o \in IoType /\ ~o.ch.wr /\ o.ch.name = m /\ o.ch.pos = 0 /\ o.ch.at = 0
      /\ o.ch.rd <=> m \in DOMAIN x.files
      /\ o.ch.view = IF m \in DOMAIN x.files THEN x.files[m] ELSE <<>>
      /\ o.files = x.files /\ o.crashed = x.crashed
  BY OpenIs
<1>2. ReadOpened(o) = o
  BY <1>1 DEF ReadOpened, Readable
<1>3. ReadAll(o) = [io |-> loaded, got |-> got]
  BY <1>2 DEF ReadAll
<1>4. x.files \in Files /\ o.ch \in ChanType
  BY <1>1 DEF Shut, IoType
<1>5. o.ch.view \in Seq(Value) /\ Len(o.ch.view) \in Nat
  BY <1>4 DEF ChanType
<1>6. Cells \in Nat /\ Cells > 0
  BY Constants
<1>7. n \in Nat /\ n <= Len(o.ch.view)
  BY <1>1, <1>5, <1>6
<1>8. n = Cells <=> m \in DOMAIN x.files /\ Len(x.files[m]) >= Cells
  BY <1>1, <1>5, <1>6
<1>9. /\ Load(x, m) = IF Len(got) = Cells THEN got ELSE Blank(m)
      /\ AfterLoad(x, m) = Flush(loaded)
  <2> HIDE DEF got, loaded
  <2>1. ReadAll(o).got = got /\ ReadAll(o).io = loaded
    BY <1>3
  <2> QED BY <2>1 DEF Load, AfterLoad
<1> HIDE DEF o, n
<1>11. got \in [1 .. n -> Value]
  BY <1>1, <1>5, <1>7
<1>12. Len(got) = n
  <2> HIDE DEF got
  <2> QED BY <1>7, <1>11
<1>13. Load(x, m) = Image(x.files, m)
  <2>1. CASE n = Cells
    <3>1. o.ch.view = x.files[m] /\ Load(x, m) = got
      BY <1>1, <1>8, <1>9, <1>12, <2>1
    <3>2. got = [u \in 1 .. Cells |-> x.files[m][u]]
      BY <1>1, <1>6, <2>1, <3>1
    <3> QED BY <1>8, <2>1, <3>1, <3>2 DEF Image
  <2>2. CASE n # Cells
    <3> HIDE DEF got
    <3> QED BY <1>8, <1>9, <1>12, <2>2 DEF Image
  <2> QED BY <2>1, <2>2
<1>14. /\ loaded \in IoType /\ ~loaded.ch.wr /\ loaded.files = x.files
       /\ loaded.crashed = x.crashed
  <2> DEFINE p == o.ch.pos + n
             a == o.ch.at + n
  <2>1. p \in Nat /\ a \in Nat
    BY <1>1, <1>7
  <2>2. loaded = [o EXCEPT !.ch = [o.ch EXCEPT !.pos = p, !.at = a]]
    BY <1>1, <1>4 DEF IoType, ChanType
  <2> HIDE DEF p, a, loaded
  <2>3. [o.ch EXCEPT !.pos = p, !.at = a] \in ChanType
    BY <1>4, <2>1 DEF ChanType
  <2>4. [o.ch EXCEPT !.pos = p, !.at = a].wr = o.ch.wr
    BY <1>4 DEF ChanType
  <2> QED BY <1>1, <2>2, <2>3, <2>4 DEF IoType
<1> HIDE DEF loaded
<1> QED BY <1>9, <1>13, <1>14, FlushUnwritten

\* Opening for writing: the stream shows the file, which exists then, or there is
\* no stream. No image changes.
LEMMA BeginIs ==
  ASSUME NEW x, Shut(x), NEW m \in Memory
  PROVE  LET d == WriteOpened(Open(x, m))
         IN /\ d \in IoType /\ d.crashed = x.crashed
            /\ d.ch.name = m /\ d.ch.pos = 0
            /\ IF m \in Protected THEN ~d.ch.rd /\ ~d.ch.wr
               ELSE /\ d.ch.rd /\ d.ch.wr /\ d.ch.at = 0 /\ m \in DOMAIN d.files
                    /\ d.ch.view = d.files[m]
            /\ \A h \in Memory : Image(d.files, h) = Image(x.files, h)
<1> DEFINE o == Open(x, m)
           shut == Flush(o)
           nothing == <<>>
           new  == Stored(shut.files, m, nothing)
           made == [shut EXCEPT !.files = new]
           exists == IF Readable(o) THEN shut ELSE made
           d == WriteOpened(o)
<1>1. /\ o \in IoType /\ ~o.ch.wr /\ o.ch.name = m /\ o.ch.pos = 0
      /\ o.files = x.files /\ o.crashed = x.crashed
  BY OpenIs
<1> HIDE DEF o
<1>2. /\ Shut(shut) /\ shut.files = x.files /\ shut.crashed = x.crashed
      /\ shut.ch.name = m /\ shut.ch.pos = 0
  BY <1>1, FlushUnwritten
<1>3. d = IF m \in Protected \union {NoName} THEN shut ELSE Opened(exists, TRUE)
  BY <1>1 DEF WriteOpened
<1>4. m # NoName /\ m \in Host
  BY Constants
<1>5. Readable(o) <=> m \in DOMAIN x.files
  BY <1>1 DEF Readable
<1> HIDE DEF shut, d
<1>6. CASE m \in Protected
  BY <1>2, <1>3, <1>6 DEF Shut, d, o
<1>7. CASE m \notin Protected
  <2>1. d = Opened(exists, TRUE)
    BY <1>3, <1>4, <1>7
  <2>2. x.files \in Files /\ shut \in IoType /\ nothing \in Seq(Value) /\ Len(nothing) = 0
    <3>1. <<>> \in Seq(Value) /\ Len(<<>>) = 0
      BY EmptySeq
    <3>2. x.files \in Files /\ shut \in IoType
      BY <1>2 DEF Shut, IoType
    <3> QED BY <3>1, <3>2
  <2>3. /\ new \in Files /\ DOMAIN new = DOMAIN x.files \union {m} /\ new[m] = nothing
        /\ \A h \in Memory : h # m => Image(new, h) = Image(x.files, h)
    <3> HIDE DEF nothing
    <3> DEFINE f == x.files
    <3>1. new = Stored(f, m, nothing) /\ f \in Files
      BY <1>2, <2>2
    <3> HIDE DEF f, new
    <3>2. /\ new \in Files /\ DOMAIN new = DOMAIN f \union {m} /\ new[m] = nothing
      BY <1>4, <2>2, <3>1, StoredFiles
    <3>3. \A h \in Memory : h # m => Image(new, h) = Image(f, h)
      BY <1>4, <2>2, <3>1, OtherImages
    <3> QED BY <3>2, <3>3 DEF f
  <2>4. m \notin DOMAIN x.files => Image(new, m) = Image(x.files, m)
    <3> HIDE DEF nothing, new
    <3>1. new[m] = nothing /\ Len(nothing) = 0 /\ Cells > 0 /\ Cells \in Nat
      BY <2>2, <2>3, Constants
    <3>2. ~(Len(new[m]) >= Cells)
      BY <3>1
    <3> QED BY <3>2 DEF Image
  <2> HIDE DEF new, nothing
  <2>5. /\ made \in IoType /\ made.files = new /\ made.ch = shut.ch
        /\ made.crashed = shut.crashed
    BY <2>2, <2>3 DEF IoType
  <2> HIDE DEF made
  <2>6. /\ exists \in IoType /\ exists.ch = shut.ch /\ exists.crashed = x.crashed
        /\ m \in DOMAIN exists.files
        /\ \A h \in Memory : Image(exists.files, h) = Image(x.files, h)
    <3>1. CASE Readable(o)
      <4>1. exists = shut
        BY <3>1
      <4> QED BY <1>2, <1>5, <2>2, <3>1, <4>1
    <3>2. CASE ~Readable(o)
      <4>1. exists = made
        BY <3>2
      <4>2. m \in DOMAIN new
        BY <2>3
      <4>3. \A h \in Memory : Image(new, h) = Image(x.files, h)
        BY <1>5, <2>3, <2>4, <3>2
      <4> QED BY <1>2, <2>5, <4>1, <4>2, <4>3
    <3> QED BY <3>1, <3>2
  <2> HIDE DEF exists
  <2>7. /\ d \in IoType /\ d.ch.rd /\ d.ch.wr
        /\ d.ch.name = exists.ch.name /\ d.ch.pos = exists.ch.pos
        /\ d.ch.at = exists.ch.pos /\ d.ch.view = exists.files[exists.ch.name]
        /\ d.files = exists.files /\ d.crashed = exists.crashed
    BY <1>2, <2>1, <2>6, OpenedIs
  <2> QED BY <1>2, <1>7, <2>6, <2>7 DEF d, o
<1> QED BY <1>6, <1>7

\* Writing a memory to a stream at the start of its file.
LEMMA WriteAllIs ==
  ASSUME NEW x \in IoType, x.ch.wr, NEW c \in Contents
  PROVE  LET d == WriteAll(x, c)
         IN /\ d \in IoType /\ d.files = x.files /\ d.crashed = x.crashed
            /\ d.ch.name = x.ch.name /\ d.ch.rd = x.ch.rd /\ d.ch.wr
            /\ Len(d.ch.view) >= Cells
            /\ \A n \in 1 .. Cells : d.ch.view[n] = c[n]
<1> DEFINE w == Over(c, Cells, x.ch.view)
           p == x.ch.pos + Cells
           a == x.ch.at + Cells
           new == [x.ch EXCEPT !.view = w, !.pos = p, !.at = a]
           d == [x EXCEPT !.ch = new]
<1>1. x.ch \in ChanType /\ x.ch.view \in Seq(Value) /\ x.ch.pos \in Nat /\ x.ch.at \in Nat
  BY DEF IoType, ChanType
<1>2. Cells \in Nat /\ \A n \in 1 .. Cells : c[n] \in Value
  BY Constants DEF Contents
<1>3. w \in Seq(Value) /\ Len(w) >= Cells /\ \A n \in 1 .. Cells : w[n] = c[n]
  BY <1>1, <1>2, OverIs
<1>4. p \in Nat /\ a \in Nat
  BY <1>1, <1>2
<1>5. WriteAll(x, c) = d
  BY DEF WriteAll, WriteOpened, IoType, ChanType
<1> HIDE DEF w, p, a
<1>6. /\ new \in ChanType /\ new.view = w /\ new.name = x.ch.name
      /\ new.rd = x.ch.rd /\ new.wr = x.ch.wr
  BY <1>1, <1>3, <1>4 DEF ChanType
<1> HIDE DEF new
<1>7. d \in IoType /\ d.ch = new /\ d.files = x.files /\ d.crashed = x.crashed
  BY <1>6 DEF IoType
<1> HIDE DEF d
<1> QED BY <1>3, <1>5, <1>6, <1>7

\* Writing with no stream, in a place that can not be written.
LEMMA WriteNowhere ==
  ASSUME NEW x, Shut(x), x.ch.name \in Protected, NEW c
  PROVE  /\ WriteAll(x, c) \in IoType /\ WriteAll(x, c).crashed
         /\ WriteAll(x, c).files = x.files
<1>1. x \in IoType /\ ~x.ch.wr
  BY DEF Shut
<1>2. WriteOpened(x) = Flush(x)
  BY <1>1 DEF WriteOpened
<1>3. Shut(Flush(x)) /\ Flush(x).files = x.files
  BY <1>1, FlushUnwritten
<1>4. WriteAll(x, c) = [Flush(x) EXCEPT !.crashed = TRUE]
  BY <1>2, <1>3 DEF WriteAll, Shut
<1> QED BY <1>3, <1>4 DEF Shut, IoType
-----------------------------------------------------------------------------
(* The inductive invariant.                                                *)

\* Between dumps and before one there is no stream. After the opening it is that
\* of the memory's file, or there is none where the file can not be written, and
\* the next step ends the process. After the writing the stream shows the memory.
Streams ==
  /\ todo = <<>> \/ Head(todo).at = "begin" => Shut(io) /\ ~io.crashed
  /\ todo # <<>> /\ Head(todo).at = "opened" =>
       LET m == Head(todo).of
       IN /\ ~io.crashed /\ io.ch.name = m
          /\ IF m \in Protected THEN Shut(io)
             ELSE io.ch.wr /\ m \in DOMAIN io.files
  /\ todo # <<>> /\ Head(todo).at = "written" /\ ~io.crashed =>
       LET m == Head(todo).of
       IN /\ io.ch.name = m /\ io.ch.wr /\ m \in DOMAIN io.files
          /\ Len(io.ch.view) >= Cells
          /\ \A n \in 1 .. Cells : io.ch.view[n] = mem[m][n]

\* The files hold the memory.
Saved(m) ==
  \/ mem[m] = Image(io.files, m)
  \/ m = Rom /\ mem[m] = Overlaid(Image(io.files, m))

\* Memories that a pass, or the end of the loop, will find changed.
Told == IF pc = "over" THEN {} ELSE changed \cup peepch

\* Memories whose dump is to come or to end.
Ahead == {todo[n].of : n \in 1 .. Len(todo)}

\* A memory is saved, or its change will be found, or its dump is under way, or
\* the change was missed.
Covered == pc # "off" => \A m \in Memory : m \in missed \cup Told \cup Ahead \/ Saved(m)

Types ==
  /\ pc \in {"off", "pass", "events", "frame", "quit", "over"}
  /\ io \in IoType
  /\ mem \in [Memory -> Contents] /\ kept \in [Memory -> Contents]
  /\ changed \subseteq Memory /\ peepch \subseteq Memory /\ missed \subseteq Memory
  /\ todo \in Seq(Jobs) /\ Len(todo) <= 2

\* Only the first dump has begun, and none where the program runs or nothing does.
OneDump ==
  /\ \A n \in 2 .. Len(todo) : todo[n].at = "begin"
  /\ pc \in {"off", "frame"} => todo = <<>>

\* The files hold the last dump that ended.
Kept == \A m \in Buffered : Image(io.files, m) = kept[m]

Inv == Types /\ OneDump /\ Streams /\ Covered /\ Kept
-----------------------------------------------------------------------------
\* The dumps to do are those asked for, none of them begun.
LEMMA AmongIs ==
  ASSUME NEW a \in Memory, NEW b \in Memory, NEW S
  PROVE  LET s == Among(<<a, b>>, S)
         IN /\ s \in Seq(Jobs) /\ Len(s) <= 2
            /\ \A n \in 1 .. Len(s) : s[n].at = "begin"
            /\ \A m \in {a, b} : m \in S <=> \E n \in 1 .. Len(s) : s[n].of = m
<1> DEFINE s == Among(<<a, b>>, S)
           p == Job(a)
           q == Job(b)
<1>1. p \in Jobs /\ p.at = "begin" /\ p.of = a /\ q \in Jobs /\ q.at = "begin" /\ q.of = b
  BY DEF Job, Jobs
<1>2. s = (IF a \in S THEN <<p>> ELSE <<>>) \o (IF b \in S THEN <<q>> ELSE <<>>)
  BY DEF Among
<1> HIDE DEF p, q, s
<1>3. <<p>> \in Seq(Jobs) /\ <<q>> \in Seq(Jobs) /\ <<>> \in Seq(Jobs)
  BY <1>1, EmptySeq
<1>4. CASE a \in S /\ b \in S
  <2>1. s = <<p>> \o <<q>>
    BY <1>2, <1>4
  <2>2. s \in Seq(Jobs) /\ Len(s) = 2 /\ s[1] = p /\ s[2] = q
    BY <1>1, <1>3, <2>1
  <2>3. \A n \in 1 .. Len(s) : n = 1 \/ n = 2
    BY <2>2
  <2>4. 1 \in 1 .. Len(s) /\ 2 \in 1 .. Len(s)
    BY <2>2
  <2>5. \A n \in 1 .. Len(s) : s[n].at = "begin"
    BY <1>1, <2>2, <2>3
  <2>6. s[1].of = a /\ s[2].of = b
    BY <1>1, <2>2
  <2>7. s \in Seq(Jobs) /\ Len(s) <= 2
    BY <2>2
  <2>8. \A m \in {a, b} : m \in S <=> \E n \in 1 .. Len(s) : s[n].of = m
    BY <1>4, <2>4, <2>6
  <2> QED BY <2>5, <2>7, <2>8, Zenon DEF s
<1>5. CASE a \in S /\ b \notin S
  <2>1. s = <<p>>
    BY <1>2, <1>3, <1>5
  <2>2. s \in Seq(Jobs) /\ Len(s) = 1 /\ s[1] = p
    BY <1>1, <2>1
  <2> QED BY <1>1, <1>5, <2>2 DEF s
<1>6. CASE a \notin S /\ b \in S
  <2>1. s = <<q>>
    BY <1>2, <1>3, <1>6
  <2>2. s \in Seq(Jobs) /\ Len(s) = 1 /\ s[1] = q
    BY <1>1, <2>1
  <2> QED BY <1>1, <1>6, <2>2 DEF s
<1>7. CASE a \notin S /\ b \notin S
  <2>1. s = <<>>
    BY <1>2, <1>3, <1>7
  <2>2. s \in Seq(Jobs) /\ Len(s) = 0
    BY <1>3, <2>1
  <2> QED BY <1>7, <2>2 DEF s
<1> QED BY <1>4, <1>5, <1>6, <1>7

\* Of dumps that have not begun neither the first one nor another one has.
LEMMA BeginFirst ==
  ASSUME NEW s \in Seq(Jobs), \A n \in 1 .. Len(s) : s[n].at = "begin"
  PROVE  /\ \A n \in 2 .. Len(s) : s[n].at = "begin"
         /\ s = <<>> \/ Head(s).at = "begin"
<1>1. Len(s) \in Nat
  OBVIOUS
<1>2. CASE Len(s) = 0
  BY <1>1, <1>2, EmptySeq
<1>3. CASE Len(s) # 0
  <2>1. 1 \in 1 .. Len(s) /\ Head(s) = s[1]
    BY <1>1, <1>3
  <2> QED BY <1>1, <2>1
<1> QED BY <1>2, <1>3

\* The first dump of those to do.
LEMMA FirstDump ==
  ASSUME Types, todo # <<>>
  PROVE  /\ Head(todo) = todo[1] /\ todo[1] \in Jobs /\ Head(todo).of \in Memory
         /\ Head(todo).at \in {"begin", "opened", "written"}
         /\ Len(todo) \in 1 .. 2
<1>1. todo \in Seq(Jobs) /\ Len(todo) \in Nat /\ Len(todo) <= 2
  BY DEF Types
<1>2. Len(todo) # 0
  BY <1>1, EmptySeq
<1>3. Len(todo) \in 1 .. 2
  <2> DEFINE l == Len(todo)
  <2>1. l \in Nat /\ l <= 2 /\ l # 0
    BY <1>1, <1>2
  <2> HIDE DEF l
  <2>2. l \in 1 .. 2
    BY <2>1
  <2> QED BY <2>2 DEF l
<1>4. Head(todo) = todo[1] /\ todo[1] \in Jobs
  BY <1>1, <1>3
<1> QED BY <1>3, <1>4 DEF Jobs

\* A step that leaves the memories, the files and the dumps alone, and forgets
\* nothing of what is told or missed.
LEMMA NothingLost ==
  ASSUME Inv, UNCHANGED <<io, mem, todo, kept>>, pc \notin {"off", "over"},
         pc' \in {"pass", "events", "frame", "quit"}, pc' = "frame" => todo = <<>>,
         changed' \subseteq Memory, peepch' \subseteq Memory, missed' \subseteq Memory,
         missed \cup changed \cup peepch \subseteq missed' \cup changed' \cup peepch'
  PROVE  Inv'
<1>1. Types' /\ OneDump'
  BY DEF Inv, Types, OneDump
<1>2. Streams' /\ Kept'
  BY DEF Inv, Streams, Kept, Image, Shut
<1>3. Covered'
  <2> SUFFICES ASSUME NEW m \in Memory PROVE m \in (missed \cup Told \cup Ahead)' \/ Saved(m)'
    BY DEF Covered
  <2>1. m \in missed \cup changed \cup peepch \cup Ahead \/ Saved(m)
    BY DEF Inv, Covered, Told
  <2>2. Told' = changed' \cup peepch' /\ Ahead' = Ahead /\ (Saved(m) => Saved(m)')
    BY DEF Told, Ahead, Saved, Image
  <2> QED BY <2>1, <2>2
<1> QED BY <1>1, <1>2, <1>3 DEF Inv

\* At the start nothing is stored, and nothing runs.
LEMMA InitInv == Init => Inv
<1> SUFFICES ASSUME Init PROVE Inv
  OBVIOUS
<1>1. <<>> \in Files
  <2>1. <<>> \in [{} -> Seq(Value)]
    OBVIOUS
  <2> QED BY <2>1 DEF Files
<1>2. Shut(io) /\ io.files = <<>> /\ io.crashed = FALSE
  BY <1>1, StartIs DEF Init
<1>3. mem \in [Memory -> Contents] /\ kept = mem
  BY Constants DEF Init
<1>4. todo = <<>> /\ todo \in Seq(Jobs) /\ Len(todo) = 0
  BY EmptySeq DEF Init
<1>5. Types
  BY <1>2, <1>3, <1>4 DEF Types, Init, Shut
<1>6. OneDump /\ Streams
  BY <1>2, <1>4 DEF OneDump, Streams
<1>7. Covered
  BY DEF Covered, Init
<1>8. Kept
  <2> SUFFICES ASSUME NEW m \in Buffered PROVE Image(io.files, m) = kept[m]
    BY DEF Kept
  <2>1. m \in Memory
    BY MainLoopAssumption DEF Memory
  <2>2. kept[m] = Blank(m)
    BY <2>1 DEF Init
  <2>3. m \notin DOMAIN io.files
    BY <1>2
  <2> QED BY <2>2, <2>3 DEF Image
<1> QED BY <1>5, <1>6, <1>7, <1>8 DEF Inv

\* A dump goes on: the same memory, one step further.
LEMMA Advance ==
  ASSUME Types, todo # <<>>, NEW k \in {"opened", "written"},
         todo' = [todo EXCEPT ![1].at = k]
  PROVE  /\ todo' \in Seq(Jobs) /\ Len(todo') = Len(todo) /\ todo' # <<>>
         /\ Head(todo').of = Head(todo).of /\ Head(todo').at = k
         /\ \A n \in 2 .. Len(todo) : todo'[n] = todo[n]
         /\ Ahead' = Ahead
<1>1. todo \in Seq(Jobs) /\ Len(todo) \in 1 .. 2 /\ Head(todo) = todo[1] /\ todo[1] \in Jobs
  BY FirstDump DEF Types
<1> DEFINE j == [todo[1] EXCEPT !.at = k]
<1>2. j \in Jobs /\ j.of = todo[1].of /\ j.at = k
  BY <1>1 DEF Jobs
<1>3. todo' = [todo EXCEPT ![1] = j]
  BY <1>1
<1> HIDE DEF j
<1>4. /\ todo' \in Seq(Jobs) /\ Len(todo') = Len(todo) /\ todo'[1] = j
      /\ \A n \in 1 .. Len(todo) : n # 1 => todo'[n] = todo[n]
  BY <1>1, <1>2, <1>3
<1>5. todo' # <<>> /\ Head(todo') = j
  BY <1>1, <1>4, EmptySeq
<1>6. \A n \in 1 .. Len(todo) : todo'[n].of = todo[n].of
  BY <1>2, <1>4
<1>7. Ahead' = Ahead
  BY <1>4, <1>6 DEF Ahead
<1> QED BY <1>1, <1>2, <1>4, <1>5, <1>7

\* The rest of the dumps: none of them has begun, and only the first one's memory
\* is missing.
LEMMA RestOfDumps ==
  ASSUME Types, OneDump, todo # <<>>, todo' = Tail(todo)
  PROVE  /\ todo' \in Seq(Jobs) /\ Len(todo') <= 2
         /\ \A n \in 1 .. Len(todo') : todo'[n].at = "begin"
         /\ todo' = <<>> \/ Head(todo').at = "begin"
         /\ Ahead \subseteq Ahead' \cup {Head(todo).of}
<1>1. todo \in Seq(Jobs) /\ Len(todo) \in 1 .. 2 /\ Head(todo) = todo[1] /\ todo[1] \in Jobs
  BY FirstDump DEF Types
<1>2. /\ todo' \in Seq(Jobs) /\ Len(todo') = Len(todo) - 1 /\ Len(todo') \in Nat
      /\ \A n \in 1 .. Len(todo') : todo'[n] = todo[n + 1]
  BY <1>1
<1>3. \A n \in 2 .. Len(todo) : todo[n].at = "begin"
  BY DEF OneDump
<1>4. \A n \in 1 .. Len(todo') : todo'[n].at = "begin"
  BY <1>1, <1>2, <1>3
<1>5. CASE Len(todo) = 1
  <2>1. Len(todo') = 0
    BY <1>2, <1>5
  <2>2. todo' = <<>>
    BY <1>2, <2>1, EmptySeq
  <2>3. \A n \in 1 .. Len(todo) : todo[n].of = Head(todo).of
    BY <1>1, <1>5
  <2>4. Ahead \subseteq {Head(todo).of}
    BY <2>3 DEF Ahead
  <2>5. Len(todo') <= 2
    BY <1>2, <2>1
  <2> QED BY <1>2, <1>4, <2>2, <2>4, <2>5
<1>6. CASE Len(todo) = 2
  <2>1. Len(todo') = 1
    BY <1>2, <1>6
  <2>2. 1 \in 1 .. Len(todo') /\ 1 + 1 = 2
    BY <2>1
  <2>3. todo'[1] = todo[2] /\ todo'[1].at = "begin"
    BY <1>2, <1>4, <2>2
  <2>4. Head(todo') = todo'[1]
    BY <1>2, <2>1
  <2>5. todo[2].of \in Ahead'
    BY <2>2, <2>3 DEF Ahead
  <2>6. \A n \in 1 .. Len(todo) : n = 1 \/ n = 2
    BY <1>6
  <2>7. Ahead \subseteq Ahead' \cup {Head(todo).of}
    BY <1>1, <2>5, <2>6 DEF Ahead
  <2>8. Len(todo') <= 2
    BY <1>2, <2>1
  <2> QED BY <1>2, <1>4, <2>3, <2>4, <2>7, <2>8
<1>7. Len(todo) = 1 \/ Len(todo) = 2
  BY <1>1
<1> QED BY <1>5, <1>6, <1>7

\* A dump opens its file, and no image changes.
LEMMA BeginKeeps ==
  ASSUME Inv, todo # <<>>, Head(todo).at = "begin", Dump
  PROVE  Inv'
<1> DEFINE m == Head(todo).of
<1>1. /\ Types /\ OneDump /\ Streams /\ Covered /\ Kept /\ Shut(io) /\ ~io.crashed
      /\ m \in Memory
  BY FirstDump DEF Inv, Streams
<1>2. /\ io' = WriteOpened(Open(io, m)) /\ todo' = [todo EXCEPT ![1].at = "opened"]
      /\ UNCHANGED <<kept, missed, pc, mem, changed, peepch>>
  BY DEF Dump
<1>3. /\ todo' \in Seq(Jobs) /\ Len(todo') = Len(todo) /\ todo' # <<>>
      /\ Head(todo').of = m /\ Head(todo').at = "opened"
      /\ \A n \in 2 .. Len(todo) : todo'[n] = todo[n]
      /\ Ahead' = Ahead
  BY <1>1, <1>2, Advance
<1>4. /\ io' \in IoType /\ io'.crashed = io.crashed /\ io'.ch.name = m
      /\ IF m \in Protected THEN ~io'.ch.rd /\ ~io'.ch.wr
         ELSE io'.ch.rd /\ io'.ch.wr /\ m \in DOMAIN io'.files
      /\ \A h \in Memory : Image(io'.files, h) = Image(io.files, h)
  BY <1>1, <1>2, BeginIs
<1> HIDE DEF m
<1>5. Types' /\ OneDump'
  BY <1>1, <1>2, <1>3, <1>4 DEF Types, OneDump
<1>6. Streams'
  BY <1>1, <1>3, <1>4 DEF Streams, Shut
<1>7. Covered'
  BY <1>1, <1>2, <1>3, <1>4 DEF Covered, Told, Saved
<1>8. Kept'
  BY <1>1, <1>2, <1>4, MainLoopAssumption DEF Kept, Memory
<1> QED BY <1>5, <1>6, <1>7, <1>8 DEF Inv

\* A dump writes to its stream, or ends the process; the files do not change.
LEMMA WriteKeeps ==
  ASSUME Inv, todo # <<>>, Head(todo).at = "opened", Dump
  PROVE  Inv'
<1> DEFINE m == Head(todo).of
<1>1. /\ Types /\ OneDump /\ Streams /\ Covered /\ Kept /\ m \in Memory /\ io \in IoType
  BY FirstDump DEF Inv, Types
<1>2. /\ io' = WriteAll(io, mem[m]) /\ todo' = [todo EXCEPT ![1].at = "written"]
      /\ UNCHANGED <<kept, missed, pc, mem, changed, peepch>>
  BY DEF Dump
<1>3. /\ todo' \in Seq(Jobs) /\ Len(todo') = Len(todo) /\ todo' # <<>>
      /\ Head(todo').of = m /\ Head(todo').at = "written"
      /\ \A n \in 2 .. Len(todo) : todo'[n] = todo[n]
      /\ Ahead' = Ahead
  BY <1>1, <1>2, Advance
<1>4. /\ io.ch.name = m
      /\ IF m \in Protected THEN Shut(io) ELSE io.ch.wr /\ m \in DOMAIN io.files
  BY <1>1 DEF Streams
<1>5. mem[m] \in Contents
  BY <1>1 DEF Types
<1> HIDE DEF m
<1>6. /\ io' \in IoType /\ io'.files = io.files
      /\ ~io'.crashed =>
           /\ io'.ch.name = m /\ io'.ch.wr /\ m \in DOMAIN io'.files
           /\ Len(io'.ch.view) >= Cells
           /\ \A n \in 1 .. Cells : io'.ch.view[n] = mem[m][n]
  <2>1. CASE m \in Protected
    BY <1>2, <1>4, <2>1, WriteNowhere
  <2>2. CASE m \notin Protected
    BY <1>1, <1>2, <1>4, <1>5, <2>2, WriteAllIs
  <2> QED BY <2>1, <2>2
<1>7. Types' /\ OneDump'
  BY <1>1, <1>2, <1>3, <1>6 DEF Types, OneDump
<1>8. Streams'
  BY <1>2, <1>3, <1>6 DEF Streams
<1>9. Covered'
  BY <1>1, <1>2, <1>3, <1>6 DEF Covered, Told, Saved
<1>10. Kept'
  BY <1>1, <1>2, <1>6 DEF Kept
<1> QED BY <1>7, <1>8, <1>9, <1>10 DEF Inv

\* A dump ends: the file holds the memory, the other one is as before.
LEMMA EndKeeps ==
  ASSUME Inv, todo # <<>>, Head(todo).at = "written", Dump
  PROVE  Inv'
<1> DEFINE m == Head(todo).of
<1>1. /\ Types /\ OneDump /\ Streams /\ Covered /\ Kept /\ m \in Memory /\ io \in IoType
      /\ mem[m] \in Contents
  BY FirstDump DEF Inv, Types
<1>2. /\ io' = Flush(io) /\ todo' = Tail(todo) /\ ~io.crashed
      /\ kept' = [kept EXCEPT ![m] = mem[m]] /\ missed' = missed \ {m}
      /\ UNCHANGED <<pc, mem, changed, peepch>>
  BY DEF Dump
<1>3. /\ todo' \in Seq(Jobs) /\ Len(todo') <= 2
      /\ \A n \in 1 .. Len(todo') : todo'[n].at = "begin"
      /\ todo' = <<>> \/ Head(todo').at = "begin"
      /\ Ahead \subseteq Ahead' \cup {m}
  BY <1>1, <1>2, RestOfDumps
<1>4. /\ io.ch.name = m /\ io.ch.wr
      /\ Len(io.ch.view) >= Cells /\ \A n \in 1 .. Cells : io.ch.view[n] = mem[m][n]
  BY <1>1, <1>2 DEF Streams
<1> HIDE DEF m
<1> DEFINE f == io.files
           view == io.ch.view
<1>5. f \in Files /\ view \in Seq(Value) /\ m \in Host
  BY <1>1, Constants DEF IoType, ChanType
<1>6. Shut(io') /\ io'.crashed = FALSE /\ io'.files = Stored(f, m, view)
  <2>1. io.ch.name \in Host /\ io.crashed = FALSE
    BY <1>1, <1>2, <1>4, <1>5 DEF IoType
  <2> QED BY <1>1, <1>2, <1>4, <2>1, FlushWritten
<1>7. Image(Stored(f, m, view), m) = mem[m]
  BY <1>1, <1>4, <1>5, StoredImage
<1>8. \A h \in Memory : h # m => Image(Stored(f, m, view), h) = Image(f, h)
  <2> HIDE DEF f, view
  <2> QED BY <1>5, OtherImages
<1>9. /\ Image(io'.files, m) = mem[m]
      /\ \A h \in Memory : h # m => Image(io'.files, h) = Image(io.files, h)
  BY <1>6, <1>7, <1>8
<1> HIDE DEF f, view
<1>10. Types' /\ OneDump'
  <2>1. kept' \in [Memory -> Contents] /\ missed' \subseteq Memory
    BY <1>1, <1>2 DEF Types
  <2>2. \A n \in 2 .. Len(todo') : todo'[n].at = "begin"
    <3>1. Len(todo') \in Nat
      BY <1>3
    <3> QED BY <1>3, <3>1
  <2>3. pc' \notin {"off", "frame"}
    BY <1>1, <1>2 DEF OneDump
  <2> QED BY <1>1, <1>2, <1>3, <1>6, <2>1, <2>2, <2>3 DEF Types, OneDump, Shut
<1>11. Streams'
  BY <1>3, <1>6 DEF Streams
<1>12. Covered'
  <2> SUFFICES ASSUME pc' # "off", NEW h \in Memory
               PROVE  h \in (missed \cup Told \cup Ahead)' \/ Saved(h)'
    BY DEF Covered
  <2>1. CASE h = m
    BY <1>2, <1>9, <2>1 DEF Saved
  <2>2. CASE h # m
    <3>1. h \in missed \cup Told \cup Ahead \/ Saved(h)
      BY <1>1, <1>2 DEF Covered
    <3>2. Told' = Told
      BY <1>2 DEF Told
    <3>3. Saved(h) => Saved(h)'
      BY <1>2, <1>9, <2>2 DEF Saved
    <3> QED BY <1>2, <1>3, <2>2, <3>1, <3>2, <3>3
  <2> QED BY <2>1, <2>2
<1>13. Kept'
  <2> SUFFICES ASSUME NEW h \in Buffered PROVE Image(io'.files, h) = kept'[h]
    BY DEF Kept
  <2>1. h \in Memory /\ kept \in [Memory -> Contents] /\ Image(io.files, h) = kept[h]
    BY <1>1, MainLoopAssumption DEF Memory, Types, Kept
  <2> QED BY <1>2, <1>9, <2>1
<1> QED BY <1>10, <1>11, <1>12, <1>13 DEF Inv

\* A run starts with what the files hold, and the game over it.
LEMMA StartKeeps ==
  ASSUME Inv, Start
  PROVE  Inv'
<1>1. Types /\ Streams /\ Kept /\ Shut(io) /\ io.files \in Files
  BY DEF Inv, Streams, Start, Shut, IoType
<1>2. /\ pc' = "pass" /\ todo = <<>> /\ todo' = todo
      /\ io' = AfterLoad(AfterLoad(StartIO(io.files), Rom), Eep)
      /\ mem' = [m \in Memory |-> IF m = Rom THEN Overlaid(Load(io, Rom)) ELSE Load(io, Eep)]
      /\ changed' = {} /\ peepch' = {} /\ missed' = {} /\ kept' = kept
  BY DEF Start
<1>3. Rom \in Memory /\ Eep \in Memory /\ Eep # Rom /\ \A m \in Memory : m = Eep \/ m = Rom
  BY MainLoopAssumption DEF Memory
<1>4. Shut(io') /\ io'.crashed = FALSE /\ io'.files = io.files
  <2> DEFINE s == StartIO(io.files)
             r == AfterLoad(s, Rom)
  <2>1. Shut(s) /\ s.files = io.files /\ s.crashed = FALSE
    BY <1>1, StartIs
  <2> HIDE DEF s
  <2>2. Shut(r) /\ r.files = io.files /\ r.crashed = FALSE
    BY <1>3, <2>1, LoadIs
  <2> HIDE DEF r
  <2>3. io' = AfterLoad(r, Eep)
    BY <1>2 DEF r, s
  <2> QED BY <1>3, <2>2, <2>3, LoadIs
<1>5. \A m \in Memory : Load(io, m) = Image(io.files, m)
  BY <1>1, LoadIs
<1>6. /\ mem'[Rom] = Overlaid(Image(io.files, Rom)) /\ mem'[Eep] = Image(io.files, Eep)
      /\ mem' \in [Memory -> Contents]
  BY <1>1, <1>2, <1>3, <1>5, ImageIs, Constants
<1>7. Types' /\ OneDump'
  BY <1>1, <1>2, <1>4, <1>6, EmptySeq DEF Types, OneDump, Shut
<1>8. Streams' /\ Kept'
  BY <1>1, <1>2, <1>4 DEF Streams, Kept
<1>9. Covered'
  BY <1>3, <1>4, <1>6 DEF Covered, Saved
<1> QED BY <1>7, <1>8, <1>9 DEF Inv

\* A pass dumps what the last one saw changed and this one does not.
LEMMA PassKeeps ==
  ASSUME Inv, Pass
  PROVE  Inv'
<1>1. Types /\ OneDump /\ Streams /\ Covered /\ Kept
  BY DEF Inv
<1>2. /\ pc = "pass" /\ pc' = "events" /\ todo = <<>> /\ todo' = Ended
      /\ peepch' = changed /\ changed' = {} /\ UNCHANGED <<io, mem, kept, missed>>
  BY DEF Pass, Idle
<1>3. Rom \in Memory /\ Eep \in Memory /\ \A m \in Memory : m = Eep \/ m = Rom
  BY MainLoopAssumption DEF Memory
<1>4. /\ todo' \in Seq(Jobs) /\ Len(todo') <= 2
      /\ \A n \in 1 .. Len(todo') : todo'[n].at = "begin"
      /\ \A m \in Memory : m \in peepch \ changed <=> m \in Ahead'
  <2> DEFINE S == peepch \ changed
             s == Among(<<Eep, Rom>>, S)
  <2> HIDE DEF S
  <2>1. s \in Seq(Jobs) /\ Len(s) <= 2
    BY <1>3, AmongIs
  <2>2. \A n \in 1 .. Len(s) : s[n].at = "begin"
    BY <1>3, AmongIs
  <2>3. \A m \in {Eep, Rom} : m \in S <=> \E n \in 1 .. Len(s) : s[n].of = m
    BY <1>3, AmongIs
  <2>4. todo' = s
    BY <1>2 DEF Ended, S
  <2> HIDE DEF s
  <2>5. \A m : (\E n \in 1 .. Len(s) : s[n].of = m) <=> m \in Ahead'
    BY <2>4 DEF Ahead
  <2> QED BY <1>3, <2>1, <2>4, <2>5, <2>2, <2>3 DEF S
<1>5. /\ \A n \in 2 .. Len(todo') : todo'[n].at = "begin"
      /\ todo' = <<>> \/ Head(todo').at = "begin"
  BY <1>4, BeginFirst
<1>6. Types' /\ OneDump'
  BY <1>1, <1>2, <1>4, <1>5 DEF Types, OneDump
<1>7. Streams' /\ Kept'
  BY <1>1, <1>2, <1>5 DEF Streams, Kept, Shut
<1>8. Covered'
  <2> SUFFICES ASSUME NEW m \in Memory PROVE m \in (missed \cup Told \cup Ahead)' \/ Saved(m)'
    BY DEF Covered
  <2>1. Ahead = {}
    BY <1>2, EmptySeq DEF Ahead
  <2>2. m \in missed \cup changed \cup peepch \/ Saved(m)
    BY <1>1, <1>2, <2>1 DEF Covered, Told
  <2>3. Told' = changed /\ (Saved(m) => Saved(m)')
    BY <1>2 DEF Told, Saved
  <2>4. m \in peepch => m \in changed \cup Ahead'
    BY <1>3, <1>4
  <2> QED BY <1>2, <2>2, <2>3, <2>4
<1> QED BY <1>6, <1>7, <1>8 DEF Inv

\* At the end everything is dumped that the last pass or the program since then
\* has changed.
LEMMA QuitKeeps ==
  ASSUME Inv, Quit
  PROVE  Inv'
<1>1. Types /\ OneDump /\ Streams /\ Covered /\ Kept
  BY DEF Inv
<1>2. /\ pc = "quit" /\ pc' = "over" /\ todo = <<>> /\ todo' = Unsaved
      /\ changed' = changed \cap peepch /\ UNCHANGED <<io, mem, peepch, kept, missed>>
  BY DEF Quit, Idle
<1>3. Rom \in Memory /\ Eep \in Memory /\ \A m \in Memory : m = Eep \/ m = Rom
  BY MainLoopAssumption DEF Memory
<1>4. /\ todo' \in Seq(Jobs) /\ Len(todo') <= 2
      /\ \A n \in 1 .. Len(todo') : todo'[n].at = "begin"
      /\ \A m \in Memory : m \in peepch \cup changed <=> m \in Ahead'
  <2> DEFINE S == peepch \cup changed
             s == Among(<<Rom, Eep>>, S)
  <2> HIDE DEF S
  <2>1. s \in Seq(Jobs) /\ Len(s) <= 2
    BY <1>3, AmongIs
  <2>2. \A n \in 1 .. Len(s) : s[n].at = "begin"
    BY <1>3, AmongIs
  <2>3. \A m \in {Rom, Eep} : m \in S <=> \E n \in 1 .. Len(s) : s[n].of = m
    BY <1>3, AmongIs
  <2>4. todo' = s
    BY <1>2 DEF Unsaved, S
  <2> HIDE DEF s
  <2>5. \A m : (\E n \in 1 .. Len(s) : s[n].of = m) <=> m \in Ahead'
    BY <2>4 DEF Ahead
  <2> QED BY <1>3, <2>1, <2>4, <2>5, <2>2, <2>3 DEF S
<1>5. /\ \A n \in 2 .. Len(todo') : todo'[n].at = "begin"
      /\ todo' = <<>> \/ Head(todo').at = "begin"
  BY <1>4, BeginFirst
<1>6. Types' /\ OneDump'
  BY <1>1, <1>2, <1>4, <1>5 DEF Types, OneDump
<1>7. Streams' /\ Kept'
  BY <1>1, <1>2, <1>5 DEF Streams, Kept, Shut
<1>8. Covered'
  <2> SUFFICES ASSUME NEW m \in Memory PROVE m \in (missed \cup Told \cup Ahead)' \/ Saved(m)'
    BY DEF Covered
  <2>1. Ahead = {}
    BY <1>2, EmptySeq DEF Ahead
  <2>2. m \in missed \cup changed \cup peepch \/ Saved(m)
    BY <1>1, <1>2, <2>1 DEF Covered, Told
  <2>3. Saved(m) => Saved(m)'
    BY <1>2 DEF Saved
  <2>4. m \in changed \cup peepch => m \in Ahead'
    BY <1>3, <1>4
  <2> QED BY <1>2, <2>2, <2>3, <2>4
<1> QED BY <1>6, <1>7, <1>8 DEF Inv

\* Steps that change neither memories nor files, nor forget a change: events, the
\* frame's begin and end, and a watchdog reset, whose forgotten changes are missed.
LEMMA QuietKeeps ==
  ASSUME Inv, Event \/ Frame \/ FrameEnd \/ Watchdog
  PROVE  Inv'
<1>1. changed \subseteq Memory /\ peepch \subseteq Memory /\ missed \subseteq Memory
  BY DEF Inv, Types
<1>2. CASE Event
  BY <1>1, <1>2, NothingLost DEF Event, Idle
<1>3. CASE Frame
  BY <1>1, <1>3, NothingLost DEF Frame, Idle, After
<1>4. CASE FrameEnd
  BY <1>1, <1>4, NothingLost DEF FrameEnd, After
<1>5. CASE Watchdog
  <2>1. /\ pc = "frame" /\ pc' = pc /\ changed' = {} /\ missed' = missed \cup (changed \ peepch)
        /\ UNCHANGED <<io, mem, todo, kept, peepch>>
    BY <1>5 DEF Watchdog, InFrame, Elsewhere
  <2>2. todo = <<>>
    BY <2>1 DEF Inv, OneDump
  <2> QED BY <1>1, <2>1, <2>2, NothingLost
<1> QED BY <1>2, <1>3, <1>4, <1>5

\* A write to a memory whose change will be found or is counted as missed.
LEMMA ChangeKeeps ==
  ASSUME Inv, pc = "frame", NEW m \in Memory, NEW n \in 1 .. Cells, NEW v \in Value,
         mem' = [mem EXCEPT ![m][n] = v],
         changed \subseteq changed', changed' \subseteq Memory,
         missed \subseteq missed', missed' \subseteq Memory,
         mem' = mem \/ m \in changed' \cup peepch \cup missed',
         UNCHANGED <<pc, io, peepch, todo, kept>>
  PROVE  Inv'
<1>1. Types /\ OneDump /\ Streams /\ Covered /\ Kept /\ todo = <<>>
  BY DEF Inv, OneDump
<1>2. mem' \in [Memory -> Contents] /\ \A h \in Memory : h # m => mem'[h] = mem[h]
  BY <1>1 DEF Types, Contents
<1>3. Types' /\ OneDump'
  BY <1>1, <1>2 DEF Types, OneDump
<1>4. Streams' /\ Kept'
  BY <1>1 DEF Streams, Kept, Shut
<1>5. Covered'
  <2> SUFFICES ASSUME NEW h \in Memory PROVE h \in (missed \cup Told \cup Ahead)' \/ Saved(h)'
    BY DEF Covered
  <2>1. h \in missed \cup changed \cup peepch \cup Ahead \/ Saved(h)
    BY <1>1 DEF Covered, Told
  <2>2. Told' = changed' \cup peepch /\ Ahead' = Ahead
    BY DEF Told, Ahead
  <2>3. mem'[h] = mem[h] => (Saved(h) => Saved(h)')
    BY DEF Saved
  <2> QED BY <1>2, <2>1, <2>2, <2>3
<1> QED BY <1>3, <1>4, <1>5 DEF Inv

\* The program's writes. One that the indicator does not tell of is missed, unless
\* the indicator is set already or the value is the old one.
LEMMA ProgramKeeps ==
  ASSUME Inv, NEW n \in 1 .. Cells, NEW v \in Value, EepWrite(n, v) \/ RomWrite(n, v)
  PROVE  Inv'
<1>1. /\ changed \subseteq Memory /\ peepch \subseteq Memory /\ missed \subseteq Memory
      /\ Rom \in Memory /\ Eep \in Memory /\ mem \in [Memory -> Contents]
  BY DEF Inv, Types, Memory
<1>2. CASE EepWrite(n, v)
  <2>1. /\ pc = "frame" /\ mem' = [mem EXCEPT ![Eep][n] = v]
        /\ changed' = IF mem[Eep][n] # n - 1 THEN changed \cup {Eep} ELSE changed
        /\ missed' = IF mem[Eep][n] = n - 1 /\ v # mem[Eep][n] /\ Eep \notin changed \cup peepch
                     THEN missed \cup {Eep} ELSE missed
        /\ UNCHANGED <<pc, io, peepch, todo, kept>>
    BY <1>2 DEF EepWrite, InFrame, Elsewhere
  <2>2. mem[Eep][n] = v => mem' = mem
    <3>1. mem[Eep] \in Contents
      BY <1>1
    <3>2. ASSUME mem[Eep][n] = v PROVE [mem[Eep] EXCEPT ![n] = v] = mem[Eep]
      BY <3>1, <3>2 DEF Contents
    <3> QED BY <1>1, <2>1, <3>2
  <2>3. mem' = mem \/ Eep \in changed' \cup peepch \cup missed'
    BY <2>1, <2>2
  <2>4. /\ changed \subseteq changed' /\ changed' \subseteq Memory
        /\ missed \subseteq missed' /\ missed' \subseteq Memory
    BY <1>1, <2>1
  <2> QED BY <1>1, <2>1, <2>3, <2>4, ChangeKeeps
<1>3. CASE RomWrite(n, v)
  <2>1. /\ pc = "frame" /\ mem' = [mem EXCEPT ![Rom][n] = v]
        /\ changed' = changed \cup {Rom} /\ missed' = missed
        /\ UNCHANGED <<pc, io, peepch, todo, kept>>
    BY <1>3 DEF RomWrite, InFrame, Elsewhere
  <2> QED BY <1>1, <2>1, ChangeKeeps
<1> QED BY <1>2, <1>3

\* A kill: of what fits into the stream's buffer the file has the last dump that
\* ended or, where the stream had given all of it, the one under way.
LEMMA KillKeeps ==
  ASSUME Inv, Kill
  PROVE  Inv'
<1>1. Types /\ Streams /\ Kept /\ io \in IoType /\ io.files \in Files
  BY DEF Inv, Types, IoType
<1>2. /\ pc' = "off" /\ todo' = <<>> /\ mem' = [m \in Memory |-> Blank(m)]
      /\ changed' = {} /\ peepch' = {} /\ missed' = {}
  BY DEF Kill
<1> DEFINE Sane == /\ Shut(io') /\ io'.crashed = FALSE
                   /\ kept' \in [Memory -> Contents]
                   /\ \A h \in Buffered : Image(io'.files, h) = kept'[h]
<1>3. ASSUME Sane PROVE Inv'
  <2>1. mem' \in [Memory -> Contents]
    BY <1>2, Constants
  <2>2. Types' /\ OneDump'
    BY <1>2, <1>3, <2>1, EmptySeq DEF Types, OneDump, Shut
  <2>3. Streams' /\ Covered' /\ Kept'
    BY <1>2, <1>3 DEF Streams, Covered, Kept
  <2> QED BY <2>2, <2>3 DEF Inv
<1>4. CASE ~(todo # <<>> /\ Head(todo).at = "written" /\ ~io.crashed)
  <2>1. io' = StartIO(io.files) /\ kept' = kept
    BY <1>4 DEF Kill
  <2>2. Shut(io') /\ io'.crashed = FALSE /\ io'.files = io.files
    BY <1>1, <2>1, StartIs
  <2> QED BY <1>1, <1>3, <2>1, <2>2 DEF Kept, Types
<1>5. CASE todo # <<>> /\ Head(todo).at = "written" /\ ~io.crashed
  <2> DEFINE m == Head(todo).of
             view == io.ch.view
             f == io.files
             File(n) == IF n = 0 THEN f[m] ELSE Over(view, n, f[m])
  <2>1. /\ m \in Memory /\ m \in DOMAIN f /\ Len(view) >= Cells
        /\ \A n \in 1 .. Cells : view[n] = mem[m][n]
    BY <1>1, <1>5, FirstDump DEF Streams
  <2>2. PICK n \in IF m \in Buffered THEN {0, Cells} ELSE 0 .. Cells :
          /\ io' = StartIO(Stored(f, m, File(n)))
          /\ kept' = [kept EXCEPT ![m] = IF n = Cells THEN mem[m] ELSE @]
    BY <1>5 DEF Kill
  <2> HIDE DEF m
  <2>3. /\ f \in Files /\ view \in Seq(Value) /\ f[m] \in Seq(Value) /\ m \in Host
        /\ Len(view) \in Nat
    BY <1>1, <2>1, FilesAre, Constants DEF IoType, ChanType
  <2> HIDE DEF f, view
  <2>4. Cells \in Nat /\ Cells > 0 /\ n \in 0 .. Cells /\ mem[m] \in Contents
    BY <1>1, <2>1, <2>2, Constants DEF Types
  <2>5. \A u \in 1 .. n : view[u] \in Value
    BY <2>1, <2>3, <2>4
  <2>6. File(n) \in Seq(Value)
    BY <2>3, <2>4, <2>5, OverIs
  <2>7. n = Cells => /\ Len(File(n)) >= Cells
                     /\ \A u \in 1 .. Cells : File(n)[u] = mem[m][u]
    <3> SUFFICES ASSUME n = Cells
                 PROVE  /\ Len(File(n)) >= Cells
                        /\ \A u \in 1 .. Cells : File(n)[u] = mem[m][u]
      OBVIOUS
    <3>1. File(n) = Over(view, n, f[m])
      BY <2>4
    <3>2. /\ Len(Over(view, n, f[m])) >= n
          /\ \A u \in 1 .. n : Over(view, n, f[m])[u] = view[u]
      BY <2>3, <2>4, <2>5, OverIs
    <3> QED BY <2>1, <3>1, <3>2
  <2> DEFINE g == Stored(f, m, File(n))
  <2>8. /\ g \in Files /\ g[m] = File(n) /\ DOMAIN g = DOMAIN f \cup {m}
        /\ n = Cells => Image(g, m) = mem[m]
        /\ \A h \in Memory : h # m => Image(g, h) = Image(f, h)
    <3> DEFINE new == File(n)
    <3>1. new \in Seq(Value) /\ g = Stored(f, m, new)
      BY <2>6
    <3> HIDE DEF new, g
    <3>2. g \in Files /\ g[m] = new /\ DOMAIN g = DOMAIN f \cup {m}
      BY <2>3, <3>1, StoredFiles
    <3>3. \A h \in Memory : h # m => Image(g, h) = Image(f, h)
      BY <2>3, <3>1, OtherImages
    <3>4. n = Cells => Image(g, m) = mem[m]
      <4>1. n = Cells => Len(new) >= Cells /\ \A u \in 1 .. Cells : new[u] = mem[m][u]
        BY <2>7 DEF new
      <4> QED BY <2>1, <2>3, <2>4, <3>1, <4>1, StoredImage
    <3> QED BY <3>2, <3>3, <3>4 DEF new
  <2>9. n = 0 => Image(g, m) = Image(f, m)
    <3> HIDE DEF g
    <3>1. n = 0 => File(n) = f[m]
      OBVIOUS
    <3> HIDE DEF File
    <3>2. n = 0 => g[m] = f[m] /\ m \in DOMAIN g
      BY <2>8, <3>1
    <3> QED BY <2>1, <3>2 DEF Image
  <2>10. Shut(io') /\ io'.crashed = FALSE /\ io'.files = g
    <3> HIDE DEF g
    <3>1. io' = StartIO(g)
      BY <2>2 DEF g
    <3> QED BY <2>8, <3>1, StartIs
  <2> HIDE DEF g, File
  <2>11. kept \in [Memory -> Contents] /\ kept' \in [Memory -> Contents]
    BY <1>1, <2>2, <2>4 DEF Types
  <2>12. ASSUME NEW h \in Buffered PROVE Image(io'.files, h) = kept'[h]
    <3>1. h \in Memory /\ Image(f, h) = kept[h]
      BY <1>1, MainLoopAssumption DEF Kept, Memory, f
    <3>2. CASE h # m
      BY <2>2, <2>8, <2>10, <2>11, <3>1, <3>2
    <3>3. CASE h = m
      <4>1. n = 0 \/ n = Cells
        BY <2>2, <3>3
      <4> QED BY <2>2, <2>4, <2>8, <2>9, <2>10, <2>11, <3>1, <3>3, <4>1
    <3> QED BY <3>2, <3>3
  <2> QED BY <1>3, <2>10, <2>11, <2>12
<1> QED BY <1>4, <1>5

\* Every step keeps the invariant.
LEMMA NextInv == Inv /\ [Next]_vars => Inv'
<1> SUFFICES ASSUME Inv, [Next]_vars PROVE Inv'
  OBVIOUS
<1>1. CASE Start
  BY <1>1, StartKeeps
<1>2. CASE Dump
  <2>1. todo # <<>>
    BY <1>2 DEF Dump
  <2>2. Head(todo).at \in {"begin", "opened", "written"}
    BY <2>1, FirstDump DEF Inv
  <2> QED BY <1>2, <2>1, <2>2, BeginKeeps, WriteKeeps, EndKeeps
<1>3. CASE Pass
  BY <1>3, PassKeeps
<1>4. CASE Event \/ Frame \/ FrameEnd \/ Watchdog
  BY <1>4, QuietKeeps
<1>5. CASE Quit
  BY <1>5, QuitKeeps
<1>6. CASE \E n \in 1 .. Cells, v \in Value : EepWrite(n, v) \/ RomWrite(n, v)
  BY <1>6, ProgramKeeps
<1>7. CASE Kill
  BY <1>7, KillKeeps
<1>8. CASE UNCHANGED vars
  BY <1>8 DEF vars, Inv, Types, OneDump, Streams, Covered, Kept, Told, Ahead, Saved, Shut
<1> QED BY <1>1, <1>2, <1>3, <1>4, <1>5, <1>6, <1>7, <1>8 DEF Next

\* The invariant holds in every run.
THEOREM MainLoopInvariance == Spec => []Inv
<1>1. Init => Inv
  BY InitInv
<1>2. Inv /\ [Next]_vars => Inv'
  BY NextInv
<1> QED BY <1>1, <1>2, PTL DEF Spec

\* The memories, the indicators and the dumps keep their types, and no stream
\* stays open but in a dump (eepdump.c:53-57, romdump.c:53-57).
THEOREM MainLoopTypes == Spec => []TypeOK
<1>1. Inv => TypeOK
  BY DEF Inv, Types, Streams, TypeOK, Contents, Shut
<1> QED BY <1>1, MainLoopInvariance, PTL

\* The run that ends by itself leaves both memories in the files, whatever was
\* written when, but for the changes that no indicator told of.
THEOREM MemoriesSaved == Spec => []SavedOnExit
<1>1. Inv => SavedOnExit
  <2> SUFFICES ASSUME Inv, pc = "over", todo = <<>>, NEW m \in Memory \ missed
               PROVE  \/ mem[m] = Load(io, m)
                      \/ m = Rom /\ mem[m] = Overlaid(Load(io, m))
    BY DEF SavedOnExit
  <2>1. Ahead = {} /\ Told = {}
    BY EmptySeq DEF Ahead, Told
  <2>2. Saved(m)
    BY <2>1 DEF Inv, Covered
  <2>3. Load(io, m) = Image(io.files, m)
    BY LoadIs DEF Inv, Streams
  <2> QED BY <2>2, <2>3 DEF Saved
<1> QED BY <1>1, MainLoopInvariance, PTL

\* A process killed anywhere leaves the last dump that ended of each memory that
\* fits into a stream's buffer: never a shorter file, never a mixture, also where
\* a file can not be written.
THEOREM DumpsSurviveKills == Spec => []KillKeepsDump
<1>1. Inv => KillKeepsDump
  <2> SUFFICES ASSUME Inv, NEW m \in Buffered
               PROVE  Load(StartIO(io.files), m) = kept[m]
    BY DEF KillKeepsDump
  <2>1. m \in Memory /\ io.files \in Files /\ Image(io.files, m) = kept[m]
    BY MainLoopAssumption DEF Memory, Inv, Types, IoType, Kept
  <2>2. Shut(StartIO(io.files)) /\ StartIO(io.files).files = io.files
    BY <2>1, StartIs
  <2> QED BY <2>1, <2>2, LoadIs
<1> QED BY <1>1, MainLoopInvariance, PTL
-----------------------------------------------------------------------------
(* The pace of the passes (FramePacing).                                   *)

CONSTANTS Long, Short, Starved, Slow, Slower, Limit, Fast, Credit, Hold, MaxDrop, Gaps
VARIABLES pace, drawn

Pace == INSTANCE FramePacing

\* The fields of a pace that is in range.
LEMMA PaceFields ==
  ASSUME Pace!InRange
  PROVE  /\ pace.drift \in Int /\ -Limit <= pace.drift /\ pace.drift <= Credit
         /\ pace.fdrop \in 0 .. MaxDrop /\ pace.frc \in 0 .. 3 /\ pace.tfrac \in 0 .. 2
BY DEF Pace!InRange

\* The drift that is kept, and the one that is tolerated, are within the
\* limits.
LEMMA KeptInRange ==
  ASSUME Pace!PaceAssumption, NEW d \in Int
  PROVE  Pace!Kept(d) \in -Limit .. Credit /\ Pace!Tolerated(Pace!Kept(d)) \in -Limit .. Credit
BY SMT DEF Pace!PaceAssumption, Pace!Kept, Pace!Tolerated

\* The drift before it is limited is an integer.
LEMMA DriftedInt ==
  ASSUME Pace!PaceAssumption, Pace!InRange, NEW tdif \in Nat
  PROVE  Pace!Drifted(pace, tdif) \in Int
BY PaceFields, SMT DEF Pace!PaceAssumption, Pace!Drifted

\* Requests for frame drops stay in their range.
LEMMA RequestsInRange ==
  ASSUME Pace!PaceAssumption, NEW f \in 0 .. MaxDrop, NEW d \in Int
  PROVE  Pace!Requests(f, d) \in 0 .. MaxDrop
BY SMT DEF Pace!PaceAssumption, Pace!Requests

\* A pass keeps the pace in range.
LEMMA PacedInRange ==
  ASSUME Pace!PaceAssumption, Pace!InRange, NEW tdif \in Nat
  PROVE  Pace!Paced(pace, tdif) \in
           [drift : -Limit .. Credit, fdrop : 0 .. MaxDrop, frc : 0 .. 3, tfrac : 0 .. 2]
<1>1. Pace!Drifted(pace, tdif) \in Int  BY DriftedInt
<1>2. /\ Pace!Kept(Pace!Drifted(pace, tdif)) \in -Limit .. Credit
      /\ Pace!Tolerated(Pace!Kept(Pace!Drifted(pace, tdif))) \in -Limit .. Credit
  BY <1>1, KeptInRange
<1>3. Pace!Requests(pace.fdrop, Pace!Drifted(pace, tdif)) \in 0 .. MaxDrop
  BY <1>1, PaceFields, RequestsInRange
<1>4. (pace.frc + 1) % 4 \in 0 .. 3  BY PaceFields, SMT
<1>5. (IF pace.tfrac >= 2 THEN 0 ELSE pace.tfrac + 1) \in 0 .. 2  BY PaceFields, SMT
<1> HIDE DEF Pace!Kept, Pace!Tolerated, Pace!Requests, Pace!Drifted
<1> QED  BY <1>2, <1>3, <1>4, <1>5 DEF Pace!Paced

\* The drift and the requests that are kept are always in their limits, for
\* any thresholds and any times between passes (main.c:161-175).
THEOREM PaceBounded == ASSUME Pace!PaceAssumption PROVE Pace!Spec => []Pace!InRange
<1>1. Pace!Init => Pace!InRange
  BY SMT DEF Pace!PaceAssumption, Pace!Init, Pace!InRange
<1>2. Pace!InRange /\ [Pace!Next]_Pace!vars => Pace!InRange'
  <2> SUFFICES ASSUME Pace!InRange, [Pace!Next]_Pace!vars PROVE Pace!InRange'
    OBVIOUS
  <2>1. ASSUME NEW tdif \in Gaps, NEW nolimit \in BOOLEAN, Pace!Pass(tdif, nolimit)
        PROVE  Pace!InRange'
    <3>1. tdif \in Nat  BY DEF Pace!PaceAssumption
    <3>2. drawn' \in BOOLEAN  BY <2>1 DEF Pace!Pass, Pace!Drops
    <3> QED  BY <2>1, <3>1, <3>2, PacedInRange DEF Pace!Pass, Pace!InRange
  <2>2. ASSUME NEW tdif \in Gaps, NEW nolimit \in BOOLEAN, Pace!WastedPass(tdif, nolimit)
        PROVE  Pace!InRange'
    BY <2>2 DEF Pace!WastedPass, Pace!InRange, Pace!vars
  <2>3. CASE UNCHANGED Pace!vars
    BY <2>3 DEF Pace!InRange, Pace!vars
  <2> QED  BY <2>1, <2>2, <2>3 DEF Pace!Next
<1> QED  BY <1>1, <1>2, PTL DEF Pace!Spec

\* No two frames in a row stay undrawn: the picture keeps at least half of its
\* rate, however late the emulation is (main.c:184).
THEOREM HalfDrawn == ASSUME Pace!PaceAssumption PROVE Pace!Spec => Pace!NoTwoUndrawn
<1> DEFINE Even == Pace!InRange /\ (drawn \/ pace.frc % 2 = 0)
<1>1. Pace!Init => Even
  BY SMT DEF Pace!PaceAssumption, Pace!Init, Pace!InRange
<1>2. Even /\ [Pace!Next]_Pace!vars => Even' /\ [drawn \/ drawn']_Pace!vars
  <2> SUFFICES ASSUME Even, [Pace!Next]_Pace!vars PROVE Even' /\ [drawn \/ drawn']_Pace!vars
    OBVIOUS
  <2>1. ASSUME NEW tdif \in Gaps, NEW nolimit \in BOOLEAN, Pace!Pass(tdif, nolimit)
        PROVE  Even' /\ (drawn \/ drawn')
    <3>1. tdif \in Nat  BY DEF Pace!PaceAssumption
    <3>2. drawn' \in BOOLEAN  BY <2>1 DEF Pace!Pass, Pace!Drops
    <3>3. Pace!InRange'  BY <2>1, <3>1, <3>2, PacedInRange DEF Pace!Pass, Pace!InRange
    <3>4. pace'.frc = (pace.frc + 1) % 4  BY <2>1 DEF Pace!Pass, Pace!Paced
    <3>5. ~drawn' => pace.frc % 2 = 1  BY <2>1 DEF Pace!Pass, Pace!Drops
    <3>6. pace.frc \in 0 .. 3  BY PaceFields
    <3>7. pace.frc % 2 = 1 => pace'.frc % 2 = 0  BY <3>4, <3>6, SMT
    <3>8. ~(pace.frc % 2 = 1 /\ pace.frc % 2 = 0)  BY <3>6, SMT
    <3> QED  BY <3>3, <3>5, <3>7, <3>8
  <2>2. ASSUME NEW tdif \in Gaps, NEW nolimit \in BOOLEAN, Pace!WastedPass(tdif, nolimit)
        PROVE  Even' /\ UNCHANGED Pace!vars
    BY <2>2 DEF Pace!WastedPass, Pace!InRange, Pace!vars
  <2>3. CASE UNCHANGED Pace!vars
    BY <2>3 DEF Pace!InRange, Pace!vars
  <2> QED  BY <2>1, <2>2, <2>3 DEF Pace!Next
<1> QED  BY <1>1, <1>2, PTL DEF Pace!Spec, Pace!NoTwoUndrawn

\* A pass that comes late enough after the last frame is never wasted: frames go
\* on, with the frame rate limiter, too (main.c:176).
THEOREM NoLateWaste ==
  ASSUME Pace!PaceAssumption, Pace!InRange, NEW tdif \in Nat, tdif >= Credit + Long - Fast,
         NEW nolimit \in BOOLEAN
  PROVE  ~Pace!Wastes(pace, tdif, nolimit)
BY PaceFields, SMT DEF Pace!PaceAssumption, Pace!Wastes, Pace!Drifted

-----------------------------------------------------------------------------
(* The player's input: the parts of its invariant.                         *)

\* The types of the parts of the state and of its history.
Dongle == [state : {"stop", "start", "ready"}, clock : 0 .. Width, din : Byte,
           tag : BOOLEAN, dout : Nat, on : BOOLEAN, bypassed : {0, 1, 255},
           lctrl : BOOLEAN, in : 0 .. QueueSize, queue : Seq([byte : Byte, up : BOOLEAN])]

\* A dongle that the code can leave behind.
Sound(k) == k \in Dongle /\ Len(k.queue) <= k.in /\ (k.state = "ready" => k.clock > 0)

\* The controllers, ginput's state, and what the program has read of a port and
\* of the dongle.
Latches == [set : SUBSET Button, n : 0 .. Clocks]
PadSet == [pressed : [Player -> SUBSET Button], latch : [Player -> Latches]]
Inputs == [uzem : BOOLEAN, p2keys : SUBSET {"RALT", "LALT"}, palloc : BOOLEAN,
           dig : [Player -> SUBSET Dir], ana : [Player -> SUBSET Dir]]
Reads == [took : SUBSET Button, bits : Seq({0, 1}), valid : BOOLEAN]
Hearing == [bits : Seq({0, 1}), broken : BOOLEAN, false : BOOLEAN]

\* A mouse is on as long as it has a scale.
Mice(m) == m \in [on : BOOLEAN, scale : 0 .. Scales - 1] /\ m.on = (m.scale # 0)

\* The whole state of the input has its types.
Typed ==
  /\ pads \in PadSet /\ Sound(kbd) /\ gi \in Inputs /\ Mice(mouse)
  /\ pins \in SUBSET {"latch", "clock"} /\ events \in 0 .. Events
  /\ exit \in BOOLEAN /\ clean \in BOOLEAN
  /\ read \in [Player -> Reads] /\ heard \in Hearing

\* Between the bits of a byte: those heard and those left make it whole.
Within(k) == k.state = "ready" /\ k.clock # Width

Whole(k, h) == [n \in 1 .. Width |-> IF n <= Width - k.clock THEN h.bits[n]
                                     ELSE k.din[n - (Width - k.clock)]]

\* A byte in transfer: the bits already out are shifted out, and a whole Code of
\* a release has a Break before it.
Transfer(k, h) ==
  /\ Len(h.bits) = IF Within(k) THEN Width - k.clock ELSE 0
  /\ \A n \in 1 .. Width : (Within(k) => n > k.clock) => k.din[n] = 0
  /\ Within(k) /\ k.tag /\ Whole(k, h) = Code => h.broken
  /\ ~h.false

\* Whether a Break precedes what comes after the byte in transfer.
BrokenNext(k, h) ==
  IF Within(k) THEN Whole(k, h) = Break \/ (h.broken /\ Whole(k, h) # Code) ELSE h.broken

\* A byte of a release, but the Break, follows another one of it.
Follows(prev, next) == next.up /\ next.byte # Break => prev.up /\ prev.byte # Code

\* A queue whose codes of a release have their Break, in it or before it.
Releases(q, broken) ==
  /\ \A i \in 1 .. Len(q) - 1 : Follows(q[i], q[i + 1])
  /\ q # <<>> /\ q[1].up /\ q[1].byte # Break => broken

\* Of a queue that is not to be thrown away.
Together(k, broken) == k.in < QueueSize - 1 => Releases(k.queue, broken)

\* The dongle: what is in transfer and what is queued behind it.
DongleInv == Transfer(kbd, heard) /\ Together(kbd, BrokenNext(kbd, heard))

\* What a program that moves one pin at a time has read of a latch.
Shows(l, r, high) ==
  r.valid => /\ l.set = Filtered(r.took)
             /\ Len(r.bits) = l.n + (IF high THEN 0 ELSE 1)
             /\ \A i \in 1 .. Len(r.bits) : r.bits[i] = Bit([set |-> l.set, n |-> i - 1])

\* Both latches show what was read of them.
LatchInv == \A p \in Player : Shows(pads.latch[p], read[p], "clock" \in pins)

\* A held thing that presses a button now, and whose release will be seen.
Reaches(h, p, b) == Presses(h, p, b) /\ (kbd.on => h[1] # "key" /\ p # 1)

\* Every button, and every direction ginput remembers, is reached by something
\* held; directions of an axis by an axis, the others by something else.
HeldInv ==
  clean => \A p \in Player :
    /\ \A b \in pads.pressed[p] : \E h \in held : Reaches(h, p, b)
    /\ \A b \in gi.dig[p] : \E h \in held : h[1] # "axis" /\ Reaches(h, p, b)
    /\ \A b \in gi.ana[p] : \E h \in held : h[1] = "axis" /\ Reaches(h, p, b)
    /\ p \notin Served(kbd.on, mouse.on) => pads.pressed[p] \cap Dir = {}

\* The inductive invariant of the input.
InputInv == Typed /\ DongleInv /\ LatchInv /\ HeldInv
-----------------------------------------------------------------------------
(* The keyboard dongle. *)

\* The constants of the dongle, and its bytes.
LEMMA DongleConstants ==
  /\ QueueSize \in Nat /\ QueueSize > 3 /\ Width \in Nat /\ Width > 1
  /\ Break \in Byte /\ Ext \in Byte /\ Code \in Byte /\ Empty \in Byte
  /\ Break # Code /\ Ext # Code /\ Ext # Break /\ Empty # Code
  /\ Code[Width] = 1
<1>1. QueueSize \in Nat /\ QueueSize > 3 /\ Width \in Nat /\ Width > 1
  BY DongleAssumption
<1>2. Break \in Byte /\ Ext \in Byte /\ Code \in Byte /\ Empty \in Byte
  BY <1>1 DEF Break, Ext, Code, Empty, Byte
<1>3. /\ Break[1] = 1 /\ Ext[1] = 1 /\ Code[1] = 0 /\ Empty[Width] = 0
      /\ Break[Width] = 1 /\ Ext[Width] = 0 /\ Code[Width] = 1
  BY <1>1 DEF Break, Ext, Code, Empty
<1> QED BY <1>1, <1>2, <1>3

\* A byte queued: what changes and what does not.
LEMMA PushIs ==
  ASSUME NEW k, Sound(k), NEW b \in Byte, NEW up \in BOOLEAN, k.in < QueueSize
  PROVE  LET n == Push(k, b, up)
         IN /\ Sound(n)
            /\ n.in = k.in + 1 /\ n.queue = Append(k.queue, [byte |-> b, up |-> up])
            /\ n.state = k.state /\ n.clock = k.clock /\ n.din = k.din /\ n.tag = k.tag
            /\ n.on = k.on /\ n.bypassed = k.bypassed /\ n.lctrl = k.lctrl
<1> DEFINE q == Append(k.queue, [byte |-> b, up |-> up])
<1>1. QueueSize \in Nat
  BY DongleConstants
<1>2. k \in Dongle /\ Len(k.queue) <= k.in /\ (k.state = "ready" => k.clock > 0)
  BY DEF Sound
<1>3. /\ k.queue \in Seq([byte : Byte, up : BOOLEAN]) /\ k.in \in 0 .. QueueSize
      /\ k.in + 1 \in 0 .. QueueSize
  BY <1>1, <1>2 DEF Dongle
<1>4. /\ q \in Seq([byte : Byte, up : BOOLEAN]) /\ Len(q) = Len(k.queue) + 1
      /\ Len(k.queue) \in Nat
  BY <1>3
<1> HIDE DEF q
<1>5. Push(k, b, up) = [k EXCEPT !.in = k.in + 1, !.queue = q]
  BY <1>2 DEF Push, Dongle, q
<1>6. [k EXCEPT !.in = k.in + 1, !.queue = q] \in Dongle
  BY <1>2, <1>3, <1>4 DEF Dongle
<1>7. LET n == [k EXCEPT !.in = k.in + 1, !.queue = q]
      IN /\ n.in = k.in + 1 /\ n.queue = q
         /\ n.state = k.state /\ n.clock = k.clock /\ n.din = k.din /\ n.tag = k.tag
         /\ n.on = k.on /\ n.bypassed = k.bypassed /\ n.lctrl = k.lctrl
  BY <1>2 DEF Dongle
<1> QED BY <1>2, <1>3, <1>4, <1>5, <1>6, <1>7 DEF Sound, q

\* Bytes queued one after the other keep releases together.
LEMMA QueuedReleases ==
  ASSUME NEW q \in Seq([byte : Byte, up : BOOLEAN]), NEW broken, Releases(q, broken),
         NEW e \in [byte : Byte, up : BOOLEAN],
         IF q = <<>> THEN e.up => e.byte = Break ELSE Follows(q[Len(q)], e)
  PROVE  Releases(Append(q, e), broken)
<1> DEFINE r == Append(q, e)
<1>1. /\ Len(r) = Len(q) + 1 /\ Len(q) \in Nat /\ r # <<>> /\ r[Len(q) + 1] = e
      /\ \A i \in 1 .. Len(q) : r[i] = q[i]
      /\ (q = <<>> <=> Len(q) = 0)
  OBVIOUS
<1> HIDE DEF r
<1>2. ASSUME NEW i \in 1 .. Len(r) - 1 PROVE Follows(r[i], r[i + 1])
  <2>1. CASE i = Len(q)
    BY <1>1, <2>1
  <2>2. CASE i < Len(q)
    BY <1>1, <2>2 DEF Releases
  <2> QED BY <1>1, <2>1, <2>2
<1>3. r[1].up /\ r[1].byte # Break => broken
  <2>1. CASE q = <<>>
    BY <1>1, <2>1
  <2>2. CASE q # <<>>
    BY <1>1, <2>2 DEF Releases
  <2> QED BY <2>1, <2>2
<1> QED BY <1>2, <1>3 DEF Releases, r

\* Two records of a dongle that differ in what keys change only.
AsBefore(n, k) == n.state = k.state /\ n.clock = k.clock /\ n.din = k.din /\ n.tag = k.tag

\* A key of the host: of a release, all of its bytes or none are queued, as
\* long as the queue is not to be thrown away.
LEMMA HandledKey ==
  ASSUME NEW k, Sound(k), NEW key, NEW up \in BOOLEAN, NEW broken, Together(k, broken)
  PROVE  LET n == HandleKey(k, key, up)
         IN /\ Sound(n) /\ AsBefore(n, k) /\ Together(n, broken)
            /\ n.on # k.on => key = "F1" /\ ~up
<1> DEFINE k0 == IF k.queue = <<>> THEN [k EXCEPT !.in = 0] ELSE k
           k1 == IF up /\ k0.in < QueueSize - 2 THEN Push(k0, Break, up) ELSE k0
           ByteSeq == Seq([byte : Byte, up : BOOLEAN])
<1>0. /\ QueueSize \in Nat /\ QueueSize > 3 /\ Width \in Nat /\ Width > 1
      /\ Break \in Byte /\ Ext \in Byte /\ Code \in Byte
      /\ Break # Code /\ Ext # Code /\ Ext # Break
  BY DongleConstants
<1>1. k \in Dongle /\ k.in \in 0 .. QueueSize /\ k.queue \in ByteSeq /\ Len(k.queue) \in Nat
  BY DEF Sound, Dongle
<1>2. /\ Sound(k0) /\ AsBefore(k0, k) /\ k0.queue = k.queue /\ k0.in \in 0 .. QueueSize
      /\ (k.queue = <<>> => k0.in = 0) /\ k0.on = k.on
  <2>1. CASE k.queue = <<>>
    <3>1. k0 = [k EXCEPT !.in = 0] /\ Len(k.queue) = 0
      BY <2>1
    <3>2. [k EXCEPT !.in = 0] \in Dongle
      BY <1>0, <1>1 DEF Dongle
    <3>3. LET n == [k EXCEPT !.in = 0]
          IN /\ n.in = 0 /\ n.queue = k.queue /\ n.state = k.state /\ n.clock = k.clock
             /\ n.din = k.din /\ n.tag = k.tag /\ n.on = k.on
      BY <1>1 DEF Dongle
    <3> QED BY <1>0, <3>1, <3>2, <3>3 DEF Sound, AsBefore
  <2>2. CASE k.queue # <<>>
    BY <1>1, <2>2 DEF AsBefore
  <2> QED BY <2>1, <2>2
<1> HIDE DEF k0
<1>3. Together(k0, broken)
  <2>1. CASE k.queue = <<>>
    BY <1>2, <2>1 DEF Together, Releases
  <2>2. CASE k.queue # <<>>
    BY <2>2 DEF k0
  <2> QED BY <2>1, <2>2
<1>4. /\ Sound(k1) /\ AsBefore(k1, k) /\ Together(k1, broken) /\ k1.on = k.on
      /\ k1.in \in 0 .. QueueSize /\ k1.queue \in ByteSeq
      /\ k1.in < QueueSize - 2 /\ up =>
           k1.queue # <<>> /\ k1.queue[Len(k1.queue)] = [byte |-> Break, up |-> up]
      /\ k1.in = QueueSize - 2 => k1.queue # <<>>
  <2>1. CASE up /\ k0.in < QueueSize - 2
    <3> DEFINE e == [byte |-> Break, up |-> up]
    <3>1. /\ k1 = Push(k0, Break, up) /\ k0.in < QueueSize
      BY <1>0, <1>2, <2>1
    <3>2. /\ Sound(k1) /\ k1.in = k0.in + 1 /\ k1.queue = Append(k0.queue, e)
          /\ AsBefore(k1, k0) /\ k1.on = k0.on
      BY <1>0, <1>2, <3>1, PushIs DEF AsBefore
    <3>3. /\ e \in [byte : Byte, up : BOOLEAN] /\ e.byte = Break /\ e.up = up
      BY <1>0
    <3> HIDE DEF e, k1
    <3>4. Releases(k0.queue, broken)
      BY <1>0, <1>2, <1>3, <2>1 DEF Together
    <3>5. IF k0.queue = <<>> THEN e.up => e.byte = Break
          ELSE Follows(k0.queue[Len(k0.queue)], e)
      BY <3>3 DEF Follows
    <3>6. Releases(k1.queue, broken)
      BY <1>1, <1>2, <3>2, <3>3, <3>4, <3>5, QueuedReleases
    <3>7. /\ k1.queue \in ByteSeq /\ k1.queue # <<>> /\ k1.queue[Len(k1.queue)] = e
      BY <1>1, <1>2, <3>2, <3>3
    <3> QED BY <1>0, <1>2, <2>1, <3>2, <3>6, <3>7 DEF Together, AsBefore, e
  <2>2. CASE ~(up /\ k0.in < QueueSize - 2)
    BY <1>0, <1>1, <1>2, <1>3, <2>2
  <2> QED BY <2>1, <2>2
<1> HIDE DEF k1
<1>5. HandleKey(k, key, up) =
        CASE k1.in > QueueSize - 2 -> k1
          [] k1.in <= QueueSize - 2 /\ key \in Scan -> Push(k1, Code, up)
          [] k1.in <= QueueSize - 2 /\ key \in Extended -> Push(Push(k1, Ext, up), Code, up)
          [] OTHER -> Special(k1, key, up)
  BY DEF HandleKey, k1, k0
<1>6. CASE k1.in > QueueSize - 2
  <2>1. HandleKey(k, key, up) = k1
    BY <1>0, <1>4, <1>5, <1>6
  <2> QED BY <1>4, <2>1
<1>7. CASE k1.in <= QueueSize - 2 /\ key \in Scan
  <2> DEFINE e == [byte |-> Code, up |-> up]
             n == Push(k1, Code, up)
  <2>0. k1.in < QueueSize /\ ~(k1.in > QueueSize - 2)
        /\ ~(k1.in <= QueueSize - 2 /\ key \in Extended)
    BY <1>0, <1>4, <1>7, DongleAssumption
  <2>1. HandleKey(k, key, up) = n /\ k1.in < QueueSize
    BY <1>5, <1>7, <2>0
  <2>2. /\ Sound(n) /\ n.in = k1.in + 1 /\ n.queue = Append(k1.queue, e) /\ AsBefore(n, k1)
        /\ n.on = k1.on
    BY <1>0, <1>4, <2>1, PushIs DEF AsBefore
  <2>3. e \in [byte : Byte, up : BOOLEAN] /\ e.byte = Code /\ e.up = up
    BY <1>0
  <2> HIDE DEF e, n
  <2>4. Together(n, broken)
    <3>1. SUFFICES ASSUME k1.in < QueueSize - 2 PROVE Releases(n.queue, broken)
      BY <1>0, <1>4, <2>2 DEF Together
    <3>2. Releases(k1.queue, broken)
      BY <1>0, <1>4, <3>1 DEF Together
    <3>3. IF k1.queue = <<>> THEN e.up => e.byte = Break
          ELSE Follows(k1.queue[Len(k1.queue)], e)
      BY <1>0, <1>4, <2>3, <3>1 DEF Follows
    <3> QED BY <1>4, <2>2, <2>3, <3>2, <3>3, QueuedReleases
  <2> QED BY <1>4, <2>1, <2>2, <2>4 DEF AsBefore
<1>8. CASE k1.in <= QueueSize - 2 /\ key \notin Scan /\ key \in Extended
  <2> DEFINE e == [byte |-> Ext, up |-> up]
             d == [byte |-> Code, up |-> up]
             m == Push(k1, Ext, up)
             n == Push(m, Code, up)
  <2>1. HandleKey(k, key, up) = n /\ k1.in < QueueSize
    BY <1>0, <1>4, <1>5, <1>8
  <2>2. /\ Sound(m) /\ m.in = k1.in + 1 /\ m.queue = Append(k1.queue, e) /\ AsBefore(m, k1)
        /\ m.on = k1.on
    BY <1>0, <1>4, <2>1, PushIs DEF AsBefore
  <2>3. /\ e \in [byte : Byte, up : BOOLEAN] /\ e.byte = Ext /\ e.up = up
        /\ d \in [byte : Byte, up : BOOLEAN] /\ d.byte = Code /\ d.up = up
    BY <1>0
  <2>4. m.in < QueueSize
    BY <1>0, <1>4, <1>8, <2>2
  <2> HIDE DEF e, d, m
  <2>5. /\ Sound(n) /\ n.in = m.in + 1 /\ n.queue = Append(m.queue, d) /\ AsBefore(n, m)
        /\ n.on = m.on
    BY <1>0, <2>2, <2>4, PushIs DEF AsBefore, d
  <2> HIDE DEF n
  <2>6. Together(n, broken)
    <3>1. SUFFICES ASSUME k1.in < QueueSize - 2 PROVE Releases(n.queue, broken)
      BY <1>0, <1>4, <2>2, <2>5 DEF Together
    <3>2. Releases(k1.queue, broken)
      BY <1>0, <1>4, <3>1 DEF Together
    <3>3. IF k1.queue = <<>> THEN e.up => e.byte = Break
          ELSE Follows(k1.queue[Len(k1.queue)], e)
      BY <1>0, <1>4, <2>3, <3>1 DEF Follows
    <3>4. Releases(m.queue, broken)
      BY <1>4, <2>2, <2>3, <3>2, <3>3, QueuedReleases
    <3>5. m.queue \in ByteSeq /\ m.queue # <<>> /\ m.queue[Len(m.queue)] = e
      <4>1. k1.queue \in ByteSeq /\ m.queue = Append(k1.queue, e)
        BY <1>4, <2>2
      <4>2. e \in [byte : Byte, up : BOOLEAN]
        BY <2>3
      <4> QED BY <4>1, <4>2
    <3>6. IF m.queue = <<>> THEN d.up => d.byte = Break
          ELSE Follows(m.queue[Len(m.queue)], d)
      BY <1>0, <2>3, <3>5 DEF Follows
    <3> QED BY <2>3, <2>5, <3>4, <3>5, <3>6, QueuedReleases
  <2> QED BY <1>4, <2>1, <2>2, <2>5, <2>6 DEF AsBefore
<1>9. CASE k1.in <= QueueSize - 2 /\ key \notin Scan /\ key \notin Extended
  <2> DEFINE n == Special(k1, key, up)
  <2>1. HandleKey(k, key, up) = n
    BY <1>0, <1>4, <1>5, <1>9
  <2>2. k1 \in Dongle
    BY <1>4 DEF Sound
  <2>3. /\ n \in Dongle /\ n.queue = k1.queue /\ n.in = k1.in /\ AsBefore(n, k1)
        /\ n.on # k1.on => key = "F1" /\ ~up
    <3>1. ASSUME NEW b \in BOOLEAN, n = [k1 EXCEPT !.lctrl = b]
          PROVE  /\ n \in Dongle /\ n.queue = k1.queue /\ n.in = k1.in /\ AsBefore(n, k1)
                 /\ n.on = k1.on
      <4> HIDE DEF n
      <4> QED BY <2>2, <3>1 DEF Dongle, AsBefore
    <3>2. ASSUME NEW b \in BOOLEAN, n = [k1 EXCEPT !.on = b, !.bypassed = 255]
          PROVE  n \in Dongle /\ n.queue = k1.queue /\ n.in = k1.in /\ AsBefore(n, k1)
      <4> HIDE DEF n
      <4>1. 255 \in {0, 1, 255}
        OBVIOUS
      <4>2. [k1 EXCEPT !.on = b, !.bypassed = 255] \in Dongle
        BY <2>2, <4>1 DEF Dongle
      <4>3. /\ n.queue = k1.queue /\ n.in = k1.in /\ n.state = k1.state
            /\ n.clock = k1.clock /\ n.din = k1.din /\ n.tag = k1.tag
        BY <2>2, <3>2 DEF Dongle
      <4> QED BY <3>2, <4>2, <4>3 DEF AsBefore
    <3>3. \/ n = [k1 EXCEPT !.lctrl = FALSE] \/ n = [k1 EXCEPT !.lctrl = TRUE]
          \/ n = [k1 EXCEPT !.on = ~k1.on, !.bypassed = 255] /\ key = "F1" /\ ~up
          \/ n = k1
      BY <2>2 DEF Special
    <3>4. (~k1.on) \in BOOLEAN
      OBVIOUS
    <3> HIDE DEF n
    <3>5. k1 \in Dongle /\ AsBefore(k1, k1)
      BY <2>2 DEF AsBefore
    <3>6. CASE n = k1
      BY <3>5, <3>6
    <3>7. CASE n = [k1 EXCEPT !.on = ~k1.on, !.bypassed = 255] /\ key = "F1" /\ ~up
      BY <3>2, <3>4, <3>7
    <3> QED BY <3>1, <3>3, <3>6, <3>7
  <2> HIDE DEF n
  <2> QED BY <1>4, <2>1, <2>3 DEF Sound, AsBefore, Together
<1> QED BY <1>0, <1>4, <1>6, <1>7, <1>8, <1>9

\* What a fetch does to a sound dongle, of the three things it can do.
LEMMA FetchIs ==
  ASSUME NEW k, Sound(k)
  PROVE  LET n == Fetch(k)
         IN /\ Sound(n) /\ n.state = k.state /\ n.clock = k.clock
            /\ \/ n.queue = <<>> /\ n.din = Empty /\ n.tag = FALSE
               \/ n.queue = <<>> /\ n.din = k.din
               \/ /\ k.queue # <<>> /\ k.in < QueueSize - 1
                  /\ n.din = k.queue[1].byte /\ n.tag = k.queue[1].up
                  /\ n.queue = Tail(k.queue)
<1> DEFINE ByteSeq == Seq([byte : Byte, up : BOOLEAN])
           q == k.queue
<1>0. QueueSize \in Nat /\ QueueSize > 3 /\ Empty \in Byte
  BY DongleConstants
<1>1. /\ k \in Dongle /\ Len(k.queue) <= k.in /\ (k.state = "ready" => k.clock > 0)
      /\ q \in ByteSeq /\ Len(q) \in Nat /\ k.in \in 0 .. QueueSize /\ 0 \in 0 .. QueueSize
  BY <1>0 DEF Sound, Dongle
<1>2. CASE q = <<>>
  <2>1. Fetch(k) = [k EXCEPT !.din = Empty, !.tag = FALSE]
    BY <1>2 DEF Fetch
  <2>2. [k EXCEPT !.din = Empty, !.tag = FALSE] \in Dongle
    BY <1>0, <1>1 DEF Dongle
  <2>3. LET n == [k EXCEPT !.din = Empty, !.tag = FALSE]
        IN /\ n.state = k.state /\ n.clock = k.clock /\ n.in = k.in /\ n.queue = q
           /\ n.din = Empty /\ n.tag = FALSE
    BY <1>1 DEF Dongle
  <2> QED BY <1>1, <1>2, <2>1, <2>2, <2>3 DEF Sound
<1>3. CASE q # <<>> /\ ~(k.in < QueueSize - 1)
  <2>1. Fetch(k) = [k EXCEPT !.queue = <<>>, !.in = 0]
    BY <1>3 DEF Fetch
  <2>2. <<>> \in ByteSeq /\ Len(<<>>) = 0
    OBVIOUS
  <2>3. [k EXCEPT !.queue = <<>>, !.in = 0] \in Dongle
    BY <1>1, <2>2 DEF Dongle
  <2>4. LET n == [k EXCEPT !.queue = <<>>, !.in = 0]
        IN /\ n.state = k.state /\ n.clock = k.clock /\ n.in = 0 /\ n.queue = <<>>
           /\ n.din = k.din
    BY <1>1 DEF Dongle
  <2> QED BY <1>1, <2>1, <2>2, <2>3, <2>4 DEF Sound
<1>4. CASE q # <<>> /\ k.in < QueueSize - 1
  <2> DEFINE b == q[1].byte
             u == q[1].up
             t == Tail(q)
             i == IF Len(q) = 1 THEN 0 ELSE k.in
             m == [k EXCEPT !.din = b, !.tag = u, !.queue = t, !.in = i]
  <2>1. Fetch(k) = m
    BY <1>1, <1>4 DEF Fetch
  <2>2. /\ t \in ByteSeq /\ Len(t) = Len(q) - 1 /\ Len(q) > 0
        /\ q[1] \in [byte : Byte, up : BOOLEAN]
    <3>1. q \in Seq([byte : Byte, up : BOOLEAN]) /\ q # <<>>
      BY <1>1, <1>4
    <3> HIDE DEF q
    <3>2. /\ Tail(q) \in Seq([byte : Byte, up : BOOLEAN]) /\ Len(Tail(q)) = Len(q) - 1
          /\ Len(q) > 0
      BY <3>1
    <3>3. q[1] \in [byte : Byte, up : BOOLEAN]
      <4>1. Len(q) \in Nat
        BY <3>1
      <4>2. 1 \in 1 .. Len(q)
        BY <3>2, <4>1
      <4> QED BY <3>1, <4>2, ElementOfSeq
    <3> QED BY <3>2, <3>3 DEF q
  <2>3. b \in Byte /\ u \in BOOLEAN
    BY <2>2
  <2>6. i \in 0 .. QueueSize /\ Len(t) <= i
    <3> HIDE DEF t, q
    <3>1. Len(q) <= k.in
      BY <1>1 DEF q
    <3> QED BY <1>1, <2>2, <3>1
  <2> HIDE DEF b, u, t, i
  <2>4. m \in Dongle
    BY <1>1, <2>2, <2>3, <2>6 DEF Dongle
  <2>5. /\ m.state = k.state /\ m.clock = k.clock /\ m.in = i /\ m.queue = t /\ m.din = b
        /\ m.tag = u
    BY <1>1 DEF Dongle
  <2> QED BY <1>1, <1>4, <2>1, <2>2, <2>3, <2>4, <2>5, <2>6 DEF Sound, b, u, t
<1> QED BY <1>2, <1>3, <1>4

\* The dongle at the start of a clock: with a new byte if one is due.
Started(k) == IF k.clock = Width THEN Fetch(k) ELSE k

\* What a clock leaves of a dongle that is ready.
LEMMA ClockedIs ==
  ASSUME NEW k, Sound(k), k.state = "ready", NEW curr
  PROVE  LET n == Clocked(k, curr)
             f == Started(k)
         IN /\ Sound(n) /\ Sound(f)
            /\ n.din = Shifted(f.din) /\ n.tag = f.tag /\ n.queue = f.queue /\ n.in = f.in
            /\ IF k.clock = 1 THEN ~Within(n)
               ELSE n.clock = k.clock - 1 /\ n.state = "ready"
<1> DEFINE f == Started(k)
           g == IF k.clock = Width THEN [Fetch(k) EXCEPT !.dout = 0] ELSE k
           o == 2 * g.dout + (IF "latch" \in curr THEN 1 ELSE 0)
           d == Shifted(g.din)
           c == g.clock - 1
           s == [g EXCEPT !.dout = o, !.din = d, !.clock = c]
<1>0. Width \in Nat /\ Width > 1
  BY DongleConstants
<1>1. Sound(f) /\ f.state = "ready" /\ f.clock = k.clock /\ f \in Dongle
  BY FetchIs DEF Sound, Started
<1>2. /\ g \in Dongle /\ g.state = "ready" /\ g.clock = k.clock /\ g.din = f.din
      /\ g.tag = f.tag /\ g.queue = f.queue /\ g.in = f.in
  <2>1. CASE k.clock = Width
    <3>1. g = [f EXCEPT !.dout = 0]
      BY <2>1 DEF Started
    <3> HIDE DEF g, f
    <3>2. [f EXCEPT !.dout = 0] \in Dongle
      BY <1>1 DEF Dongle
    <3> QED BY <1>1, <3>1, <3>2 DEF Dongle
  <2>2. CASE k.clock # Width
    BY <1>1, <2>2 DEF Started
  <2> QED BY <2>1, <2>2
<1> HIDE DEF f, g
<1>3. k.clock \in 1 .. Width /\ g.clock \in 1 .. Width /\ g.din \in Byte /\ g.dout \in Nat
  BY <1>0, <1>2 DEF Sound, Dongle
<1>4. o \in Nat /\ c \in 0 .. Width /\ d \in Byte
  <2>1. d \in Byte
    BY <1>0, <1>3 DEF Shifted, Byte
  <2> QED BY <1>0, <1>3, <2>1
<1> HIDE DEF o, c, d
<1>5. /\ s \in Dongle /\ s.state = "ready" /\ s.clock = c /\ s.din = d /\ s.tag = f.tag
      /\ s.queue = f.queue /\ s.in = f.in /\ s.dout = o
  <2>1. s \in Dongle
    BY <1>2, <1>4 DEF Dongle
  <2> QED BY <1>2, <2>1 DEF Dongle
<1>6. Clocked(k, curr) = CASE s.clock # 0 -> s
                           [] s.clock = 0 /\ s.dout = 1 -> [s EXCEPT !.state = "stop"]
                           [] OTHER -> [s EXCEPT !.clock = Width]
  <2>1. s = [g EXCEPT !.dout = 2 * @ + (IF "latch" \in curr THEN 1 ELSE 0),
                      !.din = Shifted(@), !.clock = @ - 1]
    BY <1>2 DEF o, d, c, Dongle
  <2> QED BY <2>1 DEF Clocked, g
<1> HIDE DEF s
<1>7. Len(f.queue) <= f.in
  BY <1>1 DEF Sound
<1>8. CASE k.clock = 1
  <2>1. c = 0
    BY <1>2, <1>8 DEF c
  <2>2. \/ Clocked(k, curr) = [s EXCEPT !.state = "stop"]
        \/ Clocked(k, curr) = [s EXCEPT !.clock = Width]
    BY <1>5, <1>6, <2>1
  <2>3. ASSUME NEW n, n = [s EXCEPT !.state = "stop"]
        PROVE  /\ n \in Dongle /\ n.din = d /\ n.tag = f.tag /\ n.queue = f.queue
               /\ n.in = f.in /\ n.state = "stop"
    BY <1>5, <2>3 DEF Dongle
  <2>4. ASSUME NEW n, n = [s EXCEPT !.clock = Width]
        PROVE  /\ n \in Dongle /\ n.din = d /\ n.tag = f.tag /\ n.queue = f.queue
               /\ n.in = f.in /\ n.clock = Width
    BY <1>0, <1>5, <2>4 DEF Dongle
  <2> QED BY <1>0, <1>1, <1>2, <1>7, <1>8, <2>2, <2>3, <2>4 DEF Sound, Within, f, d
<1>9. CASE k.clock # 1
  <2>1. c = k.clock - 1 /\ c # 0
    BY <1>2, <1>3, <1>9 DEF c
  <2>2. Clocked(k, curr) = s
    BY <1>5, <1>6, <2>1
  <2> QED BY <1>1, <1>2, <1>3, <1>5, <1>7, <1>9, <2>1, <2>2 DEF Sound, f, d
<1> QED BY <1>8, <1>9

\* The bits of the byte in transfer, after one more of them.
LEMMA OneMoreBit ==
  ASSUME NEW k, Sound(k), k.state = "ready", NEW h, h.bits \in Seq({0, 1}),
         Len(h.bits) = (IF Within(k) THEN Width - k.clock ELSE 0),
         NEW n, NEW m, n.din = Shifted(Started(k).din), n.clock = k.clock - 1,
         m.bits = Append(h.bits, Started(k).din[1])
  PROVE  k.clock # 1 => Whole(n, m) = (IF Within(k) THEN Whole(k, h) ELSE Started(k).din)
<1> DEFINE d == Started(k).din
           c == k.clock
           e == n.din
           b == h.bits
<1>0. Width \in Nat /\ Width > 1
  BY DongleConstants
<1>1. /\ Sound(Started(k)) /\ d \in Byte /\ c \in 1 .. Width
      /\ Len(b) = Width - c
  <2>1. Sound(Started(k))
    BY FetchIs DEF Started
  <2> QED BY <1>0, <2>1 DEF Sound, Dongle, Within
<1>2. /\ e = Shifted(d) /\ e \in Byte /\ \A i \in 1 .. Width - 1 : e[i] = d[i + 1]
  <2>1. e = Shifted(d)
    OBVIOUS
  <2> HIDE DEF d, e
  <2>2. e = [i \in 1 .. Width |-> IF i = Width THEN 0 ELSE d[i + 1]]
    BY <2>1 DEF Shifted
  <2>3. \A i \in 1 .. Width : i # Width => d[i + 1] \in {0, 1}
    BY <1>0, <1>1 DEF Byte
  <2>4. e \in Byte
    BY <1>0, <2>2, <2>3 DEF Byte
  <2> QED BY <1>0, <2>1, <2>2, <2>4
<1>3. /\ m.bits \in Seq({0, 1}) /\ Len(m.bits) = Width - c + 1
      /\ m.bits[Width - c + 1] = d[1]
      /\ \A i \in 1 .. Width - c : m.bits[i] = b[i]
  BY <1>0, <1>1 DEF Byte
<1>4. c = Width => ~Within(k)
  BY DEF Within
<1>5. c # Width => Within(k) /\ d = k.din
  BY DEF Within, Started
<1> HIDE DEF d, b, e
<1>6. ASSUME c # 1
      PROVE  Whole(n, m) = (IF Within(k) THEN Whole(k, h) ELSE d)
  <2> DEFINE w == Whole(n, m)
             v == Whole(k, h)
  <2>1. w = [i \in 1 .. Width |-> IF i <= Width - c + 1 THEN m.bits[i]
                                  ELSE e[i - (Width - c + 1)]]
    <3>1. Width - n.clock = Width - c + 1
      BY <1>0, <1>1
    <3> QED BY <3>1 DEF Whole, e
  <2>2. \A i \in 1 .. Width : i > Width - c + 1 =>
          e[i - (Width - c + 1)] = d[i - (Width - c)]
    BY <1>0, <1>1, <1>2
  <2>3. w = [i \in 1 .. Width |-> IF i <= Width - c THEN b[i] ELSE d[i - (Width - c)]]
    <3>1. \A i \in 1 .. Width :
            (IF i <= Width - c + 1 THEN m.bits[i] ELSE e[i - (Width - c + 1)])
              = (IF i <= Width - c THEN b[i] ELSE d[i - (Width - c)])
      <4> TAKE i \in 1 .. Width
      <4>1. CASE i <= Width - c
        BY <1>0, <1>1, <1>3, <4>1
      <4>2. CASE i = Width - c + 1
        <5>1. i - (Width - c) = 1 /\ ~(i <= Width - c) /\ i <= Width - c + 1
          BY <1>0, <1>1, <4>2
        <5> QED BY <1>3, <4>2, <5>1
      <4>3. CASE i > Width - c + 1
        BY <1>0, <1>1, <2>2, <4>3
      <4>4. i <= Width - c \/ i = Width - c + 1 \/ i > Width - c + 1
        BY <1>0, <1>1
      <4> QED BY <4>1, <4>2, <4>3, <4>4
    <3> QED BY <2>1, <3>1
  <2>4. CASE c # Width
    <3>1. v = [i \in 1 .. Width |-> IF i <= Width - c THEN b[i] ELSE d[i - (Width - c)]]
      BY <1>5, <2>4 DEF Whole, b
    <3> QED BY <1>5, <2>3, <2>4, <3>1
  <2>5. CASE c = Width
    <3>1. w = [i \in 1 .. Width |-> d[i]]
      BY <1>0, <2>3, <2>5
    <3> QED BY <1>1, <1>4, <2>5, <3>1 DEF Byte
  <2> QED BY <2>4, <2>5
<1> QED BY <1>6 DEF d

\* The last bit makes the byte that was in transfer.
LEMMA LastBit ==
  ASSUME NEW k, Sound(k), k.state = "ready", k.clock = 1, NEW h, h.bits \in Seq({0, 1}),
         Len(h.bits) = Width - 1
  PROVE  Append(h.bits, Started(k).din[1]) = Whole(k, h)
<1> DEFINE d == k.din
           b == h.bits
           a == Append(b, d[1])
<1>0. Width \in Nat /\ Width > 1
  BY DongleConstants
<1>1. Started(k) = k
  BY <1>0 DEF Started
<1>2. d \in Byte /\ d[1] \in {0, 1}
  BY <1>0 DEF Sound, Dongle, Byte
<1>3. /\ a \in Seq({0, 1}) /\ Len(a) = Width /\ a[Width] = d[1]
      /\ \A i \in 1 .. Width - 1 : a[i] = b[i]
  BY <1>0, <1>2
<1>4. Whole(k, h) = [i \in 1 .. Width |-> IF i <= Width - 1 THEN b[i] ELSE d[i - (Width - 1)]]
  BY <1>0 DEF Whole
<1> HIDE DEF a, b, d
<1>5. a = [i \in 1 .. Width |-> a[i]]
  BY <1>0, <1>3
<1>6. \A i \in 1 .. Width : a[i] = IF i <= Width - 1 THEN b[i] ELSE d[i - (Width - 1)]
  <2> TAKE i \in 1 .. Width
  <2>1. CASE i = Width
    BY <1>0, <1>3, <2>1
  <2>2. CASE i # Width
    BY <1>0, <1>3, <2>2
  <2> QED BY <2>1, <2>2
<1> QED BY <1>1, <1>4, <1>5, <1>6 DEF a, b, d

\* What the program has heard depends on the byte in transfer only.
LEMMA SameTransfer ==
  ASSUME NEW k, NEW h, NEW n, AsBefore(n, k), Transfer(k, h), Together(n, BrokenNext(k, h))
  PROVE  Transfer(n, h) /\ Together(n, BrokenNext(n, h))
<1>1. (Within(n) <=> Within(k)) /\ Whole(n, h) = Whole(k, h)
  BY DEF AsBefore, Within, Whole
<1> QED BY <1>1 DEF AsBefore, Transfer, BrokenNext

\* Nothing but the byte's bits in transfer is left to come out of a dongle
\* that starts a byte: of a release it follows its Break.
LEMMA StartedByte ==
  ASSUME NEW k, Sound(k), k.state = "ready", k.clock = Width, NEW h, Transfer(k, h),
         Together(k, BrokenNext(k, h))
  PROVE  LET f == Started(k)
         IN /\ f.tag /\ f.din = Code => h.broken
            /\ Together(f, f.din = Break \/ (h.broken /\ f.din # Code))
<1> DEFINE f == Started(k)
           q == k.queue
           ByteSeq == Seq([byte : Byte, up : BOOLEAN])
<1>0. /\ Width \in Nat /\ Width > 1 /\ Empty # Code /\ Code[Width] = 1 /\ QueueSize \in Nat
      /\ Break # Code
  BY DongleConstants
<1>1. f = Fetch(k) /\ ~Within(k)
  BY DEF Started, Within
<1>2. k.din[Width] = 0 /\ k.din # Code
  BY <1>0, <1>1 DEF Transfer
<1>3. q \in ByteSeq
  BY DEF Sound, Dongle
<1>4. \/ f.queue = <<>> /\ f.din = Empty /\ f.tag = FALSE
      \/ f.queue = <<>> /\ f.din = k.din
      \/ /\ q # <<>> /\ k.in < QueueSize - 1 /\ f.din = q[1].byte /\ f.tag = q[1].up
         /\ f.queue = Tail(q)
  BY <1>1, FetchIs
<1> HIDE DEF f, q
<1>5. CASE f.queue = <<>> /\ f.din # Code
  BY <1>5 DEF Together, Releases, f
<1>6. CASE /\ q # <<>> /\ k.in < QueueSize - 1 /\ f.din = q[1].byte /\ f.tag = q[1].up
           /\ f.queue = Tail(q)
  <2> DEFINE t == Tail(q)
  <2>1. /\ \A i \in 1 .. Len(q) - 1 : Follows(q[i], q[i + 1])
        /\ q[1].up /\ q[1].byte # Break => h.broken
    BY <1>1, <1>6 DEF Together, Releases, BrokenNext, q
  <2>2. /\ Len(t) = Len(q) - 1 /\ Len(q) \in Nat
        /\ \A i \in 1 .. Len(t) : t[i] = q[i + 1]
        /\ t # <<>> => 1 \in 1 .. Len(q) - 1
    BY <1>3, <1>6
  <2> HIDE DEF t
  <2>3. ASSUME NEW i \in 1 .. Len(t) - 1
        PROVE  Follows(t[i], t[i + 1])
    <3>1. i \in 1 .. Len(t) /\ i + 1 \in 1 .. Len(t) /\ i + 1 \in 1 .. Len(q) - 1
      BY <2>2
    <3>2. t[i] = q[i + 1] /\ t[i + 1] = q[(i + 1) + 1]
      BY <2>2, <3>1
    <3> QED BY <2>1, <3>1, <3>2
  <2>4. ASSUME t # <<>>, t[1].up, t[1].byte # Break
        PROVE  f.din = Break \/ (h.broken /\ f.din # Code)
    <3>1. Follows(q[1], t[1])
      BY <2>1, <2>2, <2>4
    <3> QED BY <1>6, <2>1, <2>4, <3>1 DEF Follows
  <2>5. f.tag /\ f.din = Code => h.broken
    BY <1>0, <1>6, <2>1
  <2>6. Releases(t, f.din = Break \/ (h.broken /\ f.din # Code))
    BY <2>3, <2>4 DEF Releases
  <2> QED BY <1>6, <2>5, <2>6 DEF Together, t, f
<1> QED BY <1>0, <1>2, <1>4, <1>5, <1>6

\* A write of the pins keeps what the program hears right: no release without
\* its Break, whatever was in the queue.
LEMMA WriteHeard ==
  ASSUME Sound(kbd), DongleInv, heard \in Hearing,
         NEW curr, kbd' = Process(kbd, pins, curr), heard' = Decoded(curr, kbd')
  PROVE  /\ Sound(kbd)' /\ DongleInv'
         /\ heard' \in Hearing
<1> DEFINE k == kbd
           n == kbd'
           h == heard
           m == heard'
           f == Started(k)
<1>0. Width \in Nat /\ Width > 1 /\ Break # Code
  BY DongleConstants
<1>1. /\ k \in Dongle /\ k.clock \in 0 .. Width /\ Len(k.queue) <= k.in
  BY DEF Sound, Dongle
<1>2. Transfer(k, h) /\ Together(k, BrokenNext(k, h))
  BY DEF DongleInv
<1>3. CASE ~Talks(k, pins, curr)
  <2>1. m = h
    BY <1>3 DEF Decoded
  <2>2. CASE n = k
    BY <1>2, <2>1, <2>2 DEF DongleInv
  <2>3. CASE n # k
    <3>1. \/ k.state = "stop" /\ n = [k EXCEPT !.state = "start", !.on = TRUE]
          \/ k.state = "start" /\ n = [k EXCEPT !.state = "ready", !.clock = Width]
      BY <1>1, <1>3, <2>3 DEF Process, Talks, Dongle
    <3>2. ASSUME k.state = "stop", NEW x, x = [k EXCEPT !.state = "start", !.on = TRUE]
          PROVE  /\ x \in Dongle /\ x.queue = k.queue /\ x.in = k.in /\ x.din = k.din
                 /\ ~Within(x) /\ x.state # "ready"
      BY <1>1, <3>2 DEF Dongle, Within
    <3>3. ASSUME k.state = "start", NEW x, x = [k EXCEPT !.state = "ready", !.clock = Width]
          PROVE  /\ x \in Dongle /\ x.queue = k.queue /\ x.in = k.in /\ x.din = k.din
                 /\ ~Within(x) /\ x.clock > 0
      <4>1. Width \in 0 .. Width /\ "ready" \in {"stop", "start", "ready"}
        BY <1>0
      <4>2. [k EXCEPT !.state = "ready", !.clock = Width] \in Dongle
        BY <1>1, <4>1 DEF Dongle
      <4>3. x.queue = k.queue /\ x.in = k.in /\ x.din = k.din /\ x.clock = Width
        BY <1>1, <3>3 DEF Dongle
      <4> QED BY <1>0, <3>3, <4>2, <4>3 DEF Within
    <3>4. ~Within(k)
      BY <3>1 DEF Within
    <3>5. /\ n \in Dongle /\ n.queue = k.queue /\ n.in = k.in /\ n.din = k.din
          /\ ~Within(n) /\ (n.state = "ready" => n.clock > 0)
      BY <3>1, <3>2, <3>3
    <3> HIDE DEF n, k, m, h
    <3>6. Sound(n)
      BY <1>1, <3>5 DEF Sound
    <3>7. Transfer(n, m) /\ BrokenNext(n, m) = BrokenNext(k, h)
      BY <1>2, <2>1, <3>4, <3>5 DEF Transfer, BrokenNext
    <3>8. Together(n, BrokenNext(n, m))
      BY <1>2, <3>5, <3>7 DEF Together
    <3>9. m \in Hearing
      BY <2>1 DEF h
    <3> QED BY <3>6, <3>7, <3>8, <3>9 DEF DongleInv, n, m
  <2> QED BY <2>2, <2>3
<1>4. CASE Talks(k, pins, curr)
  <2>1. k.bypassed = 0 /\ k.state = "ready" /\ Fell(pins, curr)
    BY <1>4 DEF Talks
  <2>2. n = Clocked(k, curr)
    BY <2>1 DEF Process
  <2>3. /\ Sound(n) /\ Sound(f)
        /\ n.din = Shifted(f.din) /\ n.tag = f.tag /\ n.queue = f.queue /\ n.in = f.in
        /\ IF k.clock = 1 THEN ~Within(n) ELSE n.clock = k.clock - 1 /\ n.state = "ready"
    BY <2>1, <2>2, ClockedIs
  <2> DEFINE byte == Append(h.bits, Presented(k))
  <2>4. byte = Append(h.bits, f.din[1])
    BY DEF Presented, Started
  <2>5. k.clock \in 1 .. Width
    BY <1>1, <2>1 DEF Sound
  <2>6. /\ h.bits \in Seq({0, 1}) /\ f.din \in Byte /\ f.din[1] \in {0, 1}
        /\ byte \in Seq({0, 1}) /\ h.broken \in BOOLEAN /\ Len(byte) = Len(h.bits) + 1
    <3>1. h.bits \in Seq({0, 1}) /\ f.din \in Byte /\ f.din[1] \in {0, 1} /\ h.broken \in BOOLEAN
      BY <1>0, <2>3 DEF Sound, Dongle, Byte, Hearing
    <3> QED BY <2>4, <3>1
  <2>7. m = IF Within(n) THEN [h EXCEPT !.bits = byte]
            ELSE [bits |-> <<>>, broken |-> byte = Break \/ (h.broken /\ byte # Code),
                  false |-> byte = Code /\ n.tag /\ ~h.broken]
    BY <1>4 DEF Decoded, Within
  <2>8. Len(h.bits) = IF Within(k) THEN Width - k.clock ELSE 0
    BY <1>2 DEF Transfer
  <2>9. Within(k) <=> k.clock # Width
    BY <2>1 DEF Within
  <2>10. CASE k.clock = 1
    <3>1. byte = Whole(k, h)
      <4>1. Len(h.bits) = Width - 1
        BY <1>0, <2>8, <2>9, <2>10
      <4>2. Append(h.bits, f.din[1]) = Whole(k, h)
        BY <2>1, <2>6, <2>10, <4>1, LastBit
      <4> QED BY <2>4, <4>2
    <3>2. Within(k) /\ ~Within(n) /\ f = k
      BY <1>0, <2>3, <2>9, <2>10 DEF Started
    <3> HIDE DEF byte, f, k, h
    <3>3. /\ m = [bits |-> <<>>, broken |-> byte = Break \/ (h.broken /\ byte # Code),
                  false |-> byte = Code /\ n.tag /\ ~h.broken]
      BY <2>7, <3>2
    <3>4. m.false = FALSE /\ m.bits = <<>> /\ m.broken = BrokenNext(k, h)
      <4>1. m.false = (byte = Code /\ n.tag /\ ~h.broken) /\ m.bits = <<>>
            /\ m.broken = (byte = Break \/ (h.broken /\ byte # Code))
        BY <3>3
      <4>2. m.broken = BrokenNext(k, h)
        BY <3>1, <3>2, <4>1 DEF BrokenNext
      <4>3. k.tag /\ byte = Code => h.broken
        BY <1>2, <3>1, <3>2 DEF Transfer
      <4>4. n.tag = k.tag
        BY <2>3, <3>2
      <4> HIDE DEF m, n
      <4> QED BY <4>1, <4>2, <4>3, <4>4
    <3>5. m \in Hearing
      BY <3>3 DEF Hearing
    <3>6. \A i \in 1 .. Width : n.din[i] = 0
      <4>1. \A i \in 1 .. Width : i > 1 => k.din[i] = 0
        BY <1>2, <2>10 DEF Transfer
      <4> QED BY <1>0, <2>3, <3>2, <4>1 DEF Shifted
    <3> HIDE DEF m, n
    <3>7. Transfer(n, m) /\ BrokenNext(n, m) = BrokenNext(k, h)
      BY <3>2, <3>4, <3>6 DEF Transfer, BrokenNext
    <3>8. Together(n, BrokenNext(n, m))
      BY <1>2, <2>3, <3>2, <3>7 DEF Together
    <3> QED BY <2>3, <3>5, <3>7, <3>8 DEF DongleInv, n, m
  <2>11. CASE k.clock # 1
    <3>1. /\ n.clock = k.clock - 1 /\ n.state = "ready" /\ Within(n)
      BY <1>0, <2>3, <2>5, <2>11 DEF Within
    <3>2. /\ m = [h EXCEPT !.bits = byte]
      BY <2>7, <3>1
    <3>3. m \in Hearing /\ m.bits = byte /\ m.broken = h.broken /\ m.false = h.false
      <4> HIDE DEF byte
      <4> QED BY <2>6, <3>2 DEF Hearing
    <3>4. Whole(n, m) = (IF Within(k) THEN Whole(k, h) ELSE f.din)
      <4> HIDE DEF byte, f, n, m, k, h
      <4>1. m.bits = Append(h.bits, f.din[1])
        BY <2>4, <3>3
      <4> QED BY <2>1, <2>3, <2>6, <2>8, <2>11, <3>1, <4>1, OneMoreBit DEF f, k
    <3>5. Len(m.bits) = Width - n.clock
      BY <1>0, <2>5, <2>6, <2>8, <2>9, <3>1, <3>3
    <3>6. \A i \in 1 .. Width : i > n.clock => n.din[i] = 0
      <4>1. \A i \in 1 .. Width : k.clock # Width /\ i > k.clock => f.din[i] = 0
        BY <1>2, <2>9 DEF Transfer, Started
      <4> QED BY <1>0, <2>3, <2>5, <3>1, <4>1 DEF Shifted
    <3> HIDE DEF byte, n, m, k, h
    <3>7. ~h.false
      BY <1>2 DEF Transfer
    <3>8. CASE k.clock = Width
      <4> HIDE DEF f
      <4>1. /\ f.tag /\ f.din = Code => h.broken
            /\ Together(f, f.din = Break \/ (h.broken /\ f.din # Code))
        BY <1>2, <2>1, <3>8, StartedByte DEF f, k
      <4>2. Whole(n, m) = f.din
        BY <2>9, <3>4, <3>8
      <4>3. Transfer(n, m)
        BY <2>3, <3>1, <3>3, <3>5, <3>6, <3>7, <4>1, <4>2 DEF Transfer
      <4>4. BrokenNext(n, m) = (f.din = Break \/ (h.broken /\ f.din # Code))
        BY <3>1, <3>3, <4>2 DEF BrokenNext
      <4>5. Together(n, BrokenNext(n, m))
        BY <2>3, <4>1, <4>4 DEF Together
      <4> QED BY <2>3, <3>3, <4>3, <4>5 DEF DongleInv, n, m
    <3>9. CASE k.clock # Width
      <4>1. f = k /\ Within(k) /\ Whole(n, m) = Whole(k, h)
        BY <2>9, <3>4, <3>9 DEF Started
      <4> HIDE DEF f
      <4>2. Transfer(n, m)
        BY <1>2, <2>3, <3>1, <3>3, <3>5, <3>6, <3>7, <4>1 DEF Transfer
      <4>3. BrokenNext(n, m) = BrokenNext(k, h)
        BY <3>1, <3>3, <4>1 DEF BrokenNext
      <4>4. Together(n, BrokenNext(n, m))
        BY <1>2, <2>3, <4>1, <4>3 DEF Together
      <4> QED BY <2>3, <3>3, <4>2, <4>4 DEF DongleInv, n, m
    <3> QED BY <3>8, <3>9
  <2> QED BY <2>10, <2>11
<1> QED BY <1>3, <1>4
-----------------------------------------------------------------------------
(* The controllers. *)

\* Single buttons are set, of one player.
LEMMA SingleSet ==
  ASSUME NEW c \in PadSet, NEW p \in Player, NEW b \in Button, NEW up \in BOOLEAN
  PROVE  LET s == SetSingle(c, p, b, ~up)
         IN /\ s \in PadSet /\ s.latch = c.latch
            /\ up => s.pressed[p] = c.pressed[p] \ {b}
            /\ ~up => s.pressed[p] = c.pressed[p] \union {b}
            /\ \A q \in Player : q # p => s.pressed[q] = c.pressed[q]
<1> DEFINE v == IF up THEN c.pressed[p] \ {b} ELSE c.pressed[p] \union {b}
           w == [c.pressed EXCEPT ![p] = v]
<1>1. c.pressed \in [Player -> SUBSET Button] /\ c.latch \in [Player -> Latches]
  BY DEF PadSet
<1>2. v \in SUBSET Button
  BY <1>1
<1> HIDE DEF v
<1>3. w \in [Player -> SUBSET Button] /\ w[p] = v /\ \A q \in Player : q # p => w[q] = c.pressed[q]
  BY <1>1, <1>2
<1>4. SetSingle(c, p, b, ~up) = [c EXCEPT !.pressed = w]
  BY DEF SetSingle, PadSet, v
<1> HIDE DEF w
<1>5. [c EXCEPT !.pressed = w] \in PadSet /\ [c EXCEPT !.pressed = w].latch = c.latch
      /\ [c EXCEPT !.pressed = w].pressed = w
  BY <1>3 DEF PadSet
<1> QED BY <1>3, <1>4, <1>5 DEF v

\* The end of an event sets the directions of the ports that are served.
LEMMA DirectionsSet ==
  ASSUME NEW c \in PadSet, NEW g \in Inputs, NEW k, NEW m
  PROVE  LET s == Directed(c, g, k, m)
         IN /\ s \in PadSet /\ s.latch = c.latch
            /\ \A p \in Player :
                 /\ p \in Served(k, m) =>
                      s.pressed[p] = (c.pressed[p] \ Dir) \union g.dig[p] \union g.ana[p]
                 /\ p \notin Served(k, m) => s.pressed[p] = c.pressed[p]
<1> DEFINE w == [p \in Player |->
                  IF p \in Served(k, m) THEN (c.pressed[p] \ Dir) \union g.dig[p] \union g.ana[p]
                  ELSE c.pressed[p]]
<1>1. c.pressed \in [Player -> SUBSET Button] /\ c.latch \in [Player -> Latches]
  BY DEF PadSet
<1>2. g.dig \in [Player -> SUBSET Dir] /\ g.ana \in [Player -> SUBSET Dir] /\ Dir \subseteq Button
  BY DEF Inputs, Button
<1>3. w \in [Player -> SUBSET Button]
  BY <1>1, <1>2
<1>4. Directed(c, g, k, m) = [c EXCEPT !.pressed = w]
  BY <1>1 DEF Directed, PadSet
<1>5. \A p \in Player :
        /\ p \in Served(k, m) => w[p] = (c.pressed[p] \ Dir) \union g.dig[p] \union g.ana[p]
        /\ p \notin Served(k, m) => w[p] = c.pressed[p]
  OBVIOUS
<1> HIDE DEF w
<1>6. [c EXCEPT !.pressed = w] \in PadSet /\ [c EXCEPT !.pressed = w].latch = c.latch
      /\ [c EXCEPT !.pressed = w].pressed = w
  BY <1>3 DEF PadSet
<1> QED BY <1>4, <1>5, <1>6

\* Filtering takes one of two opposite directions away, nothing else.
LEMMA FilteredIs ==
  ASSUME NEW set \in SUBSET Button
  PROVE  /\ Filtered(set) \subseteq set
         /\ \A b \in set \ Filtered(set) : b \in Dir /\ Opposite[b] \in set
         /\ \A b \in Filtered(set) \cap Dir : Opposite[b] \notin Filtered(set)
BY DEF Filtered, Opposite, Dir

\* The latches of both controllers after a write.
LEMMA LatchesAfter ==
  ASSUME NEW c \in PadSet, NEW rise, NEW k, NEW m,
         rise = {"clock"} => \A p \in Player : c.latch[p].n < Clocks
  PROVE  LET s == Clocking(c, rise, k, m)
         IN /\ s \in PadSet /\ s.pressed = c.pressed
            /\ \A p \in Player : p \in Served(k, m) =>
                 /\ rise = {"latch"} =>
                      s.latch[p].set = Filtered(c.pressed[p]) /\ s.latch[p].n = 0
                 /\ rise = {"clock"} => /\ s.latch[p].set = c.latch[p].set
                                        /\ s.latch[p].n = c.latch[p].n + 1
                 /\ rise = {} => s.latch[p] = c.latch[p]
<1> DEFINE Latched(p) == CASE p \notin Served(k, m) -> c.latch[p]
                        [] p \in Served(k, m) /\ rise = {"latch"} ->
                             [set |-> Filtered(c.pressed[p]), n |-> 0]
                        [] p \in Served(k, m) /\ rise = {"clock"} ->
                             [c.latch[p] EXCEPT !.n = @ + 1]
                        [] OTHER -> c.latch[p]
           w == [p \in Player |-> Latched(p)]
<1>0. Clocks \in Nat /\ {"latch"} # {"clock"} /\ {"latch"} # {} /\ {"clock"} # {}
  BY InputAssumption
<1>1. c.pressed \in [Player -> SUBSET Button] /\ c.latch \in [Player -> Latches]
  BY DEF PadSet
<1>2. ASSUME NEW p \in Player
      PROVE  /\ Latched(p) \in Latches
             /\ p \in Served(k, m) =>
                  /\ rise = {"latch"} => Latched(p) = [set |-> Filtered(c.pressed[p]), n |-> 0]
                  /\ rise = {"clock"} => Latched(p) = [c.latch[p] EXCEPT !.n = @ + 1]
                  /\ rise = {} => Latched(p) = c.latch[p]
  <2>1. c.latch[p] \in Latches /\ c.pressed[p] \in SUBSET Button
    BY <1>1
  <2>2. Filtered(c.pressed[p]) \subseteq Button
    BY <2>1, FilteredIs
  <2>3. [set |-> Filtered(c.pressed[p]), n |-> 0] \in Latches
    BY <1>0, <2>2 DEF Latches
  <2>4. rise = {"clock"} => [c.latch[p] EXCEPT !.n = @ + 1] \in Latches
    BY <1>0, <2>1 DEF Latches
  <2>5. CASE p \notin Served(k, m)
    BY <2>1, <2>5
  <2>6. CASE p \in Served(k, m) /\ rise = {"latch"}
    BY <1>0, <2>3, <2>6
  <2>7. CASE p \in Served(k, m) /\ rise = {"clock"}
    BY <1>0, <2>4, <2>7
  <2>8. CASE p \in Served(k, m) /\ rise # {"latch"} /\ rise # {"clock"}
    BY <1>0, <2>1, <2>8
  <2> QED BY <2>5, <2>6, <2>7, <2>8
<1>3. Clocking(c, rise, k, m) = [c EXCEPT !.latch = w]
  BY DEF Clocking, PadSet
<1> HIDE DEF Latched
<1>4. w \in [Player -> Latches] /\ \A p \in Player : w[p] = Latched(p)
  BY <1>2
<1> HIDE DEF w
<1>5. [c EXCEPT !.latch = w] \in PadSet /\ [c EXCEPT !.latch = w].latch = w
      /\ [c EXCEPT !.latch = w].pressed = c.pressed
  BY <1>4 DEF PadSet
<1>6. ASSUME NEW p \in Player, p \in Served(k, m)
      PROVE  /\ rise = {"latch"} =>
                  w[p].set = Filtered(c.pressed[p]) /\ w[p].n = 0
             /\ rise = {"clock"} => w[p].set = c.latch[p].set /\ w[p].n = c.latch[p].n + 1
             /\ rise = {} => w[p] = c.latch[p]
  <2>1. c.latch[p] \in Latches
    BY <1>1
  <2>2. [c.latch[p] EXCEPT !.n = @ + 1].set = c.latch[p].set
        /\ [c.latch[p] EXCEPT !.n = @ + 1].n = c.latch[p].n + 1
    BY <2>1 DEF Latches
  <2>3. w[p] = Latched(p) /\ p \in Player /\ p \in Served(k, m)
    BY <1>4, <1>6
  <2>4. ASSUME rise = {"latch"}
        PROVE  w[p].set = Filtered(c.pressed[p]) /\ w[p].n = 0
    <3>1. w[p] = [set |-> Filtered(c.pressed[p]), n |-> 0]
      BY <1>2, <2>3, <2>4
    <3> QED BY <3>1
  <2>5. ASSUME rise = {"clock"}
        PROVE  w[p].set = c.latch[p].set /\ w[p].n = c.latch[p].n + 1
    <3>1. w[p] = [c.latch[p] EXCEPT !.n = @ + 1]
      BY <1>2, <2>3, <2>5
    <3> QED BY <2>2, <3>1
  <2>6. rise = {} => w[p] = c.latch[p]
    BY <1>2, <2>3
  <2> QED BY <2>4, <2>5, <2>6
<1> QED BY <1>3, <1>5, <1>6

\* One pin less or more: what has risen.
LEMMA OnePin ==
  ASSUME NEW a \in SUBSET {"latch", "clock"}, NEW b \in SUBSET {"latch", "clock"}, b # a
  PROVE  /\ b = a \union {"latch"} => b \ a = {"latch"} /\ ("clock" \in b <=> "clock" \in a)
         /\ b = a \union {"clock"} => b \ a = {"clock"} /\ "clock" \in b /\ "clock" \notin a
         /\ b = a \ {"clock"} => b \ a = {} /\ "clock" \notin b /\ "clock" \in a
         /\ b = a \ {"latch"} => b \ a = {} /\ ("clock" \in b <=> "clock" \in a)
OBVIOUS

\* The n-th bit that comes out of a latch.
LatchBit(set, n) == Bit([set |-> set, n |-> n])

\* What the program has read of a port goes with the latch of the port over a
\* write of the pins.
LEMMA WriteRead ==
  ASSUME Typed, LatchInv, NEW curr \in Pins, curr # pins, NEW d \in Data(pads, kbd.on, mouse.on),
         "clock" \in curr \ pins => \A p \in Player : pads.latch[p].n < Clocks,
         pads' = Clocking(pads, curr \ pins, kbd.on, mouse.on), pins' = curr,
         read' = [p \in Player |-> Reading(p, curr, d[p])]
  PROVE  /\ pads' \in PadSet /\ pads'.pressed = pads.pressed
         /\ pins' \in SUBSET {"latch", "clock"} /\ read' \in [Player -> Reads] /\ LatchInv'
<1> DEFINE rise == curr \ pins
<1>0. Clocks \in 1 .. 31 /\ curr \in SUBSET {"latch", "clock"}
  BY InputAssumption
<1>1. pads \in PadSet /\ pins \in SUBSET {"latch", "clock"} /\ read \in [Player -> Reads]
  BY DEF Typed
<1>2. /\ pads' \in PadSet /\ pads'.pressed = pads.pressed
      /\ \A p \in Player : p \in Served(kbd.on, mouse.on) =>
           /\ rise = {"latch"} =>
                pads'.latch[p].set = Filtered(pads.pressed[p]) /\ pads'.latch[p].n = 0
           /\ rise = {"clock"} => /\ pads'.latch[p].set = pads.latch[p].set
                                  /\ pads'.latch[p].n = pads.latch[p].n + 1
           /\ rise = {} => pads'.latch[p] = pads.latch[p]
  <2>1. rise = {"clock"} => "clock" \in rise
    OBVIOUS
  <2> HIDE DEF rise
  <2>2. rise = {"clock"} => \A p \in Player : pads.latch[p].n < Clocks
    BY <2>1 DEF rise
  <2> QED BY <1>1, <2>2, LatchesAfter DEF rise
<1>7. /\ curr = pins \union {"latch"} => rise = {"latch"} /\ ("clock" \in curr <=> "clock" \in pins)
      /\ curr = pins \union {"clock"} => rise = {"clock"} /\ "clock" \in curr /\ "clock" \notin pins
      /\ curr = pins \ {"clock"} => rise = {} /\ "clock" \notin curr /\ "clock" \in pins
      /\ curr = pins \ {"latch"} => rise = {} /\ ("clock" \in curr <=> "clock" \in pins)
  BY <1>0, <1>1, OnePin
<1> HIDE DEF rise
<1>3. ASSUME NEW p \in Player
      PROVE  /\ Reading(p, curr, d[p]) \in Reads
             /\ Shows(pads'.latch[p], Reading(p, curr, d[p]), "clock" \in curr)
  <2> DEFINE r == read[p]
             l == pads.latch[p]
             x == pads'.latch[p]
             one == Cardinality((pins \ curr) \union (curr \ pins)) = 1
             here == p \in Served(kbd.on, mouse.on) /\ one
             n == Reading(p, curr, d[p])
  <2>1. /\ r \in Reads /\ l \in Latches /\ x \in Latches /\ pads.pressed[p] \in SUBSET Button
    BY <1>1, <1>2 DEF PadSet
  <2>2. Shows(l, r, "clock" \in pins)
    BY DEF LatchInv
  <2>3. \/ /\ here /\ curr = pins \union {"latch"} /\ "clock" \in curr
           /\ n = [took |-> pads.pressed[p], bits |-> <<>>, valid |-> TRUE]
        \/ /\ here /\ curr = pins \ {"clock"} /\ r.valid
           /\ n = [r EXCEPT !.bits = Append(r.bits, d[p])]
        \/ /\ here /\ r.valid /\ curr \in {pins \ {"latch"}, pins \union {"clock"}} /\ n = r
        \/ n = Unread
    <3>1. n = CASE here /\ curr = pins \union {"latch"} /\ "clock" \in curr ->
                     [took |-> pads.pressed[p], bits |-> <<>>, valid |-> TRUE]
                [] here /\ curr = pins \ {"clock"} /\ r.valid ->
                     [r EXCEPT !.bits = Append(r.bits, d[p])]
                [] here /\ r.valid /\ curr \in {pins \ {"latch"}, pins \union {"clock"}} -> r
                [] OTHER -> Unread
      BY <2>1 DEF Reading, Reads
    <3> HIDE DEF n, here, r
    <3> QED BY <3>1
  <2> HIDE DEF n, one
  <2>4. CASE /\ here /\ curr = pins \union {"latch"} /\ "clock" \in curr
             /\ n = [took |-> pads.pressed[p], bits |-> <<>>, valid |-> TRUE]
    <3>1. x.set = Filtered(pads.pressed[p]) /\ x.n = 0
      BY <1>2, <1>7, <2>4
    <3>2. n \in Reads /\ n.took = pads.pressed[p] /\ n.bits = <<>>
      BY <2>1, <2>4 DEF Reads
    <3>3. Len(n.bits) = 0 /\ 1 .. 0 = {}
      BY <3>2
    <3>4. Shows(x, n, "clock" \in curr)
      <4> HIDE DEF x
      <4> QED BY <2>4, <3>1, <3>2, <3>3 DEF Shows
    <3> QED BY <3>2, <3>4 DEF n
  <2>5. CASE /\ here /\ curr = pins \ {"clock"} /\ r.valid
             /\ n = [r EXCEPT !.bits = Append(r.bits, d[p])]
    <3>1. x = l /\ "clock" \notin curr /\ "clock" \in pins
      BY <1>2, <1>7, <2>5
    <3>2. d[p] = Bit(l) /\ Bit(l) \in {0, 1}
      BY <2>5 DEF Data, Served, Bit, Player
    <3>3. /\ l.set = Filtered(r.took) /\ Len(r.bits) = l.n /\ l.n \in Nat
          /\ \A i \in 1 .. Len(r.bits) : r.bits[i] = LatchBit(l.set, i - 1)
      BY <1>0, <2>1, <2>2, <2>5, <3>1 DEF Shows, LatchBit, Latches
    <3>4. r.bits \in Seq({0, 1})
      BY <2>1 DEF Reads
    <3>5. n \in Reads /\ n.bits = Append(r.bits, d[p]) /\ n.took = r.took
      <4> DEFINE b == Append(r.bits, d[p])
      <4>1. b \in Seq({0, 1})
        BY <3>2, <3>4
      <4> HIDE DEF b, r
      <4>2. n = [r EXCEPT !.bits = b]
        BY <2>5 DEF b
      <4> QED BY <2>1, <4>1, <4>2 DEF Reads, b
    <3>6. Bit(l) = LatchBit(l.set, l.n)
      BY <2>1 DEF Bit, LatchBit, Latches
    <3>7. /\ Len(n.bits) = l.n + 1
          /\ \A i \in 1 .. Len(n.bits) : n.bits[i] = LatchBit(l.set, i - 1)
      <4>1. /\ Len(n.bits) = Len(r.bits) + 1 /\ n.bits[Len(r.bits) + 1] = d[p]
            /\ \A i \in 1 .. Len(r.bits) : n.bits[i] = r.bits[i]
        BY <3>2, <3>4, <3>5
      <4> HIDE DEF r, l
      <4> QED BY <3>2, <3>3, <3>6, <4>1
    <3> QED BY <3>1, <3>3, <3>5, <3>7 DEF Shows, LatchBit, n
  <2>6. CASE here /\ r.valid /\ curr \in {pins \ {"latch"}, pins \union {"clock"}} /\ n = r
    <3>1. CASE curr = pins \ {"latch"}
      <4>1. x = l /\ ("clock" \in curr <=> "clock" \in pins)
        BY <1>2, <1>7, <2>6, <3>1
      <4> QED BY <2>1, <2>2, <2>6, <4>1 DEF Shows, n
    <3>2. CASE curr = pins \union {"clock"}
      <4>1. x.set = l.set /\ x.n = l.n + 1 /\ "clock" \in curr /\ "clock" \notin pins
        BY <1>2, <1>7, <2>6, <3>2
      <4>2. l.n \in Nat
        BY <1>0, <2>1 DEF Latches
      <4>3. /\ l.set = Filtered(r.took) /\ Len(r.bits) = l.n + 1
            /\ \A i \in 1 .. Len(r.bits) : r.bits[i] = Bit([set |-> l.set, n |-> i - 1])
        BY <2>2, <2>6, <4>1 DEF Shows
      <4>4. Len(n.bits) = x.n + 0 /\ x.set = Filtered(n.took)
        BY <2>6, <4>1, <4>2, <4>3
      <4>5. Shows(x, n, "clock" \in curr)
        <5> HIDE DEF x, l, r
        <5> QED BY <2>6, <4>1, <4>3, <4>4 DEF Shows
      <4> QED BY <2>1, <2>6, <4>5 DEF n
    <3> QED BY <2>6, <3>1, <3>2
  <2>7. CASE n = Unread
    <3>1. n \in Reads /\ ~n.valid
      BY <2>7 DEF Unread, Reads
    <3> QED BY <3>1 DEF Shows, n
  <2> QED BY <2>3, <2>4, <2>5, <2>6, <2>7
<1>4. read' \in [Player -> Reads] /\ \A p \in Player : read'[p] = Reading(p, curr, d[p])
  BY <1>3
<1>5. LatchInv'
  BY <1>3, <1>4 DEF LatchInv
<1> QED BY <1>0, <1>2, <1>4, <1>5

\* What was read of a latch are its buttons.
LEMMA ReadsFollow == Typed /\ LatchInv => ReadsTheLatch
<1> SUFFICES ASSUME Typed, LatchInv, NEW p \in Player, read[p].valid
             PROVE  LET r == read[p]
                        at == DOMAIN Order \cap DOMAIN r.bits
                        seen == {Order[n] : n \in {i \in at : r.bits[i] = 0}}
                        passed == {Order[n] : n \in at}
                    IN /\ seen \subseteq r.took
                       /\ \A b \in (r.took \cap passed) \ seen :
                            b \in Dir /\ Opposite[b] \in r.took
                       /\ \A b \in seen \cap Dir : Opposite[b] \notin seen
  BY DEF ReadsTheLatch
<1> DEFINE r == read[p]
           f == Filtered(r.took)
           at == DOMAIN Order \cap DOMAIN r.bits
           seen == {Order[n] : n \in {i \in at : r.bits[i] = 0}}
           passed == {Order[n] : n \in at}
<1>1. r \in Reads /\ pads.latch[p].set = f
      /\ \A i \in 1 .. Len(r.bits) : r.bits[i] = Bit([set |-> f, n |-> i - 1])
  <2>1. r \in Reads
    BY DEF Typed
  <2> QED BY <2>1 DEF LatchInv, Shows
<1>2. r.took \in SUBSET Button /\ r.bits \in Seq({0, 1})
  BY <1>1 DEF Reads
<1>3. /\ Order \in Seq(Button) /\ Len(Order) <= 32 /\ Len(Order) \in Nat
  BY OrderAssumption
<1>4. /\ DOMAIN r.bits = 1 .. Len(r.bits) /\ DOMAIN Order = 1 .. Len(Order)
  BY <1>2, <1>3
<1>5. ASSUME NEW i \in at
      PROVE  r.bits[i] = 0 <=> Order[i] \in f
  <2> DEFINE l == [set |-> f, n |-> i - 1]
  <2>1. /\ i \in 1 .. Len(r.bits) /\ i \in 1 .. Len(Order) /\ i \in Nat /\ i <= 32
    BY <1>3, <1>4
  <2>2. l.set = f /\ l.n = i - 1 /\ ~(l.n >= 32) /\ l.n < Len(Order) /\ l.n + 1 = i
    BY <1>3, <2>1
  <2>3. r.bits[i] = Bit(l)
    BY <1>1, <2>1
  <2> HIDE DEF l, f
  <2>4. Bit(l) = IF Order[i] \in f THEN 0 ELSE 1
    BY <2>2 DEF Bit
  <2> QED BY <2>3, <2>4
<1>6. /\ f \subseteq r.took
      /\ \A b \in r.took \ f : b \in Dir /\ Opposite[b] \in r.took
      /\ \A b \in f \cap Dir : Opposite[b] \notin f
  BY <1>2, FilteredIs
<1> HIDE DEF f
<1>7. seen \subseteq f /\ f \cap passed \subseteq seen
  BY <1>5
<1> HIDE DEF seen, passed
<1>8. seen \subseteq r.took
  BY <1>6, <1>7
<1>9. \A b \in (r.took \cap passed) \ seen : b \in Dir /\ Opposite[b] \in r.took
  BY <1>6, <1>7
<1>10. \A b \in seen \cap Dir : Opposite[b] \notin seen
  BY <1>6, <1>7
<1> QED BY <1>8, <1>9, <1>10 DEF seen, passed

-----------------------------------------------------------------------------
(* Events. *)

\* Keys and buttons of game controllers are mapped to buttons that are not
\* directions, axes to directions.
LEMMA Mapped ==
  /\ \A u \in BOOLEAN : \A key \in DOMAIN KeyMap(u) :
       KeyMap(u)[key] \in Button /\ KeyMap(u)[key] \notin Dir
  /\ \A b \in DOMAIN PadMap : PadMap[b] \in Button /\ PadMap[b] \notin Dir
  /\ \A u \in BOOLEAN : Dir \cap DOMAIN KeyMap(u) = {}
  /\ Dir \cap DOMAIN PadMap = {}
  /\ \A axis \in {"X", "Y"}, n \in {1, 2} : Axis[axis][n] \in Dir
<1>1. \A u \in BOOLEAN : \A key \in DOMAIN KeyMap(u) :
        KeyMap(u)[key] \in Button /\ KeyMap(u)[key] \notin Dir
  BY DEF KeyMap, Button, Dir
<1>2. \A b \in DOMAIN PadMap : PadMap[b] \in Button /\ PadMap[b] \notin Dir
  BY DEF PadMap, Button, Dir
<1>3. \A u \in BOOLEAN : Dir \cap DOMAIN KeyMap(u) = {}
  BY DEF KeyMap, Dir
<1>4. Dir \cap DOMAIN PadMap = {}
  BY DEF PadMap, Dir
<1>5. \A axis \in {"X", "Y"}, n \in {1, 2} : Axis[axis][n] \in Dir
  BY DEF Axis, Dir
<1> QED BY <1>1, <1>2, <1>3, <1>4, <1>5

\* Players are players.
LEMMA Players ==
  ASSUME NEW pad \in Attached
  PROVE  KeyPlayer(gi) \in Player /\ PlayerOf(pad) \in Player
BY InputAssumption DEF KeyPlayer, PlayerOf, Player

\* A direction set or cleared.
LEMMA DigSet ==
  ASSUME NEW g \in Inputs, NEW p \in Player, NEW d \in Dir, NEW up \in BOOLEAN
  PROVE  LET s == SetDig(g, p, d, ~up)
         IN /\ s \in Inputs /\ s.ana = g.ana /\ s.uzem = g.uzem /\ s.palloc = g.palloc
            /\ s.p2keys = g.p2keys
            /\ up => s.dig[p] = g.dig[p] \ {d}
            /\ ~up => s.dig[p] = g.dig[p] \union {d}
            /\ \A q \in Player : q # p => s.dig[q] = g.dig[q]
<1> DEFINE v == IF up THEN g.dig[p] \ {d} ELSE g.dig[p] \union {d}
           w == [g.dig EXCEPT ![p] = v]
           s == [g EXCEPT !.dig = w]
<1>1. g.dig \in [Player -> SUBSET Dir]
  BY DEF Inputs
<1>2. v \in SUBSET Dir
  BY <1>1
<1> HIDE DEF v
<1>3. w \in [Player -> SUBSET Dir] /\ w[p] = v /\ \A q \in Player : q # p => w[q] = g.dig[q]
  BY <1>1, <1>2
<1>4. SetDig(g, p, d, ~up) = s
  BY DEF SetDig, Inputs, v
<1> HIDE DEF w
<1>5. /\ s \in Inputs /\ s.ana = g.ana /\ s.uzem = g.uzem /\ s.palloc = g.palloc
      /\ s.p2keys = g.p2keys /\ s.dig = w
  BY <1>3 DEF Inputs
<1> QED BY <1>3, <1>4, <1>5 DEF v

\* The mouse keeps the bounds of its scale.
LEMMA MiceAdjusted == ASSUME NEW m, Mice(m) PROVE Mice(Adjusted(m))
<1>0. Scales \in Nat /\ Scales > 1
  BY InputAssumption
<1>1. m \in [on : BOOLEAN, scale : 0 .. Scales - 1] /\ m.on = (m.scale # 0)
  BY DEF Mice
<1>5. /\ [on |-> TRUE, scale |-> 1] \in [on : BOOLEAN, scale : 0 .. Scales - 1]
      /\ [on |-> FALSE, scale |-> 0] \in [on : BOOLEAN, scale : 0 .. Scales - 1]
  BY <1>0
<1>2. CASE m.scale + 1 = 1
  <2>1. Adjusted(m) = [on |-> TRUE, scale |-> 1]
    BY <1>0, <1>2 DEF Adjusted
  <2>2. Adjusted(m).on = TRUE /\ Adjusted(m).scale # 0
    BY <2>1
  <2>3. Adjusted(m).on = (Adjusted(m).scale # 0)
    BY <2>2, Zenon
  <2> QED BY <1>5, <2>1, <2>3 DEF Mice
<1>3. CASE m.scale + 1 # 1 /\ m.scale + 1 = Scales
  <2>1. Adjusted(m) = [on |-> FALSE, scale |-> 0]
    BY <1>3 DEF Adjusted
  <2>2. Adjusted(m).on = FALSE /\ Adjusted(m).scale = 0
    BY <2>1
  <2>3. Adjusted(m).on = (Adjusted(m).scale # 0)
    BY <2>2
  <2> QED BY <1>5, <2>1, <2>3 DEF Mice
<1>4. CASE m.scale + 1 # 1 /\ m.scale + 1 # Scales
  <2>1. Adjusted(m) = [m EXCEPT !.scale = m.scale + 1]
    BY <1>1, <1>4 DEF Adjusted
  <2> QED BY <1>0, <1>1, <1>4, <2>1 DEF Mice
<1> QED BY <1>2, <1>3, <1>4

\* The event that ends a bypass changes the bypass.
LEMMA UneatenIs ==
  ASSUME NEW k, Sound(k), NEW n,
         n = Uneaten(k) \/ n = [k EXCEPT !.bypassed = 0]
  PROVE  /\ Sound(n) /\ AsBefore(n, k) /\ n.on = k.on
         /\ \A broken : Together(k, broken) => Together(n, broken)
<1>1. k \in Dongle /\ Len(k.queue) <= k.in /\ (k.state = "ready" => k.clock > 0)
  BY DEF Sound
<1>2. ASSUME NEW x \in {0, 1, 255}, n = [k EXCEPT !.bypassed = x]
      PROVE  /\ n \in Dongle /\ AsBefore(n, k) /\ n.on = k.on /\ n.in = k.in
             /\ n.queue = k.queue
  <2>1. [k EXCEPT !.bypassed = x] \in Dongle
    BY <1>1 DEF Dongle
  <2> QED BY <1>1, <1>2, <2>1 DEF AsBefore, Dongle
<1>3. n = k \/ n = [k EXCEPT !.bypassed = 1] \/ n = [k EXCEPT !.bypassed = 0]
  BY DEF Uneaten
<1>4. /\ n \in Dongle /\ AsBefore(n, k) /\ n.on = k.on /\ n.in = k.in /\ n.queue = k.queue
  <2>1. CASE n = k
    BY <1>1, <2>1 DEF AsBefore
  <2>2. 0 \in {0, 1, 255} /\ 1 \in {0, 1, 255}
    OBVIOUS
  <2> HIDE DEF AsBefore
  <2> QED BY <1>2, <1>3, <2>1, <2>2
<1> QED BY <1>1, <1>4 DEF Sound, Together, AsBefore

\* What every event leaves behind.
LEMMA HandledKeeps ==
  ASSUME Typed, LatchInv, NEW c \in PadSet, c.latch = pads.latch, NEW g \in Inputs,
         NEW k, NEW m, NEW h, Handled(c, k, g, m, h)
  PROVE  /\ pads' \in PadSet /\ events' \in 0 .. Events /\ held' = h
         /\ pins' = pins /\ read' = read /\ heard' = heard /\ LatchInv'
<1>1. /\ events < Events /\ events' = events + 1 /\ pads' = Directed(c, g, k.on, m.on)
      /\ held' = h /\ pins' = pins /\ read' = read /\ heard' = heard
  BY DEF Handled
<1>2. pads' \in PadSet /\ pads'.latch = pads.latch
  BY <1>1, DirectionsSet
<1>3. Events \in Nat /\ events \in 0 .. Events
  BY InputAssumption DEF Typed
<1>4. LatchInv'
  BY <1>1, <1>2 DEF LatchInv
<1> QED BY <1>1, <1>2, <1>3, <1>4

\* A key that the dongle does not take.
LEMMA KeyedIs ==
  ASSUME Typed, NEW key, NEW up \in BOOLEAN
  PROVE  LET g == KeyedGi(key, up)
             c == KeyedPads(key, up)
         IN /\ g \in Inputs /\ g.ana = gi.ana /\ g.uzem = gi.uzem /\ g.palloc = gi.palloc
            /\ key \notin {"RALT", "LALT"} => g.p2keys = gi.p2keys
            /\ key \in Dir => g = SetDig(gi, KeyPlayer(gi), key, ~up)
            /\ key \notin Dir => g.dig = gi.dig
            /\ c \in PadSet /\ c.latch = pads.latch
<1>1. gi \in Inputs /\ pads \in PadSet /\ gi.uzem \in BOOLEAN
  BY DEF Typed, Inputs
<1>2. KeyPlayer(gi) \in Player
  BY DEF KeyPlayer, Player
<1>6. KeyedPads(key, up) \in PadSet /\ KeyedPads(key, up).latch = pads.latch
  <2>1. CASE key \in DOMAIN KeyMap(gi.uzem)
    <3>1. KeyMap(gi.uzem)[key] \in Button
      BY <1>1, <2>1, Mapped
    <3>2. KeyedPads(key, up) = SetSingle(pads, KeyPlayer(gi), KeyMap(gi.uzem)[key], ~up)
      BY <2>1 DEF KeyedPads
    <3> QED BY <1>1, <1>2, <3>1, <3>2, SingleSet
  <2>2. CASE key \notin DOMAIN KeyMap(gi.uzem)
    BY <1>1, <2>2 DEF KeyedPads
  <2> QED BY <2>1, <2>2
<1>3. CASE key \in {"RALT", "LALT"}
  <2> DEFINE v == IF up THEN gi.p2keys \ {key} ELSE gi.p2keys \union {key}
  <2>1. v \in SUBSET {"RALT", "LALT"}
    BY <1>1, <1>3 DEF Inputs
  <2>2. key \notin Dir
    BY <1>3 DEF Dir
  <2>3. KeyedGi(key, up) = [gi EXCEPT !.p2keys = v]
    BY <1>1, <1>3, <2>2 DEF KeyedGi, Inputs
  <2> HIDE DEF v
  <2>4. LET g == [gi EXCEPT !.p2keys = v]
        IN /\ g \in Inputs /\ g.ana = gi.ana /\ g.uzem = gi.uzem /\ g.palloc = gi.palloc
           /\ g.dig = gi.dig
    BY <1>1, <2>1 DEF Inputs
  <2> QED BY <1>3, <1>6, <2>2, <2>3, <2>4
<1>4. CASE key \notin {"RALT", "LALT"} /\ key \in Dir
  <2>1. KeyedGi(key, up) = SetDig(gi, KeyPlayer(gi), key, ~up)
    BY <1>4 DEF KeyedGi
  <2>3. LET g == SetDig(gi, KeyPlayer(gi), key, ~up)
        IN /\ g \in Inputs /\ g.ana = gi.ana /\ g.uzem = gi.uzem /\ g.palloc = gi.palloc
           /\ g.p2keys = gi.p2keys
    BY <1>1, <1>2, <1>4, DigSet
  <2> QED BY <1>4, <1>6, <2>1, <2>3
<1>5. CASE key \notin {"RALT", "LALT"} /\ key \notin Dir
  <2>1. KeyedGi(key, up) = gi
    BY <1>5 DEF KeyedGi
  <2> QED BY <1>1, <1>5, <1>6, <2>1
<1> QED BY <1>3, <1>4, <1>5, <1>6

\* A key keeps the types, what the dongle has to say and what the latches hold.
LEMMA KeyKeeps ==
  ASSUME Typed, DongleInv, LatchInv, NEW key, NEW up \in BOOLEAN, Key(key, up)
  PROVE  Typed' /\ DongleInv' /\ LatchInv'
<1> DEFINE k == IF kbd.on THEN HandleKey(kbd, key, up) ELSE kbd
           g == IF kbd.on THEN gi ELSE KeyedGi(key, up)
           c == IF kbd.on THEN pads ELSE KeyedPads(key, up)
           m == IF kbd.on /\ AdjustsMouse(kbd, key, up) THEN Adjusted(mouse) ELSE mouse
           h == IF up THEN held \ {<<"key", key>>} ELSE held \union {<<"key", key>>}
           seen == ~up /\ MainSees(k)
           broken == BrokenNext(kbd, heard)
<1>1. /\ Sound(kbd) /\ gi \in Inputs /\ pads \in PadSet /\ Mice(mouse)
      /\ exit \in BOOLEAN /\ clean \in BOOLEAN /\ read \in [Player -> Reads]
      /\ heard \in Hearing /\ pins \in SUBSET {"latch", "clock"}
  BY DEF Typed
<1>2. /\ Handled(c, k, g, m, h)
      /\ kbd' = IF seen /\ key = "F1" THEN [k EXCEPT !.bypassed = 0] ELSE Uneaten(k)
      /\ gi' = [g EXCEPT !.uzem = IF seen /\ key = "F8" THEN ~@ ELSE @,
                         !.palloc = IF seen /\ key = "F12" THEN ~@ ELSE @]
      /\ mouse' = IF seen /\ key = "F6" THEN Adjusted(m) ELSE m
      /\ exit' = (seen /\ key = "ESCAPE")
      /\ Cleaner(h)
  BY DEF Key
<1>3. Sound(k) /\ AsBefore(k, kbd) /\ Together(k, broken)
  <2>1. CASE kbd.on
    BY <1>1, <2>1, HandledKey DEF DongleInv
  <2>2. CASE ~kbd.on
    BY <1>1, <2>2 DEF AsBefore, DongleInv
  <2> QED BY <2>1, <2>2
<1>4. g \in Inputs /\ c \in PadSet /\ c.latch = pads.latch
  BY <1>1, KeyedIs
<1>5. Mice(m)
  BY <1>1, MiceAdjusted
<1> HIDE DEF k, g, c, m, h
<1>6. /\ pads' \in PadSet /\ events' \in 0 .. Events
      /\ pins' = pins /\ read' = read /\ heard' = heard /\ LatchInv'
  BY <1>2, <1>4, HandledKeeps
<1>7. kbd' = Uneaten(k) \/ kbd' = [k EXCEPT !.bypassed = 0]
  BY <1>2
<1>8. Sound(kbd') /\ AsBefore(kbd', k) /\ Together(kbd', broken)
  BY <1>3, <1>7, UneatenIs
<1>9. DongleInv'
  <2>1. AsBefore(kbd', kbd) /\ Transfer(kbd, heard)
    BY <1>3, <1>8 DEF AsBefore, DongleInv
  <2>2. Transfer(kbd', heard) /\ Together(kbd', BrokenNext(kbd', heard))
    BY <1>8, <2>1, SameTransfer
  <2> QED BY <1>6, <2>2 DEF DongleInv
<1>10. gi' \in Inputs
  <2> DEFINE a == IF seen /\ key = "F8" THEN ~g.uzem ELSE g.uzem
             b == IF seen /\ key = "F12" THEN ~g.palloc ELSE g.palloc
  <2>1. gi' = [g EXCEPT !.uzem = a, !.palloc = b]
    BY <1>2, <1>4 DEF Inputs
  <2>2. g.uzem \in BOOLEAN /\ g.palloc \in BOOLEAN
    BY <1>4 DEF Inputs
  <2>3. a \in BOOLEAN /\ b \in BOOLEAN
    BY <2>2
  <2> HIDE DEF a, b
  <2> QED BY <1>4, <2>1, <2>3 DEF Inputs
<1>11. Mice(mouse')
  BY <1>2, <1>5, MiceAdjusted
<1>12. exit' \in BOOLEAN /\ clean' \in BOOLEAN
  BY <1>2 DEF Cleaner
<1> QED BY <1>1, <1>6, <1>8, <1>9, <1>10, <1>11, <1>12 DEF Typed

\* So does a button of a game controller.
LEMMA PadButtonKeeps ==
  ASSUME Typed, DongleInv, LatchInv, NEW pad \in Attached, NEW b, NEW up \in BOOLEAN,
         PadButton(pad, b, up)
  PROVE  Typed' /\ DongleInv' /\ LatchInv'
<1> DEFINE p == PlayerOf(pad)
           h == IF up THEN held \ {<<"pad", pad, b>>} ELSE held \union {<<"pad", pad, b>>}
           g == IF Heeded(p) /\ b \in Dir THEN SetDig(gi, p, b, ~up) ELSE gi
           c == IF Heeded(p) /\ b \in DOMAIN PadMap THEN SetSingle(pads, p, PadMap[b], ~up)
                ELSE pads
<1>1. /\ Sound(kbd) /\ gi \in Inputs /\ pads \in PadSet /\ Mice(mouse)
      /\ exit \in BOOLEAN /\ clean \in BOOLEAN /\ read \in [Player -> Reads]
      /\ heard \in Hearing /\ pins \in SUBSET {"latch", "clock"}
  BY DEF Typed
<1>2. /\ Handled(c, kbd, g, mouse, h) /\ gi' = g /\ kbd' = Uneaten(kbd)
      /\ mouse' = mouse /\ exit' = exit /\ clean' = clean
  BY DEF PadButton
<1>3. p \in Player
  BY Players
<1> HIDE DEF p
<1>4. g \in Inputs
  BY <1>1, <1>3, DigSet
<1>5. c \in PadSet /\ c.latch = pads.latch
  <2> DEFINE s == SetSingle(pads, p, PadMap[b], ~up)
  <2>2. b \in DOMAIN PadMap => PadMap[b] \in Button
    BY Mapped
  <2>3. b \in DOMAIN PadMap => s \in PadSet /\ s.latch = pads.latch
    BY <1>1, <1>3, <2>2, SingleSet
  <2> QED BY <1>1, <2>3
<1> HIDE DEF g, c, h
<1>6. /\ pads' \in PadSet /\ events' \in 0 .. Events
      /\ pins' = pins /\ read' = read /\ heard' = heard /\ LatchInv'
  BY <1>2, <1>4, <1>5, HandledKeeps
<1>7. Sound(kbd') /\ DongleInv'
  BY <1>1, <1>2, <1>6, UneatenIs, SameTransfer DEF DongleInv
<1> QED BY <1>1, <1>2, <1>4, <1>6, <1>7 DEF Typed

\* Of an axis, its two directions change.
LEMMA Deflection ==
  ASSUME NEW set \in SUBSET Dir, NEW axis \in {"X", "Y"}, NEW to \in 0 .. 2
  PROVE  /\ Deflected(set, axis, to) \in SUBSET Dir
         /\ \A d \in Deflected(set, axis, to) :
              \/ d \in set /\ \A n \in {1, 2} : d # Axis[axis][n]
              \/ to # 0 /\ d = Axis[axis][to]
<1>1. to # 0 => to \in {1, 2}
  OBVIOUS
<1>2. to # 0 => Axis[axis][to] \in Dir
  BY <1>1, Mapped
<1> QED BY <1>2 DEF Deflected

\* Only those of the player change.
LEMMA MovedTyped ==
  ASSUME NEW g \in Inputs, NEW p \in Player, NEW axis \in {"X", "Y"}, NEW to \in 0 .. 2
  PROVE  [g EXCEPT !.ana[p] = Deflected(@, axis, to)] \in Inputs
<1> DEFINE w == [g.ana EXCEPT ![p] = Deflected(g.ana[p], axis, to)]
<1>1. g.ana \in [Player -> SUBSET Dir]
  BY DEF Inputs
<1>2. Deflected(g.ana[p], axis, to) \in SUBSET Dir
  BY <1>1, Deflection
<1>3. w \in [Player -> SUBSET Dir]
  BY <1>1, <1>2
<1>4. [g EXCEPT !.ana[p] = Deflected(@, axis, to)] = [g EXCEPT !.ana = w]
  BY <1>1 DEF Inputs
<1> HIDE DEF w
<1>5. [g EXCEPT !.ana = w] \in Inputs
  BY <1>3 DEF Inputs
<1> QED BY <1>4, <1>5

\* So does a motion of a stick.
LEMMA MotionKeeps ==
  ASSUME Typed, DongleInv, LatchInv, NEW pad \in Attached, NEW axis \in Axes,
         NEW to \in 0 .. 2, Motion(pad, axis, to)
  PROVE  Typed' /\ DongleInv' /\ LatchInv'
<1> DEFINE p == PlayerOf(pad)
           off == held \ {<<"axis", pad, axis, n>> : n \in {1, 2}}
           h == IF to = 0 THEN off ELSE off \union {<<"axis", pad, axis, to>>}
           g == IF Heeded(p) THEN [gi EXCEPT !.ana[p] = Deflected(@, axis, to)] ELSE gi
<1>1. /\ Sound(kbd) /\ gi \in Inputs /\ pads \in PadSet /\ Mice(mouse)
      /\ exit \in BOOLEAN /\ clean \in BOOLEAN /\ read \in [Player -> Reads]
      /\ heard \in Hearing /\ pins \in SUBSET {"latch", "clock"}
  BY DEF Typed
<1>2. /\ Handled(pads, kbd, g, mouse, h) /\ gi' = g /\ kbd' = Uneaten(kbd)
      /\ mouse' = mouse /\ exit' = exit /\ clean' = clean
  BY DEF Motion
<1>3. p \in Player /\ axis \in {"X", "Y"}
  BY Players, InputAssumption
<1> HIDE DEF p
<1>4. g \in Inputs
  BY <1>1, <1>3, MovedTyped
<1> HIDE DEF g, h
<1>5. /\ pads' \in PadSet /\ events' \in 0 .. Events
      /\ pins' = pins /\ read' = read /\ heard' = heard /\ LatchInv'
  BY <1>1, <1>2, <1>4, HandledKeeps
<1>6. Sound(kbd') /\ DongleInv'
  BY <1>1, <1>2, <1>5, UneatenIs, SameTransfer DEF DongleInv
<1> QED BY <1>1, <1>2, <1>4, <1>5, <1>6 DEF Typed

\* So does any other event.
LEMMA OtherKeeps ==
  ASSUME Typed, DongleInv, LatchInv, NEW quit \in BOOLEAN, Other(quit)
  PROVE  Typed' /\ DongleInv' /\ LatchInv'
<1>1. /\ Sound(kbd) /\ gi \in Inputs /\ pads \in PadSet /\ Mice(mouse)
      /\ exit \in BOOLEAN /\ clean \in BOOLEAN /\ read \in [Player -> Reads]
      /\ heard \in Hearing /\ pins \in SUBSET {"latch", "clock"}
  BY DEF Typed
<1>2. /\ Handled(pads, kbd, gi, mouse, held) /\ gi' = gi /\ kbd' = Uneaten(kbd)
      /\ mouse' = mouse /\ exit' = quit /\ clean' = clean
  BY DEF Other
<1>3. /\ pads' \in PadSet /\ events' \in 0 .. Events
      /\ pins' = pins /\ read' = read /\ heard' = heard /\ LatchInv'
  BY <1>1, <1>2, HandledKeeps
<1>4. Sound(kbd') /\ DongleInv'
  BY <1>1, <1>2, <1>3, UneatenIs, SameTransfer DEF DongleInv
<1> QED BY <1>1, <1>2, <1>3, <1>4 DEF Typed

\* So does a write of the pins.
LEMMA WritePinsKeeps ==
  ASSUME Typed, DongleInv, LatchInv, NEW curr \in Pins, WritePins(curr)
  PROVE  Typed' /\ DongleInv' /\ LatchInv'
<1>1. PICK d \in Data(pads, kbd.on, mouse.on) :
        /\ curr # pins
        /\ "clock" \in curr \ pins => \A p \in Player : pads.latch[p].n < Clocks
        /\ pads' = Clocking(pads, curr \ pins, kbd.on, mouse.on)
        /\ kbd' = Process(kbd, pins, curr) /\ pins' = curr
        /\ read' = [p \in Player |-> Reading(p, curr, d[p])]
        /\ heard' = Decoded(curr, kbd')
        /\ clean' = (clean /\ (kbd'.on = kbd.on \/ held = {}))
        /\ gi' = gi /\ mouse' = mouse /\ exit' = exit /\ events' = events
  BY DEF WritePins
<1>2. /\ pads' \in PadSet /\ pins' \in SUBSET {"latch", "clock"}
      /\ read' \in [Player -> Reads] /\ LatchInv'
  BY <1>1, WriteRead
<1>3. Sound(kbd) /\ heard \in Hearing
  BY DEF Typed
<1>4. Sound(kbd') /\ DongleInv' /\ heard' \in Hearing
  BY <1>1, <1>3, WriteHeard
<1>5. clean' \in BOOLEAN
  BY <1>1
<1> QED BY <1>1, <1>2, <1>4, <1>5 DEF Typed

-----------------------------------------------------------------------------
(* Held things and pressed buttons. *)

\* The modes of the keyboard and of the players stay as they are.
SameModes ==
  /\ kbd'.on = kbd.on /\ mouse'.on = mouse.on /\ gi'.uzem = gi.uzem
  /\ gi'.palloc = gi.palloc /\ (gi'.p2keys # {} <=> gi.p2keys # {})

\* Then held things press what they pressed.
LEMMA SameReach ==
  ASSUME SameModes, NEW h, NEW p, NEW b
  PROVE  Reaches(h, p, b)' <=> Reaches(h, p, b)
<1>1. KeyPlayer(gi)' = KeyPlayer(gi) /\ KeyMap(gi.uzem)' = KeyMap(gi.uzem)
  BY DEF SameModes, KeyPlayer, KeyMap
<1>2. PlayerOf(h[2])' = PlayerOf(h[2])
  BY DEF SameModes, PlayerOf
<1>3. Presses(h, p, b)' <=> Presses(h, p, b)
  BY <1>1, <1>2 DEF Presses
<1> QED BY <1>3 DEF Reaches, SameModes

\* What an event makes of the buttons is right if it is right before it sets
\* the directions.
LEMMA EventHeld ==
  ASSUME Typed, SameModes, gi' \in Inputs, NEW c \in PadSet,
         pads' = Directed(c, gi', kbd.on, mouse.on),
         \A p \in Player : \A b \in c.pressed[p] \ Dir : \E h \in held' : Reaches(h, p, b),
         \A p \in Player : \A b \in gi'.dig[p] :
           \E h \in held' : h[1] # "axis" /\ Reaches(h, p, b),
         \A p \in Player : \A b \in gi'.ana[p] :
           \E h \in held' : h[1] = "axis" /\ Reaches(h, p, b),
         \A p \in Player : p \notin Served(kbd.on, mouse.on) => c.pressed[p] \cap Dir = {}
  PROVE  HeldInv'
<1> DEFINE q == pads'.pressed
<1>1. \A p \in Player :
        /\ p \in Served(kbd.on, mouse.on) =>
             q[p] = (c.pressed[p] \ Dir) \union gi'.dig[p] \union gi'.ana[p]
        /\ p \notin Served(kbd.on, mouse.on) => q[p] = c.pressed[p]
  BY DirectionsSet
<1>2. kbd'.on = kbd.on /\ mouse'.on = mouse.on
  BY DEF SameModes
<1> HIDE DEF q
<1>3. ASSUME NEW p \in Player
      PROVE  /\ \A b \in q[p] : \E h \in held' : Reaches(h, p, b)
             /\ p \notin Served(kbd.on, mouse.on) => q[p] \cap Dir = {}
  <2>1. CASE p \in Served(kbd.on, mouse.on)
    BY <1>1, <2>1
  <2>2. CASE p \notin Served(kbd.on, mouse.on)
    BY <1>1, <2>2
  <2> QED BY <2>1, <2>2
<1>4. \A p \in Player : \A b : \A h : Reaches(h, p, b)' <=> Reaches(h, p, b)
  BY SameReach
<1>5. ASSUME NEW p \in Player
      PROVE  /\ \A b \in q[p] : \E h \in held' : Reaches(h, p, b)'
             /\ \A b \in gi'.dig[p] : \E h \in held' : h[1] # "axis" /\ Reaches(h, p, b)'
             /\ \A b \in gi'.ana[p] : \E h \in held' : h[1] = "axis" /\ Reaches(h, p, b)'
             /\ p \notin Served(kbd'.on, mouse'.on) => q[p] \cap Dir = {}
  BY <1>2, <1>3, <1>4
<1> QED BY <1>5 DEF HeldInv, q

\* Nothing is pressed as long as nothing is held but keys that press nothing.
LEMMA NothingPressed ==
  ASSUME HeldInv, clean, \A h \in held : \A q, b : ~Presses(h, q, b), NEW p \in Player
  PROVE  pads.pressed[p] = {} /\ gi.dig[p] = {} /\ gi.ana[p] = {}
BY DEF HeldInv, Reaches

\* If nothing is pressed, nothing is pressed without reason.
LEMMA NothingHeld ==
  ASSUME \A p \in Player : pads'.pressed[p] = {} /\ gi'.dig[p] = {} /\ gi'.ana[p] = {}
  PROVE  HeldInv'
BY DEF HeldInv

\* Something that is not an axis is pressed or released: it is one direction or
\* button of a player, or nothing.
LEMMA Toggled ==
  ASSUME Typed, HeldInv, clean, SameModes, gi' \in Inputs, NEW c \in PadSet,
         pads' = Directed(c, gi', kbd.on, mouse.on), gi'.ana = gi.ana,
         NEW up \in BOOLEAN, NEW x, x[1] # "axis",
         held' = IF up THEN held \ {x} ELSE held \union {x},
         \/ /\ c = pads /\ gi'.dig = gi.dig
            /\ \A p \in Player : \A b : ~Reaches(x, p, b)
         \/ \E p \in Player : \E d \in Dir :
              /\ c = pads /\ gi'.dig = SetDig(gi, p, d, ~up).dig
              /\ Reaches(x, p, d) /\ \A q, b : Reaches(x, q, b) => q = p /\ b = d
         \/ \E p \in Player : \E d \in Button \ Dir :
              /\ c = SetSingle(pads, p, d, ~up) /\ gi'.dig = gi.dig
              /\ Reaches(x, p, d) /\ \A q, b : Reaches(x, q, b) => q = p /\ b = d
  PROVE  HeldInv'
<1>1. /\ pads \in PadSet /\ gi \in Inputs
      /\ \A p \in Player : gi.dig[p] \subseteq Dir
  BY DEF Typed, Inputs
<1>2. \A p \in Player :
        /\ \A b \in pads.pressed[p] : \E h \in held : Reaches(h, p, b)
        /\ \A b \in gi.dig[p] : \E h \in held : h[1] # "axis" /\ Reaches(h, p, b)
        /\ \A b \in gi.ana[p] : \E h \in held : h[1] = "axis" /\ Reaches(h, p, b)
        /\ p \notin Served(kbd.on, mouse.on) => pads.pressed[p] \cap Dir = {}
  BY DEF HeldInv
<1>3. \A h \in held : h # x => h \in held'
  OBVIOUS
<1>4. ~up => x \in held' /\ \A h \in held : h \in held'
  OBVIOUS
<1>5. \A p \in Player : \A b \in gi'.ana[p] :
        \E h \in held' : h[1] = "axis" /\ Reaches(h, p, b)
  BY <1>2, <1>3
<1>6. CASE /\ c = pads /\ gi'.dig = gi.dig
           /\ \A p \in Player : \A b : ~Reaches(x, p, b)
  <2>1. \A p \in Player : \A b \in pads.pressed[p] \ Dir : \E h \in held' : Reaches(h, p, b)
    BY <1>2, <1>3, <1>6
  <2>2. \A p \in Player : \A b \in gi'.dig[p] :
          \E h \in held' : h[1] # "axis" /\ Reaches(h, p, b)
    BY <1>2, <1>3, <1>6
  <2> QED BY <1>2, <1>5, <1>6, <2>1, <2>2, EventHeld
<1>7. ASSUME NEW p \in Player, NEW d \in Dir, c = pads, gi'.dig = SetDig(gi, p, d, ~up).dig,
             Reaches(x, p, d), \A q, b : Reaches(x, q, b) => q = p /\ b = d
      PROVE  HeldInv'
  <2>1. /\ up => gi'.dig[p] = gi.dig[p] \ {d}
        /\ ~up => gi'.dig[p] = gi.dig[p] \union {d}
        /\ \A q \in Player : q # p => gi'.dig[q] = gi.dig[q]
    <3> DEFINE s == SetDig(gi, p, d, ~up)
    <3>1. /\ up => s.dig[p] = gi.dig[p] \ {d}
          /\ ~up => s.dig[p] = gi.dig[p] \union {d}
          /\ \A q \in Player : q # p => s.dig[q] = gi.dig[q]
      BY <1>1, DigSet
    <3> HIDE DEF s
    <3>2. gi'.dig = s.dig
      BY <1>7 DEF s
    <3> QED BY <3>1, <3>2
  <2>2. ASSUME NEW q \in Player, NEW b \in pads.pressed[q] \ Dir
        PROVE  \E h \in held' : Reaches(h, q, b)
    BY <1>2, <1>3, <1>7
  <2>3. ASSUME NEW q \in Player, NEW b \in gi'.dig[q]
        PROVE  \E h \in held' : h[1] # "axis" /\ Reaches(h, q, b)
    <3>1. CASE b \in gi.dig[q] /\ ~(up /\ q = p /\ b = d)
      <4>1. PICK h \in held : h[1] # "axis" /\ Reaches(h, q, b)
        BY <1>2, <3>1
      <4>2. h \in held'
        BY <1>3, <1>4, <1>7, <3>1, <4>1
      <4> QED BY <4>1, <4>2
    <3>2. CASE ~up /\ q = p /\ b = d
      BY <1>4, <1>7, <3>2
    <3> QED BY <2>1, <2>3, <3>1, <3>2
  <2> QED BY <1>2, <1>5, <1>7, <2>2, <2>3, EventHeld
<1>8. ASSUME NEW p \in Player, NEW d \in Button \ Dir, c = SetSingle(pads, p, d, ~up),
             gi'.dig = gi.dig,
             Reaches(x, p, d), \A q, b : Reaches(x, q, b) => q = p /\ b = d
      PROVE  HeldInv'
  <2>1. /\ up => c.pressed[p] = pads.pressed[p] \ {d}
        /\ ~up => c.pressed[p] = pads.pressed[p] \union {d}
        /\ \A q \in Player : q # p => c.pressed[q] = pads.pressed[q]
    <3> DEFINE s == SetSingle(pads, p, d, ~up)
    <3>1. /\ up => s.pressed[p] = pads.pressed[p] \ {d}
          /\ ~up => s.pressed[p] = pads.pressed[p] \union {d}
          /\ \A q \in Player : q # p => s.pressed[q] = pads.pressed[q]
      BY <1>1, SingleSet
    <3> HIDE DEF s
    <3>2. c = s
      BY <1>8 DEF s
    <3> QED BY <3>1, <3>2
  <2>2. ASSUME NEW q \in Player, NEW b \in c.pressed[q] \ Dir
        PROVE  \E h \in held' : Reaches(h, q, b)
    <3>1. CASE b \in pads.pressed[q] /\ ~(up /\ q = p /\ b = d)
      <4>1. PICK h \in held : Reaches(h, q, b)
        BY <1>2, <3>1
      <4>2. h \in held'
        BY <1>3, <1>4, <1>8, <3>1, <4>1
      <4> QED BY <4>1, <4>2
    <3>2. CASE ~up /\ q = p /\ b = d
      BY <1>4, <1>8, <3>2
    <3> QED BY <2>1, <2>2, <3>1, <3>2
  <2>3. ASSUME NEW q \in Player, NEW b \in gi'.dig[q]
        PROVE  \E h \in held' : h[1] # "axis" /\ Reaches(h, q, b)
    <3>1. PICK h \in held : h[1] # "axis" /\ Reaches(h, q, b)
      BY <1>2, <1>8, <2>3
    <3>2. b # d
      BY <1>1, <1>8, <2>3
    <3>3. h \in held'
      BY <1>3, <1>8, <3>1, <3>2
    <3> QED BY <3>1, <3>3
  <2>4. \A q \in Player : q \notin Served(kbd.on, mouse.on) => c.pressed[q] \cap Dir = {}
    BY <1>2, <1>8, <2>1
  <2> QED BY <1>5, <2>2, <2>3, <2>4, EventHeld
<1> QED BY <1>6, <1>7, <1>8

\* What a key reaches, as long as the dongle does not take the keys.
LEMMA KeyReach ==
  ASSUME NEW key, NEW q, NEW b
  PROVE  /\ kbd.on => ~Reaches(<<"key", key>>, q, b)
         /\ ~kbd.on /\ key \in Dir =>
              (Reaches(<<"key", key>>, q, b) <=> q = KeyPlayer(gi) /\ b = key)
         /\ ~kbd.on /\ key \notin Dir /\ key \in DOMAIN KeyMap(gi.uzem) =>
              (Reaches(<<"key", key>>, q, b)
                 <=> q = KeyPlayer(gi) /\ b = KeyMap(gi.uzem)[key])
         /\ key \notin Dir /\ key \notin DOMAIN KeyMap(gi.uzem) =>
              ~Reaches(<<"key", key>>, q, b) /\ ~Presses(<<"key", key>>, q, b)
<1> DEFINE x == <<"key", key>>
<1>1. x[1] = "key" /\ x[2] = key /\ x[1] # "pad" /\ x[1] # "axis"
  OBVIOUS
<1> HIDE DEF x
<1>2. Reaches(x, q, b) <=> Presses(x, q, b) /\ ~kbd.on
  BY <1>1 DEF Reaches
<1>3. key \in Dir => (Presses(x, q, b) <=> q = KeyPlayer(gi) /\ b = key)
  <2>1. CASE key \in Dir /\ key \notin DOMAIN KeyMap(gi.uzem)
    BY <1>1, <2>1 DEF Presses
  <2>2. CASE key \in Dir /\ key \in DOMAIN KeyMap(gi.uzem)
    <3>1. FALSE
      BY <2>2 DEF KeyMap, Dir
    <3> QED BY <3>1
  <2> QED BY <2>1, <2>2
<1>4. key \notin Dir /\ key \in DOMAIN KeyMap(gi.uzem) =>
        (Presses(x, q, b) <=> q = KeyPlayer(gi) /\ b = KeyMap(gi.uzem)[key])
  BY <1>1 DEF Presses
<1>5. key \notin Dir /\ key \notin DOMAIN KeyMap(gi.uzem) => ~Presses(x, q, b)
  BY <1>1 DEF Presses
<1> QED BY <1>2, <1>3, <1>4, <1>5 DEF x

\* What a button of a game controller reaches.
LEMMA PadReach ==
  ASSUME NEW pad, NEW d, NEW q, NEW b
  PROVE  /\ ~Heeded(PlayerOf(pad)) => ~Reaches(<<"pad", pad, d>>, q, b)
         /\ Heeded(PlayerOf(pad)) /\ d \in Dir =>
              (Reaches(<<"pad", pad, d>>, q, b) <=> q = PlayerOf(pad) /\ b = d)
         /\ Heeded(PlayerOf(pad)) /\ d \notin Dir /\ d \in DOMAIN PadMap =>
              (Reaches(<<"pad", pad, d>>, q, b) <=> q = PlayerOf(pad) /\ b = PadMap[d])
         /\ d \notin Dir /\ d \notin DOMAIN PadMap => ~Reaches(<<"pad", pad, d>>, q, b)
<1> DEFINE x == <<"pad", pad, d>>
<1>1. x[1] = "pad" /\ x[2] = pad /\ x[3] = d /\ x[1] # "key" /\ x[1] # "axis"
  OBVIOUS
<1> HIDE DEF x
<1>2. Reaches(x, q, b) <=> Presses(x, q, b) /\ (kbd.on => q # 1)
  BY <1>1 DEF Reaches
<1>3. d \in Dir => (Presses(x, q, b) <=> q = PlayerOf(pad) /\ b = d)
  <2>1. d \in Dir => d \notin DOMAIN PadMap
    BY Mapped
  <2> QED BY <1>1, <2>1 DEF Presses
<1>4. d \notin Dir /\ d \in DOMAIN PadMap =>
        (Presses(x, q, b) <=> q = PlayerOf(pad) /\ b = PadMap[d])
  BY <1>1 DEF Presses
<1>5. d \notin Dir /\ d \notin DOMAIN PadMap => ~Presses(x, q, b)
  BY <1>1 DEF Presses
<1> QED BY <1>2, <1>3, <1>4, <1>5 DEF x, Heeded

\* What a direction of a stick reaches.
LEMMA AxisReach ==
  ASSUME NEW pad, NEW axis, NEW n, NEW q, NEW b
  PROVE  Reaches(<<"axis", pad, axis, n>>, q, b)
           <=> q = PlayerOf(pad) /\ b = Axis[axis][n] /\ (kbd.on => q # 1)
<1> DEFINE x == <<"axis", pad, axis, n>>
<1>1. /\ x[1] = "axis" /\ x[2] = pad /\ x[3] = axis /\ x[4] = n /\ x[1] # "key"
      /\ x[1] # "pad"
  OBVIOUS
<1> HIDE DEF x
<1>2. Presses(x, q, b) <=> q = PlayerOf(pad) /\ b = Axis[axis][n]
  BY <1>1 DEF Presses
<1> QED BY <1>1, <1>2 DEF Reaches, x

\* The modes that a key switches.
ModeKeys == {"F1", "F6", "F8", "F12"}
AltKeys == {"RALT", "LALT"}

\* Any other key leaves the modes alone, and so does any key released but one
\* of the ALT keys.
LEMMA ModesChange ==
  ASSUME Typed, DongleInv, NEW key, NEW up \in BOOLEAN, Key(key, up), ~SameModes
  PROVE  key \in AltKeys \/ (key \in ModeKeys /\ ~up)
<1> SUFFICES ASSUME key \notin AltKeys, key \notin ModeKeys \/ up PROVE SameModes
  OBVIOUS
<1> DEFINE k == IF kbd.on THEN HandleKey(kbd, key, up) ELSE kbd
           g == IF kbd.on THEN gi ELSE KeyedGi(key, up)
           m == IF kbd.on /\ AdjustsMouse(kbd, key, up) THEN Adjusted(mouse) ELSE mouse
           seen == ~up /\ MainSees(k)
<1>1. /\ kbd' = IF seen /\ key = "F1" THEN [k EXCEPT !.bypassed = 0] ELSE Uneaten(k)
      /\ gi' = [g EXCEPT !.uzem = IF seen /\ key = "F8" THEN ~@ ELSE @,
                         !.palloc = IF seen /\ key = "F12" THEN ~@ ELSE @]
      /\ mouse' = IF seen /\ key = "F6" THEN Adjusted(m) ELSE m
  BY DEF Key
<1>2. Sound(kbd) /\ gi \in Inputs
  BY DEF Typed
<1>3. Sound(k) /\ k.on = kbd.on
  <2>1. CASE kbd.on
    BY <1>2, <2>1, HandledKey DEF ModeKeys, DongleInv
  <2>2. CASE ~kbd.on
    BY <1>2, <2>2
  <2> QED BY <2>1, <2>2
<1>4. /\ g \in Inputs /\ g.uzem = gi.uzem /\ g.palloc = gi.palloc /\ g.p2keys = gi.p2keys
  BY <1>2, KeyedIs DEF AltKeys
<1>5. m = mouse
  BY DEF AdjustsMouse, ModeKeys
<1>6. ~(seen /\ key = "F8") /\ ~(seen /\ key = "F12") /\ ~(seen /\ key = "F6")
  BY DEF ModeKeys
<1> HIDE DEF k, g, m, seen
<1>7. kbd'.on = kbd.on
  <2>1. kbd' = Uneaten(k) \/ kbd' = [k EXCEPT !.bypassed = 0]
    BY <1>1
  <2> QED BY <1>3, <2>1, UneatenIs
<1>8. gi'.uzem = gi.uzem /\ gi'.palloc = gi.palloc /\ gi'.p2keys = gi.p2keys
  <2>1. gi' = [g EXCEPT !.uzem = g.uzem, !.palloc = g.palloc]
    BY <1>1, <1>4, <1>6 DEF Inputs
  <2> QED BY <1>4, <2>1 DEF Inputs
<1>9. mouse' = mouse
  BY <1>1, <1>5, <1>6
<1> QED BY <1>7, <1>8, <1>9 DEF SameModes

\* A key presses and releases what it reaches.
LEMMA KeyHeld ==
  ASSUME InputInv, NEW key, NEW up \in BOOLEAN, Key(key, up), Typed'
  PROVE  HeldInv'
<1> SUFFICES ASSUME clean' PROVE HeldInv'
  BY DEF HeldInv
<1> DEFINE k == IF kbd.on THEN HandleKey(kbd, key, up) ELSE kbd
           g == IF kbd.on THEN gi ELSE KeyedGi(key, up)
           c == IF kbd.on THEN pads ELSE KeyedPads(key, up)
           m == IF kbd.on /\ AdjustsMouse(kbd, key, up) THEN Adjusted(mouse) ELSE mouse
           x == <<"key", key>>
           h == IF up THEN held \ {x} ELSE held \union {x}
           seen == ~up /\ MainSees(k)
           alts == {<<"key", a>> : a \in {"RALT", "LALT"}}
<1>1. /\ Handled(c, k, g, m, h)
      /\ kbd' = IF seen /\ key = "F1" THEN [k EXCEPT !.bypassed = 0] ELSE Uneaten(k)
      /\ gi' = [g EXCEPT !.uzem = IF seen /\ key = "F8" THEN ~@ ELSE @,
                         !.palloc = IF seen /\ key = "F12" THEN ~@ ELSE @]
      /\ mouse' = IF seen /\ key = "F6" THEN Adjusted(m) ELSE m
      /\ Cleaner(h)
  BY DEF Key
<1>2. /\ Typed /\ DongleInv /\ HeldInv /\ Sound(kbd) /\ gi \in Inputs /\ pads \in PadSet
      /\ gi.uzem \in BOOLEAN
  BY DEF InputInv, Typed, Inputs
<1>3. Sound(k)
  <2>1. CASE kbd.on
    BY <1>2, <2>1, HandledKey DEF DongleInv
  <2>2. CASE ~kbd.on
    BY <1>2, <2>2
  <2> QED BY <2>1, <2>2
<1>4. /\ g \in Inputs /\ g.ana = gi.ana /\ c \in PadSet
      /\ kbd.on => g.dig = gi.dig /\ c = pads
      /\ ~kbd.on /\ key \in Dir => g.dig = SetDig(gi, KeyPlayer(gi), key, ~up).dig
      /\ key \notin Dir => g.dig = gi.dig
      /\ key \notin DOMAIN KeyMap(gi.uzem) => c = pads
      /\ ~kbd.on /\ key \in DOMAIN KeyMap(gi.uzem) =>
           c = SetSingle(pads, KeyPlayer(gi), KeyMap(gi.uzem)[key], ~up)
  <2>1. LET gg == KeyedGi(key, up)
            cc == KeyedPads(key, up)
        IN /\ gg \in Inputs /\ gg.ana = gi.ana
           /\ key \in Dir => gg = SetDig(gi, KeyPlayer(gi), key, ~up)
           /\ key \notin Dir => gg.dig = gi.dig
           /\ cc \in PadSet
    BY <1>2, KeyedIs
  <2>2. /\ key \notin DOMAIN KeyMap(gi.uzem) => KeyedPads(key, up) = pads
        /\ key \in DOMAIN KeyMap(gi.uzem) =>
             KeyedPads(key, up) = SetSingle(pads, KeyPlayer(gi), KeyMap(gi.uzem)[key], ~up)
    BY DEF KeyedPads
  <2>3. CASE kbd.on
    BY <1>2, <2>3
  <2>4. CASE ~kbd.on
    BY <2>1, <2>2, <2>4
  <2> QED BY <2>3, <2>4
<1>5. /\ pads' = Directed(c, g, k.on, m.on) /\ held' = h
  BY <1>1 DEF Handled
<1>6. /\ clean
      /\ \/ Modes(kbd', gi', mouse') = Modes(kbd, gi, mouse)
         \/ h \cap (held \ alts) = {}
  BY <1>1 DEF Cleaner
<1> HIDE DEF k, g, c, m, seen
<1>7. kbd'.on = k.on
  <2>1. kbd' = Uneaten(k) \/ kbd' = [k EXCEPT !.bypassed = 0]
    BY <1>1
  <2> QED BY <1>3, <2>1, UneatenIs
<1>8. gi'.dig = g.dig /\ gi'.ana = g.ana /\ gi' \in Inputs
  <2> DEFINE a == IF seen /\ key = "F8" THEN ~g.uzem ELSE g.uzem
             b == IF seen /\ key = "F12" THEN ~g.palloc ELSE g.palloc
  <2>1. gi' = [g EXCEPT !.uzem = a, !.palloc = b]
    BY <1>1, <1>4 DEF Inputs
  <2> HIDE DEF a, b
  <2>2. gi' \in Inputs
    BY DEF Typed
  <2> QED BY <1>4, <2>1, <2>2 DEF Inputs
<1>9. Directed(c, gi', k.on, m.on) = Directed(c, g, k.on, m.on)
  BY <1>8 DEF Directed
<1>10. x[1] # "axis"
  OBVIOUS
<1>11. CASE SameModes
  <2>1. m.on = mouse.on /\ k.on = kbd.on
    <3>1. CASE seen /\ key = "F6"
      <4>1. ~kbd.on /\ k.on = kbd.on
        BY <1>7, <1>11, <3>1 DEF SameModes, seen, MainSees
      <4> QED BY <4>1 DEF m
    <3>2. CASE ~(seen /\ key = "F6")
      BY <1>1, <1>7, <1>11, <3>2 DEF SameModes
    <3> QED BY <3>1, <3>2
  <2>2. /\ pads' = Directed(c, gi', kbd.on, mouse.on) /\ gi'.ana = gi.ana
        /\ held' = IF up THEN held \ {x} ELSE held \union {x}
    BY <1>4, <1>5, <1>8, <1>9, <2>1
  <2>3. KeyPlayer(gi) \in Player
    BY DEF KeyPlayer, Player
  <2> HIDE DEF x, h
  <2>4. CASE kbd.on \/ (key \notin Dir /\ key \notin DOMAIN KeyMap(gi.uzem))
    <3>1. c = pads /\ gi'.dig = gi.dig
      BY <1>4, <1>8, <2>4
    <3>2. \A p \in Player : \A b : ~Reaches(x, p, b)
      BY <2>4, KeyReach DEF x
    <3> QED BY <1>2, <1>4, <1>6, <1>8, <1>10, <1>11, <2>2, <3>1, <3>2, Toggled
  <2>5. CASE ~kbd.on /\ key \in Dir
    <3>1. key \notin DOMAIN KeyMap(gi.uzem)
      BY <1>2, <2>5, Mapped
    <3>2. c = pads /\ gi'.dig = SetDig(gi, KeyPlayer(gi), key, ~up).dig
      BY <1>4, <1>8, <2>5, <3>1
    <3>3. /\ Reaches(x, KeyPlayer(gi), key)
          /\ \A q, b : Reaches(x, q, b) => q = KeyPlayer(gi) /\ b = key
      BY <2>5, KeyReach DEF x
    <3>4. \E p \in Player : \E d \in Dir :
            /\ c = pads /\ gi'.dig = SetDig(gi, p, d, ~up).dig
            /\ Reaches(x, p, d) /\ \A q, b : Reaches(x, q, b) => q = p /\ b = d
      BY <2>3, <2>5, <3>2, <3>3
    <3> QED BY <1>2, <1>4, <1>6, <1>8, <1>10, <1>11, <2>2, <3>4, Toggled
  <2>6. CASE ~kbd.on /\ key \notin Dir /\ key \in DOMAIN KeyMap(gi.uzem)
    <3> DEFINE d == KeyMap(gi.uzem)[key]
    <3>1. d \in Button \ Dir
      BY <1>2, <2>6, Mapped
    <3>2. c = SetSingle(pads, KeyPlayer(gi), d, ~up) /\ gi'.dig = gi.dig
      BY <1>4, <1>8, <2>6
    <3>3. /\ Reaches(x, KeyPlayer(gi), d)
          /\ \A q, b : Reaches(x, q, b) => q = KeyPlayer(gi) /\ b = d
      BY <2>6, KeyReach DEF x
    <3> HIDE DEF d
    <3>4. \E p \in Player : \E e \in Button \ Dir :
            /\ c = SetSingle(pads, p, e, ~up) /\ gi'.dig = gi.dig
            /\ Reaches(x, p, e) /\ \A q, b : Reaches(x, q, b) => q = p /\ b = e
      BY <2>3, <3>1, <3>2, <3>3
    <3> QED BY <1>2, <1>4, <1>6, <1>8, <1>10, <1>11, <2>2, <3>4, Toggled
  <2> QED BY <2>4, <2>5, <2>6
<1>12. CASE ~SameModes
  <2>1. key \in AltKeys \/ (key \in ModeKeys /\ ~up)
    BY <1>2, <1>12, ModesChange
  <2>2. Modes(kbd', gi', mouse') # Modes(kbd, gi, mouse)
    BY <1>12 DEF Modes, SameModes
  <2>3. held \subseteq alts
    <3>1. h \cap (held \ alts) = {}
      BY <1>6, <2>2
    <3>2. up => x \in alts
      BY <2>1 DEF AltKeys
    <3> QED BY <3>1, <3>2
  <2>4. key \notin Dir /\ key \notin DOMAIN KeyMap(gi.uzem)
    BY <2>1 DEF AltKeys, ModeKeys, Dir, KeyMap
  <2>5. \A y \in held : \A q, b : ~Presses(y, q, b)
    <3>1. \A a \in AltKeys : a \notin Dir /\ a \notin DOMAIN KeyMap(gi.uzem)
      BY DEF AltKeys, Dir, KeyMap
    <3>2. ASSUME NEW a \in AltKeys, NEW q, NEW b PROVE ~Presses(<<"key", a>>, q, b)
      BY <3>1, KeyReach
    <3> QED BY <2>3, <3>2 DEF AltKeys
  <2>6. \A p \in Player : pads.pressed[p] = {} /\ gi.dig[p] = {} /\ gi.ana[p] = {}
    BY <1>2, <1>6, <2>5, NothingPressed
  <2>7. c = pads /\ g.dig = gi.dig /\ g.ana = gi.ana
    BY <1>4, <2>4
  <2>8. ASSUME NEW p \in Player
        PROVE  pads'.pressed[p] = {} /\ gi'.dig[p] = {} /\ gi'.ana[p] = {}
    <3>1. \/ pads'.pressed[p] = (c.pressed[p] \ Dir) \union g.dig[p] \union g.ana[p]
          \/ pads'.pressed[p] = c.pressed[p]
      BY <1>4, <1>5, DirectionsSet
    <3> QED BY <1>8, <2>6, <2>7, <3>1
  <2> QED BY <2>8, NothingHeld
<1> QED BY <1>11, <1>12

\* The last one of these, of a given button.
LEMMA ButtonToggled ==
  ASSUME Typed, HeldInv, clean, SameModes, gi' \in Inputs, NEW c \in PadSet,
         pads' = Directed(c, gi', kbd.on, mouse.on), gi'.ana = gi.ana, gi'.dig = gi.dig,
         NEW up \in BOOLEAN, NEW x, x[1] # "axis",
         held' = IF up THEN held \ {x} ELSE held \union {x},
         NEW p \in Player, NEW d \in Button \ Dir, c = SetSingle(pads, p, d, ~up),
         Reaches(x, p, d), \A q, b : Reaches(x, q, b) => q = p /\ b = d
  PROVE  HeldInv'
<1>1. \E r \in Player : \E e \in Button \ Dir :
        /\ c = SetSingle(pads, r, e, ~up) /\ gi'.dig = gi.dig
        /\ Reaches(x, r, e) /\ \A q, b : Reaches(x, q, b) => q = r /\ b = e
  OBVIOUS
<1> QED BY <1>1, Toggled

\* A button of a game controller presses and releases what it reaches.
LEMMA PadButtonHeld ==
  ASSUME InputInv, NEW pad \in Attached, NEW b, NEW up \in BOOLEAN, PadButton(pad, b, up),
         Typed'
  PROVE  HeldInv'
<1> SUFFICES ASSUME clean' PROVE HeldInv'
  BY DEF HeldInv
<1> DEFINE p == PlayerOf(pad)
           x == <<"pad", pad, b>>
           h == IF up THEN held \ {x} ELSE held \union {x}
           g == IF Heeded(p) /\ b \in Dir THEN SetDig(gi, p, b, ~up) ELSE gi
           c == IF Heeded(p) /\ b \in DOMAIN PadMap THEN SetSingle(pads, p, PadMap[b], ~up)
                ELSE pads
<1>1. /\ Handled(c, kbd, g, mouse, h) /\ gi' = g /\ kbd' = Uneaten(kbd)
      /\ mouse' = mouse /\ clean' = clean
  BY DEF PadButton
<1>2. /\ Typed /\ HeldInv /\ Sound(kbd) /\ gi \in Inputs /\ pads \in PadSet /\ clean
  BY <1>1 DEF InputInv, Typed
<1>3. p \in Player /\ x[1] # "axis"
  BY Players
<1> HIDE DEF p
<1>4. /\ c \in PadSet /\ g.ana = gi.ana /\ g.uzem = gi.uzem /\ g.palloc = gi.palloc
      /\ g.p2keys = gi.p2keys
  <2> DEFINE s == SetSingle(pads, p, PadMap[b], ~up)
             t == SetDig(gi, p, b, ~up)
  <2>1. b \in DOMAIN PadMap => PadMap[b] \in Button
    BY Mapped
  <2>2. b \in DOMAIN PadMap => s \in PadSet
    BY <1>2, <1>3, <2>1, SingleSet
  <2>3. b \in Dir => /\ t.ana = gi.ana /\ t.uzem = gi.uzem /\ t.palloc = gi.palloc
                     /\ t.p2keys = gi.p2keys
    BY <1>2, <1>3, DigSet
  <2> HIDE DEF s, t
  <2>4. (g = gi \/ (g = t /\ b \in Dir)) /\ (c = pads \/ (c = s /\ b \in DOMAIN PadMap))
    BY DEF s, t
  <2> HIDE DEF g, c
  <2> QED BY <1>2, <2>2, <2>3, <2>4
<1>5. /\ ~Heeded(p) => c = pads /\ g.dig = gi.dig
      /\ Heeded(p) /\ b \in Dir => c = pads /\ g.dig = SetDig(gi, p, b, ~up).dig
      /\ b \notin Dir => g.dig = gi.dig
      /\ b \notin DOMAIN PadMap => c = pads
      /\ Heeded(p) /\ b \in DOMAIN PadMap => c = SetSingle(pads, p, PadMap[b], ~up)
  <2>1. b \in Dir => b \notin DOMAIN PadMap
    BY Mapped
  <2> QED BY <2>1
<1> HIDE DEF g, c
<1>6. /\ SameModes /\ gi' \in Inputs /\ pads' = Directed(c, gi', kbd.on, mouse.on)
      /\ held' = IF up THEN held \ {x} ELSE held \union {x}
      /\ gi'.ana = gi.ana
  <2>1. kbd'.on = kbd.on
    BY <1>1, <1>2, UneatenIs
  <2>2. gi' \in Inputs
    BY DEF Typed
  <2> QED BY <1>1, <1>4, <2>1, <2>2 DEF SameModes, Handled
<1> HIDE DEF x, h
<1>7. CASE ~Heeded(p) \/ (b \notin Dir /\ b \notin DOMAIN PadMap)
  <2>1. c = pads /\ gi'.dig = gi.dig
    BY <1>1, <1>5, <1>7
  <2>2. \A q \in Player : \A d : ~Reaches(x, q, d)
    BY <1>7, PadReach DEF x, p
  <2> QED BY <1>2, <1>3, <1>4, <1>6, <2>1, <2>2, Toggled
<1>8. CASE Heeded(p) /\ b \in Dir
  <2>1. c = pads /\ gi'.dig = SetDig(gi, p, b, ~up).dig
    BY <1>1, <1>5, <1>8
  <2>2. Reaches(x, p, b) /\ \A q, e : Reaches(x, q, e) => q = p /\ e = b
    BY <1>8, PadReach DEF x, p
  <2>3. \E r \in Player : \E d \in Dir :
          /\ c = pads /\ gi'.dig = SetDig(gi, r, d, ~up).dig
          /\ Reaches(x, r, d) /\ \A q, e : Reaches(x, q, e) => q = r /\ e = d
    BY <1>3, <1>8, <2>1, <2>2
  <2> QED BY <1>2, <1>3, <1>4, <1>6, <2>3, Toggled
<1>9. CASE Heeded(p) /\ b \notin Dir /\ b \in DOMAIN PadMap
  <2> DEFINE m == PadMap[b]
  <2>1. m \in Button \ Dir
    BY <1>9, Mapped
  <2>2. c = SetSingle(pads, p, m, ~up) /\ gi'.dig = gi.dig
    BY <1>1, <1>5, <1>9
  <2>3. Reaches(x, p, m) /\ \A q, e : Reaches(x, q, e) => q = p /\ e = m
    BY <1>9, PadReach DEF x, p
  <2> HIDE DEF m
  <2> QED BY <1>2, <1>3, <1>4, <1>6, <2>1, <2>2, <2>3, ButtonToggled
<1> QED BY <1>7, <1>8, <1>9

\* A motion of a stick: nothing of its axis stays but the direction it goes to.
LEMMA MotionHeld ==
  ASSUME InputInv, NEW pad \in Attached, NEW axis \in Axes, NEW to \in 0 .. 2,
         Motion(pad, axis, to), Typed'
  PROVE  HeldInv'
<1> SUFFICES ASSUME clean' PROVE HeldInv'
  BY DEF HeldInv
<1> DEFINE p == PlayerOf(pad)
           off == held \ {<<"axis", pad, axis, n>> : n \in {1, 2}}
           x == <<"axis", pad, axis, to>>
           h == IF to = 0 THEN off ELSE off \union {x}
           g == IF Heeded(p) THEN [gi EXCEPT !.ana[p] = Deflected(@, axis, to)] ELSE gi
<1>1. /\ Handled(pads, kbd, g, mouse, h) /\ gi' = g /\ kbd' = Uneaten(kbd)
      /\ mouse' = mouse /\ clean' = clean
  BY DEF Motion
<1>2. /\ Typed /\ HeldInv /\ Sound(kbd) /\ gi \in Inputs /\ pads \in PadSet /\ clean
  BY <1>1 DEF InputInv, Typed
<1>3. p \in Player /\ axis \in {"X", "Y"} /\ Attached \subseteq {0, 1}
  BY Players, InputAssumption
<1>4. \A q \in Player :
        /\ \A b \in pads.pressed[q] : \E y \in held : Reaches(y, q, b)
        /\ \A b \in gi.dig[q] : \E y \in held : y[1] # "axis" /\ Reaches(y, q, b)
        /\ \A b \in gi.ana[q] : \E y \in held : y[1] = "axis" /\ Reaches(y, q, b)
        /\ q \notin Served(kbd.on, mouse.on) => pads.pressed[q] \cap Dir = {}
  BY <1>2 DEF HeldInv
<1>5. /\ gi' \in Inputs /\ gi'.uzem = gi.uzem /\ gi'.palloc = gi.palloc
      /\ gi'.p2keys = gi.p2keys /\ gi'.dig = gi.dig
      /\ \A q \in Player : \A d \in gi'.ana[q] :
           \/ d \in gi.ana[q] /\ (q = p /\ Heeded(p) => \A n \in {1, 2} : d # Axis[axis][n])
           \/ q = p /\ Heeded(p) /\ to # 0 /\ d = Axis[axis][to]
  <2> HIDE DEF p
  <2>1. CASE Heeded(p)
    <3> DEFINE v == Deflected(gi.ana[p], axis, to)
               w == [gi.ana EXCEPT ![p] = v]
    <3>1. gi.ana \in [Player -> SUBSET Dir]
      BY <1>2 DEF Inputs
    <3>2. \A d \in v : \/ d \in gi.ana[p] /\ \A n \in {1, 2} : d # Axis[axis][n]
                       \/ to # 0 /\ d = Axis[axis][to]
      BY <1>3, <3>1, Deflection
    <3>3. gi' = [gi EXCEPT !.ana = w]
      BY <1>1, <1>2, <2>1 DEF Inputs
    <3> HIDE DEF v
    <3>4. w[p] = v /\ \A q \in Player : q # p => w[q] = gi.ana[q]
      BY <1>3, <3>1
    <3> HIDE DEF w
    <3>5. /\ gi'.uzem = gi.uzem /\ gi'.palloc = gi.palloc /\ gi'.p2keys = gi.p2keys
          /\ gi'.dig = gi.dig /\ gi'.ana = w
      BY <1>2, <3>3 DEF Inputs
    <3>6. gi' \in Inputs
      BY DEF Typed
    <3> QED BY <2>1, <3>2, <3>4, <3>5, <3>6
  <2>2. CASE ~Heeded(p)
    BY <1>1, <1>2, <2>2
  <2> QED BY <2>1, <2>2
<1> HIDE DEF g
<1>6. SameModes /\ pads' = Directed(pads, gi', kbd.on, mouse.on) /\ held' = h
  <2>1. kbd'.on = kbd.on
    BY <1>1, <1>2, UneatenIs
  <2> QED BY <1>1, <1>5, <2>1 DEF SameModes, Handled
\* What is not held any more.
<1>7. ASSUME NEW y \in held, y \notin held', NEW q, NEW b, Reaches(y, q, b)
      PROVE  /\ y[1] = "axis" /\ q = p /\ Heeded(p) /\ b \in Dir
             /\ \E n \in {1, 2} : b = Axis[axis][n]
  <2>1. PICK n \in {1, 2} : y = <<"axis", pad, axis, n>>
    BY <1>6, <1>7
  <2>2. q = p /\ b = Axis[axis][n] /\ (kbd.on => q # 1)
    BY <1>7, <2>1, AxisReach
  <2>3. b \in Dir
    BY <1>3, <2>2, Mapped
  <2> QED BY <2>1, <2>2, <2>3 DEF Heeded
<1>8. to # 0 /\ Heeded(p) => x \in held' /\ x[1] = "axis" /\ Reaches(x, p, Axis[axis][to])
  BY <1>6, AxisReach DEF Heeded
<1> HIDE DEF x, h, off, p
<1>9. \A q \in Player : \A b \in pads.pressed[q] \ Dir : \E y \in held' : Reaches(y, q, b)
  BY <1>4, <1>7
<1>10. \A q \in Player : \A b \in gi'.dig[q] :
         \E y \in held' : y[1] # "axis" /\ Reaches(y, q, b)
  BY <1>4, <1>5, <1>7
<1>11. ASSUME NEW q \in Player, NEW b \in gi'.ana[q]
       PROVE  \E y \in held' : y[1] = "axis" /\ Reaches(y, q, b)
  <2>1. CASE b \in gi.ana[q] /\ (q = p /\ Heeded(p) => \A n \in {1, 2} : b # Axis[axis][n])
    <3>1. PICK y \in held : y[1] = "axis" /\ Reaches(y, q, b)
      BY <1>4, <2>1
    <3>2. y \in held'
      BY <1>7, <2>1, <3>1
    <3> QED BY <3>1, <3>2
  <2>2. CASE q = p /\ Heeded(p) /\ to # 0 /\ b = Axis[axis][to]
    BY <1>8, <2>2
  <2> QED BY <1>5, <1>11, <2>1, <2>2
<1> QED BY <1>2, <1>4, <1>5, <1>6, <1>9, <1>10, <1>11, EventHeld

\* Other events only set the directions again.
LEMMA OtherHeld ==
  ASSUME InputInv, NEW quit \in BOOLEAN, Other(quit)
  PROVE  HeldInv'
<1> SUFFICES ASSUME clean' PROVE HeldInv'
  BY DEF HeldInv
<1>1. /\ Handled(pads, kbd, gi, mouse, held) /\ gi' = gi /\ kbd' = Uneaten(kbd)
      /\ mouse' = mouse /\ clean' = clean
  BY DEF Other
<1>2. /\ Typed /\ HeldInv /\ Sound(kbd) /\ gi \in Inputs /\ pads \in PadSet /\ clean
  BY <1>1 DEF InputInv, Typed
<1>3. kbd'.on = kbd.on
  BY <1>1, <1>2, UneatenIs
<1>4. /\ SameModes /\ gi' \in Inputs /\ pads' = Directed(pads, gi', kbd.on, mouse.on)
      /\ held' = held
  BY <1>1, <1>2, <1>3 DEF SameModes, Handled
<1>5. \A q \in Player :
        /\ \A b \in pads.pressed[q] \ Dir : \E y \in held' : Reaches(y, q, b)
        /\ \A b \in gi'.dig[q] : \E y \in held' : y[1] # "axis" /\ Reaches(y, q, b)
        /\ \A b \in gi'.ana[q] : \E y \in held' : y[1] = "axis" /\ Reaches(y, q, b)
        /\ q \notin Served(kbd.on, mouse.on) => pads.pressed[q] \cap Dir = {}
  BY <1>1, <1>2, <1>4 DEF HeldInv
<1> QED BY <1>2, <1>4, <1>5, EventHeld

\* A write of the pins presses nothing; it may make the dongle take the keys.
LEMMA WritePinsHeld ==
  ASSUME InputInv, NEW curr \in Pins, WritePins(curr)
  PROVE  HeldInv'
<1> SUFFICES ASSUME clean' PROVE HeldInv'
  BY DEF HeldInv
<1>1. PICK d \in Data(pads, kbd.on, mouse.on) :
        /\ curr # pins
        /\ "clock" \in curr \ pins => \A p \in Player : pads.latch[p].n < Clocks
        /\ pads' = Clocking(pads, curr \ pins, kbd.on, mouse.on) /\ pins' = curr
        /\ read' = [p \in Player |-> Reading(p, curr, d[p])]
        /\ clean' = (clean /\ (kbd'.on = kbd.on \/ held = {}))
        /\ gi' = gi /\ mouse' = mouse /\ held' = held
  BY DEF WritePins
<1>2. Typed /\ LatchInv /\ HeldInv /\ clean
  BY <1>1 DEF InputInv
<1>3. pads'.pressed = pads.pressed
  BY <1>1, <1>2, WriteRead
<1>4. CASE kbd'.on = kbd.on
  <2>1. SameModes
    BY <1>1, <1>4 DEF SameModes
  <2>2. \A p \in Player : \A b : \A y : Reaches(y, p, b)' <=> Reaches(y, p, b)
    BY <2>1, SameReach
  <2>3. ASSUME NEW p \in Player
        PROVE  /\ \A b \in pads'.pressed[p] : \E y \in held' : Reaches(y, p, b)'
               /\ \A b \in gi'.dig[p] : \E y \in held' : y[1] # "axis" /\ Reaches(y, p, b)'
               /\ \A b \in gi'.ana[p] : \E y \in held' : y[1] = "axis" /\ Reaches(y, p, b)'
               /\ p \notin Served(kbd'.on, mouse'.on) => pads'.pressed[p] \cap Dir = {}
    BY <1>1, <1>2, <1>3, <1>4, <2>2 DEF HeldInv
  <2> QED BY <2>3 DEF HeldInv
<1>5. CASE held = {}
  <2>1. \A p \in Player : pads.pressed[p] = {} /\ gi.dig[p] = {} /\ gi.ana[p] = {}
    BY <1>2, <1>5, NothingPressed
  <2> QED BY <1>1, <1>3, <2>1, NothingHeld
<1> QED BY <1>1, <1>4, <1>5

-----------------------------------------------------------------------------
(* The input's invariant. *)

\* Nothing is held, queued or read at the start.
LEMMA InputInvInit == InputInit => InputInv
<1> SUFFICES ASSUME InputInit PROVE InputInv
  OBVIOUS
<1>0. /\ Clocks \in 1 .. 31 /\ Events \in Nat /\ Scales \in Nat \ {0, 1}
      /\ QueueSize \in Nat /\ Width \in Nat /\ Width > 1 /\ Empty \in Byte
  BY InputAssumption, DongleConstants
<1>1. Off \in Dongle /\ Sound(Off) /\ Off.state = "stop" /\ Off.queue = <<>> /\ Off.on = FALSE
      /\ Off.din = Empty
  <2>1. <<>> \in Seq([byte : Byte, up : BOOLEAN]) /\ Len(<<>>) = 0 /\ 0 \in 0 .. Width
        /\ 0 \in 0 .. QueueSize /\ 0 \in {0, 1, 255}
    BY <1>0
  <2> QED BY <1>0, <2>1 DEF Off, Dongle, Sound
<1>2. Released \in PadSet /\ \A p \in Player : Released.pressed[p] = {}
  BY <1>0 DEF Released, PadSet, Latches
<1>3. /\ gi \in Inputs /\ \A p \in Player : gi.dig[p] = {} /\ gi.ana[p] = {}
  <2>1. (Attached = {0, 1}) \in BOOLEAN
    OBVIOUS
  <2> DEFINE a == Attached = {0, 1}
  <2> HIDE DEF a
  <2>2. gi = [uzem |-> FALSE, p2keys |-> {}, palloc |-> a,
              dig |-> [p \in Player |-> {}], ana |-> [p \in Player |-> {}]]
    BY DEF InputInit, a
  <2>3. a \in BOOLEAN
    BY <2>1 DEF a
  <2> QED BY <2>2, <2>3 DEF Inputs
<1>4. Mice(mouse)
  <2>1. mouse \in [on : BOOLEAN, scale : 0 .. Scales - 1] /\ mouse.on = FALSE /\ mouse.scale = 0
    BY <1>0 DEF InputInit
  <2>2. mouse.on = (mouse.scale # 0)
    BY <2>1
  <2> QED BY <2>1, <2>2 DEF Mice
<1>5. /\ Unread \in Reads /\ ~Unread.valid
  BY DEF Unread, Reads
<1>6. heard \in Hearing /\ Len(heard.bits) = 0 /\ ~heard.false
  BY DEF InputInit, Hearing
<1>7. Typed
  <2>1. pads \in PadSet /\ Sound(kbd)
    BY <1>1, <1>2 DEF InputInit
  <2>2. /\ pins \in SUBSET {"latch", "clock"} /\ events \in 0 .. Events
        /\ exit \in BOOLEAN /\ clean \in BOOLEAN
    <3>1. pins = {} /\ events = 0 /\ exit = FALSE /\ clean = TRUE
      BY DEF InputInit
    <3>2. 0 \in 0 .. Events
      BY <1>0
    <3>3. events \in 0 .. Events
      BY <3>1, <3>2, Zenon
    <3>4. exit \in BOOLEAN /\ clean \in BOOLEAN
      BY <3>1, Zenon
    <3> QED BY <3>1, <3>3, <3>4
  <2>3. read \in [Player -> Reads]
    BY <1>5 DEF InputInit
  <2> QED BY <1>3, <1>4, <1>6, <2>1, <2>2, <2>3 DEF Typed
<1>8. DongleInv
  <2>1. \A n \in 1 .. Width : Empty[n] = 0
    BY DEF Empty
  <2>2. kbd = Off /\ ~Within(kbd)
    BY <1>1 DEF InputInit, Within
  <2>3. Transfer(kbd, heard)
    BY <1>1, <1>6, <2>1, <2>2 DEF Transfer
  <2>4. Together(kbd, BrokenNext(kbd, heard))
    <3>1. Len(<<>>) = 0
      OBVIOUS
    <3> QED BY <1>1, <2>2, <3>1 DEF Together, Releases
  <2> QED BY <2>3, <2>4 DEF DongleInv
<1>9. LatchInv
  BY <1>5 DEF LatchInv, Shows, InputInit
<1>10. HeldInv
  BY <1>2, <1>3 DEF HeldInv, InputInit
<1> QED BY <1>7, <1>8, <1>9, <1>10 DEF InputInv

\* Every event and every write of the pins keeps the invariant.
LEMMA InputInvNext == InputInv /\ [InputNext]_inputVars => InputInv'
<1> SUFFICES ASSUME InputInv, [InputNext]_inputVars PROVE InputInv'
  OBVIOUS
<1>0. Typed /\ DongleInv /\ LatchInv /\ HeldInv
  BY DEF InputInv
<1>1. ASSUME NEW key \in Keys, NEW up \in BOOLEAN, Key(key, up) PROVE InputInv'
  <2>1. Typed' /\ DongleInv' /\ LatchInv'
    BY <1>0, <1>1, KeyKeeps
  <2> QED BY <1>1, <2>1, KeyHeld DEF InputInv
<1>2. ASSUME NEW pad \in Attached, NEW b \in Buttons, NEW up \in BOOLEAN, PadButton(pad, b, up)
      PROVE  InputInv'
  <2>1. Typed' /\ DongleInv' /\ LatchInv'
    BY <1>0, <1>2, PadButtonKeeps
  <2> QED BY <1>2, <2>1, PadButtonHeld DEF InputInv
<1>3. ASSUME NEW pad \in Attached, NEW axis \in Axes, NEW to \in 0 .. 2, Motion(pad, axis, to)
      PROVE  InputInv'
  <2>1. Typed' /\ DongleInv' /\ LatchInv'
    BY <1>0, <1>3, MotionKeeps
  <2> QED BY <1>3, <2>1, MotionHeld DEF InputInv
<1>4. ASSUME NEW quit \in BOOLEAN, Other(quit) PROVE InputInv'
  <2>1. Typed' /\ DongleInv' /\ LatchInv'
    BY <1>0, <1>4, OtherKeeps
  <2> QED BY <1>4, <2>1, OtherHeld DEF InputInv
<1>5. ASSUME NEW curr \in Pins, WritePins(curr) PROVE InputInv'
  <2>1. Typed' /\ DongleInv' /\ LatchInv'
    BY <1>0, <1>5, WritePinsKeeps
  <2> QED BY <1>5, <2>1, WritePinsHeld DEF InputInv
<1>6. ASSUME UNCHANGED inputVars PROVE InputInv'
  <2>1. /\ pads' = pads /\ kbd' = kbd /\ gi' = gi /\ mouse' = mouse /\ pins' = pins
        /\ exit' = exit /\ events' = events /\ held' = held /\ clean' = clean
        /\ read' = read /\ heard' = heard
    BY <1>6 DEF inputVars
  <2>2. Typed' /\ DongleInv' /\ LatchInv'
    BY <1>0, <2>1 DEF Typed, DongleInv, LatchInv
  <2>3. HeldInv'
    <3>1. \A p, b, y : Reaches(y, p, b)' <=> Reaches(y, p, b)
      BY <2>1, SameReach DEF SameModes
    <3> QED BY <1>0, <2>1, <3>1 DEF HeldInv
  <2> QED BY <2>2, <2>3 DEF InputInv
<1> QED BY <1>1, <1>2, <1>3, <1>4, <1>5, <1>6 DEF InputNext

\* The invariant of the input holds always.
LEMMA InputInvAlways == InputSpec => []InputInv
BY InputInvInit, InputInvNext, PTL DEF InputSpec

\* Every part of the input's state has its type: the dongle's queue its room, a
\* latch its clocks, the mouse a scale exactly while it is on.
THEOREM InputTypes == InputSpec => []InputTypeOK
<1>1. ASSUME InputInv PROVE InputTypeOK
  <2>1. Typed
    BY <1>1 DEF InputInv
  <2>2. /\ pads \in PadSet /\ kbd \in Dongle /\ Len(kbd.queue) <= kbd.in /\ gi \in Inputs
        /\ pins \in SUBSET {"latch", "clock"} /\ events \in 0 .. Events
        /\ mouse.on = (mouse.scale # 0) /\ mouse.scale \in 0 .. Scales - 1
    BY <2>1 DEF Typed, Sound, Mice
  <2>3. Len(kbd.queue) \in Nat /\ QueueSize \in Nat
    BY <2>2, DongleConstants DEF Dongle
  <2>4. kbd.in \in Len(kbd.queue) .. QueueSize
    BY <2>2, <2>3 DEF Dongle
  <2>5. \A p \in Player : pads.latch[p].set \subseteq Button /\ pads.latch[p].n \in 0 .. Clocks
    BY <2>2 DEF PadSet, Latches
  <2>6. kbd.state \in {"stop", "start", "ready"} /\ kbd.bypassed \in {0, 1, 255}
        /\ kbd.clock \in 0 .. Width
    BY <2>2 DEF Dongle
  <2>7. /\ pads.pressed \in [Player -> SUBSET Button] /\ gi.p2keys \subseteq {"RALT", "LALT"}
        /\ gi.dig \in [Player -> SUBSET Dir] /\ gi.ana \in [Player -> SUBSET Dir]
    BY <2>2 DEF PadSet, Inputs
  <2> QED BY <2>2, <2>4, <2>5, <2>6, <2>7 DEF InputTypeOK
<1> QED BY <1>1, InputInvAlways, PTL

\* What the program takes for a key press is one, whatever is queued and thrown
\* away: a code that comes from a release always has a Break before it
\* (cu_kbd.c:141).
THEOREM NeverFalsePress == InputSpec => []NoFalsePress
<1>1. InputInv => NoFalsePress
  BY DEF InputInv, DongleInv, Transfer, NoFalsePress
<1> QED BY <1>1, InputInvAlways, PTL

\* A pressed button is held by something that presses it, as long as no mode
\* was switched with something held (ginput.c:266).
THEOREM NeverStuckButtons == InputSpec => []NoStuckButtons
<1>1. InputInv => NoStuckButtons
  BY DEF InputInv, HeldInv, NoStuckButtons, Reaches
<1> QED BY <1>1, InputInvAlways, PTL

\* A program that moves one pin at a time reads what was pressed at the latch
\* (cu_ctr.c:60).
THEOREM AlwaysReadsTheLatch == InputSpec => []ReadsTheLatch
<1>1. InputInv => ReadsTheLatch
  BY ReadsFollow DEF InputInv
<1> QED BY <1>1, InputInvAlways, PTL
=============================================================================
