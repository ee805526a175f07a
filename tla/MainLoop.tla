------------------------------ MODULE MainLoop ------------------------------
(***************************************************************************)
(* The main loop (main.c) and what it keeps over runs (eepdump.c,          *)
(* romdump.c): passes of the loop run frames, in which the emulated        *)
(* program writes its EEPROM and its flash; at the end of a burst of       *)
(* writes and at the end of the run the memories go to host files, from    *)
(* which the next run starts. The process may be killed at any time.       *)
(*                                                                         *)
(* A memory is a sequence of cells; a unit of HostFiles is a cell here.    *)
(*                                                                         *)
(* Definitions named Fault... are faulty variants of the definition after  *)
(* them; no specification uses them. Each breaks one of the properties.    *)
(***************************************************************************)
EXTENDS HostFiles

CONSTANTS
  Eep, Rom,  \* the two memories: their host files
  Cells,     \* cells of each memory
  Erased,    \* what memory starts with that no file holds: 0xFF and 0
  Game,      \* cells of the flash that the game file holds, and their values
  Buffered,  \* memories that fit into a stream's buffer
  Writes,    \* bound: writes and watchdog resets of a run
  Runs       \* bound: runs of the emulator

ASSUME MainLoopAssumption ==
  /\ Host = {Eep, Rom} /\ Eep # Rom
  /\ Cells \in Nat \ {0}
  /\ Value \subseteq Nat /\ Erased \in [{Eep, Rom} -> Value]
  /\ Buffered \subseteq {Eep, Rom}
  /\ \A n \in 1 .. Cells \cap DOMAIN Game : Game[n] \in Value

Memory == {Eep, Rom}

VARIABLES
  pc,       \* "off", then "pass", "events", "frame", then "quit", "over"
  io,       \* the host files and the channel
  mem,      \* contents of the memories
  changed,  \* memories whose change indicator is set
  peepch,   \* main_peepch and main_promch: those that were in the last pass
  todo,     \* memories that are being dumped, and how far the first one is
  mode,     \* main_ispause, main_isadvfr, main_exit
  \* History:
  writes, runs,
  kept,     \* per memory what its last dump that ended holds
  missed    \* memories with a change that no indicator tells of

vars == <<pc, io, mem, changed, peepch, todo, mode, writes, runs, kept, missed>>

Unpaused == [pause |-> FALSE, adv |-> FALSE, exit |-> FALSE]

Blank(m) == [n \in 1 .. Cells |-> Erased[m]]

Init ==
  /\ pc = "off" /\ io = StartIO(<<>>)
  /\ mem = [m \in Memory |-> Blank(m)]
  /\ changed = {} /\ peepch = {} /\ todo = <<>>
  /\ mode = Unpaused
  /\ writes = 0 /\ runs = 0
  /\ kept = mem /\ missed = {}
-----------------------------------------------------------------------------
(* Dumps: whole files, read and written through the channel.               *)

\* filesys_read of a whole memory: as Read of HostFiles, cells for units. "got"
\* is what there is of it.
ReadAll(f) ==
  LET o   == ReadOpened(f)
      n   == IF ~o.ch.rd \/ o.ch.at >= Len(o.ch.view) THEN 0
             ELSE IF Len(o.ch.view) - o.ch.at < Cells THEN Len(o.ch.view) - o.ch.at
             ELSE Cells
  IN [io  |-> [o EXCEPT !.ch.pos = @ + n, !.ch.at = @ + n],
      got |-> [u \in 1 .. n |-> o.ch.view[o.ch.at + u]]]

\* The start of "new" over "old", in a file or in the view of a stream.
Over(new, n, old) ==
  [u \in 1 .. (IF n > Len(old) THEN n ELSE Len(old)) |-> IF u <= n THEN new[u] ELSE old[u]]

\* filesys_write of a whole memory to the start of a file.
WriteAll(f, data) ==
  LET o == WriteOpened(f)
  IN IF o.ch.wr
       THEN [o EXCEPT !.ch.view = Over(data, Cells, @),
                      !.ch.pos = @ + Cells, !.ch.at = @ + Cells]
       ELSE [o EXCEPT !.crashed = TRUE]

\* eepdump_load, romdump_load: a file that is too short counts for nothing.
Load(f, m) ==
  LET got == ReadAll(Open(f, m)).got
  IN IF Len(got) = Cells THEN got ELSE Blank(m)

\* Leaves a file open that was too short.
FaultAfterLoad(f, m) ==
  LET r == ReadAll(Open(f, m)) IN IF Len(r.got) = Cells THEN Flush(r.io) ELSE r.io

AfterLoad(f, m) == Flush(ReadAll(Open(f, m)).io)

\* The game file lies over what the dump held.
Overlaid(rom) == [n \in 1 .. Cells |-> IF n \in DOMAIN Game THEN Game[n] ELSE rom[n]]

\* main, up to the loop.
Start ==
  /\ pc \in {"off", "over"} /\ todo = <<>> /\ runs < Runs
  /\ pc' = "pass"
  /\ io' = AfterLoad(AfterLoad(StartIO(io.files), Rom), Eep)
  /\ mem' = [m \in Memory |-> IF m = Rom THEN Overlaid(Load(io, Rom)) ELSE Load(io, Eep)]
  /\ changed' = {} /\ peepch' = {}
  /\ mode' = Unpaused
  /\ writes' = 0 /\ runs' = runs + 1 /\ missed' = {}
  /\ UNCHANGED <<todo, kept>>

\* eepdump_save and romdump_save in the three steps between which the process
\* may be killed: the file is open for writing, is written, is closed. Where it
\* can not be opened, the null stream ends the process.
Dump ==
  /\ todo # <<>> /\ ~io.crashed
  /\ LET m == Head(todo).of
     IN CASE Head(todo).at = "begin" ->
               /\ io' = WriteOpened(Open(io, m))
               /\ todo' = [todo EXCEPT ![1].at = "opened"]
               /\ UNCHANGED <<kept, missed>>
          [] Head(todo).at = "opened" ->
               /\ io' = WriteAll(io, mem[m])
               /\ todo' = [todo EXCEPT ![1].at = "written"]
               /\ UNCHANGED <<kept, missed>>
          [] OTHER ->
               /\ io' = Flush(io)
               /\ todo' = Tail(todo)
               /\ kept' = [kept EXCEPT ![m] = mem[m]]
               /\ missed' = missed \ {m}
  /\ UNCHANGED <<pc, mem, changed, peepch, mode, writes, runs>>

\* The dumps to do of those of two memories that are in a set, in order.
Job(m) == [of |-> m, at |-> "begin"]
Among(both, S) ==
  (IF both[1] \in S THEN <<Job(both[1])>> ELSE <<>>)
    \o (IF both[2] \in S THEN <<Job(both[2])>> ELSE <<>>)
-----------------------------------------------------------------------------
(* The loop.                                                               *)

Idle(at) == pc = at /\ todo = <<>>

FaultEnded == Among(<<Eep, Rom>>, changed \ peepch)
Ended == Among(<<Eep, Rom>>, peepch \ changed)

\* A pass that runs a frame (FramePacing says which do): a memory is dumped in
\* the first one after the frames that changed it.
Pass ==
  /\ Idle("pass")
  /\ todo' = Ended
  /\ peepch' = changed /\ changed' = {}
  /\ pc' = "events"
  /\ UNCHANGED <<io, mem, mode, writes, runs, kept, missed>>

\* Events: F9, F10, and all that end the loop.
Event ==
  /\ Idle("events")
  /\ \/ mode' = [mode EXCEPT !.pause = ~@]
     \/ mode' = [mode EXCEPT !.adv = TRUE]
     \/ mode' = [mode EXCEPT !.exit = TRUE]
  /\ UNCHANGED <<pc, io, mem, changed, peepch, todo, writes, runs, kept, missed>>

After == IF mode.exit THEN "quit" ELSE "pass"

\* A pause is kept, or a frame runs: the one at which a replay of captured
\* input ends is the last one before a pause.
Frame ==
  /\ Idle("events")
  /\ IF mode.pause /\ ~mode.adv
     THEN pc' = After /\ UNCHANGED mode
     ELSE pc' = "frame" /\ mode' \in {mode, [mode EXCEPT !.pause = TRUE]}
  /\ UNCHANGED <<io, mem, changed, peepch, todo, writes, runs, kept, missed>>

\* A single frame leaves the loop paused.
FrameEnd ==
  /\ pc = "frame" /\ pc' = After
  /\ mode' = IF mode.adv THEN [mode EXCEPT !.adv = FALSE, !.pause = TRUE] ELSE mode
  /\ UNCHANGED <<io, mem, changed, peepch, todo, writes, runs, kept, missed>>

FaultUnsaved == Among(<<Rom, Eep>>, peepch)
Unsaved == Among(<<Rom, Eep>>, peepch \cup changed)

\* The end of main: an indicator is asked, and cleared, only where the last
\* pass saw no change.
Quit ==
  /\ Idle("quit")
  /\ pc' = "over" /\ todo' = Unsaved /\ changed' = changed \cap peepch
  /\ UNCHANGED <<io, mem, peepch, mode, writes, runs, kept, missed>>
-----------------------------------------------------------------------------
(* The program, in a frame.                                                *)

InFrame == pc = "frame" /\ writes < Writes /\ writes' = writes + 1

Elsewhere == UNCHANGED <<pc, io, peepch, todo, mode, runs, kept>>

\* An EEPROM write ends. The indicator is not set by a change but by a
\* difference of the old value from the address.
EepWrite(n, v) ==
  LET old == mem[Eep][n]
  IN /\ InFrame
     /\ mem' = [mem EXCEPT ![Eep][n] = v]
     /\ changed' = IF old # n - 1 THEN changed \cup {Eep} ELSE changed
     /\ missed' = IF old = n - 1 /\ v # old /\ Eep \notin changed \cup peepch
                  THEN missed \cup {Eep} ELSE missed
     /\ Elsewhere

\* A flash page is erased or written.
RomWrite(n, v) ==
  /\ InFrame
  /\ mem' = [mem EXCEPT ![Rom][n] = v]
  /\ changed' = changed \cup {Rom}
  /\ UNCHANGED missed /\ Elsewhere

\* A watchdog reset clears the indicators.
Watchdog ==
  /\ InFrame
  /\ changed' = {}
  /\ missed' = missed \cup (changed \ peepch)
  /\ UNCHANGED mem /\ Elsewhere

\* The process is killed. Of the dump it is at, what the stream has given to
\* the file stays: all or nothing if it fits into the stream's buffer.
Kill ==
  /\ pc \notin {"off"} /\ ~(pc = "over" /\ todo = <<>>)
  /\ pc' = "off" /\ todo' = <<>>
  /\ LET m == Head(todo).of
     IN IF todo # <<>> /\ Head(todo).at = "written" /\ ~io.crashed
        THEN \E n \in IF m \in Buffered THEN {0, Cells} ELSE 0 .. Cells :
               LET file == IF n = 0 THEN io.files[m] ELSE Over(io.ch.view, n, io.files[m])
               IN /\ io' = StartIO(Stored(io.files, m, file))
                  /\ kept' = [kept EXCEPT ![m] = IF n = Cells THEN mem[m] ELSE @]
        ELSE io' = StartIO(io.files) /\ UNCHANGED kept
  /\ mem' = [m \in Memory |-> Blank(m)] /\ changed' = {} /\ peepch' = {} /\ missed' = {}
  /\ mode' = Unpaused
  /\ UNCHANGED <<writes, runs>>

Next ==
  \/ Start \/ Dump \/ Pass \/ Event \/ Frame \/ FrameEnd \/ Quit
  \/ \E n \in 1 .. Cells, v \in Value : EepWrite(n, v) \/ RomWrite(n, v)
  \/ Watchdog \/ Kill

Fairness == WF_vars(Dump) /\ WF_vars(Pass) /\ WF_vars(Frame)
            /\ WF_vars(FrameEnd) /\ WF_vars(Quit)

Spec == Init /\ [][Next]_vars /\ Fairness
-----------------------------------------------------------------------------
(* Properties. *)

\* No stream stays open but in a dump.
TypeOK ==
  /\ pc \in {"off", "pass", "events", "frame", "quit", "over"}
  /\ mem \in [Memory -> [1 .. Cells -> Value]]
  /\ changed \subseteq Memory /\ peepch \subseteq Memory /\ missed \subseteq Memory
  /\ Len(todo) <= 2 /\ (todo = <<>> => ~io.ch.rd)

\* After a run ended by itself, the next one starts with the memories it left,
\* but for changes that the indicators did not tell of (cu_avr.c:437, 1340) and
\* cells of the game file, which is loaded over the dump.
SavedOnExit ==
  pc = "over" /\ todo = <<>> =>
    \A m \in Memory \ missed :
      mem[m] = Load(io, m) \/ (m = Rom /\ mem[m] = Overlaid(Load(io, m)))

\* A process that is killed anywhere, in the middle of a dump, too, leaves the
\* EEPROM of the last dump that ended: never a shorter file, never a mixture.
KillKeepsDump == \A m \in Buffered : Load(StartIO(io.files), m) = kept[m]
=============================================================================
