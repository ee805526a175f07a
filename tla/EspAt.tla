-------------------------------- MODULE EspAt --------------------------------
(***************************************************************************)
(* The command side of the ESP8266 module (cu_esp.c): lines of bytes from  *)
(* the program, AT commands, transparent ("unvarnished") transmission, the *)
(* four connections and the host's sockets behind them.                    *)
(*                                                                         *)
(* What the module says to the program is the sequence "said" of a step:   *)
(* what it puts into its ring; the ring and the UART are not modelled. A   *)
(* token of input is a whole command line with its line end, a '+', or     *)
(* bytes that are neither (and do not start with "AT").                    *)
(*                                                                         *)
(* Definitions named Fault... are faulty variants of the definition after  *)
(* them; no specification uses them. Each breaks one of the properties.    *)
(***************************************************************************)
EXTENDS Integers, Sequences, SequencesExt, FiniteSetsExt

CONSTANTS
  Command,   \* command lines, named below
  Bytes,     \* other input
  Fd,        \* descriptors of the host, 0 is its standard input
  Wrap,      \* the cycle counter counts modulo Wrap
  Delay,     \* ESP_UNVARNISHED_DELAY
  Rollover,  \* a deadline farther away than this is taken for wrapped
  MaxLine    \* bound: tokens in write_buf

ASSUME EspAtAssumption ==
  /\ Command \subseteq
       {"ATE0", "ATE1", "CIPSTART", "CIPSTART=0", "CIPSTART=1", "CIPSTART=4", "CIPSTART=?",
        "CIPCLOSE", "CIPCLOSE=0", "CIPCLOSE=1", "CIPCLOSE=4", "CIPCLOSE=5",
        "CIPMUX=0", "CIPMUX=1", "CIPSEND", "CIPSEND?", "CIPSEND=9", "CIPSEND=0,9",
        "CIPSEND=1,9", "CWQAP", "CWSTARTSMART", "CIPMODE=9", "OK", "ERROR", "BAD", "SILENT"}
  /\ Fd \subseteq Nat /\ 0 \in Fd
  /\ Wrap \in Nat /\ Delay \in 1 .. Wrap - 1 /\ Rollover \in 1 .. Wrap - 1
  /\ MaxLine \in Nat

VARIABLES
  esp,    \* esp_state, as far as this module is about it
  fds,    \* what the host's descriptors are open on
  now,    \* cpu_state.cycle
  said,   \* what the last step sent to the program
  gave,   \* history: what the host took, and what was due
  lost,   \* history: did the last step close or forget a connected socket
  fresh,  \* history: what was written for the connection and not handed on
  past    \* history: was the pin reset, was transparent mode left

vars == <<esp, fds, now, said, gave, lost, fresh, past>>

Connection == 0 .. 3           \* the ones that are polled and reset
Entry == 0 .. 4                \* socks has one more, as commands have
None == -1                     \* ESP_INVALID_SOCKET
Plus == "+"
Stale == "stale"               \* a byte of write_buf that was used before
Payload == Bytes \cup {Plus}
Input == Command \cup Payload
FdState == {"free", "std", "unconnected", "linked"}

\* Connecting: the name is not found, no socket is left, every address refuses,
\* one accepts. Receiving: nothing (or the end of the stream), data, an error.
Outcome == {"unknown", "nosocket", "refused", "linked"}
Receipt == {"none", "data", "error"}

\* send() fails, or takes so many bytes and no more.
Failed == -1
Sending == Failed .. MaxLine

\* A step works on m: the two states, what is said, what the host takes and
\* whether it takes less than it is given, and whether a connection is lost.
Begin == [esp |-> esp, fds |-> fds, said |-> <<>>, lost |-> FALSE,
          gave |-> [handed |-> FALSE, got |-> <<>>, short |-> FALSE]]
Say(m, texts) == [m EXCEPT !.said = @ \o texts]
Ok(m) == Say(m, <<"OK">>)
Error(m) == Say(m, <<"ERROR">>)
Linked(m, i) == m.esp.socks[i] # None
Connected(m, i) == Linked(m, i) /\ m.fds[m.esp.socks[i]] = "linked"

-----------------------------------------------------------------------------
(* Sockets *)

\* Forgets the connection, and leaves its socket open.
ForgetSocket(m, i) ==
  [m EXCEPT !.esp.socks[i] = None, !.lost = @ \/ Connected(m, i)]

FaultCloseSocket(m, i) ==
  [m EXCEPT !.fds = [fd \in Fd |-> IF fd = m.esp.socks[i] THEN "free" ELSE @[fd]]]
\* close() of what is no open descriptor fails, and nothing looks at that.
CloseSocket(m, i) ==
  [ForgetSocket(m, i) EXCEPT
     !.fds = [fd \in Fd |-> IF fd = m.esp.socks[i] THEN "free" ELSE @[fd]]]

CloseSockets(m, S) ==
  [m EXCEPT !.esp.socks = [i \in Entry |-> IF i \in S THEN None ELSE @[i]],
            !.lost = @ \/ \E i \in S : Connected(m, i),
            !.fds = [fd \in Fd |-> IF \E i \in S : m.esp.socks[i] = fd
                                     THEN "free" ELSE @[fd]]]

FreeFds(m) == {fd \in Fd : m.fds[fd] = "free"}

\* socket() on the lowest free descriptor, as POSIX has it.
OpenSocket(m, state) ==
  LET fd == Min(FreeFds(m))
  IN [m EXCEPT !.esp.socks[0] = fd, !.fds[fd] = state]

\* Connecting closes the socket of connection 0, the number that was asked for
\* is not used. That all addresses refused is not noticed.
Connect(m, outcome) ==
  LET closed == CloseSocket(m, 0)
  IN CASE outcome = "unknown" -> Error(m)
       [] outcome # "unknown" /\ (outcome = "nosocket" \/ FreeFds(closed) = {}) ->
            Error(closed)
       [] outcome = "refused" /\ FreeFds(closed) # {} ->
            Say(OpenSocket(closed, "unconnected"), <<"LINKED">>)
       [] outcome = "linked" /\ FreeFds(closed) # {} ->
            Say(OpenSocket(closed, "linked"), <<"LINKED">>)

\* A window of transparent data goes to connection 0. That the host takes less
\* than it is given is not noticed, and the window is over in any case.
HandOver(m, n, sends) ==
  LET buf   == [i \in 1 .. n |-> IF i <= Len(m.esp.line) THEN m.esp.line[i] ELSE Stale]
      works == Connected(m, 0) /\ sends # Failed
      got   == IF works THEN SubSeq(buf, 1, Min({sends, n})) ELSE <<>>
      done  == [m EXCEPT !.gave = [handed |-> TRUE, got |-> got, short |-> works /\ sends < n],
                         !.esp.line = <<>>, !.esp.bytes = 0]
  IN IF works THEN done
     ELSE Say(ForgetSocket(done, 0), <<"ERROR", "UNLINKED">>)

-----------------------------------------------------------------------------
(* AT commands that change more than what they answer *)

Ate(m, on) == [Ok(m) EXCEPT !.esp.echo = on]

\* Being online is taken for granted from here on. A number is needed with
\* multiple connections only, and the connection must be free.
CipStart(m, numbered, i, outcome) ==
  LET online == [m EXCEPT !.esp.online = TRUE]
  IN IF numbered # m.esp.mux \/ (m.esp.mux /\ Linked(m, i)) THEN Error(online)
     ELSE Connect(online, outcome)

CipStartQuery(m) ==
  LET online == [m EXCEPT !.esp.online = TRUE]
  IN IF Linked(m, 0) THEN Ok(Ok(online)) ELSE Ok(online)

CipClose(m, numbered, i) ==
  CASE ~m.esp.mux -> IF numbered THEN Error(m) ELSE Say(m, <<"CLOSED">>)
    [] m.esp.mux /\ ~numbered -> Error(m)
    [] m.esp.mux /\ numbered -> Say(CloseSocket(m, i), <<"CLOSED">>)

CipCloseAll(m) ==
  IF m.esp.mux THEN Say(CloseSockets(m, Connection), <<"CLOSED">>) ELSE Error(m)

CipMux(m, on) ==
  IF on THEN Ok([m EXCEPT !.esp.mux = TRUE])
  ELSE Ok(CloseSockets([m EXCEPT !.esp.mux = FALSE], 1 .. 3))

\* "AT+CIPSEND": transparent mode, whether there is a connection or not.
CipSendTransparent(m) ==
  [m EXCEPT !.esp.mode = "UNVARNISHED", !.esp.end = 0, !.said = <<">">>]

CipSendQuery(m) == IF m.esp.online /\ Linked(m, 0) THEN Ok(m) ELSE Error(m)

\* "AT+CIPSEND=n,length": the prompt, but no mode that takes the bytes; and
\* no answer when the number is missing.
CipSend(m, numbered, i) ==
  LET asked == IF m.esp.mux THEN i ELSE 0
  IN IF ~m.esp.online \/ (m.esp.mux /\ ~numbered) \/ ~Linked(m, asked) THEN Error(m)
     ELSE IF numbered /\ Linked(m, i) THEN Say(m, <<">">>) ELSE m

CwQap(m) == [Ok(CloseSockets(m, Connection)) EXCEPT !.esp.online = FALSE]

\* "state |= ~flag" sets all the other flags.
CwStartSmart(m) ==
  [m EXCEPT !.esp.mux = TRUE, !.esp.echo = TRUE, !.esp.online = TRUE]

\* cu_esp_process_at: the commands above, and by their answer the ones that
\* keep no state another command depends on. A GPIO command fails always: the
\* mode of a pin can only be set while it is set.
ProcessAt(m, c, outcome) ==
  CASE c = "ATE0" -> Ate(m, FALSE)
    [] c = "ATE1" -> Ate(m, TRUE)
    [] c = "CIPSTART" -> CipStart(m, FALSE, 0, outcome)
    [] c = "CIPSTART=0" -> CipStart(m, TRUE, 0, outcome)
    [] c = "CIPSTART=1" -> CipStart(m, TRUE, 1, outcome)
    [] c = "CIPSTART=4" -> CipStart(m, TRUE, 4, outcome)
    [] c = "CIPSTART=?" -> CipStartQuery(m)
    [] c = "CIPCLOSE" -> CipClose(m, FALSE, 0)
    [] c = "CIPCLOSE=0" -> CipClose(m, TRUE, 0)
    [] c = "CIPCLOSE=1" -> CipClose(m, TRUE, 1)
    [] c = "CIPCLOSE=4" -> CipClose(m, TRUE, 4)
    [] c = "CIPCLOSE=5" -> CipCloseAll(m)
    [] c = "CIPMUX=0" -> CipMux(m, FALSE)
    [] c = "CIPMUX=1" -> CipMux(m, TRUE)
    [] c = "CIPSEND" -> CipSendTransparent(m)
    [] c = "CIPSEND?" -> CipSendQuery(m)
    [] c = "CIPSEND=9" -> CipSend(m, FALSE, 0)
    [] c = "CIPSEND=0,9" -> CipSend(m, TRUE, 0)
    [] c = "CIPSEND=1,9" -> CipSend(m, TRUE, 1)
    [] c = "CWQAP" -> CwQap(m)
    [] c = "CWSTARTSMART" -> CwStartSmart(m)
    [] c = "CIPMODE=9" -> Ok(Error(m))
    [] c = "OK" -> Ok(m)
    [] c = "ERROR" -> Error(m)
    [] c = "BAD" -> Say(m, <<"this no fun">>)
    [] c = "SILENT" -> m

-----------------------------------------------------------------------------
(* A byte from the program: cu_esp_uzebox_write *)

\* A line that starts with something else is no command.
AtInput(m, b, outcome) ==
  LET done == IF Len(m.esp.line) = 1 THEN ProcessAt(m, b, outcome) ELSE Error(m)
  IN IF b \in Command THEN [done EXCEPT !.esp.line = <<>>] ELSE m

OnlyPluses(m) ==
  m.esp.bytes = 3 /\ IsPrefix(<<Plus, Plus, Plus>>, m.esp.line)

FaultCloseWindow(m, sends) ==
  IF OnlyPluses(m) THEN [m EXCEPT !.esp.mode = "AT"]
  ELSE LET next == [m EXCEPT !.esp.end = (now + Delay) % Wrap]
       IN HandOver(next, Max({m.esp.bytes - 1, 0}), sends)
\* The window is over: its bytes are sent, unless they are just "+++".
CloseWindow(m, sends) ==
  IF OnlyPluses(m) THEN [m EXCEPT !.esp.mode = "AT"]
  ELSE LET next == [m EXCEPT !.esp.end = (now + Delay) % Wrap]
       IN HandOver(next, m.esp.bytes, sends)

\* The deadline, or now if it is so far away that the counter must have wrapped.
Unrolled(end) == IF now < end /\ end - now > Rollover THEN now ELSE end

\* Three '+' in a row leave the mode, wherever the windows are; the byte is
\* taken all the same.
TransparentInput(m, b, sends) ==
  LET plus  == IF b = Plus THEN Min({m.esp.plus + 1, 4}) ELSE 0
      bytes == m.esp.bytes + 1
      taken == [m EXCEPT !.esp.plus = plus, !.esp.bytes = bytes,
                         !.esp.mode = IF plus = 3 THEN "AT" ELSE @]
      end   == Unrolled(m.esp.end)
  IN CASE bytes = 1 -> [taken EXCEPT !.esp.end = (now + Delay) % Wrap]
       [] bytes > 1 /\ now < end -> [taken EXCEPT !.esp.end = end]
       [] bytes > 1 /\ now >= end -> CloseWindow([taken EXCEPT !.esp.end = end], sends)

Taken(b) == [Begin EXCEPT !.esp.line = Append(@, b)]
AtWritten(b, outcome) ==
  AtInput(IF esp.echo THEN Say(Taken(b), <<"echo">>) ELSE Taken(b), b, outcome)
TransparentWritten(b, sends) == TransparentInput(Taken(b), b, sends)

-----------------------------------------------------------------------------
(* The program looks for a byte: cu_esp_uzebox_read_ready *)

UpdateTimers(m, sends) ==
  IF m.esp.mode = "UNVARNISHED" /\ now >= m.esp.end THEN CloseWindow(m, sends) ELSE m

FaultProcessIpd(m, recv) ==
  LET failed == {i \in Connection : Linked(m, i) /\ (~Connected(m, i) \/ recv = "error")}
  IN IF failed # {} THEN CloseSocket(m, Min(failed)) ELSE m
\* What is no connected socket gives an error; not more than one is connected.
\* Data is passed on in transparent mode only; the first error ends the round.
ProcessIpd(m, recv) ==
  LET transparent == m.esp.mode = "UNVARNISHED"
      looked == {i \in Connection : Linked(m, i) /\ (transparent => i = 0)}
      Result(i) == IF Connected(m, i) THEN recv ELSE "error"
      failed == {i \in looked : Result(i) = "error"}
  IN IF failed # {}
       THEN Say(CloseSocket(m, Min(failed)), <<"CLOSED">>)
     ELSE IF transparent /\ 0 \in looked /\ Result(0) = "data"
       THEN Say(m, <<"data">>)
     ELSE m

\* The network is asked when the ring is empty.
Polled(empty, sends, recv) ==
  LET m == UpdateTimers(Begin, sends)
  IN IF empty /\ m.said = <<>> /\ m.esp.online THEN ProcessIpd(m, recv) ELSE m

-----------------------------------------------------------------------------
(* The specification *)

Init ==
  /\ esp = [model |-> FALSE, pin |-> FALSE, mode |-> "AT", line |-> <<>>,
            bytes |-> 0, end |-> 0, plus |-> 0, mux |-> FALSE, echo |-> FALSE,
            online |-> FALSE, socks |-> [i \in Entry |-> 0]]
  /\ fds = [fd \in Fd |-> IF fd = 0 THEN "std" ELSE "free"]
  /\ now = 0
  /\ said = <<>>
  /\ gave = [got |-> <<>>, due |-> <<>>, short |-> FALSE]
  /\ lost = FALSE
  /\ fresh = <<>>
  /\ past = [reset |-> FALSE, broke |-> FALSE]

\* The step ends in m; "due" is what the program wrote for the connection.
Becomes(m, due) ==
  /\ esp' = m.esp
  /\ fds' = m.fds
  /\ said' = m.said
  /\ gave' = [got |-> m.gave.got, due |-> IF m.gave.handed THEN due ELSE <<>>,
              short |-> m.gave.short]
  /\ lost' = m.lost
  /\ fresh' = IF m.gave.handed THEN <<>> ELSE due
  /\ past' = [reset |-> past.reset \/ (esp.model /\ esp.pin /\ ~m.esp.pin),
              broke |-> past.broke \/ (esp.mode # "AT" /\ m.esp.mode = "AT")]

\* A byte is dropped where the emulation is off.
WriteAt(b) ==
  /\ esp.model /\ esp.mode = "AT"
  /\ Len(esp.line) < IF b \in Command THEN MaxLine ELSE MaxLine - 1
  /\ \E outcome \in Outcome : Becomes(AtWritten(b, outcome), <<>>)
  /\ UNCHANGED now

WriteTransparent(b) ==
  /\ esp.model /\ esp.mode = "UNVARNISHED"
  /\ Len(esp.line) < MaxLine
  /\ \E sends \in Sending :
       Becomes(TransparentWritten(b, sends), IF past.broke THEN <<>> ELSE Append(fresh, b))
  /\ UNCHANGED now

Poll ==
  /\ \E empty \in BOOLEAN, sends \in Sending, recv \in Receipt :
       Becomes(Polled(empty, sends, recv), fresh)
  /\ UNCHANGED now

\* Connections are forgotten, and their sockets stay open.
ResetNetwork(m) ==
  IF ~m.esp.model THEN m
  ELSE [m EXCEPT !.esp.socks = [i \in Entry |-> IF i \in Connection THEN None ELSE @[i]],
                 !.lost = @ \/ \E i \in Connection : Connected(m, i)]

\* The reset pin goes low. The mode and the bytes of an unfinished line stay.
PinLow ==
  /\ esp.pin
  /\ Becomes(ResetNetwork([Begin EXCEPT !.esp.pin = FALSE, !.esp.echo = TRUE]), fresh)
  /\ UNCHANGED now

\* And up: the configuration file, read now, says whether there is a module.
PinHigh ==
  /\ ~esp.pin
  /\ \E model \in BOOLEAN :
       Becomes(Say([Begin EXCEPT !.esp.pin = TRUE, !.esp.model = model,
                                 !.esp.echo = TRUE], <<"ready">>), fresh)
  /\ UNCHANGED now

Pass ==
  /\ now' = (now + 1) % Wrap
  /\ Becomes(Begin, fresh)

Next ==
  \/ \E b \in Input : WriteAt(b)
  \/ \E b \in Payload : WriteTransparent(b)
  \/ Poll
  \/ PinLow
  \/ PinHigh
  \/ Pass

Spec == Init /\ [][Next]_vars

-----------------------------------------------------------------------------
(* Properties *)

Token == Input \cup {Stale}

TypeOK ==
  /\ esp.mode \in {"AT", "UNVARNISHED"}
  /\ {esp.model, esp.pin, esp.mux, esp.echo, esp.online} \subseteq BOOLEAN
  /\ esp.line \in Seq(Input) /\ Len(esp.line) <= MaxLine
  /\ esp.bytes \in 0 .. MaxLine /\ esp.end \in 0 .. Wrap - 1 /\ esp.plus \in 0 .. 4
  /\ esp.socks \in [Entry -> Fd \cup {None}]
  /\ fds \in [Fd -> FdState]
  /\ now \in 0 .. Wrap - 1
  /\ gave.got \in Seq(Token) /\ gave.due \in Seq(Input)
  /\ {gave.short, lost} \subseteq BOOLEAN

\* Once the module was reset, a connection that is not invalid has an open
\* socket of its own. (At power on the entries are 0, the host's standard input,
\* see CloseSocket and the zero esp_state. Entry 4 is not reset and stays 0 until
\* the program closes it, and with it whatever descriptor 0 is by then.)
ConnectionsOpen ==
  past.reset /\ esp.socks[4] # None =>
    /\ \A i \in Connection : esp.socks[i] # None =>
         fds[esp.socks[i]] \in {"unconnected", "linked"}
    /\ \A i, j \in Connection : esp.socks[i] = esp.socks[j] => i = j \/ esp.socks[i] = None

\* Some of the texts are said.
Says(texts, T) == \E k \in DOMAIN texts : texts[k] \in T

\* What a window gives to the host is what was due, from its first byte on: all
\* of it, unless the host itself took less or the program is told that the
\* connection is gone.
HandedIntact ==
  /\ IsPrefix(gave.got, gave.due)
  /\ gave.got = gave.due \/ gave.short \/ Says(said, {"UNLINKED"})

\* Until the program leaves transparent mode with "+++" for the first time,
\* every byte it writes there is handed to the host once and in order, or its
\* window is refused by the host, however polls, resets, windows and the wrap of
\* the counter fall between the bytes.
TransparentIntact ==
  ~past.broke =>
    /\ HandedIntact
    /\ esp.mode = "UNVARNISHED" => esp.line = fresh /\ esp.bytes = Len(fresh)

\* What may end the connection that the program has, because it says so.
Starting == {"CIPSTART", "CIPSTART=0", "CIPSTART=1", "CIPSTART=4"}
Ending == {"CIPMUX=0", "CWQAP"}

\* The module tells of every connection it closes or forgets. Only two commands
\* of the program's own end connections with a mere OK, starting a connection
\* ends connection 0 with the answer whether there is a new one, and a reset says
\* nothing.
LossReported ==
  [][ lost' =>
        \/ Says(said', {"CLOSED", "UNLINKED"})
        \/ \E c \in Starting : WriteAt(c) /\ Says(said', {"LINKED", "ERROR"})
        \/ \E c \in Ending : WriteAt(c) /\ Says(said', {"OK"})
        \/ PinLow ]_vars
==============================================================================
