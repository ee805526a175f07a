------------------------------ MODULE EspProofs ------------------------------
(***************************************************************************)
(* The connections of the ESP8266 module and its transparent mode for any  *)
(* set of host descriptors, any bytes and any wrap of the cycle counter.   *)
(* A step of EspAt works on a record m: what each operation on such a      *)
(* record keeps is stated first, then what each command, each byte and     *)
(* each poll does, then the steps.                                         *)
(***************************************************************************)
EXTENDS EspAt, ModularArith, SequenceTheorems

\* The sockets, and the rest of esp_state.
Socks == [Entry -> Fd \cup {None}]
EspType ==
  [model : BOOLEAN, pin : BOOLEAN, mode : {"AT", "UNVARNISHED"}, line : Seq(Input),
   bytes : Nat, end : 0 .. Wrap - 1, plus : 0 .. 4, mux : BOOLEAN, echo : BOOLEAN,
   online : BOOLEAN, socks : Socks]
Text == {"OK", "ERROR", "CLOSED", "UNLINKED", "LINKED", ">", "data", "this no fun",
         "echo", "ready"}
Work ==
  [esp : EspType, fds : [Fd -> FdState], said : Seq(Text), lost : BOOLEAN,
   gave : [handed : BOOLEAN, got : Seq(Token), short : BOOLEAN]]

\* Texts that tell that a connection is gone.
Gone == {"CLOSED", "UNLINKED"}

\* Connections have open sockets of their own.
Opened(m) ==
  /\ \A i \in Connection : m.esp.socks[i] # None =>
       m.fds[m.esp.socks[i]] \in {"unconnected", "linked"}
  /\ \A i, j \in Connection :
       m.esp.socks[i] = m.esp.socks[j] => i = j \/ m.esp.socks[i] = None

\* What an operation on the sockets keeps: the connections' own open sockets, as
\* long as entry 4 is not closed.
Sound(m, d) ==
  /\ d.esp.socks[4] # None => m.esp.socks[4] # None
  /\ Opened(m) /\ d.esp.socks[4] # None => Opened(d)
NoLoss(m, d) == d.lost => m.lost

\* What the bytes of the program depend on.
SameInput(m, d) ==
  /\ d.esp.model = m.esp.model /\ d.esp.pin = m.esp.pin
  /\ d.esp.mode = m.esp.mode /\ d.esp.line = m.esp.line /\ d.esp.bytes = m.esp.bytes
  /\ d.esp.end = m.esp.end /\ d.esp.plus = m.esp.plus /\ d.gave = m.gave
SameSockets(m, d) == d.esp.socks = m.esp.socks /\ d.fds = m.fds /\ d.lost = m.lost
-----------------------------------------------------------------------------
\* The relations are transitive, and what leaves the sockets alone is sound.
LEMMA SoundTrans ==
  ASSUME NEW m, NEW d, NEW e
  PROVE  /\ Sound(m, d) /\ Sound(d, e) => Sound(m, e)
         /\ SameInput(m, d) /\ SameInput(d, e) => SameInput(m, e)
         /\ SameSockets(m, d) => Sound(m, d) /\ NoLoss(m, d)
         /\ SameInput(m, m) /\ SameSockets(m, m)
<1>1. Sound(m, d) /\ Sound(d, e) => Sound(m, e)
  BY DEF Sound
<1>2. SameInput(m, d) /\ SameInput(d, e) => SameInput(m, e)
  BY DEF SameInput
<1>3. SameSockets(m, d) => Sound(m, d) /\ NoLoss(m, d)
  BY DEF SameSockets, Sound, NoLoss, Opened
<1> QED BY <1>1, <1>2, <1>3 DEF SameInput, SameSockets

\* Saying something changes nothing else, and what was said stays.
LEMMA SayIs ==
  ASSUME NEW m \in Work, NEW texts \in Seq(Text)
  PROVE  LET d == Say(m, texts)
         IN /\ d \in Work /\ SameInput(m, d) /\ SameSockets(m, d)
            /\ \A T : Says(m.said, T) \/ Says(texts, T) => Says(d.said, T)
<1> DEFINE d == Say(m, texts)
<1>1. m.said \in Seq(Text)
  BY DEF Work
<1>2. /\ m.said \o texts \in Seq(Text)
      /\ Len(m.said \o texts) = Len(m.said) + Len(texts)
      /\ \A i \in 1 .. Len(m.said) + Len(texts) :
           (m.said \o texts)[i] = IF i <= Len(m.said) THEN m.said[i] ELSE texts[i - Len(m.said)]
  BY <1>1, ConcatProperties
<1>3. /\ Len(m.said) \in Nat /\ Len(texts) \in Nat /\ DOMAIN m.said = 1 .. Len(m.said)
      /\ DOMAIN texts = 1 .. Len(texts)
      /\ DOMAIN (m.said \o texts) = 1 .. Len(m.said) + Len(texts)
  BY <1>1, <1>2, LenProperties
<1> DEFINE s == m.said \o texts
<1>4. d \in Work /\ SameInput(m, d) /\ SameSockets(m, d) /\ d.said = s
  <2> HIDE DEF s
  <2>1. d = [m EXCEPT !.said = s]
    BY DEF Say, s
  <2>2. s \in Seq(Text)
    BY <1>2 DEF s
  <2> QED BY <2>1, <2>2 DEF Work, SameInput, SameSockets
<1>5. ASSUME NEW T, NEW k \in DOMAIN m.said, m.said[k] \in T
      PROVE  Says(s, T)
  <2>1. k \in DOMAIN s /\ s[k] = m.said[k]
    BY <1>2, <1>3
  <2> QED BY <1>5, <2>1 DEF Says
<1>6. ASSUME NEW T, NEW k \in DOMAIN texts, texts[k] \in T
      PROVE  Says(s, T)
  <2>1. Len(m.said) + k \in DOMAIN s /\ s[Len(m.said) + k] = texts[k]
    BY <1>2, <1>3
  <2> QED BY <1>6, <2>1 DEF Says
<1> HIDE DEF s, d
<1>7. \A T : Says(m.said, T) \/ Says(texts, T) => Says(s, T)
  BY <1>5, <1>6 DEF Says
<1> QED BY <1>4, <1>7 DEF d

\* A sequence of one or two members.
LEMMA ShortSeqs ==
  ASSUME NEW S, NEW a \in S, NEW b \in S
  PROVE  /\ <<a>> \in Seq(S) /\ Len(<<a>>) = 1 /\ <<a>>[1] = a
         /\ <<a, b>> \in Seq(S)
  OBVIOUS

\* An answer changes nothing else, and adds to what was said.
Answer(m, d) ==
  /\ d \in Work /\ SameInput(m, d) /\ SameSockets(m, d)
  /\ \A T : Says(m.said, T) => Says(d.said, T)

\* The texts are answers.
LEMMA Answering ==
  ASSUME NEW m \in Work
  PROVE  /\ \A t \in Text : Answer(m, Say(m, <<t>>)) /\ Says(Say(m, <<t>>).said, {t})
         /\ Answer(m, Ok(m)) /\ Says(Ok(m).said, {"OK"})
         /\ Answer(m, Error(m)) /\ Says(Error(m).said, {"ERROR"})
         /\ Answer(m, Say(m, <<"ERROR", "UNLINKED">>))
         /\ Says(Say(m, <<"ERROR", "UNLINKED">>).said, {"UNLINKED"})
<1>1. ASSUME NEW t \in Text
      PROVE  Answer(m, Say(m, <<t>>)) /\ Says(Say(m, <<t>>).said, {t})
  <2>1. <<t>> \in Seq(Text)
    BY ShortSeqs
  <2>2. 1 \in DOMAIN <<t>> /\ <<t>>[1] = t
    OBVIOUS
  <2>3. Says(<<t>>, {t})
    BY <2>2 DEF Says
  <2> QED BY <2>1, <2>3, SayIs DEF Answer
<1>2. "OK" \in Text /\ "ERROR" \in Text
  BY DEF Text
<1>3. <<"ERROR", "UNLINKED">> \in Seq(Text)
  BY ShortSeqs DEF Text
<1>4. Says(<<"ERROR", "UNLINKED">>, {"UNLINKED"})
  <2>1. 2 \in DOMAIN <<"ERROR", "UNLINKED">> /\ <<"ERROR", "UNLINKED">>[2] = "UNLINKED"
    OBVIOUS
  <2> QED BY <2>1 DEF Says
<1>5. /\ Answer(m, Say(m, <<"ERROR", "UNLINKED">>))
      /\ Says(Say(m, <<"ERROR", "UNLINKED">>).said, {"UNLINKED"})
  BY <1>3, <1>4, SayIs DEF Answer
<1> QED BY <1>1, <1>2, <1>5 DEF Ok, Error

\* More texts contain the ones of fewer.
LEMMA SaysMore ==
  ASSUME NEW texts, NEW S, NEW T, S \subseteq T, Says(texts, S)
  PROVE  Says(texts, T)
  BY DEF Says
-----------------------------------------------------------------------------
(* Sockets *)

\* The constants.
LEMMA Sizes ==
  /\ Wrap \in Nat /\ Wrap > 1 /\ Wrap \in Nat \ {0} /\ 0 \in 0 .. Wrap - 1
  /\ Delay \in Nat /\ MaxLine \in Nat
<1>1. Wrap \in Nat /\ Delay \in 1 .. Wrap - 1 /\ MaxLine \in Nat
  BY EspAtAssumption
<1> QED BY <1>1

\* No descriptor is the invalid one.
LEMMA NoneIs == None \notin Fd
<1>1. Fd \subseteq Nat
  BY EspAtAssumption
<1>2. None \notin Nat
  BY DEF None
<1> QED BY <1>1, <1>2

\* Forgetting a connection: its entry becomes invalid, no descriptor changes.
LEMMA ForgetIs ==
  ASSUME NEW m \in Work, NEW i \in Entry
  PROVE  LET d == ForgetSocket(m, i)
         IN /\ d \in Work /\ SameInput(m, d) /\ Sound(m, d)
            /\ d.fds = m.fds /\ d.said = m.said
            /\ d.esp.socks = [m.esp.socks EXCEPT ![i] = None]
<1> DEFINE socks == [m.esp.socks EXCEPT ![i] = None]
           lose == m.lost \/ Connected(m, i)
           d == ForgetSocket(m, i)
<1>1. m.esp \in EspType /\ m.esp.socks \in Socks
  BY DEF Work, EspType
<1>2. socks \in Socks /\ lose \in BOOLEAN
  BY <1>1 DEF Socks
<1>3. d = [m EXCEPT !.esp.socks = socks, !.lost = lose]
  BY DEF ForgetSocket, Work, EspType
<1>4. /\ d \in Work /\ SameInput(m, d)
      /\ d.fds = m.fds /\ d.said = m.said /\ d.esp.socks = socks
  <2> HIDE DEF socks, lose, d
  <2> QED BY <1>1, <1>2, <1>3 DEF Work, EspType, SameInput
<1>5. Sound(m, d)
  <2>1. \A j \in Entry : d.esp.socks[j] = IF j = i THEN None ELSE m.esp.socks[j]
    BY <1>1, <1>4 DEF Socks
  <2>2. Connection \subseteq Entry /\ 4 \in Entry
    BY DEF Connection, Entry
  <2> HIDE DEF d
  <2> QED BY <1>4, <2>1, <2>2 DEF Sound, Opened
<1> QED BY <1>4, <1>5

\* Closing one: its descriptor becomes free, and no other connection loses its own.
LEMMA CloseIs ==
  ASSUME NEW m \in Work, NEW i \in Entry
  PROVE  LET d == CloseSocket(m, i)
         IN /\ d \in Work /\ SameInput(m, d) /\ Sound(m, d) /\ d.said = m.said
            /\ d.esp.socks = [m.esp.socks EXCEPT ![i] = None]
<1> DEFINE f == ForgetSocket(m, i)
           freed == [fd \in Fd |-> IF fd = m.esp.socks[i] THEN "free" ELSE m.fds[fd]]
           d == CloseSocket(m, i)
<1>1. /\ f \in Work /\ SameInput(m, f) /\ f.fds = m.fds /\ f.said = m.said
      /\ f.esp.socks = [m.esp.socks EXCEPT ![i] = None]
  BY ForgetIs
<1>2. freed \in [Fd -> FdState]
  BY DEF Work, FdState
<1>3. d = [f EXCEPT !.fds = freed]
  <2>1. f.fds = m.fds
    BY <1>1
  <2> HIDE DEF f
  <2>2. d = [f EXCEPT !.fds = [fd \in Fd |-> IF fd = m.esp.socks[i] THEN "free" ELSE f.fds[fd]]]
    BY <1>1 DEF CloseSocket, f, Work
  <2> QED BY <2>1, <2>2
<1>4. /\ d \in Work /\ SameInput(f, d) /\ d.fds = freed
      /\ d.said = f.said /\ d.esp = f.esp
  <2> HIDE DEF f, freed, d
  <2> QED BY <1>1, <1>2, <1>3 DEF Work, SameInput
<1>5. Sound(m, d)
  <2>1. \A j \in Entry : /\ d.esp.socks[j] = IF j = i THEN None ELSE m.esp.socks[j]
                         /\ m.esp.socks[j] \in Fd \cup {None}
    BY <1>1, <1>4 DEF Socks, Work, EspType
  <2>2. \A fd \in Fd : d.fds[fd] = IF fd = m.esp.socks[i] THEN "free" ELSE m.fds[fd]
    BY <1>4
  <2>3. Connection \subseteq Entry /\ 4 \in Entry /\ (i \in Connection \/ i = 4)
    BY DEF Connection, Entry
  <2>4. d.esp.socks[4] # None => m.esp.socks[4] # None
    BY <2>1, <2>3
  <2>5. ASSUME Opened(m), d.esp.socks[4] # None
        PROVE  Opened(d)
    <3>1. i \in Connection
      BY <2>1, <2>3, <2>5
    <3> HIDE DEF d
    <3>2. \A j \in Connection : d.esp.socks[j] # None =>
            d.fds[d.esp.socks[j]] \in {"unconnected", "linked"}
      <4> SUFFICES ASSUME NEW j \in Connection, d.esp.socks[j] # None
                   PROVE  d.fds[d.esp.socks[j]] \in {"unconnected", "linked"}
        OBVIOUS
      <4>1. j # i /\ d.esp.socks[j] = m.esp.socks[j] /\ m.esp.socks[j] \in Fd
        BY <2>1, <2>3
      <4>2. m.esp.socks[j] # m.esp.socks[i]
        BY <2>5, <3>1, <4>1 DEF Opened
      <4> QED BY <2>2, <2>5, <4>1, <4>2 DEF Opened
    <3>3. \A j, k \in Connection :
            d.esp.socks[j] = d.esp.socks[k] => j = k \/ d.esp.socks[j] = None
      BY <2>1, <2>3, <2>5 DEF Opened
    <3> QED BY <3>2, <3>3 DEF Opened
  <2> QED BY <2>4, <2>5 DEF Sound
<1>6. SameInput(m, d)
  BY <1>1, <1>4, SoundTrans
<1> QED BY <1>1, <1>4, <1>5, <1>6

\* Closing several connections.
LEMMA CloseSetIs ==
  ASSUME NEW m \in Work, NEW S \in SUBSET Connection
  PROVE  LET d == CloseSockets(m, S)
         IN d \in Work /\ SameInput(m, d) /\ Sound(m, d) /\ d.said = m.said
<1> DEFINE socks == [i \in Entry |-> IF i \in S THEN None ELSE m.esp.socks[i]]
           freed == [fd \in Fd |-> IF \E i \in S : m.esp.socks[i] = fd
                                     THEN "free" ELSE m.fds[fd]]
           lose == m.lost \/ \E i \in S : Connected(m, i)
           d == CloseSockets(m, S)
<1>1. m.esp.socks \in Socks /\ m.esp \in EspType
  BY DEF Work, EspType
<1>2. socks \in Socks /\ freed \in [Fd -> FdState] /\ lose \in BOOLEAN
  BY <1>1 DEF Work, Socks, FdState
<1>3. d = [m EXCEPT !.esp.socks = socks, !.lost = lose, !.fds = freed]
  BY DEF CloseSockets, Work, EspType
<1>4. /\ d \in Work /\ SameInput(m, d) /\ d.said = m.said
      /\ d.fds = freed /\ d.esp.socks = socks
  <2> HIDE DEF socks, freed, lose, d
  <2> QED BY <1>1, <1>2, <1>3 DEF Work, EspType, SameInput
<1>5. Sound(m, d)
  <2>1. \A j \in Entry : /\ d.esp.socks[j] = IF j \in S THEN None ELSE m.esp.socks[j]
                         /\ m.esp.socks[j] \in Fd \cup {None}
    BY <1>1, <1>4 DEF Socks
  <2>2. \A fd \in Fd : d.fds[fd] = IF \E i \in S : m.esp.socks[i] = fd
                                      THEN "free" ELSE m.fds[fd]
    BY <1>4
  <2>3. Connection \subseteq Entry /\ 4 \in Entry /\ 4 \notin Connection
    BY DEF Connection, Entry
  <2>4. d.esp.socks[4] # None => m.esp.socks[4] # None
    BY <2>1, <2>3
  <2>5. ASSUME Opened(m)
        PROVE  Opened(d)
    <3> HIDE DEF d
    <3>2. \A j \in Connection : d.esp.socks[j] # None =>
            d.fds[d.esp.socks[j]] \in {"unconnected", "linked"}
      <4> SUFFICES ASSUME NEW j \in Connection, d.esp.socks[j] # None
                   PROVE  d.fds[d.esp.socks[j]] \in {"unconnected", "linked"}
        OBVIOUS
      <4>1. j \notin S /\ d.esp.socks[j] = m.esp.socks[j] /\ m.esp.socks[j] \in Fd
        BY <2>1, <2>3
      <4>2. \A i \in S : m.esp.socks[j] # m.esp.socks[i]
        BY <2>5, <4>1 DEF Opened
      <4> QED BY <2>2, <2>5, <4>1, <4>2 DEF Opened
    <3>3. \A j, k \in Connection :
            d.esp.socks[j] = d.esp.socks[k] => j = k \/ d.esp.socks[j] = None
      BY <2>1, <2>3, <2>5 DEF Opened
    <3> QED BY <3>2, <3>3 DEF Opened
  <2> QED BY <2>4, <2>5 DEF Sound
<1> QED BY <1>4, <1>5

\* A new socket takes a free descriptor, so no connection shares it.
LEMMA OpenIs ==
  ASSUME NEW m \in Work, NEW state \in {"unconnected", "linked"}, FreeFds(m) # {},
         m.esp.socks[0] = None
  PROVE  LET d == OpenSocket(m, state)
         IN /\ d \in Work /\ SameInput(m, d) /\ Sound(m, d) /\ d.said = m.said
            /\ \E fd \in Fd : d.esp.socks = [m.esp.socks EXCEPT ![0] = fd]
<1> DEFINE fd == Min(FreeFds(m))
           socks == [m.esp.socks EXCEPT ![0] = fd]
           taken == [m.fds EXCEPT ![fd] = state]
           d == OpenSocket(m, state)
<1>1. /\ m.esp.socks \in Socks /\ m.esp \in EspType
      /\ m.fds \in [Fd -> FdState] /\ 0 \in Entry
  BY DEF Work, EspType, Entry
<1>2. fd \in Fd /\ m.fds[fd] = "free"
  <2>1. FreeFds(m) \subseteq Nat
    BY EspAtAssumption DEF FreeFds
  <2>2. fd \in FreeFds(m)
    BY <2>1, MinIs
  <2> QED BY <2>2 DEF FreeFds
<1> HIDE DEF fd
<1>3. socks \in Socks /\ taken \in [Fd -> FdState]
  BY <1>1, <1>2 DEF Socks, FdState
<1>4. d = [m EXCEPT !.esp.socks = socks, !.fds = taken]
  BY DEF OpenSocket, Work, EspType, fd
<1>5. /\ d \in Work /\ SameInput(m, d) /\ d.said = m.said
      /\ d.fds = taken /\ d.esp.socks = socks
  <2> HIDE DEF socks, taken, d
  <2> QED BY <1>1, <1>3, <1>4 DEF Work, EspType, SameInput
<1>6. Sound(m, d)
  <2>1. \A j \in Entry : /\ d.esp.socks[j] = IF j = 0 THEN fd ELSE m.esp.socks[j]
                         /\ m.esp.socks[j] \in Fd \cup {None}
    BY <1>1, <1>5 DEF Socks
  <2>2. \A x \in Fd : d.fds[x] = IF x = fd THEN state ELSE m.fds[x]
    BY <1>1, <1>5
  <2>3. Connection \subseteq Entry /\ 4 \in Entry /\ 4 # 0
    BY DEF Connection, Entry
  <2>4. d.esp.socks[4] # None => m.esp.socks[4] # None
    BY <2>1, <2>3
  <2>5. ASSUME Opened(m)
        PROVE  Opened(d)
    <3> HIDE DEF d
    <3>1. \A j \in Connection : j # 0 /\ m.esp.socks[j] # None =>
            m.esp.socks[j] # fd /\ m.esp.socks[j] \in Fd
      BY <1>2, <2>1, <2>3, <2>5 DEF Opened
    <3>2. \A j \in Connection : d.esp.socks[j] # None =>
            d.fds[d.esp.socks[j]] \in {"unconnected", "linked"}
      BY <1>2, <2>1, <2>2, <2>3, <2>5, <3>1 DEF Opened
    <3>3. \A j, k \in Connection :
            d.esp.socks[j] = d.esp.socks[k] => j = k \/ d.esp.socks[j] = None
      <4>1. None \notin Fd
        BY NoneIs
      <4> QED BY <1>2, <2>1, <2>3, <2>5, <3>1, <4>1 DEF Opened
    <3> QED BY <3>2, <3>3 DEF Opened
  <2> QED BY <2>4, <2>5 DEF Sound
<1> QED BY <1>2, <1>5, <1>6

\* What a command keeps: types and the other state, the sockets of the
\* connections, and either no connection is lost or one of the texts T is said.
Keeps(m, d, T) ==
  d \in Work /\ SameInput(m, d) /\ Sound(m, d) /\ (NoLoss(m, d) \/ Says(d.said, T))

\* An answer keeps everything, also after a loss if it is one of the texts.
LEMMA AnswerKeeps ==
  ASSUME NEW m \in Work, NEW d, NEW T
  PROVE  /\ Answer(m, d) => Keeps(m, d, T)
         /\ \A e : /\ e \in Work /\ SameInput(m, e) /\ Sound(m, e) /\ Answer(e, d)
                   /\ Says(d.said, T)
                   => Keeps(m, d, T)
<1>1. Answer(m, d) => Keeps(m, d, T)
  BY SoundTrans DEF Answer, Keeps
<1>2. \A e : /\ e \in Work /\ SameInput(m, e) /\ Sound(m, e) /\ Answer(e, d)
             /\ Says(d.said, T)
             => Keeps(m, d, T)
  BY SoundTrans DEF Answer, Keeps
<1> QED BY <1>1, <1>2

\* Connecting may close connection 0, and says whether there is a new one.
LEMMA ConnectKeeps ==
  ASSUME NEW m \in Work, NEW outcome \in Outcome
  PROVE  Keeps(m, Connect(m, outcome), {"LINKED", "ERROR"})
<1> DEFINE c == CloseSocket(m, 0)
           d == Connect(m, outcome)
           T == {"LINKED", "ERROR"}
<1>1. 0 \in Entry
  BY DEF Entry
<1>2. /\ c \in Work /\ SameInput(m, c) /\ Sound(m, c)
      /\ c.esp.socks = [m.esp.socks EXCEPT ![0] = None]
  BY <1>1, CloseIs
<1>3. c.esp.socks[0] = None
  BY <1>1, <1>2 DEF Work, EspType, Socks
<1>4. ASSUME NEW e \in Work, SameInput(m, e), Sound(m, e),
             d = Error(e) \/ d = Say(e, <<"LINKED">>)
      PROVE  Keeps(m, d, T)
  <2>1. "LINKED" \in Text /\ {"LINKED"} \subseteq T /\ {"ERROR"} \subseteq T
    BY DEF Text
  <2> HIDE DEF c, d, T
  <2>2. Answer(e, d) /\ (Says(d.said, {"LINKED"}) \/ Says(d.said, {"ERROR"}))
    BY <1>4, <2>1, Answering
  <2>3. Says(d.said, T)
    BY <2>1, <2>2, SaysMore
  <2> QED BY <1>4, <2>2, <2>3, AnswerKeeps
<1> SUFFICES Keeps(m, d, T)
  OBVIOUS
<1> HIDE DEF c, d, T
<1>5. CASE outcome = "unknown"
  <2>1. d = Error(m)
    BY <1>5 DEF Connect, c, d
  <2> QED BY <1>4, <2>1, SoundTrans
<1>6. CASE outcome # "unknown" /\ (outcome = "nosocket" \/ FreeFds(c) = {})
  <2>1. d = Error(c)
    BY <1>6 DEF Connect, c, d
  <2> QED BY <1>2, <1>4, <2>1
<1>7. ASSUME NEW state \in {"unconnected", "linked"}, FreeFds(c) # {},
             d = Say(OpenSocket(c, state), <<"LINKED">>)
      PROVE  Keeps(m, d, T)
  <2> DEFINE o == OpenSocket(c, state)
  <2>1. o \in Work /\ SameInput(c, o) /\ Sound(c, o)
    BY <1>2, <1>3, <1>7, OpenIs
  <2> HIDE DEF o
  <2>2. SameInput(m, o) /\ Sound(m, o)
    BY <1>2, <2>1, SoundTrans
  <2> QED BY <1>4, <1>7, <2>1, <2>2 DEF o
<1>8. CASE outcome = "refused" /\ FreeFds(c) # {}
  <2>1. d = Say(OpenSocket(c, "unconnected"), <<"LINKED">>)
    BY <1>8 DEF Connect, c, d
  <2> QED BY <1>7, <1>8, <2>1
<1>9. CASE outcome = "linked" /\ FreeFds(c) # {}
  <2>1. d = Say(OpenSocket(c, "linked"), <<"LINKED">>)
    BY <1>9 DEF Connect, c, d
  <2> QED BY <1>7, <1>9, <2>1
<1> QED BY <1>5, <1>6, <1>8, <1>9 DEF Outcome, d
-----------------------------------------------------------------------------
(* Commands *)

\* Setting a flag changes nothing else.
LEMMA FlagIs ==
  ASSUME NEW m \in Work, NEW on \in BOOLEAN
  PROVE  \A d \in {[m EXCEPT !.esp.online = on], [m EXCEPT !.esp.echo = on],
                   [m EXCEPT !.esp.mux = on]} :
           d \in Work /\ SameInput(m, d) /\ SameSockets(m, d) /\ d.said = m.said
<1> USE DEF Work, EspType, SameInput, SameSockets
<1>1. LET d == [m EXCEPT !.esp.online = on]
      IN d \in Work /\ SameInput(m, d) /\ SameSockets(m, d) /\ d.said = m.said
  OBVIOUS
<1>2. LET d == [m EXCEPT !.esp.echo = on]
      IN d \in Work /\ SameInput(m, d) /\ SameSockets(m, d) /\ d.said = m.said
  OBVIOUS
<1>3. LET d == [m EXCEPT !.esp.mux = on]
      IN d \in Work /\ SameInput(m, d) /\ SameSockets(m, d) /\ d.said = m.said
  OBVIOUS
<1> QED BY ZenonT(60), <1>1, <1>2, <1>3

\* So a flag may be set before a command or after an answer.
LEMMA FlagKeeps ==
  ASSUME NEW m \in Work, NEW on \in BOOLEAN, NEW d, NEW T
  PROVE  /\ \A e \in {[m EXCEPT !.esp.online = on], [m EXCEPT !.esp.echo = on],
                      [m EXCEPT !.esp.mux = on]} :
              e \in Work /\ (Keeps(e, d, T) => Keeps(m, d, T))
         /\ Keeps(d, m, T) /\ d \in Work =>
              \A e \in {[m EXCEPT !.esp.online = on], [m EXCEPT !.esp.echo = on],
                        [m EXCEPT !.esp.mux = on]} : Keeps(d, e, T)
<1>1. ASSUME NEW e, e \in Work, SameInput(m, e), SameSockets(m, e), e.said = m.said
      PROVE  /\ Keeps(e, d, T) => Keeps(m, d, T)
             /\ Keeps(d, m, T) /\ d \in Work => Keeps(d, e, T)
  <2>1. Sound(m, e) /\ NoLoss(m, e) /\ e.lost = m.lost
    BY <1>1, SoundTrans DEF SameSockets
  <2>2. Keeps(e, d, T) => Keeps(m, d, T)
    BY <1>1, <2>1, SoundTrans DEF Keeps, NoLoss
  <2>3. Keeps(d, m, T) /\ d \in Work => Keeps(d, e, T)
    BY <1>1, <2>1, SoundTrans DEF Keeps, NoLoss
  <2> QED BY <2>2, <2>3
<1>2. \A e \in {[m EXCEPT !.esp.online = on], [m EXCEPT !.esp.echo = on],
                [m EXCEPT !.esp.mux = on]} :
        e \in Work /\ SameInput(m, e) /\ SameSockets(m, e) /\ e.said = m.said
  BY FlagIs
<1> QED BY <1>1, <1>2

\* Answers, of one or two texts.
LEMMA AnswersKeep ==
  ASSUME NEW m \in Work, NEW T
  PROVE  /\ Keeps(m, m, T)
         /\ Ok(m) \in Work /\ Keeps(m, Ok(m), T)
         /\ Error(m) \in Work /\ Keeps(m, Error(m), T)
         /\ Keeps(m, Ok(Ok(m)), T) /\ Keeps(m, Ok(Error(m)), T)
         /\ \A t \in Text : Keeps(m, Say(m, <<t>>), T)
<1>1. Answer(m, m)
  BY SoundTrans DEF Answer
<1>2. Answer(m, Ok(m)) /\ Answer(m, Error(m))
  BY Answering
<1>3. Ok(m) \in Work /\ Error(m) \in Work
  BY <1>2 DEF Answer
<1>4. Answer(Ok(m), Ok(Ok(m))) /\ Answer(Error(m), Ok(Error(m)))
  BY <1>3, Answering
<1>5. Answer(m, Ok(Ok(m))) /\ Answer(m, Ok(Error(m)))
  BY <1>2, <1>4 DEF Answer, SameInput, SameSockets
<1>6. \A t \in Text : Answer(m, Say(m, <<t>>))
  BY Answering
<1>7. \A d : Answer(m, d) => Keeps(m, d, T)
  BY AnswerKeeps
<1> QED BY <1>1, <1>2, <1>3, <1>5, <1>6, <1>7

\* Closing and saying so.
LEMMA ClosedKeeps ==
  ASSUME NEW m \in Work
  PROVE  /\ \A i \in Entry : Keeps(m, Say(CloseSocket(m, i), <<"CLOSED">>), Gone)
         /\ \A S \in SUBSET Connection :
              /\ Keeps(m, Say(CloseSockets(m, S), <<"CLOSED">>), Gone)
              /\ Keeps(m, Ok(CloseSockets(m, S)), {"OK"}) /\ Ok(CloseSockets(m, S)) \in Work
<1>1. ASSUME NEW e \in Work, SameInput(m, e), Sound(m, e)
      PROVE  /\ Keeps(m, Say(e, <<"CLOSED">>), Gone)
             /\ Keeps(m, Ok(e), {"OK"}) /\ Ok(e) \in Work
  <2>1. "CLOSED" \in Text /\ {"CLOSED"} \subseteq Gone
    BY DEF Text, Gone
  <2>2. /\ Answer(e, Say(e, <<"CLOSED">>)) /\ Says(Say(e, <<"CLOSED">>).said, {"CLOSED"})
        /\ Answer(e, Ok(e)) /\ Says(Ok(e).said, {"OK"})
    BY <2>1, Answering
  <2>3. Says(Say(e, <<"CLOSED">>).said, Gone)
    BY <2>1, <2>2, SaysMore
  <2>4. \A d, T : Answer(e, d) /\ Says(d.said, T) => Keeps(m, d, T)
    BY <1>1, AnswerKeeps
  <2>5. Ok(e) \in Work
    BY <2>2 DEF Answer
  <2> QED BY <2>2, <2>3, <2>4, <2>5
<1>2. \A i \in Entry : /\ CloseSocket(m, i) \in Work /\ SameInput(m, CloseSocket(m, i))
                       /\ Sound(m, CloseSocket(m, i))
  BY CloseIs
<1>3. \A S \in SUBSET Connection :
        /\ CloseSockets(m, S) \in Work /\ SameInput(m, CloseSockets(m, S))
        /\ Sound(m, CloseSockets(m, S))
  BY CloseSetIs
<1> QED BY <1>1, <1>2, <1>3

\* The commands that open or ask.
LEMMA CipStartKeeps ==
  ASSUME NEW m \in Work, NEW numbered \in BOOLEAN, NEW i \in Entry, NEW outcome \in Outcome
  PROVE  /\ Keeps(m, CipStart(m, numbered, i, outcome), {"LINKED", "ERROR"})
         /\ Keeps(m, CipStartQuery(m), Gone)
<1> DEFINE e == [m EXCEPT !.esp.online = TRUE]
<1>1. e \in Work /\ \A d, T : Keeps(e, d, T) => Keeps(m, d, T)
  BY FlagKeeps
<1>2. CipStart(m, numbered, i, outcome) \in {Error(e), Connect(e, outcome)}
  BY DEF CipStart
<1>3. CipStartQuery(m) \in {Ok(e), Ok(Ok(e))}
  BY DEF CipStartQuery
<1> HIDE DEF e
<1> QED BY <1>1, <1>2, <1>3, AnswersKeep, ConnectKeeps

\* Closing one connection, or all.
LEMMA CipCloseKeeps ==
  ASSUME NEW m \in Work, NEW numbered \in BOOLEAN, NEW i \in Entry
  PROVE  Keeps(m, CipClose(m, numbered, i), Gone) /\ Keeps(m, CipCloseAll(m), Gone)
<1>1. m.esp.mux \in BOOLEAN
  BY DEF Work, EspType
<1>2. CipClose(m, numbered, i) \in
        {Error(m), Say(m, <<"CLOSED">>), Say(CloseSocket(m, i), <<"CLOSED">>)}
  BY <1>1 DEF CipClose
<1>3. CipCloseAll(m) \in {Error(m), Say(CloseSockets(m, Connection), <<"CLOSED">>)}
  BY DEF CipCloseAll
<1>4. "CLOSED" \in Text
  BY DEF Text
<1> QED BY <1>2, <1>3, <1>4, AnswersKeep, ClosedKeeps

\* The modes, the echo, and leaving the network.
LEMMA CipMuxKeeps ==
  ASSUME NEW m \in Work, NEW on \in BOOLEAN
  PROVE  /\ Keeps(m, CipMux(m, FALSE), {"OK"}) /\ Keeps(m, CipMux(m, TRUE), Gone)
         /\ Keeps(m, Ate(m, on), Gone) /\ Keeps(m, CwQap(m), {"OK"})
<1>1. Keeps(m, CipMux(m, FALSE), {"OK"})
  <2> DEFINE e == [m EXCEPT !.esp.mux = FALSE]
  <2>1. e \in Work /\ \A d, T : Keeps(e, d, T) => Keeps(m, d, T)
    BY FlagKeeps
  <2>2. CipMux(m, FALSE) = Ok(CloseSockets(e, 1 .. 3))
    BY DEF CipMux
  <2>3. 1 .. 3 \in SUBSET Connection
    BY DEF Connection
  <2> HIDE DEF e
  <2> QED BY <2>1, <2>2, <2>3, ClosedKeeps
<1>2. Keeps(m, CipMux(m, TRUE), Gone)
  <2> DEFINE e == [m EXCEPT !.esp.mux = TRUE]
  <2>1. e \in Work /\ \A d, T : Keeps(e, d, T) => Keeps(m, d, T)
    BY FlagKeeps
  <2>2. CipMux(m, TRUE) = Ok(e)
    BY DEF CipMux
  <2> HIDE DEF e
  <2> QED BY <2>1, <2>2, AnswersKeep
<1>3. Keeps(m, Ate(m, on), Gone)
  <2>1. Ok(m) \in Work /\ Keeps(m, Ok(m), Gone)
    BY AnswersKeep
  <2> DEFINE e == Ok(m)
  <2> HIDE DEF e
  <2>2. e \in Work /\ Keeps(m, e, Gone)
    BY <2>1 DEF e
  <2>3. Keeps(m, [e EXCEPT !.esp.echo = on], Gone)
    BY <2>2, FlagKeeps
  <2> QED BY <2>3 DEF Ate, e
<1>4. Keeps(m, CwQap(m), {"OK"})
  <2> DEFINE e == Ok(CloseSockets(m, Connection))
  <2>1. e \in Work /\ Keeps(m, e, {"OK"})
    BY ClosedKeeps
  <2> HIDE DEF e
  <2>2. Keeps(m, [e EXCEPT !.esp.online = FALSE], {"OK"})
    BY <2>1, FlagKeeps
  <2> QED BY <2>2 DEF CwQap, e
<1> QED BY <1>1, <1>2, <1>3, <1>4

\* Sending, asking, and the smart start.
LEMMA OthersKeep ==
  ASSUME NEW m \in Work, NEW numbered \in BOOLEAN, NEW i \in Entry
  PROVE  /\ Keeps(m, CipSendQuery(m), Gone) /\ Keeps(m, CipSend(m, numbered, i), Gone)
         /\ Keeps(m, CwStartSmart(m), Gone)
<1>1. CipSendQuery(m) \in {Ok(m), Error(m)}
  BY DEF CipSendQuery
<1>2. CipSend(m, numbered, i) \in {Error(m), Say(m, <<">">>), m}
  BY DEF CipSend
<1>3. Keeps(m, CwStartSmart(m), Gone)
  <2> DEFINE d == CwStartSmart(m)
  <2>1. /\ d \in Work /\ SameInput(m, d) /\ SameSockets(m, d)
    BY DEF CwStartSmart, Work, EspType, SameInput, SameSockets
  <2> HIDE DEF d
  <2>2. Sound(m, d) /\ NoLoss(m, d)
    BY <2>1, SoundTrans
  <2> QED BY <2>1, <2>2 DEF Keeps, d
<1>4. ">" \in Text
  BY DEF Text
<1> QED BY <1>1, <1>2, <1>3, <1>4, AnswersKeep

\* A connection that a byte of a command line loses is told of, or the line is one
\* of the commands that may end it, answered.
Told(m, d, c) ==
  \/ NoLoss(m, d)
  \/ Says(d.said, Gone)
  \/ c \in Starting /\ Says(d.said, {"LINKED", "ERROR"})
  \/ c \in Ending /\ Says(d.said, {"OK"})

\* What a command line may do: all but one keep what Keeps says, "AT+CIPSEND"
\* starts transparent mode with the bytes that are counted, none of them taken.
Commanded(m, d, c) ==
  /\ d \in Work /\ Sound(m, d) /\ Told(m, d, c)
  /\ d.esp.pin = m.esp.pin /\ d.esp.line = m.esp.line /\ d.esp.bytes = m.esp.bytes
  /\ d.gave = m.gave
  /\ \/ d.esp.mode = m.esp.mode /\ d.esp.end = m.esp.end
     \/ d.esp.mode = "UNVARNISHED" /\ d.esp.end = 0

\* Every command does what Commanded says.
LEMMA CommandIs ==
  ASSUME NEW m \in Work, NEW c \in Command, NEW outcome \in Outcome
  PROVE  Commanded(m, ProcessAt(m, c, outcome), c)
<1> DEFINE d == ProcessAt(m, c, outcome)
<1>1. CASE c = "CIPSEND"
  <2>1. d = CipSendTransparent(m)
    BY <1>1 DEF ProcessAt
  <2>2. /\ d.esp = [m.esp EXCEPT !.mode = "UNVARNISHED", !.end = 0]
        /\ d.fds = m.fds /\ d.gave = m.gave /\ d.lost = m.lost /\ d.said = <<">">>
        /\ d = [m EXCEPT !.esp = d.esp, !.said = d.said]
    BY <2>1 DEF CipSendTransparent, Work, EspType
  <2> HIDE DEF d
  <2>3. /\ d.esp \in EspType /\ d.esp.mode = "UNVARNISHED" /\ d.esp.end = 0
        /\ d.esp.pin = m.esp.pin /\ d.esp.line = m.esp.line /\ d.esp.bytes = m.esp.bytes
        /\ d.esp.socks = m.esp.socks
    <3>1. 0 \in 0 .. Wrap - 1
      BY Sizes
    <3> QED BY <2>2, <3>1 DEF Work, EspType
  <2>4. d.said \in Seq(Text)
    BY <2>2, ShortSeqs DEF Text
  <2>5. d \in Work
    BY <2>2, <2>3, <2>4 DEF Work
  <2>6. Sound(m, d) /\ NoLoss(m, d)
    BY <2>2, <2>3, SoundTrans DEF SameSockets
  <2> QED BY <2>2, <2>3, <2>5, <2>6 DEF Commanded, Told, d
<1>2. CASE c # "CIPSEND"
  <2>1. 0 \in Entry /\ 1 \in Entry /\ 4 \in Entry
    BY DEF Entry
  <2>2. \A i \in Entry : Keeps(m, CipStart(m, TRUE, i, outcome), {"LINKED", "ERROR"})
    BY CipStartKeeps
  <2>3. Keeps(m, CipStart(m, FALSE, 0, outcome), {"LINKED", "ERROR"})
    BY <2>1, CipStartKeeps
  <2>4. Keeps(m, CipMux(m, FALSE), {"OK"}) /\ Keeps(m, CwQap(m), {"OK"})
    BY CipMuxKeeps
  <2>5. \A b \in BOOLEAN, i \in Entry :
          /\ Keeps(m, Ate(m, b), Gone) /\ Keeps(m, CipMux(m, TRUE), Gone)
          /\ Keeps(m, CipStartQuery(m), Gone)
          /\ Keeps(m, CipClose(m, b, i), Gone) /\ Keeps(m, CipCloseAll(m), Gone)
          /\ Keeps(m, CipSendQuery(m), Gone) /\ Keeps(m, CipSend(m, b, i), Gone)
          /\ Keeps(m, CwStartSmart(m), Gone)
    BY CipMuxKeeps, CipStartKeeps, CipCloseKeeps, OthersKeep
  <2>6. /\ Keeps(m, Ok(Error(m)), Gone) /\ Keeps(m, Ok(m), Gone) /\ Keeps(m, Error(m), Gone)
        /\ Keeps(m, Say(m, <<"this no fun">>), Gone) /\ Keeps(m, m, Gone)
    BY AnswersKeep DEF Text
  <2>7. c \in {"ATE0", "ATE1", "CIPSTART", "CIPSTART=0", "CIPSTART=1", "CIPSTART=4",
               "CIPSTART=?", "CIPCLOSE", "CIPCLOSE=0", "CIPCLOSE=1", "CIPCLOSE=4",
               "CIPCLOSE=5", "CIPMUX=0", "CIPMUX=1", "CIPSEND?", "CIPSEND=9", "CIPSEND=0,9",
               "CIPSEND=1,9", "CWQAP", "CWSTARTSMART", "CIPMODE=9", "OK", "ERROR", "BAD",
               "SILENT"}
    <3>1. c \in {"ATE0", "ATE1", "CIPSTART", "CIPSTART=0", "CIPSTART=1", "CIPSTART=4",
                 "CIPSTART=?", "CIPCLOSE", "CIPCLOSE=0", "CIPCLOSE=1", "CIPCLOSE=4",
                 "CIPCLOSE=5", "CIPMUX=0", "CIPMUX=1", "CIPSEND", "CIPSEND?", "CIPSEND=9",
                 "CIPSEND=0,9", "CIPSEND=1,9", "CWQAP", "CWSTARTSMART", "CIPMODE=9", "OK",
                 "ERROR", "BAD", "SILENT"}
      BY EspAtAssumption, Zenon
    <3> QED BY <1>2, <3>1
  <2>8. \/ /\ c \in Starting
           /\ d = CipStart(m, FALSE, 0, outcome) \/ \E i \in {0, 1, 4} : d = CipStart(m, TRUE, i, outcome)
        \/ c \in Ending /\ (d = CipMux(m, FALSE) \/ d = CwQap(m))
        \/ \E b \in BOOLEAN, i \in {0, 1, 4} :
             d \in {Ate(m, b), CipMux(m, TRUE), CipStartQuery(m), CipClose(m, b, i),
                    CipCloseAll(m), CipSendQuery(m), CipSend(m, b, i), CwStartSmart(m),
                    Ok(Error(m)), Ok(m), Error(m), Say(m, <<"this no fun">>), m}
    BY ZenonT(60), <2>7 DEF ProcessAt, Starting, Ending
  <2> HIDE DEF d
  <2>9. \/ c \in Starting /\ Keeps(m, d, {"LINKED", "ERROR"})
        \/ c \in Ending /\ Keeps(m, d, {"OK"})
        \/ Keeps(m, d, Gone)
    BY <2>1, <2>2, <2>3, <2>4, <2>5, <2>6, <2>8
  <2> QED BY <2>9 DEF Keeps, Commanded, Told, SameInput, d
<1> QED BY <1>1, <1>2

\* A byte of a line: nothing happens before its end, when the line is executed
\* or refused, and forgotten.
LEMMA AtInputIs ==
  ASSUME NEW m \in Work, NEW b \in Input, NEW outcome \in Outcome
  PROVE  LET d == AtInput(m, b, outcome)
         IN /\ d \in Work /\ Sound(m, d) /\ Told(m, d, b)
            /\ d.esp.pin = m.esp.pin /\ d.esp.bytes = m.esp.bytes /\ d.gave = m.gave
            /\ \/ d.esp.mode = m.esp.mode /\ d.esp.end = m.esp.end /\ d.esp.line = m.esp.line
               \/ d.esp.mode = m.esp.mode /\ d.esp.line = <<>>
               \/ d.esp.mode = "UNVARNISHED" /\ d.esp.end = 0 /\ d.esp.line = <<>>
<1> DEFINE d == AtInput(m, b, outcome)
<1>1. CASE b \notin Command
  <2>1. d = m
    BY <1>1 DEF AtInput
  <2>2. Sound(m, m) /\ NoLoss(m, m)
    BY SoundTrans
  <2> QED BY <2>1, <2>2 DEF Told
<1>2. CASE b \in Command
  <2> DEFINE c == IF Len(m.esp.line) = 1 THEN ProcessAt(m, b, outcome) ELSE Error(m)
  <2>1. Commanded(m, c, b)
    <3>1. Commanded(m, ProcessAt(m, b, outcome), b)
      BY <1>2, CommandIs
    <3>2. Keeps(m, Error(m), Gone)
      BY AnswersKeep
    <3>3. Commanded(m, Error(m), b)
      BY <3>2 DEF Keeps, Commanded, Told, SameInput
    <3> QED BY <3>1, <3>3
  <2>2. d = [c EXCEPT !.esp.line = <<>>]
    BY <1>2 DEF AtInput
  <2> HIDE DEF c, d
  <2>3. c \in Work
    BY <2>1 DEF Commanded
  <2>4. /\ d \in Work /\ SameSockets(c, d) /\ d.said = c.said /\ d.gave = c.gave
        /\ d.esp.line = <<>> /\ d.esp.pin = c.esp.pin /\ d.esp.bytes = c.esp.bytes
        /\ d.esp.mode = c.esp.mode /\ d.esp.end = c.esp.end
    <3>1. <<>> \in Seq(Input)
      OBVIOUS
    <3> QED BY <2>2, <2>3, <3>1 DEF Work, EspType, SameSockets
  <2>5. Sound(m, d)
    BY <2>1, <2>4, SoundTrans DEF Commanded
  <2>6. Told(m, d, b)
    BY <2>1, <2>4 DEF Commanded, Told, NoLoss, SameSockets
  <2> QED BY <2>1, <2>4, <2>5, <2>6 DEF Commanded, d
<1> QED BY <1>1, <1>2
-----------------------------------------------------------------------------
(* Bytes of the transparent mode *)

\* The first n bytes of write_buf, stale where the line is shorter.
Buffer(line, n) == [i \in 1 .. n |-> IF i <= Len(line) THEN line[i] ELSE Stale]

\* A line of n bytes fills it.
LEMMA BufferIs ==
  ASSUME NEW line \in Seq(Input), NEW n \in Nat
  PROVE  Buffer(line, n) \in Seq(Token) /\ (n = Len(line) => Buffer(line, n) = line)
<1>1. \A i \in 1 .. n : (IF i <= Len(line) THEN line[i] ELSE Stale) \in Token
  <2>1. \A i \in 1 .. n : i <= Len(line) => line[i] \in Input
    BY ElementOfSeq
  <2> QED BY <2>1 DEF Token
<1>2. Buffer(line, n) \in [1 .. n -> Token]
  BY <1>1 DEF Buffer
<1>3. n = Len(line) => Buffer(line, n) = line
  BY DEF Buffer
<1> QED BY <1>2, <1>3

\* What the host takes of a window: its first bytes, and all of them unless the
\* host takes less or the connection is said to be gone.
Given(m, buf) ==
  /\ IsPrefix(m.gave.got, buf)
  /\ m.gave.got = buf \/ m.gave.short \/ Says(m.said, {"UNLINKED"})

\* The first bytes of a sequence.
LEMMA FirstBytes ==
  ASSUME NEW S, NEW buf \in Seq(S), NEW k \in 0 .. Len(buf)
  PROVE  /\ SubSeq(buf, 1, k) \in Seq(S) /\ IsPrefix(SubSeq(buf, 1, k), buf)
         /\ k = Len(buf) => SubSeq(buf, 1, k) = buf
         /\ <<>> \in Seq(S) /\ IsPrefix(<<>>, buf) /\ IsPrefix(buf, buf)
  BY DEF IsPrefix

\* No bytes are the first ones of none.
LEMMA NoBytes == IsPrefix(<<>>, <<>>)
<1>1. Len(<<>>) = 0
  OBVIOUS
<1> QED BY <1>1 DEF IsPrefix

\* Handing over n bytes: they are gone from the line, and a connection that is
\* forgotten for it is reported.
Handed(m, d, n) ==
  /\ d \in Work /\ Sound(m, d) /\ (NoLoss(m, d) \/ Says(d.said, Gone))
  /\ d.esp.pin = m.esp.pin /\ d.esp.mode = m.esp.mode
  /\ d.esp.line = <<>> /\ d.esp.bytes = 0
  /\ d.gave.handed /\ Given(d, Buffer(m.esp.line, n))

\* Handing over does what Handed says.
LEMMA HandOverIs ==
  ASSUME NEW m \in Work, NEW n \in Nat, NEW sends \in Sending
  PROVE  Handed(m, HandOver(m, n, sends), n)
<1> DEFINE buf == Buffer(m.esp.line, n)
           works == Connected(m, 0) /\ sends # Failed
           got == IF works THEN SubSeq(buf, 1, Min({sends, n})) ELSE <<>>
           short == works /\ sends < n
           g == [handed |-> TRUE, got |-> got, short |-> short]
           e == [m EXCEPT !.gave = g, !.esp.line = <<>>, !.esp.bytes = 0]
           d == HandOver(m, n, sends)
<1>1. buf \in Seq(Token) /\ Len(buf) = n
  <2>1. m.esp.line \in Seq(Input)
    BY DEF Work, EspType
  <2>2. Buffer(m.esp.line, n) \in Seq(Token)
    BY <2>1, BufferIs
  <2>3. Len(Buffer(m.esp.line, n)) = n
    BY DEF Buffer
  <2> QED BY <2>2, <2>3
<1>2. IF works THEN d = e ELSE d = Say(ForgetSocket(e, 0), <<"ERROR", "UNLINKED">>)
  BY DEF HandOver, Buffer
<1> HIDE DEF buf
<1>3. /\ got \in Seq(Token) /\ IsPrefix(got, buf) /\ short \in BOOLEAN
      /\ works => got = buf \/ short
  <2>1. <<>> \in Seq(Token) /\ IsPrefix(<<>>, buf) /\ short \in BOOLEAN
    BY <1>1, FirstBytes
  <2>2. ASSUME works
        PROVE  /\ got \in Seq(Token) /\ IsPrefix(got, buf)
               /\ got = buf \/ short
    <3> DEFINE k == Min({sends, n})
    <3>1. sends \in Nat
      BY <2>2 DEF Sending, Failed
    <3>2. k \in {sends, n} /\ k <= sends /\ k <= n
      <4>1. {sends, n} \subseteq Nat /\ {sends, n} # {}
        BY <3>1
      <4> QED BY <4>1, MinIs
    <3> HIDE DEF k
    <3>3. k \in 0 .. Len(buf)
      BY <1>1, <3>1, <3>2
    <3>4. got = SubSeq(buf, 1, k)
      BY <2>2 DEF k
    <3>5. ~short => k = Len(buf)
      BY <1>1, <2>2, <3>1, <3>2
    <3> HIDE DEF got, short
    <3> QED BY <1>1, <3>3, <3>4, <3>5, FirstBytes
  <2> QED BY <2>1, <2>2
<1> HIDE DEF got, short, works
<1>4. /\ e \in Work /\ SameSockets(m, e) /\ e.esp.pin = m.esp.pin /\ e.esp.mode = m.esp.mode
      /\ e.esp.line = <<>> /\ e.esp.bytes = 0 /\ e.gave = g /\ e.said = m.said
  <2>1. <<>> \in Seq(Input) /\ 0 \in Nat
    OBVIOUS
  <2>2. g \in [handed : BOOLEAN, got : Seq(Token), short : BOOLEAN]
    BY <1>3
  <2> HIDE DEF g
  <2> QED BY <2>1, <2>2 DEF Work, EspType, SameSockets
<1>5. Sound(m, e) /\ NoLoss(m, e)
  BY <1>4, SoundTrans
<1> HIDE DEF e, d
<1>6. CASE works
  <2>1. d = e
    BY <1>2, <1>6
  <2>2. d.gave.handed /\ Given(d, buf)
    BY <1>3, <1>4, <1>6, <2>1 DEF Given
  <2> QED BY <1>4, <1>5, <2>1, <2>2 DEF Handed, buf, d
<1>7. CASE ~works
  <2> DEFINE f == ForgetSocket(e, 0)
  <2>1. 0 \in Entry
    BY DEF Entry
  <2>2. f \in Work /\ SameInput(e, f) /\ Sound(e, f)
    BY <1>4, <2>1, ForgetIs
  <2>3. d = Say(f, <<"ERROR", "UNLINKED">>)
    BY <1>2, <1>7
  <2> HIDE DEF f
  <2>4. Answer(f, d) /\ Says(d.said, {"UNLINKED"})
    BY <2>2, <2>3, Answering
  <2>5. Sound(m, d)
    BY <1>5, <2>2, <2>4, SoundTrans DEF Answer
  <2>6. SameInput(e, d)
    BY <2>2, <2>4, SoundTrans DEF Answer
  <2>7. Says(d.said, Gone)
    BY <2>4, SaysMore DEF Gone
  <2>8. d.gave = g
    BY <1>4, <2>6 DEF SameInput
  <2>9. d.gave.handed /\ Given(d, buf)
    BY <1>3, <2>4, <2>8 DEF Given
  <2> QED BY <1>4, <2>4, <2>5, <2>6, <2>7, <2>9 DEF Handed, Answer, SameInput, buf, d
<1> QED BY <1>6, <1>7

\* The end of a window: the bytes are handed over, or the mode is left, and that
\* only for a line of at least three.
LEMMA CloseWindowIs ==
  ASSUME NEW m \in Work, NEW sends \in Sending, now \in 0 .. Wrap - 1
  PROVE  LET d == CloseWindow(m, sends)
         IN \/ Handed(m, d, m.esp.bytes)
            \/ /\ d = [m EXCEPT !.esp.mode = "AT"] /\ d \in Work
               /\ Len(m.esp.line) >= 3 /\ m.esp.bytes = 3
<1> DEFINE d == CloseWindow(m, sends)
<1>1. CASE OnlyPluses(m)
  <2>1. d = [m EXCEPT !.esp.mode = "AT"]
    BY <1>1 DEF CloseWindow
  <2> HIDE DEF d
  <2>2. d \in Work
    BY <2>1 DEF Work, EspType
  <2>3. Len(<<Plus, Plus, Plus>>) = 3
    OBVIOUS
  <2>4. Len(<<Plus, Plus, Plus>>) <= Len(m.esp.line) /\ m.esp.bytes = 3
    BY <1>1 DEF OnlyPluses, IsPrefix
  <2>5. Len(m.esp.line) >= 3
    BY <2>3, <2>4 DEF Work, EspType
  <2> QED BY <2>1, <2>2, <2>4, <2>5 DEF d
<1>2. CASE ~OnlyPluses(m)
  <2> DEFINE end == (now + Delay) % Wrap
             e == [m EXCEPT !.esp.end = end]
  <2>1. end \in 0 .. Wrap - 1
    BY Sizes, DivMod
  <2>2. d = HandOver(e, m.esp.bytes, sends)
    BY <1>2 DEF CloseWindow
  <2> HIDE DEF end
  <2>3. /\ e \in Work /\ SameSockets(m, e) /\ e.esp.pin = m.esp.pin /\ e.esp.mode = m.esp.mode
        /\ e.esp.line = m.esp.line /\ e.esp.bytes = m.esp.bytes
    BY <2>1 DEF Work, EspType, SameSockets
  <2>4. m.esp.bytes \in Nat
    BY DEF Work, EspType
  <2> HIDE DEF e, d
  <2>5. Handed(e, d, m.esp.bytes)
    BY <2>2, <2>3, <2>4, HandOverIs
  <2>6. Sound(m, e) /\ NoLoss(m, e)
    BY <2>3, SoundTrans
  <2>7. Sound(m, d) /\ (NoLoss(m, d) \/ Says(d.said, Gone))
    BY <2>3, <2>5, <2>6, SoundTrans DEF Handed, NoLoss, SameSockets
  <2> QED BY <2>3, <2>5, <2>7 DEF Handed, d
<1> QED BY <1>1, <1>2

\* A byte is kept, and may leave the mode, or ends a window. The first byte after
\* stale ones, whose window ended at 0, ends it.
LEMMA TransparentInputIs ==
  ASSUME NEW m \in Work, NEW b \in Payload, NEW sends \in Sending, now \in 0 .. Wrap - 1
  PROVE  LET d == TransparentInput(m, b, sends)
         IN /\ d \in Work /\ Sound(m, d) /\ (NoLoss(m, d) \/ Says(d.said, Gone))
            /\ d.esp.pin = m.esp.pin /\ d.esp.mode \in {m.esp.mode, "AT"}
            /\ \/ /\ d.esp.line = <<>> /\ d.esp.bytes = 0
                  /\ d.gave.handed /\ Given(d, Buffer(m.esp.line, m.esp.bytes + 1))
               \/ /\ d.gave = m.gave
                  /\ d.esp.line = m.esp.line /\ d.esp.bytes = m.esp.bytes + 1
                  /\ m.esp.end = 0 /\ Len(m.esp.line) < 3 => m.esp.bytes = 0
<1> DEFINE d == TransparentInput(m, b, sends)
           plus == IF b = Plus THEN Min({m.esp.plus + 1, 4}) ELSE 0
           bytes == m.esp.bytes + 1
           mode == IF plus = 3 THEN "AT" ELSE m.esp.mode
           t == [m EXCEPT !.esp.plus = plus, !.esp.bytes = bytes, !.esp.mode = mode]
           end == Unrolled(m.esp.end)
           next == (now + Delay) % Wrap
<1>1. m.esp \in EspType /\ m.esp.bytes \in Nat /\ m.esp.end \in 0 .. Wrap - 1
  BY DEF Work, EspType
<1>2. plus \in 0 .. 4
  <2> DEFINE S == {m.esp.plus + 1, 4}
  <2>1. m.esp.plus \in 0 .. 4
    BY <1>1 DEF EspType
  <2>2. S \subseteq Nat /\ S # {}
    BY <2>1
  <2>3. Min(S) \in S /\ \A y \in S : Min(S) <= y
    BY <2>2, MinIs
  <2>4. Min(S) \in 0 .. 4
    BY <2>1, <2>3
  <2> QED BY <2>4
<1>3. bytes \in Nat /\ mode \in {m.esp.mode, "AT"} /\ mode \in {"AT", "UNVARNISHED"}
  BY <1>1 DEF EspType
<1>4. end \in 0 .. Wrap - 1 /\ next \in 0 .. Wrap - 1 /\ (m.esp.end = 0 => end = 0)
  <2>1. next \in 0 .. Wrap - 1
    BY Sizes, DivMod
  <2>2. end \in {now, m.esp.end}
    BY DEF Unrolled
  <2>3. m.esp.end = 0 => end = 0
    BY DEF Unrolled
  <2> QED BY <1>1, <2>1, <2>2, <2>3
<1>5. d = CASE bytes = 1 -> [t EXCEPT !.esp.end = next]
            [] bytes > 1 /\ now < end -> [t EXCEPT !.esp.end = end]
            [] bytes > 1 /\ now >= end -> CloseWindow([t EXCEPT !.esp.end = end], sends)
  <2>1. t = [m EXCEPT !.esp.plus = plus, !.esp.bytes = bytes,
                      !.esp.mode = IF plus = 3 THEN "AT" ELSE @]
    BY DEF Work, EspType
  <2> QED BY <2>1 DEF TransparentInput
<1> SUFFICES /\ d \in Work /\ Sound(m, d) /\ (NoLoss(m, d) \/ Says(d.said, Gone))
             /\ d.esp.pin = m.esp.pin /\ d.esp.mode \in {m.esp.mode, "AT"}
             /\ \/ /\ d.esp.line = <<>> /\ d.esp.bytes = 0
                   /\ d.gave.handed /\ Given(d, Buffer(m.esp.line, bytes))
                \/ /\ d.gave = m.gave
                   /\ d.esp.line = m.esp.line /\ d.esp.bytes = bytes
                   /\ m.esp.end = 0 /\ Len(m.esp.line) < 3 => m.esp.bytes = 0
  OBVIOUS
<1> HIDE DEF plus, mode, end, next, d
<1>6. ASSUME NEW x \in 0 .. Wrap - 1
      PROVE  LET e == [t EXCEPT !.esp.end = x]
             IN /\ e \in Work /\ SameSockets(m, e) /\ e.gave = m.gave
                /\ e.esp.pin = m.esp.pin /\ e.esp.mode = mode
                /\ e.esp.line = m.esp.line /\ e.esp.bytes = bytes
  <2> DEFINE u == [m.esp EXCEPT !.plus = plus, !.bytes = bytes, !.mode = mode, !.end = x]
             e == [t EXCEPT !.esp.end = x]
  <2>1. /\ u \in EspType /\ u.socks = m.esp.socks /\ u.pin = m.esp.pin /\ u.mode = mode
        /\ u.line = m.esp.line /\ u.bytes = bytes
    BY <1>1, <1>2, <1>3 DEF EspType
  <2>2. e = [m EXCEPT !.esp = u]
    BY <1>1 DEF Work, EspType
  <2> HIDE DEF u, e
  <2>3. e \in Work /\ e.esp = u /\ e.fds = m.fds /\ e.gave = m.gave
    BY <2>1, <2>2 DEF Work
  <2> QED BY <2>1, <2>3 DEF SameSockets, e
<1>7. \A e : SameSockets(m, e) => Sound(m, e) /\ NoLoss(m, e)
  BY SoundTrans
<1>8. CASE bytes = 1
  <2> DEFINE e == [t EXCEPT !.esp.end = next]
  <2>1. /\ e \in Work /\ SameSockets(m, e) /\ e.gave = m.gave
        /\ e.esp.pin = m.esp.pin /\ e.esp.mode = mode
        /\ e.esp.line = m.esp.line /\ e.esp.bytes = bytes
    BY <1>4, <1>6
  <2>2. d = e
    BY <1>5, <1>8
  <2> HIDE DEF e, t
  <2> QED BY <1>1, <1>3, <1>7, <1>8, <2>1, <2>2
<1>9. CASE bytes > 1
  <2> DEFINE e == [t EXCEPT !.esp.end = end]
  <2>1. /\ e \in Work /\ SameSockets(m, e) /\ e.gave = m.gave
        /\ e.esp.pin = m.esp.pin /\ e.esp.mode = mode
        /\ e.esp.line = m.esp.line /\ e.esp.bytes = bytes
    BY <1>4, <1>6
  <2>2. IF now < end THEN d = e ELSE d = CloseWindow(e, sends)
    <3>1. now >= end <=> ~(now < end)
      BY <1>4
    <3>2. ~(bytes = 1)
      BY <1>3, <1>9
    <3> HIDE DEF bytes, t
    <3>3. CASE now < end
      <4>1. ~(now >= end)
        BY <3>1, <3>3
      <4> QED BY <1>5, <1>9, <3>2, <3>3, <4>1
    <3>4. CASE ~(now < end)
      BY <1>5, <1>9, <3>1, <3>2, <3>4
    <3> QED BY <3>3, <3>4
  <2> HIDE DEF e, t
  <2>3. CASE now < end
    <3>1. m.esp.end # 0
      BY <1>4, <2>3
    <3> QED BY <1>3, <1>7, <2>1, <2>2, <2>3, <3>1
  <2>4. CASE ~(now < end)
    <3>1. \/ Handed(e, d, bytes)
          \/ d = [e EXCEPT !.esp.mode = "AT"] /\ d \in Work /\ Len(e.esp.line) >= 3
      BY <2>1, <2>2, <2>4, CloseWindowIs
    <3>2. CASE Handed(e, d, bytes)
      <4>1. Sound(m, d) /\ (NoLoss(m, d) \/ Says(d.said, Gone))
        BY <1>7, <2>1, <3>2, SoundTrans DEF Handed, NoLoss, SameSockets
      <4> QED BY <1>3, <2>1, <3>2, <4>1 DEF Handed
    <3>3. CASE d = [e EXCEPT !.esp.mode = "AT"] /\ d \in Work /\ Len(e.esp.line) >= 3
      <4>1. /\ SameSockets(m, d) /\ d.gave = e.gave /\ d.esp.pin = e.esp.pin
            /\ d.esp.mode = "AT" /\ d.esp.line = e.esp.line /\ d.esp.bytes = e.esp.bytes
        BY <2>1, <3>3 DEF Work, EspType, SameSockets
      <4>2. ~(Len(m.esp.line) < 3)
        BY <1>1, <2>1, <3>3 DEF EspType
      <4> QED BY <1>7, <2>1, <3>3, <4>1, <4>2
    <3> QED BY <3>1, <3>2, <3>3
  <2> QED BY <2>3, <2>4
<1> QED BY <1>1, <1>8, <1>9
-----------------------------------------------------------------------------
(* The steps *)

Types ==
  /\ esp \in EspType /\ esp.bytes <= MaxLine /\ Len(esp.line) <= MaxLine
  /\ fds \in [Fd -> FdState] /\ now \in 0 .. Wrap - 1
  /\ gave \in [got : Seq(Token), due : Seq(Input), short : BOOLEAN] /\ lost \in BOOLEAN
  /\ fresh \in Seq(Input)
  /\ past \in [reset : BOOLEAN, broke : BOOLEAN]

\* In transparent mode the bytes that are counted are those of the line, unless
\* they were left by an earlier visit: then the line is empty, and the window is
\* over whenever the first byte comes.
Counted ==
  esp.mode = "UNVARNISHED" =>
    \/ esp.bytes = Len(esp.line)
    \/ esp.end = 0 /\ esp.line = <<>>

\* Before the mode was left for the first time nothing is left outside of it.
Clean == TransparentIntact /\ (~past.broke /\ esp.mode = "AT" => esp.bytes = 0 /\ fresh = <<>>)

Inv == Types /\ Counted /\ Clean /\ ConnectionsOpen

\* What makes the record of a step good for its bytes,
GoodBytes(m, due) ==
  LET rest == IF m.gave.handed THEN <<>> ELSE due
  IN /\ m \in Work /\ due \in Seq(Input)
     /\ m.esp.bytes <= MaxLine /\ Len(m.esp.line) <= MaxLine
     /\ m.esp.mode = "UNVARNISHED" =>
          \/ m.esp.bytes = Len(m.esp.line)
          \/ m.esp.end = 0 /\ m.esp.line = <<>>
     /\ ~past.broke /\ ~(esp.mode # "AT" /\ m.esp.mode = "AT") =>
          /\ IF m.gave.handed THEN Given(m, due) ELSE m.gave.got = <<>>
          /\ m.esp.mode = "UNVARNISHED" => m.esp.line = rest /\ m.esp.bytes = Len(rest)
          /\ m.esp.mode = "AT" => m.esp.bytes = 0 /\ rest = <<>>

\* and for its sockets,
GoodSockets(m) == Sound(Begin, m) /\ (esp.model /\ esp.pin => m.esp.pin)

\* and when it tells of what it loses.
Reports(m) == NoLoss(Begin, m) \/ Says(m.said, Gone)

\* The losses of a step are reported.
LossTold ==
  lost' =>
    \/ Says(said', {"CLOSED", "UNLINKED"})
    \/ \E c \in Starting : WriteAt(c) /\ Says(said', {"LINKED", "ERROR"})
    \/ \E c \in Ending : WriteAt(c) /\ Says(said', {"OK"})
    \/ PinLow

\* A step begins with the state as it is, and nothing said.
LEMMA BeginIs ==
  ASSUME Types
  PROVE  /\ Begin \in Work /\ Begin.esp = esp /\ Begin.fds = fds /\ Begin.said = <<>>
         /\ Begin.gave = [handed |-> FALSE, got |-> <<>>, short |-> FALSE] /\ ~Begin.lost
<1>1. <<>> \in Seq(Text) /\ <<>> \in Seq(Token)
  OBVIOUS
<1> QED BY <1>1 DEF Begin, Types, Work

\* A step whose record is good for its bytes keeps that part of the invariant.
LEMMA BytesStep ==
  ASSUME Types, NEW m, NEW due, GoodBytes(m, due), Becomes(m, due), now' \in 0 .. Wrap - 1
  PROVE  Types' /\ Counted' /\ Clean'
<1>1. m \in Work /\ due \in Seq(Input)
  BY DEF GoodBytes
<1>2. /\ esp' = m.esp /\ fds' = m.fds
      /\ gave' = [got |-> m.gave.got, due |-> IF m.gave.handed THEN due ELSE <<>>,
                  short |-> m.gave.short]
      /\ said' = m.said /\ lost' = m.lost
      /\ fresh' = IF m.gave.handed THEN <<>> ELSE due
      /\ past' = [reset |-> past.reset \/ (esp.model /\ esp.pin /\ ~m.esp.pin),
                  broke |-> past.broke \/ (esp.mode # "AT" /\ m.esp.mode = "AT")]
  BY DEF Becomes
<1>3. /\ gave'.got = m.gave.got /\ gave'.due = (IF m.gave.handed THEN due ELSE <<>>)
      /\ past'.broke = (past.broke \/ (esp.mode # "AT" /\ m.esp.mode = "AT"))
      /\ m.gave.got \in Seq(Token) /\ gave'.short = m.gave.short
  BY <1>1, <1>2 DEF Work
<1>4. Types'
  <2>1. /\ gave' \in [got : Seq(Token), due : Seq(Input), short : BOOLEAN]
        /\ lost' \in BOOLEAN /\ fresh' \in Seq(Input)
    <3>1. <<>> \in Seq(Input)
      OBVIOUS
    <3>2. m.gave.short \in BOOLEAN /\ m.lost \in BOOLEAN
      BY <1>1 DEF Work
    <3> QED BY <1>1, <1>2, <1>3, <3>1, <3>2
  <2>2. past' \in [reset : BOOLEAN, broke : BOOLEAN]
    <3>1. /\ (past.reset \/ (esp.model /\ esp.pin /\ ~m.esp.pin)) \in BOOLEAN
          /\ (past.broke \/ (esp.mode # "AT" /\ m.esp.mode = "AT")) \in BOOLEAN
      OBVIOUS
    <3> QED BY <1>2, <3>1
  <2>3. m.esp \in EspType /\ m.fds \in [Fd -> FdState]
    BY <1>1 DEF Work
  <2>4. m.esp.bytes <= MaxLine /\ Len(m.esp.line) <= MaxLine
    BY DEF GoodBytes
  <2>5. esp'.bytes <= MaxLine /\ Len(esp'.line) <= MaxLine
    BY <1>2, <2>4
  <2> QED BY <1>2, <2>1, <2>2, <2>3, <2>5 DEF Types
<1>5. Counted'
  <2>1. m.esp.mode = "UNVARNISHED" => \/ m.esp.bytes = Len(m.esp.line)
                                      \/ m.esp.end = 0 /\ m.esp.line = <<>>
    BY DEF GoodBytes
  <2> QED BY <1>2, <2>1 DEF Counted
<1>6. Clean'
  <2>1. CASE past.broke \/ (esp.mode # "AT" /\ m.esp.mode = "AT")
    <3>1. past'.broke
      BY <1>3, <2>1
    <3> QED BY <3>1 DEF Clean, TransparentIntact
  <2>2. CASE ~past.broke /\ ~(esp.mode # "AT" /\ m.esp.mode = "AT")
    <3> DEFINE rest == IF m.gave.handed THEN <<>> ELSE due
    <3>1. /\ IF m.gave.handed THEN Given(m, due) ELSE m.gave.got = <<>>
          /\ m.esp.mode = "UNVARNISHED" => m.esp.line = rest /\ m.esp.bytes = Len(rest)
          /\ m.esp.mode = "AT" => m.esp.bytes = 0 /\ rest = <<>>
      BY <2>2 DEF GoodBytes
    <3>2. fresh' = rest
      BY <1>2
    <3> HIDE DEF rest
    <3>3. HandedIntact'
      <4>1. CASE m.gave.handed
        <5>1. /\ gave'.got = m.gave.got /\ gave'.due = due /\ gave'.short = m.gave.short
              /\ said' = m.said /\ Given(m, due)
          BY <1>2, <1>3, <3>1, <4>1
        <5> QED BY <5>1 DEF Given, HandedIntact, Says
      <4>2. CASE ~m.gave.handed
        <5>1. gave'.got = <<>> /\ gave'.due = <<>> /\ <<>> \in Seq(Input)
          BY <1>3, <3>1, <4>2
        <5> QED BY <5>1, NoBytes DEF HandedIntact
      <4> QED BY <4>1, <4>2
    <3>4. /\ esp'.mode = "UNVARNISHED" => esp'.line = fresh' /\ esp'.bytes = Len(fresh')
          /\ esp'.mode = "AT" => esp'.bytes = 0 /\ fresh' = <<>>
      BY <1>2, <3>1, <3>2
    <3> QED BY <3>3, <3>4 DEF Clean, TransparentIntact
  <2> QED BY <2>1, <2>2
<1> QED BY <1>4, <1>5, <1>6

\* One that is good for its sockets keeps the other part.
LEMMA SocketsStep ==
  ASSUME Types, ConnectionsOpen, NEW m, NEW due, GoodSockets(m), Becomes(m, due)
  PROVE  ConnectionsOpen' /\ (Reports(m) => LossTold)
<1>1. /\ esp' = m.esp /\ fds' = m.fds /\ said' = m.said /\ lost' = m.lost
      /\ past'.reset = (past.reset \/ (esp.model /\ esp.pin /\ ~m.esp.pin))
  BY DEF Becomes
<1>2. Begin.esp = esp /\ Begin.fds = fds /\ ~Begin.lost
  BY BeginIs
<1>3. Sound(Begin, m) /\ (esp.model /\ esp.pin => m.esp.pin)
  BY DEF GoodSockets
<1>4. ConnectionsOpen'
  <2> SUFFICES ASSUME past'.reset, esp'.socks[4] # None
               PROVE  Opened(m)
    BY <1>1 DEF ConnectionsOpen, Opened
  <2>1. past.reset /\ m.esp.socks[4] # None
    BY <1>1, <1>3
  <2>2. esp.socks[4] # None
    BY <1>2, <1>3, <2>1 DEF Sound
  <2>3. Opened(Begin)
    BY <1>2, <2>1, <2>2 DEF ConnectionsOpen, Opened
  <2> QED BY <1>3, <2>1, <2>3 DEF Sound
<1>5. Reports(m) => LossTold
  BY <1>1, <1>2 DEF LossTold, NoLoss, Reports, Gone
<1> QED BY <1>4, <1>5

\* A step that touches nothing but what it says.
LEMMA QuietStep ==
  ASSUME Types, Counted, Clean, NEW m, m \in Work, SameSockets(Begin, m),
         m.esp.mode = esp.mode, m.esp.line = esp.line, m.esp.bytes = esp.bytes,
         m.esp.end = esp.end, m.gave = Begin.gave
  PROVE  GoodBytes(m, fresh) /\ Sound(Begin, m) /\ NoLoss(Begin, m)
<1>1. Sound(Begin, m) /\ NoLoss(Begin, m)
  BY SoundTrans
<1>2. ~m.gave.handed /\ m.gave.got = <<>>
  BY BeginIs
<1> QED BY <1>1, <1>2 DEF GoodBytes, Types, Counted, Clean, TransparentIntact

\* A byte in command mode.
LEMMA WriteAtStep ==
  ASSUME Inv, NEW b \in Input, WriteAt(b)
  PROVE  Inv' /\ LossTold
<1>1. PICK outcome \in Outcome : Becomes(AtWritten(b, outcome), <<>>)
  BY DEF WriteAt
<1>2. esp.mode = "AT" /\ Len(esp.line) < MaxLine /\ now' = now
  <2>1. /\ esp.mode = "AT" /\ Len(esp.line) < (IF b \in Command THEN MaxLine ELSE MaxLine - 1)
        /\ now' = now
    BY DEF WriteAt
  <2>2. Len(esp.line) \in Nat
    BY DEF Inv, Types, EspType
  <2> QED BY <2>1, <2>2, Sizes
<1> DEFINE t == Taken(b)
           e == IF esp.echo THEN Say(t, <<"echo">>) ELSE t
           d == AtInput(e, b, outcome)
<1>3. /\ t \in Work /\ SameSockets(Begin, t) /\ t.esp.pin = esp.pin /\ t.esp.mode = esp.mode
      /\ t.esp.line = Append(esp.line, b) /\ t.esp.bytes = esp.bytes /\ t.gave = Begin.gave
  <2>1. Begin \in Work /\ Begin.esp = esp /\ esp.line \in Seq(Input)
    BY BeginIs DEF Inv, Types, EspType
  <2>2. Append(esp.line, b) \in Seq(Input)
    BY <2>1, AppendProperties
  <2> DEFINE l == Append(esp.line, b)
  <2> HIDE DEF l
  <2>3. t = [Begin EXCEPT !.esp.line = l]
    BY <2>1 DEF Taken, l
  <2>4. l \in Seq(Input)
    BY <2>2 DEF l
  <2>5. t \in Work /\ SameSockets(Begin, t) /\ t.esp.pin = esp.pin /\ t.esp.mode = esp.mode
        /\ t.esp.line = l /\ t.esp.bytes = esp.bytes /\ t.gave = Begin.gave
    <3> HIDE DEF t
    <3> QED BY <2>1, <2>3, <2>4 DEF Work, EspType, SameSockets
  <2> QED BY <2>5 DEF l
<1> HIDE DEF t
<1>4. e \in Work /\ SameInput(t, e) /\ SameSockets(t, e)
  <2>1. Answer(t, Say(t, <<"echo">>))
    BY <1>3, Answering DEF Text
  <2> QED BY <1>3, <2>1, SoundTrans DEF Answer
<1> HIDE DEF e
<1>5. /\ d \in Work /\ Sound(e, d) /\ Told(e, d, b)
      /\ d.esp.pin = e.esp.pin /\ d.esp.bytes = e.esp.bytes /\ d.gave = e.gave
      /\ \/ d.esp.mode = e.esp.mode /\ d.esp.line = e.esp.line
         \/ d.esp.mode = e.esp.mode /\ d.esp.line = <<>>
         \/ d.esp.mode = "UNVARNISHED" /\ d.esp.end = 0 /\ d.esp.line = <<>>
  BY <1>4, AtInputIs
<1>6. AtWritten(b, outcome) = d
  BY DEF AtWritten, e, t
<1> HIDE DEF d
<1>7. GoodSockets(d) /\ (Reports(d) \/ LossTold)
  <2>1. Sound(Begin, t) /\ Sound(t, e) /\ Sound(e, d)
    BY <1>3, <1>4, <1>5, SoundTrans
  <2>2. Sound(Begin, d)
    BY <2>1, SoundTrans
  <2>3. e.lost = Begin.lost
    BY <1>3, <1>4 DEF SameSockets
  <2>4. d.esp.pin = esp.pin
    BY <1>3, <1>4, <1>5 DEF SameInput
  <2>5. CASE NoLoss(e, d) \/ Says(d.said, Gone)
    BY <2>2, <2>3, <2>4, <2>5 DEF NoLoss, Reports, GoodSockets
  <2>6. CASE \/ b \in Starting /\ Says(d.said, {"LINKED", "ERROR"})
             \/ b \in Ending /\ Says(d.said, {"OK"})
    <3>1. said' = d.said
      BY <1>1, <1>6 DEF Becomes
    <3>2. LossTold
      BY <2>6, <3>1 DEF LossTold
    <3> QED BY <2>2, <2>4, <3>2 DEF GoodSockets
  <2> QED BY <1>5, <2>5, <2>6 DEF Told
<1>8. GoodBytes(d, <<>>)
  <2>1. /\ d.gave = Begin.gave /\ d.esp.bytes = esp.bytes
        /\ \/ d.esp.mode = "AT" /\ d.esp.line \in {Append(esp.line, b), <<>>}
           \/ d.esp.mode = "UNVARNISHED" /\ d.esp.end = 0 /\ d.esp.line = <<>>
    BY <1>2, <1>3, <1>4, <1>5 DEF SameInput
  <2>2. ~d.gave.handed /\ d.gave.got = <<>>
    BY <2>1, BeginIs DEF Inv
  <2>3. Len(d.esp.line) <= MaxLine
    <3>1. Len(Append(esp.line, b)) = Len(esp.line) + 1 /\ Len(esp.line) \in Nat
      BY AppendProperties DEF Inv, Types, EspType
    <3>2. Len(Append(esp.line, b)) <= MaxLine /\ Len(<<>>) <= MaxLine
      BY <1>2, <3>1, Sizes
    <3> QED BY <2>1, <3>2
  <2>4. esp.bytes <= MaxLine /\ (~past.broke => esp.bytes = 0) /\ Len(<<>>) = 0
    BY <1>2 DEF Inv, Types, Clean
  <2>5. <<>> \in Seq(Input)
    OBVIOUS
  <2> QED BY <1>5, <2>1, <2>2, <2>3, <2>4, <2>5 DEF GoodBytes
<1>9. now' \in 0 .. Wrap - 1
  BY <1>2 DEF Inv, Types
<1> QED BY <1>1, <1>6, <1>7, <1>8, <1>9, BytesStep, SocketsStep DEF Inv

\* A byte in transparent mode.
LEMMA WriteTransparentStep ==
  ASSUME Inv, NEW b \in Payload, WriteTransparent(b)
  PROVE  Inv' /\ LossTold
<1> DEFINE due == IF past.broke THEN <<>> ELSE Append(fresh, b)
<1>1. PICK sends \in Sending : Becomes(TransparentWritten(b, sends), due)
  BY DEF WriteTransparent
<1>2. esp.mode = "UNVARNISHED" /\ Len(esp.line) < MaxLine /\ now' = now
  BY DEF WriteTransparent
<1>3. /\ esp \in EspType /\ esp.line \in Seq(Input) /\ fresh \in Seq(Input) /\ b \in Input
      /\ esp.bytes \in Nat /\ now \in 0 .. Wrap - 1
  BY DEF Inv, Types, EspType, Input
<1> DEFINE t == Taken(b)
           d == TransparentInput(t, b, sends)
           line == Append(esp.line, b)
<1>4. line \in Seq(Input) /\ Len(line) = Len(esp.line) + 1 /\ Len(esp.line) \in Nat
  BY <1>3, AppendProperties
<1> HIDE DEF line
<1>5. /\ t \in Work /\ SameSockets(Begin, t) /\ t.esp.pin = esp.pin /\ t.esp.mode = esp.mode
      /\ t.esp.line = line /\ t.esp.bytes = esp.bytes /\ t.gave = Begin.gave
      /\ t.esp.end = esp.end
  <2>1. Begin \in Work /\ Begin.esp = esp
    BY BeginIs DEF Inv
  <2>2. t = [Begin EXCEPT !.esp.line = line]
    BY <2>1 DEF Taken, line
  <2> HIDE DEF t
  <2> QED BY <1>4, <2>1, <2>2 DEF Work, EspType, SameSockets
<1> HIDE DEF t
<1>6. /\ d \in Work /\ Sound(t, d) /\ (NoLoss(t, d) \/ Says(d.said, Gone))
      /\ d.esp.pin = t.esp.pin /\ d.esp.mode \in {t.esp.mode, "AT"}
      /\ \/ /\ d.esp.line = <<>> /\ d.esp.bytes = 0
            /\ d.gave.handed /\ Given(d, Buffer(t.esp.line, t.esp.bytes + 1))
         \/ /\ d.gave = t.gave
            /\ d.esp.line = t.esp.line /\ d.esp.bytes = t.esp.bytes + 1
            /\ t.esp.end = 0 /\ Len(t.esp.line) < 3 => t.esp.bytes = 0
  BY <1>3, <1>5, TransparentInputIs
<1>7. TransparentWritten(b, sends) = d
  BY DEF TransparentWritten, t
<1> HIDE DEF d
<1>8. GoodSockets(d) /\ Reports(d)
  <2>1. Sound(Begin, d)
    BY <1>5, <1>6, SoundTrans
  <2>2. Reports(d)
    BY <1>5, <1>6 DEF NoLoss, SameSockets, Reports
  <2>3. d.esp.pin = esp.pin
    BY <1>5, <1>6
  <2> QED BY <2>1, <2>2, <2>3 DEF GoodSockets
<1>9. esp.bytes = Len(esp.line) \/ (esp.end = 0 /\ esp.line = <<>>)
  BY <1>2 DEF Inv, Counted
<1>10. ~past.broke => due = line /\ esp.bytes + 1 = Len(line)
  <2>1. ~past.broke => esp.line = fresh /\ esp.bytes = Len(fresh)
    BY <1>2 DEF Inv, Clean, TransparentIntact
  <2> QED BY <1>4, <2>1 DEF line
<1>11. due \in Seq(Input) /\ <<>> \in Seq(Input) /\ Len(<<>>) = 0
  <2>1. Append(fresh, b) \in Seq(Input)
    BY <1>3, AppendProperties
  <2>2. due \in {<<>>, Append(fresh, b)}
    OBVIOUS
  <2>3. <<>> \in Seq(Input) /\ Len(<<>>) = 0
    OBVIOUS
  <2> QED BY <2>1, <2>2, <2>3
<1> HIDE DEF due
<1>12. GoodBytes(d, due)
  <2>1. CASE /\ d.esp.line = <<>> /\ d.esp.bytes = 0
             /\ d.gave.handed /\ Given(d, Buffer(t.esp.line, t.esp.bytes + 1))
    <3>1. d.gave.handed /\ Given(d, Buffer(line, esp.bytes + 1))
      BY <1>5, <2>1
    <3>2. ~past.broke => Given(d, due)
      <4>1. esp.bytes + 1 \in Nat
        BY <1>3
      <4>2. esp.bytes + 1 = Len(line) => Buffer(line, esp.bytes + 1) = line
        BY <1>4, <4>1, BufferIs
      <4> QED BY <1>10, <3>1, <4>2
    <3>3. 0 <= MaxLine
      BY Sizes
    <3> QED BY <1>2, <1>6, <1>11, <2>1, <3>1, <3>2, <3>3 DEF GoodBytes
  <2>2. CASE /\ d.gave = t.gave
             /\ d.esp.line = t.esp.line /\ d.esp.bytes = t.esp.bytes + 1
             /\ t.esp.end = 0 /\ Len(t.esp.line) < 3 => t.esp.bytes = 0
    <3>1. ~d.gave.handed /\ d.gave.got = <<>>
      BY <1>5, <2>2, BeginIs DEF Inv
    <3>2. esp.bytes = Len(esp.line)
      <4>1. CASE esp.end = 0 /\ esp.line = <<>>
        <5>1. Len(esp.line) = 0
          BY <4>1
        <5>2. Len(line) < 3
          BY <1>4, <5>1
        <5> QED BY <1>5, <2>2, <4>1, <5>1, <5>2
      <4> QED BY <1>9, <4>1
    <3>3. d.esp.line = line /\ d.esp.bytes = Len(line) /\ Len(line) <= MaxLine
      BY <1>2, <1>4, <1>5, <2>2, <3>2, Sizes
    <3> QED BY <1>2, <1>6, <1>10, <1>11, <3>1, <3>3 DEF GoodBytes
  <2> QED BY <1>6, <2>1, <2>2
<1>13. now' \in 0 .. Wrap - 1
  BY <1>2, <1>3
<1> QED BY <1>1, <1>7, <1>8, <1>12, <1>13, BytesStep, SocketsStep DEF Inv

\* Asking the network closes at most one connection, and says so.
LEMMA ProcessIpdKeeps ==
  ASSUME NEW m \in Work, NEW recv \in Receipt
  PROVE  Keeps(m, ProcessIpd(m, recv), Gone)
<1> DEFINE transparent == m.esp.mode = "UNVARNISHED"
           looked == {i \in Connection : Linked(m, i) /\ (transparent => i = 0)}
           Result(i) == IF Connected(m, i) THEN recv ELSE "error"
           failed == {i \in looked : Result(i) = "error"}
           d == ProcessIpd(m, recv)
<1>1. \/ failed # {} /\ d = Say(CloseSocket(m, Min(failed)), <<"CLOSED">>)
      \/ d = Say(m, <<"data">>)
      \/ d = m
  BY DEF ProcessIpd
<1>2. failed \subseteq Connection /\ Connection \subseteq Nat /\ Connection \subseteq Entry
  BY DEF Connection, Entry
<1> SUFFICES Keeps(m, d, Gone)
  OBVIOUS
<1> HIDE DEF failed, d
<1>3. CASE failed # {} /\ d = Say(CloseSocket(m, Min(failed)), <<"CLOSED">>)
  <2>1. Min(failed) \in failed
    BY <1>2, <1>3, MinIs
  <2>2. Min(failed) \in Entry
    BY <1>2, <2>1
  <2> QED BY <1>3, <2>2, ClosedKeeps
<1>4. CASE d = Say(m, <<"data">>) \/ d = m
  <2>1. "data" \in Text
    BY DEF Text
  <2> QED BY <1>4, <2>1, AnswersKeep
<1> QED BY <1>1, <1>3, <1>4

\* The program looks for a byte: the window may end, then the network is asked.
LEMMA PollStep ==
  ASSUME Inv, Poll
  PROVE  Inv' /\ LossTold
<1>1. PICK empty \in BOOLEAN, sends \in Sending, recv \in Receipt :
        Becomes(Polled(empty, sends, recv), fresh)
  BY DEF Poll
<1>2. now' = now /\ now \in 0 .. Wrap - 1
  BY DEF Poll, Inv, Types
<1>3. /\ Begin \in Work /\ Begin.esp = esp /\ Begin.fds = fds
      /\ Begin.gave = [handed |-> FALSE, got |-> <<>>, short |-> FALSE] /\ Types
  BY BeginIs DEF Inv
<1> DEFINE u == UpdateTimers(Begin, sends)
           p == ProcessIpd(u, recv)
           d == Polled(empty, sends, recv)
<1>4. d = u \/ (u.said = <<>> /\ d = p)
  BY DEF Polled
<1>5. \/ u = Begin
      \/ esp.mode = "UNVARNISHED" /\ u = CloseWindow(Begin, sends)
  BY <1>3 DEF UpdateTimers
<1> HIDE DEF u
<1>6. GoodBytes(u, fresh) /\ GoodSockets(u) /\ Reports(u)
  <2>1. CASE u = Begin
    <3>1. GoodBytes(u, fresh) /\ Sound(Begin, u) /\ NoLoss(Begin, u)
      BY <1>3, <2>1, QuietStep, SoundTrans DEF Inv
    <3>2. u.esp.pin = esp.pin
      BY <1>3, <2>1
    <3> QED BY <3>1, <3>2 DEF GoodSockets, Reports
  <2>2. CASE esp.mode = "UNVARNISHED" /\ u = CloseWindow(Begin, sends)
    <3>1. esp \in EspType /\ esp.line \in Seq(Input) /\ esp.bytes \in Nat /\ fresh \in Seq(Input)
      BY <1>3 DEF Types, EspType
    <3>2. \/ Handed(Begin, u, esp.bytes)
          \/ u = [Begin EXCEPT !.esp.mode = "AT"] /\ u \in Work
      BY <1>2, <1>3, <2>2, CloseWindowIs
    <3>3. CASE Handed(Begin, u, esp.bytes)
      <4>1. /\ u \in Work /\ u.esp.line = <<>> /\ u.esp.bytes = 0 /\ u.esp.mode = "UNVARNISHED"
            /\ u.gave.handed /\ Given(u, Buffer(esp.line, esp.bytes))
        BY <1>3, <2>2, <3>3 DEF Handed
      <4>2. esp.bytes = Len(esp.line) => Buffer(esp.line, esp.bytes) = esp.line
        BY <3>1, BufferIs
      <4>3. ~past.broke => Given(u, fresh)
        BY <2>2, <4>1, <4>2 DEF Inv, Clean, TransparentIntact
      <4>4. Len(<<>>) = 0 /\ 0 <= MaxLine
        BY Sizes
      <4>5. GoodBytes(u, fresh)
        BY <3>1, <4>1, <4>3, <4>4 DEF GoodBytes
      <4>6. u.esp.pin = esp.pin
        BY <1>3, <3>3 DEF Handed
      <4> QED BY <3>3, <4>5, <4>6 DEF Handed, GoodSockets, Reports
    <3>4. CASE u = [Begin EXCEPT !.esp.mode = "AT"] /\ u \in Work
      <4>1. /\ SameSockets(Begin, u) /\ u.esp.mode = "AT" /\ u.esp.pin = esp.pin
            /\ u.esp.line = esp.line /\ u.esp.bytes = esp.bytes
        BY <1>3, <3>4 DEF Work, EspType, SameSockets
      <4>2. Sound(Begin, u) /\ NoLoss(Begin, u)
        BY <4>1, SoundTrans
      <4>3. GoodBytes(u, fresh)
        BY <1>3, <2>2, <3>1, <3>4, <4>1 DEF GoodBytes, Types
      <4> QED BY <4>1, <4>2, <4>3 DEF GoodSockets, Reports
    <3> QED BY <3>2, <3>3, <3>4
  <2> QED BY <1>5, <2>1, <2>2
<1>7. ASSUME u.said = <<>>, d = p
      PROVE  GoodBytes(d, fresh) /\ GoodSockets(d) /\ Reports(d)
  <2>1. u \in Work
    BY <1>6 DEF GoodBytes
  <2>2. Keeps(u, d, Gone)
    BY <1>7, <2>1, ProcessIpdKeeps
  <2> HIDE DEF d
  <2>3. d \in Work /\ SameInput(u, d) /\ Sound(u, d) /\ (NoLoss(u, d) \/ Says(d.said, Gone))
    BY <2>2 DEF Keeps
  <2>4. ~Says(u.said, Gone) /\ ~Says(u.said, {"UNLINKED"})
    BY <1>7 DEF Says
  <2>5. Sound(Begin, u) /\ NoLoss(Begin, u) /\ (esp.model /\ esp.pin => u.esp.pin)
    BY <1>6, <2>4 DEF GoodSockets, Reports
  <2>6. GoodSockets(d) /\ Reports(d)
    BY <2>3, <2>5, SoundTrans DEF GoodSockets, Reports, NoLoss, SameInput
  <2>7. GoodBytes(d, fresh)
    <3>1. /\ d.esp.bytes = u.esp.bytes /\ d.esp.line = u.esp.line /\ d.esp.mode = u.esp.mode
          /\ d.esp.end = u.esp.end /\ d.gave = u.gave
      BY <2>3 DEF SameInput
    <3>2. Given(u, fresh) => Given(d, fresh)
      BY <2>4, <3>1 DEF Given
    <3> QED BY <1>6, <2>3, <3>1, <3>2 DEF GoodBytes
  <2> QED BY <2>6, <2>7
<1>8. GoodBytes(d, fresh) /\ GoodSockets(d) /\ Reports(d)
  BY <1>4, <1>6, <1>7
<1> HIDE DEF d
<1>9. now' \in 0 .. Wrap - 1
  BY <1>2
<1>10. Becomes(d, fresh)
  BY <1>1 DEF d
<1> QED BY <1>8, <1>9, <1>10, BytesStep, SocketsStep DEF Inv

\* The reset pin, down: no connection is left that could be wrong, or none was
\* touched.
LEMMA PinLowStep ==
  ASSUME Inv, PinLow
  PROVE  Inv' /\ LossTold
<1> DEFINE p == [Begin EXCEPT !.esp.pin = FALSE, !.esp.echo = TRUE]
           d == ResetNetwork(p)
<1>1. /\ Begin \in Work /\ Begin.esp = esp /\ Begin.fds = fds /\ Begin.said = <<>>
      /\ Begin.gave = [handed |-> FALSE, got |-> <<>>, short |-> FALSE] /\ Types /\ esp \in EspType
  BY BeginIs DEF Inv, Types
<1>2. Becomes(d, fresh) /\ now' = now
  BY DEF PinLow
<1>3. /\ p \in Work /\ SameSockets(Begin, p) /\ ~p.esp.pin /\ p.esp.model = esp.model
      /\ p.esp.mode = esp.mode /\ p.esp.line = esp.line /\ p.esp.bytes = esp.bytes
      /\ p.esp.end = esp.end /\ p.gave = Begin.gave
  BY <1>1 DEF Work, EspType, SameSockets
<1> HIDE DEF p
<1>4. CASE ~esp.model
  <2>1. d = p
    BY <1>3, <1>4 DEF ResetNetwork
  <2>2. GoodBytes(d, fresh) /\ Sound(Begin, d)
    BY <1>1, <1>3, <2>1, QuietStep DEF Inv
  <2>3. GoodSockets(d)
    BY <1>4, <2>2 DEF GoodSockets
  <2>4. now' \in 0 .. Wrap - 1
    BY <1>1, <1>2 DEF Types
  <2> HIDE DEF d
  <2>5. LossTold
    BY DEF LossTold
  <2> QED BY <1>2, <2>2, <2>3, <2>4, <2>5, BytesStep, SocketsStep DEF Inv
<1>5. CASE esp.model
  <2> DEFINE socks == [i \in Entry |-> IF i \in Connection THEN None ELSE p.esp.socks[i]]
             lose == p.lost \/ \E i \in Connection : Connected(p, i)
  <2>1. d = [p EXCEPT !.esp.socks = socks, !.lost = lose]
    BY <1>3, <1>5 DEF ResetNetwork, Work, EspType
  <2>2. /\ socks \in Socks /\ \A i \in Connection : socks[i] = None
        /\ lose \in BOOLEAN
    BY <1>3 DEF Work, EspType, Socks, Connection, Entry
  <2> HIDE DEF socks, lose, d
  <2>3. /\ d \in Work /\ d.esp.socks = socks /\ ~d.esp.pin
        /\ d.esp.mode = esp.mode /\ d.esp.line = esp.line /\ d.esp.bytes = esp.bytes
        /\ d.esp.end = esp.end /\ d.gave = Begin.gave
    BY <1>3, <2>1, <2>2 DEF Work, EspType
  <2>4. GoodBytes(d, fresh)
    <3>1. ~d.gave.handed /\ d.gave.got = <<>>
      BY <1>1, <2>3
    <3> QED BY <1>1, <2>3, <3>1 DEF GoodBytes, Inv, Types, Counted, Clean, TransparentIntact
  <2>5. ConnectionsOpen'
    <3>1. esp' = d.esp
      BY <1>2 DEF Becomes
    <3> QED BY <2>2, <2>3, <3>1 DEF ConnectionsOpen
  <2>6. now' \in 0 .. Wrap - 1
    BY <1>1, <1>2 DEF Types
  <2>7. LossTold
    BY DEF LossTold
  <2> QED BY <1>1, <1>2, <2>4, <2>5, <2>6, <2>7, BytesStep DEF Inv
<1> QED BY <1>4, <1>5

\* And up, or time passes.
LEMMA OtherSteps ==
  ASSUME Inv, PinHigh \/ Pass
  PROVE  Inv' /\ LossTold
<1>1. /\ Begin \in Work /\ Begin.esp = esp /\ Begin.fds = fds
      /\ Begin.gave = [handed |-> FALSE, got |-> <<>>, short |-> FALSE] /\ Types /\ esp \in EspType
  BY BeginIs DEF Inv, Types
<1>2. ASSUME NEW d \in Work, SameSockets(Begin, d), esp.pin => d.esp.pin, d.gave = Begin.gave,
             d.esp.mode = esp.mode, d.esp.line = esp.line, d.esp.bytes = esp.bytes,
             d.esp.end = esp.end, Becomes(d, fresh), now' \in 0 .. Wrap - 1
      PROVE  Inv' /\ LossTold
  <2>1. GoodBytes(d, fresh) /\ Sound(Begin, d) /\ NoLoss(Begin, d)
    BY <1>1, <1>2, QuietStep DEF Inv
  <2>2. GoodSockets(d) /\ Reports(d)
    BY <1>2, <2>1 DEF GoodSockets, Reports
  <2> QED BY <1>2, <2>1, <2>2, BytesStep, SocketsStep DEF Inv
<1>3. CASE PinHigh
  <2>0. PICK model \in BOOLEAN :
          /\ Becomes(Say([Begin EXCEPT !.esp.pin = TRUE, !.esp.model = model,
                                       !.esp.echo = TRUE], <<"ready">>), fresh)
          /\ now' = now
    BY <1>3 DEF PinHigh
  <2> DEFINE e == [Begin EXCEPT !.esp.pin = TRUE, !.esp.model = model, !.esp.echo = TRUE]
             d == Say(e, <<"ready">>)
  <2>1. Becomes(d, fresh) /\ now' = now
    BY <2>0
  <2>2. /\ e \in Work /\ SameSockets(Begin, e) /\ e.esp.pin /\ e.gave = Begin.gave
        /\ e.esp.mode = esp.mode /\ e.esp.line = esp.line /\ e.esp.bytes = esp.bytes
        /\ e.esp.end = esp.end
    BY <1>1 DEF Work, EspType, SameSockets
  <2> HIDE DEF e
  <2>3. Answer(e, d)
    BY <2>2, Answering DEF Text
  <2> HIDE DEF d
  <2>4. /\ d \in Work /\ SameSockets(Begin, d) /\ d.esp.pin /\ d.gave = Begin.gave
        /\ d.esp.mode = esp.mode /\ d.esp.line = esp.line /\ d.esp.bytes = esp.bytes
        /\ d.esp.end = esp.end
    BY <2>2, <2>3 DEF Answer, SameInput, SameSockets
  <2>5. now' \in 0 .. Wrap - 1
    BY <1>1, <2>1 DEF Types
  <2> QED BY <1>2, <2>1, <2>4, <2>5
<1>4. CASE Pass
  <2>1. Becomes(Begin, fresh) /\ now' = (now + 1) % Wrap
    BY <1>4 DEF Pass
  <2>2. now' \in 0 .. Wrap - 1
    <3>1. now + 1 \in Int
      BY <1>1 DEF Types
    <3> QED BY <2>1, <3>1, Sizes, DivMod
  <2>3. SameSockets(Begin, Begin) /\ (esp.pin => Begin.esp.pin)
    BY <1>1, SoundTrans
  <2> QED BY <1>1, <1>2, <2>1, <2>2, <2>3
<1> QED BY <1>3, <1>4

\* The start.
LEMMA InitInv == Init => Inv
<1> SUFFICES ASSUME Init PROVE Inv
  OBVIOUS
<1>1. <<>> \in Seq(Input) /\ <<>> \in Seq(Token) /\ Len(<<>>) = 0
  OBVIOUS
<1>2. 0 \in Fd
  BY EspAtAssumption
<1>3. [i \in Entry |-> 0] \in Socks
  BY <1>2 DEF Socks
<1>4. esp \in EspType /\ esp.bytes = 0 /\ esp.line = <<>> /\ esp.mode = "AT"
  BY <1>1, <1>3, Sizes DEF Init, EspType
<1>5. fds \in [Fd -> FdState] /\ now = 0 /\ fresh = <<>>
  BY DEF Init, FdState
<1>6. /\ gave \in [got : Seq(Token), due : Seq(Input), short : BOOLEAN] /\ lost \in BOOLEAN
      /\ HandedIntact
  BY <1>1, NoBytes DEF Init, HandedIntact
<1>7. past \in [reset : BOOLEAN, broke : BOOLEAN] /\ ~past.reset
  BY DEF Init
<1>8. Types
  BY <1>1, <1>4, <1>5, <1>6, <1>7, Sizes DEF Types
<1> QED BY <1>4, <1>5, <1>6, <1>7, <1>8
      DEF Inv, Counted, Clean, TransparentIntact, ConnectionsOpen

\* Every step keeps the invariant and reports what it loses.
LEMMA NextInv == Inv /\ [Next]_vars => Inv' /\ (LossTold \/ UNCHANGED vars)
<1> SUFFICES ASSUME Inv, [Next]_vars
             PROVE  Inv' /\ (LossTold \/ UNCHANGED vars)
  OBVIOUS
<1>1. CASE Next
  <2>1. ASSUME NEW b \in Input, WriteAt(b) PROVE Inv' /\ LossTold
    BY <2>1, WriteAtStep
  <2>2. ASSUME NEW b \in Payload, WriteTransparent(b) PROVE Inv' /\ LossTold
    BY <2>2, WriteTransparentStep
  <2> QED BY <1>1, <2>1, <2>2, PollStep, PinLowStep, OtherSteps DEF Next
<1>2. CASE UNCHANGED vars
  BY <1>2 DEF vars, Inv, Types, Counted, Clean, TransparentIntact, HandedIntact, Says,
              ConnectionsOpen
<1> QED BY <1>1, <1>2

\* The inductive invariant: types, what the counted bytes are, the bytes before
\* the mode was first left, and the connections' sockets.
LEMMA Invariance == Spec => []Inv
<1> QED BY InitInv, NextInv, PTL DEF Spec

\* The state of the module keeps its types.
THEOREM TypeCorrect == Spec => []TypeOK
<1>1. Inv => TypeOK
  <2> SUFFICES ASSUME Inv PROVE TypeOK
    OBVIOUS
  <2> QED BY Sizes DEF Inv, Types, EspType, TypeOK, Socks
<1> QED BY <1>1, Invariance, PTL

\* Whatever the program, the host and the reset pin do, after a reset the
\* connections have open sockets of their own until entry 4 is closed.
THEOREM SocketsOpen == Spec => []ConnectionsOpen
<1>1. Inv => ConnectionsOpen
  BY DEF Inv
<1> QED BY <1>1, Invariance, PTL

\* Every byte of the transparent mode reaches the host, once and in order, or is
\* in a window the host refuses, until the mode is left for the first time.
THEOREM BytesIntact == Spec => []TransparentIntact
<1>1. Inv => TransparentIntact
  BY DEF Inv, Clean
<1> QED BY <1>1, Invariance, PTL

\* Every connection that is closed or forgotten is told of, but by a reset, and
\* by the two commands and the new connection that end it by the program's will.
THEOREM LossesReported == Spec => LossReported
<1>1. Inv /\ [Next]_vars =>
        [ lost' =>
            \/ Says(said', {"CLOSED", "UNLINKED"})
            \/ \E c \in Starting : WriteAt(c) /\ Says(said', {"LINKED", "ERROR"})
            \/ \E c \in Ending : WriteAt(c) /\ Says(said', {"OK"})
            \/ PinLow ]_vars
  BY NextInv DEF LossTold
<1> QED BY <1>1, Invariance, PTL DEF Spec, LossReported
=============================================================================
